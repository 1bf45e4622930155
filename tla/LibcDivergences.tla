--------------------------- MODULE LibcDivergences ---------------------------
(*
The functions of the C library whose contract parts from what they do, or that
a program does not call, and the outcomes of calls that a contract does not
follow: each set is listed in README.md with its reason.
*)
EXTENDS LibcContracts

(* Helpers of the stubs, which programs do not call. *)
Internal ==
    {"_mopsa_new_valid_string", "_mopsa_new_valid_string_array",
     "_mopsa_new_readonly_string", "_mopsa_new_valid_string_max",
     "_mopsa_new_readonly_string_max", "_mopsa_assert_valid_ptr",
     "_mopsa_assert_valid_bytes", "_mopsa_assert_valid_string",
     "_mopsa_assert_valid_substring", "_mopsa_memrand", "_mopsa_strrand", "_mopsa_strnrand",
     "_mopsa_assert_valid_stream", "_mopsa_assert_valid_file_descriptor", "_mopsa_memset",
     "_mopsa_memcpy", "_mopsa_assert_valid_wide_string", "_mopsa_wcsnrand",
     "_mopsa_valid_double", "_mopsa_valid_float", "_mopsa_error", "_mopsa_error_at_line",
     "_mopsa_len_option", "_mopsa_pick", "_mopsa_group", "_mopsa_mntent", "_mopsa_hostent",
     "_mopsa_netent", "_mopsa_servent", "_mopsa_protoent", "_mopsa_new_addrinfo",
     "_mopsa_alloc_pw", "_alloc_std_stream", "_alloc_FILE", "_alloc_FILE_at",
     "_mopsa_asprintf", "_mopsa_general_vasprintf", "_mopsa_constant_vasprintf",
     "_mopsa_tzset"}

(* The locale a function takes is not required to be alive. *)
UnaskedLocale ==
    {"isalnum_l", "isalpha_l", "iscntrl_l", "isdigit_l", "islower_l", "isgraph_l",
     "isprint_l", "ispunct_l", "isspace_l", "isupper_l", "isxdigit_l", "isblank_l",
     "__tolower_l", "tolower_l", "__toupper_l", "toupper_l", "nl_langinfo_l", "strtod_l",
     "strtol_l", "strtoul_l", "strtoll_l", "strtoull_l", "strtof_l", "strtold_l",
     "strcoll_l", "strxfrm_l", "strerror_l", "strcasecmp_l", "strncasecmp_l", "strftime_l",
     "strptime_l", "wcscasecmp_l", "wcsncasecmp_l", "wcscoll_l", "wcsxfrm_l", "wcstol_l",
     "wcstoul_l", "wcstoll_l", "wcstoull_l", "wcstod_l", "wcstof_l", "wcstold_l",
     "wcsftime_l", "iswalnum_l", "iswalpha_l", "iswcntrl_l", "iswdigit_l", "iswgraph_l",
     "iswlower_l", "iswprint_l", "iswpunct_l", "iswspace_l", "iswupper_l", "iswxdigit_l",
     "iswblank_l", "wctype_l", "iswctype_l", "towlower_l", "towupper_l", "wctrans_l",
     "towctrans_l"}

(* A result is assigned through a pointer whose extent is not required. *)
UnaskedExtent ==
    {"gets", "fgetpos", "random_r", "srandom_r", "initstate_r", "rand_r", "erand48",
     "nrand48", "jrand48", "drand48_r", "erand48_r", "lrand48_r", "nrand48_r", "mrand48_r",
     "jrand48_r", "srand48_r", "seed48_r", "lcong48_r", "posix_memalign", "ecvt", "fcvt",
     "qecvt", "qfcvt", "ecvt_r", "fcvt_r", "qecvt_r", "qfcvt_r", "mbtowc", "tcgetattr",
     "cfmakeraw", "strptime", "getgroups", "getresuid", "getresgid", "mbsrtowcs",
     "wcsrtombs", "socketpair", "uname"}

(* A pointer is not required to be valid. *)
UnaskedPointer ==
    {"getopt_long", "getopt_long_only", "getgrouplist", "getaddrinfo", "sigreturn",
     "tempnam", "open_memstream", "qgcvt", "strftime", "revoke", "profil", "open_wmemstream"}

(* What the function writes is not assigned by its contract. *)
Unassigned ==
    {"getdirentries", "vsprintf", "qsort", "qsort_r", "timegm", "timelocal", "wcstod",
     "wcstof", "accept", "regfree"}

(*
The library keeps the pointer, and reads or writes what it refers to in later
calls (stdio.c:361, 369, 389: "__buf becomes volatile").
*)
Retained ==
    {"setbuf", "setvbuf", "setbuffer", "initstate", "setstate", "setstate_r", "putenv",
     "openlog", "sigaltstack", "sigstack", "re_set_registers"}

(* A call that fails may leave a part of its result, which only success assigns. *)
AssignedOnSuccess ==
    {"realpath", "getcwd", "getwd", "wcsftime", "gethostname", "getdomainname"}

(* Parts of a static result are resources a program could free. *)
OwnedStrings ==
    {"getgrent", "fgetgrent", "getgrgid", "getgrnam", "getmntent", "gethostent",
     "gethostbyaddr", "gethostbyname", "gethostbyname2", "getnetent", "getnetbyaddr",
     "getnetbyname", "getservent", "getservbyname", "getservbyport", "getprotoent",
     "getprotobyname", "getprotobynumber", "getnetgrent"}

(* Descriptors and streams whose contract does not follow what the function does. *)
Untracked ==
    {"dup", "dup2", "dup3", "fdopen", "fdopendir", "closedir", "dirfd", "pclose", "popen",
     "freopen", "login_tty", "fcloseall", "fmemopen", "freeaddrinfo", "fflush",
     "fflush_unlocked"}

AvoidedFunctions ==
    Internal \cup UnaskedLocale \cup UnaskedExtent \cup UnaskedPointer \cup Unassigned
    \cup Retained \cup AssignedOnSuccess \cup OwnedStrings \cup Untracked

-----------------------------------------------------------------------------
(*
What a call may come to without its contract having a case for it, by function:
a stream or descriptor is closed although an error is returned, getdelim has
made its buffer before it meets the end of the file, and nothing is made by a
call that fails.
*)
UnfollowedOutcomes ==
    { <<"fclose", Failed(CloseStream)>>, <<"close", Failed(CloseDescriptor)>>,
      <<"getdelim", Failed(Resize(2, "Memory"))>>, <<"getline", Failed(Resize(2, "Memory"))>>,
      <<"duplocale", Fail>>, <<"newlocale", Fail>>, <<"__sched_cpualloc", Fail>> }

=============================================================================
