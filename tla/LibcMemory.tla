---------------------------- MODULE LibcMemory ----------------------------
(*
The contracts of the C library's strings, memory, numbers, characters and
locales: what each function asks of the pointers and handles it is given,
and the objects it makes and frees (see LibcContracts for the vocabulary).
*)
EXTENDS LibcContracts

(* mopsa/mopsa.c *)
MopsaStrings == {
    Fn({"_mopsa_new_valid_string", "_mopsa_new_valid_string_max"}, <<>>, Only(Make(<<"Memory">>))),
    Fn({"_mopsa_new_valid_string_array"}, <<>>, Only(Strings(4))),
    Fn({"_mopsa_new_readonly_string", "_mopsa_new_readonly_string_max"}, <<>>, Keeps),
    Fn({"_mopsa_assert_valid_ptr", "_mopsa_assert_valid_bytes", "_mopsa_assert_valid_string",
       "_mopsa_assert_valid_substring", "_mopsa_assert_valid_wide_string"}, <<Kept>>, Keeps),
    Fn({"_mopsa_memrand", "_mopsa_strrand", "_mopsa_strnrand", "_mopsa_memset", "_mopsa_wcsnrand"},
       <<Out>>, Keeps),
    Fn({"_mopsa_assert_valid_stream"}, <<Live("File")>>, Keeps),
    Fn({"_mopsa_assert_valid_file_descriptor"}, <<Live("FileRes")>>, Keeps),
    Fn({"_mopsa_memcpy"}, <<Out, Kept>>, Keeps) }

MopsaFloats == {
    Fn({"_mopsa_valid_double", "_mopsa_valid_float"}, <<>>, Keeps) }

(* libc/string.c *)
MemoryBlocks == {
    Fn({"memcpy", "__builtin_memcpy", "memmove", "memccpy"}, <<Out, In>>, Keeps),
    Fn({"memset"}, <<Out>>, Keeps),
    Fn({"memcmp"}, <<In, In>>, Keeps),
    Fn({"memchr", "rawmemchr", "__rawmemchr", "memrchr"}, <<In>>, Keeps) }

StringComparison == {
    Fn({"strlen", "__builtin_strlen", "strnlen"}, <<In>>, Keeps),
    Fn({"strcpy", "strncpy", "strcat", "strncat", "strxfrm"}, <<Out, In>>, Keeps),
    Fn({"strcmp", "__builtin_strcmp", "strncmp", "__builtin_strncmp", "strcoll"}, <<In, In>>, Keeps),
    Fn({"strcoll_l"}, <<In, In, Blank("Locale")>>, Keeps),
    Fn({"strxfrm_l"}, <<Out, In, Blank("Locale")>>, Keeps) }

StringSearch == {
    Fn({"strdup", "__strdup", "strndup"}, <<In>>, Try(Make(<<"Memory">>))),
    Fn({"strchr", "__builtin_strchr", "strrchr", "strchrnul"}, <<In>>, Keeps),
    Fn({"strcspn", "strspn", "strpbrk", "strstr"}, <<In, In>>, Keeps),
    Fn({"strtok"}, <<OrNull(Out), In>>, Keeps) }

StringTokens == {
    Fn({"__strtok_r", "strtok_r"}, <<OrNull(Out), In, OrNull(Out)>>, Keeps),
    Fn({"strcasestr", "memmem"}, <<In, In>>, Keeps),
    Fn({"mempcpy"}, <<Out, In>>, Keeps),
    Fn({"strerror"}, <<>>, Keeps),
    Fn({"strerorr_r", "strerror_r", "explicit_bzero"}, <<Out>>, Keeps),
    Fn({"strerror_l"}, <<Blank("Locale")>>, Keeps) }

StringMisc == {
    Fn({"strsep"}, <<OrNull(Out), In>>, Keeps),
    Fn({"strsignal"}, <<>>, Keeps),
    Fn({"stpcpy", "stpncpy", "__builtin_memmove"}, <<Out, In>>, Keeps),
    Fn({"strverscmp"}, <<In, In>>, Keeps),
    Fn({"strfry", "memfrob", "__builtin_memset"}, <<Out>>, Keeps) }

(* libc/strings.c *)
BsdStringNames == {
    Fn({"bcmp", "strcasecmp"}, <<In, In>>, Keeps),
    Fn({"bcopy"}, <<In, Out>>, Keeps),
    Fn({"bzero"}, <<Out>>, Keeps),
    Fn({"index", "rindex"}, <<In>>, Keeps),
    Fn({"ffs", "ffsl"}, <<>>, Keeps),
    Fn({"strncasecmp"}, <<OrNull(In), OrNull(In)>>, Keeps),
    Fn({"strcasecmp_l"}, <<In, In, Blank("Locale")>>, Keeps),
    Fn({"strncasecmp_l"}, <<OrNull(In), OrNull(In), Blank("Locale")>>, Keeps) }

(* libc/bsd/string.c *)
BsdStrings == {
    Fn({"strlcpy", "strlcat"}, <<Out, In>>, Keeps),
    Fn({"strnstr"}, <<In, In>>, Keeps),
    Fn({"strmode"}, <<Out>>, Keeps) }

(* libc/stdlib.c *)
NumberParsing == {
    Fn({"__ctype_get_mb_cur_max"}, <<>>, Keeps),
    Fn({"atof", "atoi", "atol", "atoll"}, <<In>>, Keeps),
    Fn({"strtod", "strtof", "strtold", "strtol"}, <<In, OrNull(Out)>>, Keeps),
    Fn({"strtod_l"}, <<In, OrNull(Out), Blank("Locale")>>, Keeps) }

NumberParsingLocalised == {
    Fn({"strtoul", "strtoq", "strtouq", "strtoll", "strtoull"}, <<In, OrNull(Out)>>, Keeps),
    Fn({"strtol_l", "strtoul_l", "strtoll_l", "strtoull_l", "strtod_l", "strtof_l", "strtold_l"}, <<In,
       OrNull(Out), Blank("Locale")>>, Keeps),
    Fn({"l64a"}, <<>>, Keeps) }

RandomNumbers == {
    Fn({"a64l"}, <<In>>, Keeps),
    Fn({"random", "srandom", "rand", "srand"}, <<>>, Keeps),
    Fn({"initstate"}, <<Out>>, Keeps),
    Fn({"setstate"}, <<Kept>>, Keeps),
    Fn({"random_r"}, <<Dest, Dest>>, Keeps),
    Fn({"srandom_r", "rand_r"}, <<Dest>>, Keeps),
    Fn({"initstate_r"}, <<Out, Dest>>, Keeps),
    Fn({"setstate_r"}, <<Out, Out>>, Keeps) }

Random48 == {
    Fn({"drand48", "lrand48", "mrand48", "srand48"}, <<>>, Keeps),
    Fn({"erand48", "nrand48", "jrand48", "srand48_r"}, <<Dest>>, Keeps),
    Fn({"seed48", "lcong48"}, <<Kept>>, Keeps),
    Fn({"drand48_r", "lrand48_r", "mrand48_r"}, <<Dest, Dest>>, Keeps),
    Fn({"erand48_r", "nrand48_r", "jrand48_r"}, <<Dest, Dest, Dest>>, Keeps),
    Fn({"seed48_r", "lcong48_r"}, <<Kept, Dest>>, Keeps) }

Allocation == {
    Fn({"malloc", "calloc", "valloc"}, <<>>, Try(Make(<<"Memory">>))),
    Fn({"realloc"}, <<OrNull(Member("Memory"))>>, {Fail, FreeArg(1), Resize(1, "Memory")}),
    Fn({"free"}, <<OrNull(Member("Memory"))>>, Only(FreeArg(1))),
    Fn({"posix_memalign"}, <<Dest>>, Try(Make(<<"Memory">>))) }

AlignmentAndExit == {
    Fn({"aligned_alloc"}, <<>>, Try(Make(<<"Memory">>))),
    Fn({"abort", "__builtin_abort", "_Exit", "_exit"}, <<>>, Only(Leave)),
    Fn({"atexit", "at_quick_exit"}, <<>>, Keeps),
    Fn({"getenv", "secure_getenv"}, <<In>>, Keeps) }

EnvironmentAndTemporaries == {
    Fn({"putenv"}, <<Kept>>, Keeps),
    Fn({"setenv"}, <<In, In>>, Keeps),
    Fn({"unsetenv"}, <<In>>, Keeps),
    Fn({"clearenv"}, <<>>, Keeps),
    Fn({"mktemp", "mkdtemp"}, <<Out>>, Keeps),
    Fn({"mkstemp", "mkstemps", "mkostemp", "mkostemps"}, <<Out>>, Try(OpenDescriptors(1))),
    Fn({"system"}, <<OrNull(In)>>, Keeps) }

PathsSortingAndDivision == {
    Fn({"canonicalize_file_name"}, <<In>>, Try(Make(<<"Memory">>))),
    Fn({"realpath"}, <<In, OrNull(Out)>>, Try(Make(<<"Memory">>))),
    Fn({"bsearch"}, <<In, In>>, Keeps),
    Fn({"qsort", "qsort_r"}, <<Kept>>, Keeps),
    Fn({"abs", "labs", "llabs", "div", "ldiv", "lldiv"}, <<>>, Keeps),
    Fn({"ecvt", "fcvt"}, <<Dest, Dest>>, Keeps) }

FloatFormatting == {
    Fn({"gcvt"}, <<Out>>, Keeps),
    Fn({"qecvt", "qfcvt"}, <<Dest, Dest>>, Keeps),
    Fn({"qgcvt"}, <<LooseOut>>, Keeps),
    Fn({"ecvt_r", "fcvt_r", "qecvt_r", "qfcvt_r"}, <<Dest, Dest, Kept>>, Keeps),
    Fn({"mblen"}, <<OrNull(In)>>, Keeps),
    Fn({"mbtowc"}, <<OrNull(Dest), OrNull(In)>>, Keeps),
    Fn({"wctomb"}, <<OrNull(Out)>>, Keeps) }

MultibyteAndTerminals == {
    Fn({"mbstowcs", "wcstombs"}, <<OrNull(Out), In>>, Keeps),
    Fn({"rpmatch", "setkey"}, <<In>>, Keeps),
    Fn({"posix_openpt"}, <<>>, Try(OpenDescriptors(1))),
    Fn({"grantpt", "unlockpt", "ptsname"}, <<Live("FileRes")>>, Keeps) }

TerminalNames == {
    Fn({"ptsname_r"}, <<Live("FileRes"), Out>>, Keeps),
    Fn({"getpt"}, <<>>, Try(OpenDescriptors(1))),
    Fn({"getloadavg"}, <<Out>>, Keeps) }

(* libc/wchar.c *)
WideCopies == {
    Fn({"wcscpy", "wcsncpy", "wcscat", "wcsncat", "wcsxfrm"}, <<Out, In>>, Keeps),
    Fn({"wcscmp", "wcsncmp", "wcscasecmp", "wcsncasecmp", "wcscoll"}, <<In, In>>, Keeps),
    Fn({"wcscasecmp_l", "wcsncasecmp_l", "wcscoll_l"}, <<In, In, Blank("Locale")>>, Keeps),
    Fn({"wcsxfrm_l"}, <<Out, In, Blank("Locale")>>, Keeps),
    Fn({"wcsdup"}, <<In>>, Try(Make(<<"Memory">>))) }

WideSearch == {
    Fn({"wcschr", "wcsrchr", "wcschrnul", "wcslen"}, <<In>>, Keeps),
    Fn({"wcscspn", "wcsspn", "wcspbrk", "wcsstr", "wcswcs"}, <<In, In>>, Keeps),
    Fn({"wcstok"}, <<OrNull(Out), In, Out>>, Keeps) }

WideBlocks == {
    Fn({"wcsnlen", "wmemchr"}, <<In>>, Keeps),
    Fn({"wmemcmp"}, <<In, In>>, Keeps),
    Fn({"wmemcpy", "wmemmove"}, <<Out, In>>, Keeps),
    Fn({"wmemset"}, <<Out>>, Keeps),
    Fn({"btowc", "wctob"}, <<>>, Keeps),
    Fn({"mbsinit"}, <<OrNull(In)>>, Keeps),
    Fn({"mbrtowc"}, <<OrNull(Out), OrNull(In), OrNull(Out)>>, Keeps) }

MultibyteToWide == {
    Fn({"wcrtomb"}, <<OrNull(Out), OrNull(Out)>>, Keeps),
    Fn({"mbrlen", "__mbrlen"}, <<In, OrNull(Out)>>, Keeps),
    Fn({"mbsrtowcs", "wcsrtombs"}, <<OrNull(Out), Dest, OrNull(Out)>>, Keeps) }

WideFloats == {
    Fn({"mbsnrtowcs", "wcsnrtombs"}, <<OrNull(Out), Out, OrNull(Out)>>, Keeps),
    Fn({"wcwidth"}, <<>>, Keeps),
    Fn({"wcstod", "wcstof"}, <<In, OrNull(Kept)>>, Keeps),
    Fn({"wcswidth"}, <<In>>, Keeps),
    Fn({"wcstold"}, <<In, OrNull(Out)>>, Keeps) }

WideIntegers == {
    Fn({"wcstol", "wcstoul", "wcstoll", "wcstoull", "wcstoq", "wcstouq"}, <<In, OrNull(Out)>>, Keeps),
    Fn({"wcstol_l", "wcstoul_l", "wcstoll_l", "wcstoull_l", "wcstold_l"}, <<In, OrNull(Out),
       Blank("Locale")>>, Keeps),
    Fn({"wcstod_l", "wcstof_l"}, <<In, OrNull(Kept), Blank("Locale")>>, Keeps) }

WideStreams == {
    Fn({"wcpcpy", "wcpncpy"}, <<Out, In>>, Keeps),
    Fn({"open_wmemstream"}, <<LooseOut, LooseOut>>, Try(OpenStream)),
    Fn({"fwide", "fgetwc", "getwc", "fputwc", "putwc", "ungetwc", "getwc_unlocked", "fgetwc_unlocked",
       "fputwc_unlocked", "putwc_unlocked"}, <<Live("File")>>, Keeps),
    Fn({"getwchar", "putwchar", "getwchar_unlocked", "putwchar_unlocked"}, <<>>, Keeps),
    Fn({"fgetws", "fgetws_unlocked"}, <<Out, Live("File")>>, Keeps),
    Fn({"fputws"}, <<In, Live("File")>>, Keeps) }

WideFormatted == {
    Fn({"fputws_unlocked"}, <<In, Live("File")>>, Keeps),
    Fn({"wcsftime"}, <<Out, In, In>>, Keeps),
    Fn({"wcsftime_l"}, <<Out, In, In, Blank("Locale")>>, Keeps),
    Fn({"vfwprintf", "vfwscanf"}, <<Live("File"), In>>, Keeps),
    Fn({"vwprintf", "vwscanf"}, <<In>>, Keeps),
    Fn({"vswprintf"}, <<Out, In>>, Keeps),
    Fn({"vswscanf"}, <<In, In>>, Keeps) }

(* libc/wctype.c *)
WideClasses == {
    Fn({"iswalnum", "iswalpha", "iswcntrl", "iswdigit", "iswgraph", "iswlower", "iswprint", "iswpunct",
       "iswspace", "iswupper", "iswxdigit", "iswblank", "iswctype", "towlower", "towupper", "towctrans"},
       <<>>, Keeps),
    Fn({"wctype", "wctrans"}, <<In>>, Keeps),
    Fn({"iswalnum_l", "iswalpha_l", "iswcntrl_l", "iswdigit_l", "iswgraph_l", "iswlower_l",
       "iswprint_l", "iswpunct_l", "iswspace_l", "iswupper_l", "iswxdigit_l", "iswblank_l", "iswctype_l",
       "towlower_l", "towupper_l", "towctrans_l"}, <<Blank("Locale")>>, Keeps),
    Fn({"wctype_l", "wctrans_l"}, <<In, Blank("Locale")>>, Keeps) }

(* libc/ctype.c *)
CtypeClasses == {
    Fn({"__ctype_b_loc", "__ctype_tolower_loc", "__ctype_toupper_loc", "isalnum", "isalpha", "iscntrl",
       "isdigit", "islower", "isgraph", "isprint", "ispunct", "isspace", "isupper", "isxdigit", "tolower",
       "toupper", "isblank", "isascii", "toascii", "_toupper", "_tolower"}, <<>>, Keeps),
    Fn({"isalnum_l", "isalpha_l", "iscntrl_l", "isdigit_l", "islower_l", "isgraph_l", "isprint_l"},
       <<Blank("Locale")>>, Keeps) }

CtypeLocalised == {
    Fn({"ispunct_l", "isspace_l", "isupper_l", "isxdigit_l", "isblank_l", "__tolower_l", "tolower_l",
       "__toupper_l", "toupper_l"}, <<Blank("Locale")>>, Keeps) }

(* libc/inttypes.c *)
WidestIntegers == {
    Fn({"imaxabs", "imaxdiv"}, <<>>, Keeps),
    Fn({"strtoimax", "strtoumax", "wcstoimax", "wcstoumax"}, <<In, OrNull(Out)>>, Keeps) }

(* libc/regex.c *)
RegularExpressions == {
    Fn({"regcomp"}, <<Out, In>>, Keeps),
    Fn({"regexec"}, <<In, In, OrNull(Out)>>, Keeps),
    Fn({"regerror", "re_compile_pattern"}, <<In, Out>>, Keeps),
    Fn({"regfree"}, <<Kept>>, Keeps),
    Fn({"re_set_syntax"}, <<>>, Keeps),
    Fn({"re_compile_fastmap"}, <<Out>>, Keeps),
    Fn({"re_search", "re_match"}, <<Out, In, OrNull(Out)>>, Keeps),
    Fn({"re_search_2"}, <<Out, In, In, OrNull(Out)>>, Keeps) }

RegexRegisters == {
    Fn({"re_match_2"}, <<Out, In, In, OrNull(Out)>>, Keeps),
    Fn({"re_set_registers"}, <<Out, Out, OrNull(Out), OrNull(Out)>>, Keeps) }

(* libc/libintl.c *)
Translations == {
    Fn({"textdomain"}, <<OrNull(In)>>, Keeps),
    Fn({"bindtextdomain", "bind_textdomain_codeset"}, <<In, OrNull(In)>>, Keeps),
    Fn({"gettext"}, <<In>>, Keeps),
    Fn({"dgettext", "dcgettext", "ngettext"}, <<In, In>>, Keeps),
    Fn({"dngettext", "dcngettext"}, <<In, In, In>>, Keeps) }

(* libc/libgen.c *)
PathParts == {
    Fn({"dirname", "basename"}, <<Out>>, Keeps) }

(* libc/iconv.c *)
\* (mutant) iconv_close does not free the conversion
ConversionsLeak == {
    Fn({"iconv_open"}, <<In, In>>, Try(Make(<<"IConv">>))),
    Fn({"iconv_close"}, <<Member("IConv")>>, Keeps) }

Conversions == {
    Fn({"iconv_open"}, <<In, In>>, Try(Make(<<"IConv">>))),
    Fn({"iconv"}, <<Live("IConv"), OrNull(Out), Out, OrNull(Out), Out>>, Keeps),
    Fn({"iconv_close"}, <<Member("IConv")>>, Always(FreeArg(1))) }

(* libc/locale.c *)
Locales == {
    Fn({"setlocale"}, <<OrNull(In)>>, Try(Renew("LocaleName"))),
    Fn({"localeconv"}, <<>>, Only(Renew("LConv"))),
    Fn({"newlocale"}, <<In, OrNull(Live("Locale"))>>, Only(Resize(2, "Locale"))),
    Fn({"duplocale"}, <<Live("Locale")>>, Always(Make(<<"Locale">>))),
    Fn({"freelocale"}, <<Member("Locale")>>, Only(FreeArg(1))),
    Fn({"uselocale"}, <<OrNull(Live("Locale"))>>, Keeps) }

(* libc/langinfo.c *)
LanguageInfo == {
    Fn({"nl_langinfo"}, <<>>, Keeps),
    Fn({"nl_langinfo_l"}, <<Blank("Locale")>>, Keeps) }

(* All the contracts of this module. *)
LibcMemoryContracts ==
    UNION {MopsaStrings, MopsaFloats, MemoryBlocks, StringComparison, StringSearch, StringTokens,
           StringMisc, BsdStringNames, BsdStrings, NumberParsing, NumberParsingLocalised,
           RandomNumbers, Random48, Allocation, AlignmentAndExit,
           EnvironmentAndTemporaries, PathsSortingAndDivision, FloatFormatting,
           MultibyteAndTerminals, TerminalNames, WideCopies, WideSearch, WideBlocks,
           MultibyteToWide, WideFloats, WideIntegers, WideStreams, WideFormatted,
           WideClasses, CtypeClasses, CtypeLocalised, WidestIntegers, RegularExpressions,
           RegexRegisters, Translations, PathParts, Conversions, Locales, LanguageInfo}
=============================================================================
