---------------------------- MODULE LibcSystem ----------------------------
(*
The contracts of the C library's processes, users, signals, time and network
databases (see LibcContracts for the vocabulary).
*)
EXTENDS LibcContracts

(* libc/assert.c *)
Assertions == {
    Fn({"__assert_fail", "__assert_rtn"}, <<In, In, In>>, Only(Leave)),
    Fn({"__assert_perror_fail", "__assert"}, <<In, In>>, Only(Leave)) }

(* libc/errno.c *)
ErrnoLocation == {
    Fn({"__errno_location"}, <<>>, Keeps) }

(* libc/error.c *)
ErrorMessages == {
    Fn({"_mopsa_error"}, <<>>, Try(Leave)),
    Fn({"_mopsa_error_at_line"}, <<In>>, Try(Leave)) }

(* libc/getopt.c *)
OptionParsing == {
    Fn({"getopt"}, <<Out, In>>, Keeps),
    Fn({"_mopsa_len_option", "_mopsa_pick"}, <<>>, Keeps),
    Fn({"getopt_long", "getopt_long_only"}, <<Out, In, Loose, OrNull(Out)>>, Keeps) }

(* libc/grp.c *)
GroupDatabase == {
    Fn({"setgrent", "endgrent"}, <<>>, Keeps),
    Fn({"_mopsa_group", "getgrent", "getgrgid"}, <<>>, Always(Strings(6))),
    Fn({"fgetgrent"}, <<Live("File")>>, Always(Strings(6))),
    Fn({"putgrent"}, <<In, Live("File")>>, Keeps),
    Fn({"getgrnam"}, <<In>>, Always(Strings(6))),
    Fn({"setgroups", "initgroups"}, <<In>>, Keeps),
    Fn({"getgrouplist"}, <<Loose, OrNull(Out), Out>>, Keeps) }

(* libc/pwd.c *)
PasswordDatabase == {
    Fn({"_mopsa_alloc_pw", "setpwent", "endpwent", "getpwent", "getpwuid"}, <<>>, Keeps),
    Fn({"fgetpwent"}, <<Live("File")>>, Keeps),
    Fn({"putpwent"}, <<In, Live("File")>>, Keeps),
    Fn({"getpwnam"}, <<In>>, Keeps) }

(* libc/netdb.c *)
HostsAndNetworks == {
    Fn({"__h_errno_location", "sethostent", "endhostent", "setnetent", "endnetent"}, <<>>, Keeps),
    Fn({"herror"}, <<In>>, Keeps),
    Fn({"_mopsa_hostent", "gethostent"}, <<>>, Always(Strings(9))),
    Fn({"gethostbyaddr", "gethostbyname", "gethostbyname2"}, <<In>>, Always(Strings(9))),
    Fn({"_mopsa_netent", "getnetent", "getnetbyaddr"}, <<>>, Always(Strings(5))),
    Fn({"getnetbyname"}, <<In>>, Always(Strings(5))) }

ServicesAndProtocols == {
    Fn({"_mopsa_servent", "getservent"}, <<>>, Always(Strings(6))),
    Fn({"setservent", "endservent", "setprotoent", "endprotoent", "endnetgrent"}, <<>>, Keeps),
    Fn({"getservbyname"}, <<In, In>>, Always(Strings(6))),
    Fn({"getservbyport"}, <<In>>, Always(Strings(6))),
    Fn({"_mopsa_protoent", "getprotoent", "getprotobynumber"}, <<>>, Always(Strings(5))),
    Fn({"getprotobyname"}, <<In>>, Always(Strings(5))),
    Fn({"setnetgrent"}, <<OrNull(In)>>, Keeps) }

NetworkGroupsAndAddresses == {
    Fn({"getnetgrent"}, <<Out, Out, Out>>, Always(Strings(3))),
    Fn({"innetgr"}, <<OrNull(In), OrNull(In), OrNull(In), OrNull(In)>>, Keeps),
    Fn({"_mopsa_new_addrinfo"}, <<>>, Only(Make(<<"Memory", "Memory">>))),
    Fn({"getaddrinfo"}, <<OrNull(Loose), OrNull(Loose), In, Out>>, Always(Strings(6))),
    Fn({"freeaddrinfo"}, <<OrNull(Blank("Memory"))>>, Only(FreeArg(1))),
    Fn({"gai_strerror"}, <<>>, Keeps) }

NameInfo == {
    Fn({"getnameinfo"}, <<In, OrNull(Out), OrNull(Out)>>, Keeps) }

(* libc/arpa/inet.c *)
InternetAddresses == {
    Fn({"inet_addr", "inet_network"}, <<In>>, Keeps),
    Fn({"inet_lnaof", "inet_makeaddr", "inet_netof", "inet_ntoa"}, <<>>, Keeps),
    Fn({"inet_pton", "inet_ntop", "inet_aton", "inet_net_ntop", "inet_net_pton"}, <<In, Out>>, Keeps),
    Fn({"inet_neta"}, <<Out>>, Keeps) }

(* libc/netinet/in.c *)
ByteOrder == {
    Fn({"ntohl", "ntohs", "htonl", "htons"}, <<>>, Keeps) }

(* libc/sched.c *)
Scheduling == {
    Fn({"sched_setparam", "sched_setscheduler", "sched_setaffinity"}, <<In>>, Keeps),
    Fn({"sched_getparam", "sched_rr_get_interval", "sched_getaffinity"}, <<Out>>, Keeps),
    Fn({"sched_getscheduler", "sched_yield", "sched_get_priority_max", "sched_get_priority_min"}, <<>>,
       Keeps) }

CpuSets == {
    Fn({"__sched_cpucount"}, <<In>>, Keeps),
    Fn({"__sched_cpualloc"}, <<>>, Always(Make(<<"Memory">>))),
    Fn({"__sched_cpufree"}, <<Member("Memory")>>, Only(FreeArg(1))) }

(* libc/signal.c *)
SignalSending == {
    Fn({"__sysv_signal", "sysv_signal", "signal", "bsd_signal", "kill", "killpg", "raise", "ssignal",
       "gsignal", "sigpause", "sigblock", "sigsetmask", "siggetmask"}, <<>>, Keeps),
    Fn({"psignal"}, <<In>>, Keeps),
    Fn({"psiginfo"}, <<In, In>>, Keeps),
    Fn({"sigemptyset", "sigfillset", "sigaddset", "sigdelset"}, <<Out>>, Keeps) }

SignalSets == {
    Fn({"sigismember", "sigisemptyset", "sigsuspend"}, <<In>>, Keeps),
    Fn({"sigandset", "sigorset"}, <<Out, In, In>>, Keeps),
    Fn({"sigprocmask", "sigaction"}, <<OrNull(In), OrNull(Out)>>, Keeps),
    Fn({"sigpending"}, <<Out>>, Keeps),
    Fn({"sigwait"}, <<In, Out>>, Keeps) }

SignalWaiting == {
    Fn({"sigwaitinfo"}, <<In, OrNull(Out)>>, Keeps),
    Fn({"sigtimedwait"}, <<In, OrNull(Out), In>>, Keeps),
    Fn({"sigqueue", "siginterrupt", "sighold", "sigrelse"}, <<>>, Keeps),
    Fn({"sigreturn"}, <<LooseOut>>, Only(Leave)),
    Fn({"sigaltstack"}, <<OrNull(In), OrNull(Out)>>, Keeps),
    Fn({"sigstack"}, <<OrNull(Kept), OrNull(Out)>>, Keeps) }

SignalConstants == {
    Fn({"sigignore", "sigset", "__libc_current_sigrtmin", "__libc_current_sigrtmax", "pthread_kill"},
       <<>>, Keeps),
    Fn({"pthread_sigmask"}, <<OrNull(In), OrNull(Out)>>, Keeps) }

(* libc/time.c *)
CalendarTime == {
    Fn({"_mopsa_tzset", "clock", "difftime"}, <<>>, Keeps),
    Fn({"time"}, <<OrNull(Out)>>, Keeps),
    Fn({"mktime"}, <<Out>>, Keeps),
    Fn({"strftime"}, <<Out, In, Loose>>, Keeps),
    Fn({"strptime"}, <<In, In, Dest>>, Keeps),
    Fn({"strftime_l"}, <<Out, In, Loose, Blank("Locale")>>, Keeps),
    Fn({"strptime_l"}, <<In, In, Dest, Blank("Locale")>>, Keeps),
    Fn({"gmtime", "localtime"}, <<In>>, Keeps),
    Fn({"gmtime_r", "localtime_r"}, <<In, Out>>, Keeps) }

ClocksAndSleep == {
    Fn({"asctime", "ctime", "stime"}, <<In>>, Keeps),
    Fn({"asctime_r", "ctime_r"}, <<In, Out>>, Keeps),
    Fn({"tzset", "dysize"}, <<>>, Keeps),
    Fn({"timegm", "timelocal"}, <<Kept>>, Keeps),
    Fn({"nanosleep"}, <<In, OrNull(Out)>>, Keeps),
    Fn({"clock_getres", "clock_gettime"}, <<OrNull(Out)>>, Keeps) }

TimersAndClocks == {
    Fn({"clock_settime"}, <<In>>, Keeps),
    Fn({"clock_nanosleep"}, <<In, OrNull(Out)>>, Keeps),
    Fn({"clock_getcpuclockid", "timespec_get"}, <<Out>>, Keeps),
    Fn({"timer_create"}, <<OrNull(Kept), Out>>, Try(Make(<<"Timer">>))),
    Fn({"timer_delete"}, <<Member("Timer")>>, Always(FreeArg(1))),
    Fn({"timer_settime"}, <<Live("Timer"), In, OrNull(Out)>>, Keeps),
    Fn({"timer_gettime"}, <<Live("Timer"), Out>>, Keeps),
    Fn({"timer_getoverrun"}, <<Live("Timer")>>, Keeps) }

DateParsing == {
    Fn({"getdate"}, <<In>>, Keeps),
    Fn({"getdate_r"}, <<In, Out>>, Keeps) }

(* libc/utmp.c *)
LoginRecords == {
    Fn({"login_tty"}, <<Live("FileRes")>>, Keeps),
    Fn({"login", "logout", "utmpname", "getutid", "getutline", "pututline"}, <<In>>, Keeps),
    Fn({"logwtmp"}, <<In, In, In>>, Keeps),
    Fn({"updwtmp"}, <<In, In>>, Keeps),
    Fn({"getutent", "setutent", "endutent"}, <<>>, Keeps),
    Fn({"getutent_r"}, <<Out, Out>>, Keeps),
    Fn({"getutid_r"}, <<In, Out, Out>>, Keeps) }

LoginLines == {
    Fn({"getutline_r"}, <<In, Out, Out>>, Keeps) }

(* libc/utmpx.c *)
ExtendedLoginRecords == {
    Fn({"setutxent", "endutxent", "getutxent"}, <<>>, Keeps),
    Fn({"getutxid", "getutxline", "pututxline", "utmpxname"}, <<In>>, Keeps),
    Fn({"updwtmpx"}, <<In, In>>, Keeps),
    Fn({"getutmp", "getutmpx"}, <<In, Out>>, Keeps) }

(* libc/sys/prctl.c *)
ProcessControl == {
    Fn({"prctl"}, <<>>, Keeps) }

(* libc/sys/resource.c *)
ResourceLimits == {
    Fn({"getrlimit", "getrusage"}, <<Out>>, Keeps),
    Fn({"setrlimit"}, <<In>>, Keeps),
    Fn({"getpriority", "setpriority"}, <<>>, Keeps) }

(* libc/sys/sysinfo.c *)
SystemInfo == {
    Fn({"sysinfo"}, <<Out>>, Keeps),
    Fn({"get_nprocs_conf", "get_nprocs", "get_phys_pages", "get_avphys_pages"}, <<>>, Keeps) }

(* libc/sys/syslog.c *)
SystemLog == {
    Fn({"closelog", "setlogmask"}, <<>>, Keeps),
    Fn({"openlog"}, <<OrNull(In)>>, Keeps) }

(* libc/sys/sysmacros.c *)
DeviceNumbers == {
    Fn({"gnu_dev_major", "gnu_dev_minor", "gnu_dev_makedev"}, <<>>, Keeps) }

(* libc/sys/utsname.c *)
SystemName == {
    Fn({"uname"}, <<Dest>>, Keeps) }

(* libc/sys/wait.c *)
Waiting == {
    Fn({"wait", "waitpid"}, <<OrNull(Out)>>, Keeps),
    Fn({"waitid"}, <<Out>>, Keeps),
    Fn({"wait3", "wait4"}, <<OrNull(Out), OrNull(Out)>>, Keeps) }

(* All the contracts of this module. *)
LibcSystemContracts ==
    UNION {Assertions, ErrnoLocation, ErrorMessages, OptionParsing, GroupDatabase, PasswordDatabase,
           HostsAndNetworks, ServicesAndProtocols, NetworkGroupsAndAddresses, NameInfo,
           InternetAddresses, ByteOrder, Scheduling, CpuSets, SignalSending, SignalSets,
           SignalWaiting, SignalConstants, CalendarTime, ClocksAndSleep, TimersAndClocks,
           DateParsing, LoginRecords, LoginLines, ExtendedLoginRecords, ProcessControl,
           ResourceLimits, SystemInfo, SystemLog, DeviceNumbers, SystemName, Waiting}
=============================================================================
