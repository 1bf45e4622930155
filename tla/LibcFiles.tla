---------------------------- MODULE LibcFiles ----------------------------
(*
The contracts of the C library's streams, descriptors, directories, files,
terminals and sockets (see LibcContracts for the vocabulary).
*)
EXTENDS LibcContracts

(* libc/stdio.c *)
StreamAllocation == {
    Fn({"_alloc_std_stream", "_alloc_FILE"}, <<>>, Only(OpenStream)),
    Fn({"_alloc_FILE_at"}, <<Blank("FileRes")>>, Only(WrapDescriptor)),
    Fn({"remove"}, <<In>>, Keeps),
    Fn({"rename"}, <<In, In>>, Keeps),
    Fn({"renameat", "renameat2"}, <<OrNull(Live("FileRes")), In, OrNull(Live("FileRes")), In>>, Keeps),
    Fn({"tmpfile"}, <<>>, Try(OpenStream)) }

StreamOpening == {
    Fn({"tmpnam"}, <<OrNull(Out)>>, Keeps),
    Fn({"tmpnam_r"}, <<Out>>, Keeps),
    Fn({"tempnam"}, <<Loose, Loose>>, Keeps),
    Fn({"fclose"}, <<Member("File")>>, Try(CloseStream)),
    Fn({"fflush", "fflush_unlocked"}, <<OrNull(Member("File"))>>, Keeps),
    Fn({"fcloseall"}, <<>>, Keeps),
    Fn({"fopen"}, <<In, In>>, Try(OpenStream)),
    Fn({"freopen"}, <<In, In, Live("File")>>, Keeps) }

StreamWrapping == {
    Fn({"fdopen"}, <<Live("FileRes"), In>>, Try(WrapDescriptor)),
    Fn({"fmemopen"}, <<OrNull(Kept), In>>, Try(OpenStream)),
    Fn({"open_memstream"}, <<LooseOut, LooseOut>>, Try(OpenStream)),
    Fn({"setbuf", "setvbuf", "setbuffer"}, <<Live("File"), OrNull(Kept)>>, Keeps),
    Fn({"setlinebuf"}, <<Live("File")>>, Keeps),
    Fn({"_mopsa_asprintf"}, <<Dest>>, Try(Make(<<"Memory">>))) }

CharacterIO == {
    Fn({"fgetc", "getc", "getc_unlocked", "fgetc_unlocked", "fputc", "_IO_putc", "putc",
       "fputc_unlocked", "putc_unlocked", "getw", "putw"}, <<Live("File")>>, Keeps),
    Fn({"getchar", "getchar_unlocked", "putchar", "putchar_unlocked"}, <<>>, Keeps),
    Fn({"fgets", "fgets_unlocked"}, <<Out, Live("File")>>, Keeps),
    Fn({"gets"}, <<Dest>>, Keeps) }

LineAndBlockIO == {
    Fn({"getdelim", "getline"}, <<Out, OrNull(Member("Memory")), Out, Live("File")>>, {Fail, Resize(2, "Memory")}),
    Fn({"fputs", "fwrite", "fputs_unlocked", "fwrite_unlocked"}, <<In, Live("File")>>, Keeps),
    Fn({"puts"}, <<In>>, Keeps),
    Fn({"ungetc", "fseek", "ftell"}, <<Live("File")>>, Keeps),
    Fn({"fread", "fread_unlocked"}, <<Out, Live("File")>>, Keeps) }

StreamPositions == {
    Fn({"rewind", "fseeko", "ftello", "clearerr", "feof", "ferror", "clearerr_unlocked",
       "feof_unlocked", "ferror_unlocked", "fileno", "fileno_unlocked"}, <<Live("File")>>, Keeps),
    Fn({"fgetpos"}, <<Live("File"), Dest>>, Keeps),
    Fn({"fsetpos"}, <<Live("File"), In>>, Keeps),
    Fn({"perror"}, <<In>>, Keeps),
    Fn({"popen"}, <<In, In>>, Try(OpenStream)),
    Fn({"pclose"}, <<Member("File")>>, Always(FreeArg(1))) }

FormattedIO == {
    Fn({"ctermid", "cuserid"}, <<OrNull(Out)>>, Keeps),
    Fn({"flockfile", "ftrylockfile", "funlockfile"}, <<Live("File")>>, Keeps),
    Fn({"_wfopen"}, <<In, In>>, Try(OpenStream)),
    Fn({"vfprintf"}, <<Live("File"), In>>, Keeps),
    Fn({"vprintf"}, <<In>>, Keeps),
    Fn({"vsprintf"}, <<Kept, In>>, Keeps),
    Fn({"vsnprintf"}, <<Out, In>>, Keeps),
    Fn({"_mopsa_general_vasprintf"}, <<Out, In>>, Try(Make(<<"Memory">>))) }

ScannedIO == {
    Fn({"_mopsa_constant_vasprintf"}, <<Out, In>>, Only(Make(<<"Memory">>))),
    Fn({"vdprintf"}, <<Live("FileRes"), In>>, Keeps),
    Fn({"vfscanf"}, <<Live("File"), In>>, Keeps),
    Fn({"vscanf"}, <<In>>, Keeps),
    Fn({"vsscanf"}, <<In, In>>, Keeps) }

(* libc/stdio_ext.c *)
StreamExtensions == {
    Fn({"__fbufsize", "__freading", "__fwriting", "__freadable", "__fwritable", "__flbf", "__fpurge",
       "__fpending", "__fsetlocking"}, <<Live("File")>>, Keeps),
    Fn({"_flushlbf"}, <<>>, Keeps) }

(* libc/unistd.c *)
DescriptorIO == {
    Fn({"access", "euidaccess", "eaccess"}, <<In>>, Keeps),
    Fn({"faccessat"}, <<OrNull(Live("FileRes")), In>>, Keeps),
    Fn({"lseek"}, <<Live("FileRes")>>, Keeps),
    Fn({"close"}, <<Live("FileRes")>>, Try(CloseDescriptor)),
    Fn({"read", "pread"}, <<Live("FileRes"), Out>>, Keeps),
    Fn({"write", "pwrite"}, <<Live("FileRes"), In>>, Keeps),
    Fn({"pipe"}, <<Out>>, Try(OpenDescriptors(2))) }

PipesAndOwnership == {
    Fn({"pipe2"}, <<Out>>, Try(OpenDescriptors(2))),
    Fn({"alarm", "sleep", "ualarm", "usleep", "pause"}, <<>>, Keeps),
    Fn({"chown", "lchown", "chdir"}, <<In>>, Keeps),
    Fn({"fchown", "fchdir"}, <<Live("FileRes")>>, Keeps),
    Fn({"fchownat"}, <<OrNull(Live("FileRes")), In>>, Keeps) }

WorkingDirectory == {
    Fn({"getcwd"}, <<OrNull(Out)>>, Try(Make(<<"Memory">>))),
    Fn({"get_current_dir_name"}, <<>>, Try(Make(<<"Memory">>))),
    Fn({"getwd"}, <<Out>>, Keeps),
    Fn({"dup"}, <<Live("FileRes")>>, Try(Duplicate)),
    Fn({"dup2", "dup3"}, <<Live("FileRes"), Blank("FileRes")>>, Try(DuplicateAt)),
    Fn({"execve"}, <<In, In, In>>, Try(Leave)) }

ProgramExecution == {
    Fn({"fexecve"}, <<Live("FileRes"), In, In>>, Try(Leave)),
    Fn({"execv"}, <<In, In>>, Try(Leave)),
    Fn({"execle", "execl", "execlp"}, <<In>>, Try(Leave)),
    Fn({"execvp"}, <<In, In>>, Keeps),
    Fn({"execvpe"}, <<In, In, In>>, Try(Leave)),
    Fn({"nice"}, <<>>, Keeps),
    Fn({"_exit"}, <<>>, Only(Leave)) }

ProcessLimits == {
    Fn({"pathconf"}, <<In>>, Keeps),
    Fn({"fpathconf"}, <<Live("FileRes")>>, Keeps),
    Fn({"sysconf", "getpid", "getppid", "getpgrp", "__getpgid", "getpgid", "setpgid", "setpgrp",
       "setsid", "getsid", "getuid"}, <<>>, Keeps),
    Fn({"confstr"}, <<OrNull(Out)>>, Keeps) }

UserIdentity == {
    Fn({"geteuid", "getgid", "getegid", "group_member", "setuid", "setreuid", "seteuid", "setgid",
       "setregid", "setegid"}, <<>>, Keeps),
    Fn({"getgroups"}, <<Dest>>, Keeps),
    Fn({"getresuid"}, <<Dest, Dest, Dest>>, Keeps) }

GroupIdentityAndLinks == {
    Fn({"getresgid"}, <<Dest, Dest, Dest>>, Keeps),
    Fn({"setresuid", "setresgid", "fork", "vfork", "ttyslot"}, <<>>, Keeps),
    Fn({"ttyname", "isatty"}, <<Live("FileRes")>>, Keeps),
    Fn({"ttyname_r"}, <<Live("FileRes"), Out>>, Keeps),
    Fn({"link"}, <<In, In>>, Keeps) }

LinksAt == {
    Fn({"linkat"}, <<OrNull(Live("FileRes")), In, OrNull(Live("FileRes")), In>>, Keeps),
    Fn({"symlink"}, <<In, In>>, Keeps),
    Fn({"readlink"}, <<In, Out>>, Keeps),
    Fn({"symlinkat"}, <<In, OrNull(Live("FileRes")), In>>, Keeps),
    Fn({"readlinkat"}, <<OrNull(Live("FileRes")), In, Out>>, Keeps),
    Fn({"unlink", "rmdir"}, <<In>>, Keeps),
    Fn({"unlinkat"}, <<OrNull(Live("FileRes")), In>>, Keeps) }

HostAndLogin == {
    Fn({"tcgetpgrp", "tcsetpgrp"}, <<Live("FileRes")>>, Keeps),
    Fn({"getlogin", "sethostid"}, <<>>, Keeps),
    Fn({"getlogin_r", "gethostname", "getdomainname"}, <<Out>>, Keeps),
    Fn({"setlogin", "sethostname", "setdomainname"}, <<In>>, Keeps) }

SessionsAndSync == {
    Fn({"vhangup", "getusershell", "endusershell", "setusershell", "daemon"}, <<>>, Keeps),
    Fn({"revoke"}, <<Loose>>, Keeps),
    Fn({"profil"}, <<LooseOut>>, Keeps),
    Fn({"acct", "chroot", "getpass"}, <<In>>, Keeps),
    Fn({"fsync"}, <<Live("FileRes")>>, Keeps) }

FileSizesAndLocks == {
    Fn({"syncfs", "ftruncate", "lockf"}, <<Live("FileRes")>>, Keeps),
    Fn({"gethostid", "sync", "getpagesize", "getdtablesize", "brk", "sbrk", "syscall"}, <<>>, Keeps),
    Fn({"truncate"}, <<In>>, Keeps),
    Fn({"copy_file_range"}, <<Live("FileRes"), OrNull(Out), Live("FileRes"), OrNull(Out)>>, Keeps) }

CryptAndEntropy == {
    Fn({"fdatasync"}, <<Live("FileRes")>>, Keeps),
    Fn({"crypt"}, <<In, In>>, Keeps),
    Fn({"encrypt", "getentropy"}, <<Out>>, Keeps),
    Fn({"swab"}, <<In, Out>>, Keeps) }

(* libc/fcntl.c *)
DescriptorControl == {
    Fn({"fcntl", "posix_fadvise", "posix_fallocate"}, <<Live("FileRes")>>, Keeps),
    Fn({"open", "creat"}, <<In>>, Try(OpenDescriptors(1))),
    Fn({"openat"}, <<OrNull(Live("FileRes")), In>>, Try(OpenDescriptors(1))) }

(* libc/dirent.c *)
Directories == {
    Fn({"opendir"}, <<In>>, Try(OpenDir)),
    Fn({"fdopendir"}, <<Live("FileRes")>>, Try(Make(<<"Dir">>))),
    Fn({"closedir"}, <<Member("Dir")>>, Try(FreeArg(1))),
    Fn({"readdir", "rewinddir", "seekdir", "telldir", "dirfd"}, <<Live("Dir")>>, Keeps),
    Fn({"alphasort", "versionsort"}, <<Kept, Kept>>, Keeps),
    Fn({"getdirentries"}, <<Live("FileRes"), Kept, Out>>, Keeps) }

(* libc/termios.c *)
TerminalControl == {
    Fn({"cfgetospeed", "cfgetispeed"}, <<In>>, Keeps),
    Fn({"cfsetospeed", "cfsetispeed", "cfsetspeed"}, <<Out>>, Keeps),
    Fn({"tcgetattr"}, <<Live("FileRes"), Dest>>, Keeps),
    Fn({"tcsetattr"}, <<Live("FileRes"), In>>, Keeps),
    Fn({"cfmakeraw"}, <<Dest>>, Keeps),
    Fn({"tcsendbreak", "tcdrain", "tcflush"}, <<Live("FileRes")>>, Keeps) }

TerminalFlow == {
    Fn({"tcflow", "tcgetsid"}, <<Live("FileRes")>>, Keeps) }

(* libc/mntent.c *)
MountTable == {
    Fn({"setmntent"}, <<In, In>>, Try(OpenStream)),
    Fn({"_mopsa_mntent"}, <<>>, Only(Strings(4))),
    Fn({"getmntent"}, <<Live("File")>>, Always(Strings(4))),
    Fn({"addmntent"}, <<Live("File"), In>>, Keeps),
    Fn({"endmntent"}, <<Live("File")>>, {Keep, CloseStream}),
    Fn({"hasmntopt"}, <<In, In>>, Keeps) }

(* libc/sys/stat.c *)
FileStatus == {
    Fn({"stat", "lstat"}, <<In, Out>>, Keeps),
    Fn({"fstat"}, <<Live("FileRes"), Out>>, Keeps),
    Fn({"fstatat"}, <<OrNull(Live("FileRes")), In, Out>>, Keeps),
    Fn({"chmod", "lchmod", "mkdir"}, <<In>>, Keeps),
    Fn({"fchmod"}, <<Live("FileRes")>>, Keeps),
    Fn({"fchmodat", "mkdirat"}, <<OrNull(Live("FileRes")), In>>, Keeps),
    Fn({"umask", "getumask"}, <<>>, Keeps) }

FileNodes == {
    Fn({"mknod", "mkfifo"}, <<In>>, Keeps),
    Fn({"mknodat", "mkfifoat"}, <<OrNull(Live("FileRes")), In>>, Keeps),
    Fn({"utimensat"}, <<OrNull(Live("FileRes")), In, OrNull(In)>>, Keeps),
    Fn({"futimens"}, <<Live("FileRes"), OrNull(In)>>, Keeps) }

(* libc/sys/statvfs.c *)
FileSystemStatus == {
    Fn({"statvfs"}, <<In, Out>>, Keeps),
    Fn({"fstatvfs"}, <<Live("FileRes"), Out>>, Keeps) }

(* libc/sys/vfs.c *)
FileSystems == {
    Fn({"statfs"}, <<In, Out>>, Keeps),
    Fn({"fstatfs"}, <<Live("FileRes"), Out>>, Keeps) }

(* libc/sys/time.c *)
IntervalTimers == {
    Fn({"gettimeofday"}, <<OrNull(Out)>>, Keeps),
    Fn({"settimeofday"}, <<OrNull(In), OrNull(In)>>, Keeps),
    Fn({"adjtime", "setitimer"}, <<In, OrNull(Out)>>, Keeps),
    Fn({"getitimer"}, <<Out>>, Keeps),
    Fn({"utimes", "lutimes"}, <<In, OrNull(In)>>, Keeps) }

DescriptorTimes == {
    Fn({"futimes"}, <<Live("FileRes"), OrNull(In)>>, Keeps),
    Fn({"futimesat"}, <<OrNull(Live("FileRes")), In, OrNull(In)>>, Keeps) }

(* libc/utime.h *)
FileTimes == {
    Fn({"utime"}, <<In, OrNull(In)>>, Keeps) }

(* libc/sys/inotify.c *)
Notifications == {
    Fn({"inotify_init", "inotify_init1"}, <<>>, Try(OpenDescriptors(1))),
    Fn({"inotify_add_watch"}, <<Live("FileRes"), In>>, Keeps),
    Fn({"inotify_rm_watch"}, <<Live("FileRes")>>, Keeps) }

(* libc/sys/ioctl.c *)
DeviceControl == {
    Fn({"ioctl"}, <<Live("FileRes")>>, Keeps) }

(* libc/sys/select.c *)
Selecting == {
    Fn({"select"}, <<OrNull(Out), OrNull(Out), OrNull(Out), OrNull(Out)>>, Keeps),
    Fn({"pselect"}, <<OrNull(Out), OrNull(Out), OrNull(Out), OrNull(In), OrNull(In)>>, Keeps) }

(* libc/sys/socket.c *)
Sockets == {
    Fn({"socket"}, <<>>, Try(OpenDescriptors(1))),
    Fn({"socketpair"}, <<Dest>>, Try(OpenDescriptors(2))),
    Fn({"connect", "bind"}, <<Live("FileRes"), In>>, Keeps),
    Fn({"listen"}, <<Live("FileRes")>>, Keeps),
    Fn({"accept"}, <<Live("FileRes"), OrNull(Out), OrNull(Kept)>>, Try(OpenDescriptors(1))),
    Fn({"recv"}, <<Live("FileRes"), Out>>, Keeps),
    Fn({"recvfrom"}, <<Live("FileRes"), Out, OrNull(Out), OrNull(Out)>>, Keeps) }

SocketOptions == {
    Fn({"send", "sendto"}, <<Live("FileRes"), In>>, Keeps),
    Fn({"getsockname", "getpeername"}, <<Live("FileRes"), Out, Out>>, Keeps),
    Fn({"setsockopt"}, <<Live("FileRes"), OrNull(In)>>, Keeps),
    Fn({"getsockopt"}, <<Live("FileRes"), OrNull(Out), OrNull(Out)>>, Keeps),
    Fn({"shutdown"}, <<Live("FileRes")>>, Keeps) }

(* libc/sys/alt_socket.c *)
AltSockets == {
    Fn({"socket"}, <<>>, Try(OpenDescriptors(1))),
    Fn({"socketpair"}, <<Dest>>, Try(OpenDescriptors(2))),
    Fn({"connect", "bind"}, <<Live("FileRes"), In>>, Keeps),
    Fn({"listen"}, <<Live("FileRes")>>, Keeps),
    Fn({"accept"}, <<Live("FileRes"), OrNull(Out), OrNull(Kept)>>, Try(OpenDescriptors(1))),
    Fn({"recv"}, <<Live("FileRes"), Out>>, Keeps),
    Fn({"recvfrom"}, <<Live("FileRes"), Out, OrNull(Out), OrNull(Out)>>, Keeps) }

AltSocketOptions == {
    Fn({"send"}, <<Live("FileRes"), In>>, Keeps),
    Fn({"sendto"}, <<Live("FileRes"), In, OrNull(In)>>, Keeps),
    Fn({"getsockname", "getpeername"}, <<Live("FileRes"), Out, Out>>, Keeps),
    Fn({"setsockopt"}, <<Live("FileRes"), OrNull(In)>>, Keeps),
    Fn({"getsockopt"}, <<Live("FileRes"), OrNull(Out), OrNull(Out)>>, Keeps),
    Fn({"shutdown"}, <<Live("FileRes")>>, Keeps) }

(* libc/fnmatch.c *)
FileMatching == {
    Fn({"fnmatch"}, <<In, In>>, Keeps) }

(* All the contracts of this module. *)
LibcFilesContracts ==
    UNION {StreamAllocation, StreamOpening, StreamWrapping, CharacterIO, LineAndBlockIO,
           StreamPositions, FormattedIO, ScannedIO, StreamExtensions, DescriptorIO,
           PipesAndOwnership, WorkingDirectory, ProgramExecution, ProcessLimits,
           UserIdentity, GroupIdentityAndLinks, LinksAt, HostAndLogin, SessionsAndSync,
           FileSizesAndLocks, CryptAndEntropy, DescriptorControl, Directories,
           TerminalControl, TerminalFlow, MountTable, FileStatus, FileNodes,
           FileSystemStatus, FileSystems, IntervalTimers, DescriptorTimes, FileTimes,
           Notifications, DeviceControl, Selecting, Sockets, SocketOptions, AltSockets,
           AltSocketOptions, FileMatching}
=============================================================================
