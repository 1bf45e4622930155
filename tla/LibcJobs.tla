------------------------------ MODULE LibcJobs ------------------------------
(*
What a call to the C library is: a parameter of its contract, the cases of the
contract, and what the function really does (POSIX and ISO C, external: the
sets and RealCases below).  A call puts one argument of a function at risk and
gives it legal values elsewhere, so a call is drawn from Jobs: the distinct
pairs of a parameter and of what the function does, over every function that is
not avoided.
*)
EXTENDS LibcMemory, LibcFiles, LibcSystem

CONSTANTS
    Avoided,      \* the functions that are not called
    Unfollowed    \* the outcomes that calls do not have: pairs of a function and an effect

Contracts == LibcMemoryContracts \cup LibcFilesContracts \cup LibcSystemContracts

-----------------------------------------------------------------------------
(* What the functions really do to resources; all others leave them alone. *)

RealStreams == {"fopen", "_wfopen", "tmpfile", "setmntent"}
RealDescriptors ==
    {"open", "openat", "creat", "mkstemp", "mkstemps", "mkostemp", "mkostemps", "posix_openpt",
     "getpt", "socket", "accept", "inotify_init", "inotify_init1"}
RealBuffers ==
    {"malloc", "calloc", "valloc", "aligned_alloc", "strdup", "__strdup", "strndup", "wcsdup",
     "realpath", "getcwd", "canonicalize_file_name", "get_current_dir_name", "__sched_cpualloc"}

RealExits ==
    {"abort", "__builtin_abort", "_Exit", "_exit", "__assert", "__assert_fail", "__assert_rtn",
     "__assert_perror_fail"}
RealExecs == {"execve", "fexecve", "execv", "execvp", "execvpe", "execl", "execlp", "execle"}

RealCases(f) ==
    CASE f \in RealExits -> Only(Leave)
      [] f \in RealExecs -> Try(Leave)
      [] f \in RealStreams -> Try(OpenStream)
      [] f \in RealDescriptors -> Try(OpenDescriptors(1))
      [] f \in RealBuffers -> Try(Make(<<"Memory">>))
      [] f \in {"pipe", "pipe2"} -> Try(OpenDescriptors(2))
      \* a stream is gone whatever fclose returns, and so, mostly, is a number
      [] f = "fclose" -> Always(CloseStream)
      [] f = "endmntent" -> Only(CloseStream)
      [] f = "close" -> Try(CloseDescriptor) \cup Always(CloseDescriptor)
      [] f = "opendir" -> Try(OpenDir)
      [] f = "iconv_open" -> Try(Make(<<"IConv">>))
      [] f = "duplocale" -> Try(Make(<<"Locale">>))
      [] f = "timer_create" -> Try(Make(<<"Timer">>))
      [] f \in {"free", "iconv_close", "freelocale", "timer_delete", "__sched_cpufree"} ->
             Only(FreeArg(1))
      [] f = "realloc" -> {Fail, FreeArg(1), Resize(1, "Memory")}
      \* at the end of the file the buffer may have been made already
      [] f \in {"getdelim", "getline"} ->
             Try(Resize(2, "Memory")) \cup Always(Resize(2, "Memory"))
      [] f = "newlocale" -> Try(Resize(2, "Locale"))
      [] f = "setlocale" -> Try(Renew("LocaleName"))
      [] f = "localeconv" -> Only(Renew("LConv"))
      [] OTHER -> Keeps

(* The pointers to modifiable objects that a function only reads through, by position. *)
RealReads(f) ==
    CASE f \in {"alphasort", "versionsort"} -> {1, 2}
      [] f \in {"timer_create", "putenv", "sigstack", "seed48", "lcong48", "seed48_r",
                "lcong48_r"} -> {1}
      [] OTHER -> {}

-----------------------------------------------------------------------------
(* Jobs. *)

Nothing == Param("nothing", "nothing", FALSE, TRUE)

(* The effects a job shows: those on another argument are left to its own job. *)
Shown(cases, i) ==
    { IF e.on \in {0, i} THEN e ELSE IF e.failed THEN Fail ELSE Keep : e \in cases }

Outcomes(f) == { e \in RealCases(f) : <<f, e>> \notin Unfollowed }

Job(c, f, i) ==
    [param  |-> IF i = 0 THEN Nothing ELSE c.params[i],
     writes |-> i > 0 /\ c.params[i].kind = "Memory" /\ ~c.params[i].const /\ i \notin RealReads(f),
     said   |-> Shown(c.cases, i),
     real   |-> Shown(Outcomes(f), i)]

Jobs ==
    UNION { { Job(c, f, i) : f \in c.names \ Avoided,
                             i \in IF c.params = <<>> THEN {0} ELSE DOMAIN c.params } :
            c \in Contracts }

(* Whether the function frees or closes the argument, on some path. *)
Takes(job) == \E e \in job.real : e.on > 0

-----------------------------------------------------------------------------
(*
Where a contract and its function agree, one call at a time: what the theorems
about whole programs (LibcProgram_proofs) start from.
*)

(*
What the function may do to resources is a case of its contract that returns
the same.  A case that does not return may be left out of a contract that has
no other effect.
*)
CasesAgree ==
    \A job \in Jobs : \A e \in job.real :
        e \in job.said \/ (e = Leave /\ job.said = Keeps)

(* Memory is freed as memory, a descriptor closed as a number, a stream as a stream. *)
EffectsFit ==
    \A job \in Jobs : \A e \in job.real :
        CASE e.what \in {"free", "resize"} -> job.param.kind \notin {"FileRes", "File", "Dir"}
          [] e.what = "close" -> job.param.kind = "FileRes"
          [] e.what = "close stream" -> job.param.kind = "File" /\ ~job.param.null
          [] OTHER -> TRUE

(* What the function writes through a pointer, its contract assigns. *)
ResultsAssigned == \A job \in Jobs : job.writes => job.param.assigned

(*
The contract asks of an argument what the function needs: a number that stands
for a file, a buffer of the size that is used, an object that is alive or that
a case of the contract frees, for which it has to be.
*)
ClausesAgree ==
    \A job \in Jobs :
        CASE job.param.kind = "nothing" -> TRUE
          [] job.param.kind = "FileRes" -> job.param.asks \notin {"nothing", "member"}
          [] job.param.kind = "Memory" /\ ~Takes(job) -> job.param.asks = "extent"
          [] OTHER ->
                 \/ job.param.asks \in {"base", "alive"}
                 \/ job.param.asks \in {"nothing", "member"} /\ \E e \in job.said : e.on > 0

ContractsAgree == CasesAgree /\ EffectsFit /\ ResultsAssigned /\ ClausesAgree

=============================================================================
