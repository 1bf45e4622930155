----------------------------- MODULE LibcProgram -----------------------------
(*
A C program that calls the library, beside what its analysis knows.  The run
follows what the library really does, the analysis follows the contracts, with
the descriptor domain of FileDescriptors under them (LibcJobs).  Two objects
made by two calls have two addresses (two allocation sites).
*)
EXTENDS LibcJobs, FileDescriptors, Functions

CONSTANT MaxPlain     \* bound: the objects that are not descriptors or streams

ASSUME PlainAssumption == MaxPlain \in Nat
ASSUME AddressAssumption == Address \subseteq Nat \ {0} /\ None = 0

-----------------------------------------------------------------------------
VARIABLES
    heap,         \* the objects made so far, by address
    kernel,       \* the address of the open file each number stands for
    known,        \* the analysis: whether it has a state for the run, the live
                  \* addresses and the contents they may have
    files,        \* the analysis: the state of the descriptor domain
    verdict       \* what the last call came to

vars == <<heap, kernel, known, files, verdict>>

NULL == -1
Content == {0, 1}
Kinds == {"Memory", "File", "FileRes", "Dir", "Locale", "Timer", "IConv", "LocaleName", "LConv"}

Dead(kind) == [kind |-> kind, live |-> FALSE, roomy |-> FALSE, content |-> 0, number |-> NULL]

NoObject == Dead("none")

Born(kind, roomy, content, number) ==
    [kind |-> kind, live |-> TRUE, roomy |-> kind = "Memory" /\ roomy,
     content |-> IF kind = "Memory" THEN content ELSE 0,
     number |-> IF kind = "File" THEN number ELSE NULL]

Fine == [wrong |-> FALSE, alarm |-> FALSE, vague |-> FALSE, left |-> FALSE]

Init ==
    /\ heap = [x \in Address |-> NoObject]
    /\ kernel = [n \in Number |-> None]
    /\ known = [reached |-> TRUE, live |-> {}, contents |-> [x \in Address |-> Content]]
    /\ files = NoDescriptors
    /\ verdict = Fine

Objects(kind) == { x \in Address : heap[x].kind = kind }

(* What a program may pass: an object of the kind, dead or not, or a number. *)
Targets(param) ==
    (CASE param.kind = "nothing" -> {NULL}
       [] param.kind = "FileRes" ->
              { n \in Number : kernel[n] = None \/ heap[kernel[n]].kind = "FileRes" }
       [] OTHER -> Objects(param.kind))
    \cup (IF param.null THEN {NULL} ELSE {})

(*
Whether the library may be called with it; what is only given back to the heap
need not be large.
*)
Legal(job, t) ==
    \/ t = NULL
    \/ IF job.param.kind = "FileRes" THEN kernel[t] # None
       ELSE heap[t].live /\ (job.param.kind = "Memory" /\ ~Takes(job) => heap[t].roomy)

(* Whether a clause of the contract fails on it. *)
Reported(param, t) ==
    /\ t # NULL /\ param.asks \notin {"nothing", "member"}
    /\ IF param.kind = "FileRes" THEN ~(Find(t, files) \subseteq known.live)
       ELSE t \notin known.live \/ (param.asks = "extent" /\ ~heap[t].roomy)

(* Whether a case frees what is already freed. *)
FreedTwice(job, t) ==
    /\ t # NULL /\ job.param.kind # "FileRes"
    /\ \E e \in job.said : e.on > 0
    /\ t \notin known.live

Judge(job, t) ==
    [wrong |-> ~Legal(job, t),
     alarm |-> Reported(job.param, t) \/ FreedTwice(job, t),
     vague |-> job.param.kind = "FileRes" /\ t # NULL /\ Cardinality(Find(t, files)) # 1,
     left  |-> FALSE]

(* The run goes on until a call is wrong, reported or does not return. *)
Running == ~verdict.wrong /\ ~verdict.alarm /\ ~verdict.left

Accepted(job, t) == ~Judge(job, t).wrong /\ ~Judge(job, t).alarm

-----------------------------------------------------------------------------
(*
The addresses that die with an effect and the number it closes.
The run and the analysis read an effect alike; they may differ on the effect,
and on the file that a number stands for.
*)
Registers(e) == e.what \in {"open", "open stream", "open directory"}

Closed(e, t) ==
    CASE e.what = "close" -> t
      [] e.what = "close stream" -> heap[t].number
      [] OTHER -> NULL

Dying(e, t, file) ==
    CASE e.what \in {"free", "resize"} -> {t} \ {NULL}
      [] e.what = "renew" -> Objects(e.kinds[1])
      [] e.what = "close" -> {file}
      [] e.what = "close stream" -> {t, file}
      [] OTHER -> {}

(* New addresses are taken in order; a stream's file comes before the stream. *)
Fresh(kinds) ==
    LET used == Cardinality({ x \in Address : heap[x] # NoObject })
    IN  [i \in DOMAIN kinds |-> used + i]

Files(e) == IF e.what = "open stream" THEN <<Fresh(e.kinds)[1]>> ELSE Fresh(e.kinds)

(* The kernel gives out the lowest free number. *)
Lowest(n, k) == k[n] = None /\ \A m \in 0 .. (n - 1) : k[m] # None

Opening(kernels, x) ==
    UNION { { [k EXCEPT ![n] = x] : n \in { m \in Number : Lowest(m, k) } } : k \in kernels }

(* A call opens one file, or two (pipe). *)
Opened(e) ==
    LET first == Opening({kernel}, Files(e)[1])
    IN  IF ~Registers(e) THEN {kernel}
        ELSE IF Len(Files(e)) = 1 THEN first
        ELSE Opening(first, Files(e)[2])

NumberOf(x, k) == CHOOSE n \in Number : k[n] = x

(* Room for what is made, and a stream that is closed still owns its number. *)
Possible(e, t) ==
    /\ \A i \in DOMAIN e.kinds : Fresh(e.kinds)[i] \in Address
    /\ IF Registers(e)
       THEN Cardinality({ n \in Number : kernel[n] = None }) >= Len(Files(e))
       ELSE e.kinds # <<>> =>
                Cardinality({ x \in Address : heap[x].kind \notin {"none", "File", "FileRes", "Dir"} })
                    < MaxPlain
    /\ e.what = "close stream" => kernel[heap[t].number] = t - 1

Run(e, t, writes) ==
    LET new  == Fresh(e.kinds)
        dead == Dying(e, t, IF Closed(e, t) = NULL THEN None ELSE kernel[Closed(e, t)])
    IN  \E opened \in Opened(e), roomy \in BOOLEAN, content \in Content :
        /\ kernel' = [n \in Number |-> IF n = Closed(e, t) THEN None ELSE opened[n]]
        /\ heap' = [x \in Address |->
                IF x \in Range(new)
                THEN Born(e.kinds[CHOOSE i \in DOMAIN new : new[i] = x], roomy, content,
                          IF Registers(e) THEN NumberOf(Files(e)[1], opened) ELSE NULL)
                ELSE IF x \in dead THEN Dead(heap[x].kind)
                ELSE IF x = t /\ writes THEN [heap[x] EXCEPT !.content = content]
                ELSE heap[x]]

(*
The same by the contract.  Registrations and removals go to the descriptor
domain, and a number that may stand for several files is followed to its own.
*)
Looked(n) ==
    IF n = NULL THEN {None}
    ELSE IF kernel[n] \in Find(n, files) THEN {kernel[n]} ELSE Find(n, files)

Registering(states, x) == UNION { { Register(x, d, ids) : ids \in Handed(d) } : d \in states }

Registered(e) ==
    LET first == Registering({files}, Files(e)[1])
    IN  IF Len(Files(e)) = 1 THEN first ELSE Registering(first, Files(e)[2])

Analyse(e, t, assigned) ==
    \E file \in Looked(Closed(e, t)) :
        /\ known' = [reached  |-> e.what # "leave",
                     live     |-> (known.live \ Dying(e, t, file)) \cup Range(Fresh(e.kinds)),
                     contents |-> [x \in Address |->
                                      IF x \in Dying(e, t, file) \/ (x = t /\ assigned)
                                      THEN Content ELSE known.contents[x]]]
        /\ files' \in IF Registers(e) THEN Registered(e)
                      ELSE {IF file = None THEN files ELSE RemoveAddr(file, files)}

-----------------------------------------------------------------------------
(*
The cases of the contract that are left once the program has tested the result:
the run's own among them describes it, and without one the analysis follows a
case that returns the same, or has no state for the run.
*)
Followed(job, real) ==
    LET same == { e \in job.said : e.failed = real.failed }
    IN  IF real \in job.said THEN {real}
        ELSE IF same = {} THEN {Leave}
        ELSE same

(* A legal call that is not reported. *)
Call(job) ==
    /\ Running
    /\ \E t \in Targets(job.param), real \in job.real : \E said \in Followed(job, real) :
        /\ Accepted(job, t)
        /\ Possible(real, t) /\ Possible(said, t)
        /\ Run(real, t, job.writes)
        /\ Analyse(said, t, job.param.assigned)
        /\ verdict' = [Fine EXCEPT !.left = real = Leave]

(* A call that is wrong or reported ends the run. *)
Stop(job) ==
    /\ Running
    /\ \E t \in Targets(job.param) :
        /\ ~Accepted(job, t)
        /\ verdict' = Judge(job, t)
        /\ UNCHANGED <<heap, kernel, known, files>>

(* The program stores a value in a buffer. *)
Store(x, value) ==
    /\ Running /\ heap[x].kind = "Memory" /\ heap[x].live
    /\ heap' = [heap EXCEPT ![x].content = value]
    /\ known' = [known EXCEPT !.contents[x] = {value}]
    /\ UNCHANGED <<kernel, files, verdict>>

Next ==
    \/ \E job \in Jobs : Call(job)
    \/ \E job \in Jobs : Stop(job)
    \/ \E x \in Address, value \in Content : Store(x, value)

Spec == Init /\ [][Next]_vars

-----------------------------------------------------------------------------
(*
A call that the library does not allow (a dead object, a closed number, a
buffer that is too small) is reported by a clause of the function's contract,
whatever calls made and freed the object before.  Like all that follows, this
is said of programs whose calls come to no outcome of Unfollowed: a failing
fclose closes a stream that its contract keeps (stdio.c:229-232).
*)
DeadUseReported == verdict.wrong => verdict.alarm

(*
A call that the library allows is reported only when the descriptor domain does
not know which file the number stands for: the contracts' clauses and the
resources they free agree with the objects the run still has.
*)
LegalUseSilent == verdict.alarm => verdict.wrong \/ verdict.vague

(*
While the run goes on the analysis has a state for it, and the resources that
the contracts have allocated and not freed are the objects that are live.
*)
SameResources ==
    Running => known.reached /\ known.live = { x \in Address : heap[x].live }

(*
The content of a buffer is one the analysis thinks possible: a function that
writes through a pointer has an assigns clause for it.
*)
ContentsDescribed == \A x \in known.live : heap[x].content \in known.contents[x]

(*
The descriptor domain still describes the kernel's table after streams,
directories and descriptors are opened and closed by their contracts.
*)
FilesDescribed == Describes(files, kernel)

=============================================================================
