---------------------------- MODULE FfiSoundness ----------------------------
(***************************************************************************)
(* A C stub analysed by Vicuna beside one of its runs.                     *)
(*                                                                         *)
(* Each step is a statement or an interface call of the stub.  The         *)
(* analysis applies the transfer function of FfiApi to its flow; the run   *)
(* does what the OCaml runtime would do, and the collector and the other   *)
(* OCaml threads act where they may.  The two are compared by Sim.         *)
(*                                                                         *)
(* Conditionals are analysed branch after branch: while one is open the    *)
(* run waits in the branch it takes until the analysis gets there.         *)
(***************************************************************************)
EXTENDS OcamlRuntime

CONSTANTS
  ArgShapes,          \* shapes an argument of the stub may be declared with
  AllocShapes,        \* shapes of the blocks the stub allocates
  Conditionals,       \* bound: the conditionals of the stub, never nested
  ForbidUnlockedReads,\* does the stub leave its roots alone when unlocked?
  ForbidEndRoots      \* does it stay away from Begin_roots/End_roots?

ASSUME ShapesAssumption ==
  /\ ArgShapes \subseteq (SUBSET Kind) \ {{}}
  /\ AllocShapes \subseteq (SUBSET (Kind \ {Imm})) \ {{}}
  /\ Conditionals \in Nat
  /\ ForbidUnlockedReads \in BOOLEAN
  /\ ForbidEndRoots \in BOOLEAN

VARIABLES
  flow,   \* the flow of the analysis at the current statement
  aside,  \* the flow of the other branch while a conditional is open
  phase,  \* "seq", or the branch being analysed: "then", "else"
  side,   \* the branch the run takes
  left,   \* the conditionals still to come
  mem,    \* what each location holds
  rooted, \* the locations registered as roots
  held,   \* does the stub hold the runtime lock?
  run     \* how the run is doing

analysis == <<flow, aside, phase, side, left>>
memory   == <<mem, rooted, held>>
vars     == <<analysis, memory, run>>

\* The rules of the interface a run can break under an alarm.
Breaking == {"inactive", "unlocked"}

\* "abandoned": the analysis has stopped before the end of the run.
\* "misuse": the run does something the domain makes no claim about.
\* "done": the stub has returned or raised an exception.
Run == {"ok", "abandoned", "misuse", "done"} \union Breaking

NoFlow == Unreachable([report |-> {}])

\* No conditional is open, or the analysis is in the branch the run takes.
Here == phase = "seq" \/ phase = side

\* The flow that describes the run.
Point == IF Here THEN flow ELSE aside

Running == run = "ok" /\ Here

-----------------------------------------------------------------------------
(* Init: the stub is entered with its arguments; the rest of its variables *)
(* are uninitialised C data.                                               *)

StartFlow ==
  [reach |-> TRUE, env |-> [l \in Loc |-> Absent], lock |-> "Locked",
   report |-> {}]

Declared == Vals \union Ptrs \union CharPtrs

\* The entries of a stub with the given arguments and their shapes.
InitEnv(args, sh) ==
  [l \in Loc |->
     CASE l \in args            -> ExecInitWithShape(ExecAdd(StartFlow, l), l, sh).env[l]
       [] l \in Declared \ args -> ExecAdd(StartFlow, l).env[l]
       [] OTHER                 -> Absent]

Init ==
  /\ \E args \in SUBSET Vals, sh \in ArgShapes :
       /\ flow = [StartFlow EXCEPT !.env = InitEnv(args, sh)]
       /\ \E kind \in [args -> sh] :
            mem = [l \in Loc |->
                     CASE l \in args            -> ValueOf(kind[l])
                       [] l \in Declared \ args -> CDatum
                       [] OTHER                 -> Absent]
  /\ aside = NoFlow
  /\ phase = "seq"
  /\ side = "then"
  /\ left = Conditionals
  /\ rooted = {}
  /\ held = TRUE
  /\ run = "ok"

-----------------------------------------------------------------------------
(* The shape of a step.                                                    *)

\* The run is over: nothing more is said about its memory.
EndRun(how) ==
  /\ run' = how
  /\ mem' = [l \in Loc |-> Absent]
  /\ rooted' = {}
  /\ held' = TRUE

\* The analysis moves to g and the run, if it is here, makes the step effect
\* unless its attempt goes wrong first.
Step(g, attempt, effect) ==
  /\ flow.reach
  /\ flow' = g
  /\ UNCHANGED <<aside, phase, side, left>>
  /\ CASE ~Running         -> UNCHANGED <<memory, run>>
       [] Running /\ attempt # "ok" -> EndRun(attempt)
       [] Running /\ attempt = "ok" ->
            IF g.reach THEN effect /\ run' = "ok" ELSE EndRun("abandoned")

Keep == UNCHANGED memory

Store(l, d) == mem' = [mem EXCEPT ![l] = d] /\ UNCHANGED <<rooted, held>>

\* A collection, then a fresh value of kind k in x.
CollectAndStore(x, k) ==
  /\ \E S \in SUBSET Unprotected(mem, rooted) :
       mem' = [Collected(mem, rooted, S) EXCEPT ![x] = ValueOf(k)]
  /\ UNCHANGED <<rooted, held>>

\* How an attempt goes: the runtime must be locked, then the value usable,
\* then of a kind the operation is meant for.
NeedLock == IF held THEN "ok" ELSE "unlocked"

NeedUsable(l) == IF Usable(mem[l]) THEN "ok" ELSE "inactive"

NeedFollow(p) == IF mem[p].moved THEN "inactive" ELSE "ok"

NeedBlockOf(v, kinds) ==
  Then(NeedLock, Then(NeedUsable(v), Legal(mem[v].kind \in kinds)))

\* Reading a heap pointer while another thread may be collecting.
MayRead(d) == Legal(ForbidUnlockedReads => (held \/ ~d.heap))

-----------------------------------------------------------------------------
(* Plain C statements.                                                     *)

Copy(x, y) ==
  Step(CopyVal(flow, x, y), MayRead(mem[y]), Store(x, mem[y]))

Constant(x) == Step(AssignConst(flow, x), "ok", Store(x, CDatum))

Binop(x, y, z) ==
  Step(AssignBinop(flow, x, y, z),
       Then(MayRead(mem[y]), MayRead(mem[z])),
       Store(x, Arithmetic(mem[y], mem[z])))

Load(x, p) ==
  Step(LoadPtr(flow, x, p),
       Then(NeedFollow(p),
       Then(Legal(Holds(mem, CellOf[p])), MayRead(mem[CellOf[p]]))),
       Store(x, mem[CellOf[p]]))

\* A field keeps its kind: a store of another kind is ill typed.
SameKind(p, w) ==
  Legal(Holds(mem, CellOf[p]) /\ mem[CellOf[p]].kind = mem[w].kind)

Assign(p, w) ==
  Step(StorePtr(flow, p, w),
       Then(NeedFollow(p), Then(SameKind(p, w), MayRead(mem[w]))),
       Store(CellOf[p], mem[w]))

ReadChar(s) == Step(LoadChar(flow, s), NeedFollow(s), Keep)

\* A call of a C function without a body, assumed to do nothing with x.
ExtCall(x) == Step(ExecExtCallArg(flow, x), NeedFollow(x), Keep)

-----------------------------------------------------------------------------
(* Values.                                                                 *)

ValLong(x) == Step(ValOfLong(flow, x), "ok", Store(x, ValueOf(Imm)))

LongVal(v) == Step(ValAsLong(flow, v), Legal(mem[v].kind = Imm), Keep)

Inspect(v, kinds) == Step(CamlInspect(flow, v, kinds), NeedBlockOf(v, kinds), Keep)

Field(x, v, index) ==
  Step(ReadField(flow, x, v, index), NeedBlockOf(v, StdBlock),
       \E k \in FieldOf[mem[v].kind] : Store(x, ValueOf(k)))

AddrField(p, v, index) ==
  Step(CamlField(flow, p, v, index), NeedBlockOf(v, StdBlock),
       /\ \E k \in FieldOf[mem[v].kind] :
            mem' = [mem EXCEPT ![CellOf[p]] = ValueOf(k), ![p] = HeapPointer]
       /\ rooted' = rooted \ {CellOf[p]}
       /\ UNCHANGED held)

SetField(v, w, index) ==
  Step(CamlSetField(flow, v, w, index),
       Then(NeedLock, Then(NeedUsable(v), Then(NeedUsable(w),
       Then(Legal(mem[v].kind \in StdBlock),
            Legal(mem[w].kind \in FieldOf[mem[v].kind]))))),
       Keep)

\* The status of w is not looked at: a stale w is outside the claim.
Modify(p, w) ==
  Step(CamlModify(flow, p, w),
       Then(NeedLock, Then(NeedFollow(p), Then(Legal(Holds(mem, CellOf[p])),
       Then(NeedUsable(CellOf[p]),
       Then(SameKind(p, w), Legal(Usable(mem[w]))))))),
       Store(CellOf[p], mem[w]))

StringVal(s, v) ==
  Step(ValAsString(flow, s, v), NeedBlockOf(v, {Str}), Store(s, HeapPointer))

-----------------------------------------------------------------------------
(* Allocation, roots, lock, exceptions.                                    *)

Alloc(x, shape) ==
  Step(CamlAlloc(flow, x, shape), NeedLock,
       \E k \in shape : CollectAndStore(x, k))

\* The status of v is not looked at either.
SomeOf(v) == {k \in StdBlock : mem[v].kind \in FieldOf[k]}

AllocSome(x, v) ==
  Step(CamlAllocSome(flow, x, v),
       Then(NeedLock, Legal(Usable(mem[v]) /\ SomeOf(v) # {})),
       \E k \in SomeOf(v) : CollectAndStore(x, k))

Param(x) ==
  Step(CamlParam(flow, x), "ok",
       rooted' = rooted \union {x} /\ UNCHANGED <<mem, held>>)

Local(x) ==
  Step(CamlLocal(flow, x), "ok",
       /\ mem' = [mem EXCEPT ![x] = ValueOf(Imm)]
       /\ rooted' = rooted \union {x}
       /\ UNCHANGED held)

Declare(x) ==
  Step(Redeclare(flow, x), "ok",
       /\ mem' = [mem EXCEPT ![x] = CDatum]
       /\ rooted' = rooted \ {x}
       /\ UNCHANGED held)

\* The runtime forgets the roots of a Begin_roots block at its end.
EndRootsOf(x) ==
  Step(EndRoots(flow), Legal(held /\ ~ForbidEndRoots),
       rooted' = rooted \ {x} /\ UNCHANGED <<mem, held>>)

\* _ffi_unregister_root: with the lock held, or x would be exposed at once.
Unregister(x) ==
  Step(ExecUnregisterRoot(flow, x), Legal(held),
       rooted' = rooted \ {x} /\ UNCHANGED <<mem, held>>)

NamedValue(p) ==
  Step(CamlNamedValue(flow, p), "ok",
       /\ \E k \in Kind :
            mem' = [mem EXCEPT ![CellOf[p]] = ValueOf(k), ![p] = CDatum]
       /\ rooted' = rooted \union {CellOf[p]}
       /\ UNCHANGED held)

EnterBlocking ==
  Step(CamlEnterBlockingSection(flow), NeedLock,
       /\ \E S \in SUBSET Unprotected(mem, rooted) :
            mem' = Collected(mem, rooted, S)
       /\ held' = FALSE
       /\ UNCHANGED rooted)

LeaveBlocking ==
  Step(CamlLeaveBlockingSection(flow), Legal(~held),
       held' = TRUE /\ UNCHANGED <<mem, rooted>>)

\* The other threads of the program collect when the lock is free.
ConcurrentGC ==
  /\ run = "ok"
  /\ ~held
  /\ \E S \in SUBSET Unprotected(mem, rooted) : mem' = Collected(mem, rooted, S)
  /\ UNCHANGED <<analysis, rooted, held, run>>

\* An exception leaves the stub: the run ends here.
Leave(g, attempt) ==
  /\ flow.reach
  /\ flow' = g
  /\ UNCHANGED <<aside, phase, side, left>>
  /\ IF Running THEN EndRun(Then(attempt, "done"))
     ELSE UNCHANGED <<memory, run>>

Raise           == Leave(CamlRaise(flow), NeedLock)
RaiseWithArg(v) == Leave(CamlRaiseWithArg(flow, v), Then(NeedLock, NeedFollow(v)))
FailwithValue(v) == Leave(CamlFailwithValue(flow, v), NeedBlockOf(v, {Str}))

\* A function of the interface that is not supported.
Unimplemented == Step(EvalUnimplemented(flow), "ok", Keep)

-----------------------------------------------------------------------------
(* Conditionals, nested one deep.                                          *)

\* Opening a conditional with the flows of its branches; the run takes one
\* of taken, unless its condition makes no sense.
Open(yes, no, attempt, taken) ==
  /\ left > 0
  /\ left' = left - 1
  /\ phase = "seq"
  /\ flow.reach
  /\ phase' = "then"
  /\ flow' = yes
  /\ aside' = no
  /\ CASE run # "ok" -> side' = "then" /\ UNCHANGED <<memory, run>>
       [] run = "ok" /\ attempt # "ok" -> side' = "then" /\ EndRun(attempt)
       [] run = "ok" /\ attempt = "ok" ->
            \E branch \in taken :
              /\ side' = branch
              /\ IF (IF branch = "then" THEN yes ELSE no).reach
                   THEN UNCHANGED <<memory, run>> ELSE EndRun("abandoned")

\* A test on C data: the analysis does not know, the run goes either way.
If == Open(flow, flow, "ok", {"then", "else"})

\* if (Is_block(v)): C data has no answer to give.
IfIsBlock(v) ==
  Open(CamlIsBlock(flow, v, TRUE), CamlIsBlock(flow, v, FALSE),
       Legal(mem[v].kind # NonValue),
       {IF mem[v].kind = Imm THEN "else" ELSE "then"})

Else ==
  /\ phase = "then"
  /\ phase' = "else"
  /\ flow' = aside
  /\ aside' = flow
  /\ UNCHANGED <<side, left, memory, run>>

EndIf ==
  /\ phase = "else"
  /\ phase' = "seq"
  /\ flow' = JoinFlow(aside, flow)
  /\ aside' = NoFlow
  /\ side' = "then"
  /\ UNCHANGED <<left, memory, run>>

-----------------------------------------------------------------------------
Statement ==
  \/ \E x, y \in Vals : Copy(x, y)
  \/ \E x \in Vals : Constant(x)
  \/ \E x, y, z \in Vals : Binop(x, y, z)
  \/ \E x \in Vals, p \in Ptrs : Load(x, p) \/ Assign(p, x)
  \/ \E s \in CharPtrs : ReadChar(s)
  \/ \E x \in Vals : ExtCall(x)

ValueCall ==
  \/ \E x \in Vals : ValLong(x) \/ LongVal(x)
  \/ \E v \in Vals, kinds \in AllocShapes : Inspect(v, kinds)
  \/ \E x, v \in Vals, index \in BOOLEAN :
       Field(x, v, index) \/ SetField(v, x, index)
  \/ \E p \in Ptrs \ Named, v \in Vals, index \in BOOLEAN :
       AddrField(p, v, index)
  \/ \E p \in Ptrs, v \in Vals : Modify(p, v)
  \/ \E s \in CharPtrs, v \in Vals : StringVal(s, v)

RuntimeCall ==
  \/ \E x \in Vals, shape \in AllocShapes : Alloc(x, shape)
  \/ \E x, v \in Vals : AllocSome(x, v)
  \/ \E x \in Vals : Param(x) \/ Local(x) \/ Declare(x)
  \/ \E x \in Vals : Unregister(x) \/ EndRootsOf(x)
  \/ \E p \in Named : NamedValue(p)
  \/ EnterBlocking \/ LeaveBlocking
  \/ Raise \/ (\E v \in Vals : RaiseWithArg(v) \/ FailwithValue(v))
  \/ Unimplemented

Conditional == If \/ (\E v \in Vals : IfIsBlock(v)) \/ Else \/ EndIf

Next == Statement \/ ValueCall \/ RuntimeCall \/ Conditional \/ ConcurrentGC

Spec == Init /\ [][Next]_vars

-----------------------------------------------------------------------------
(* Properties.                                                             *)

TypeOK ==
  /\ flow \in Flow
  /\ aside \in Flow
  /\ phase \in {"seq", "then", "else"}
  /\ side \in {"then", "else"}
  /\ left \in 0 .. Conditionals
  /\ mem \in Memory
  /\ rooted \subseteq Loc
  /\ held \in BOOLEAN
  /\ run \in Run
  /\ run = "ok" => \A l \in Declared : Holds(mem, l)

\* As long as the run keeps to the rules, the flow describes it: no value
\* the analysis calls active has been moved by the collector, no value it
\* calls stale was protected all along, roots, shapes and lock are those of
\* the run (domain.ml, all transfer functions together).
Described == run = "ok" => Sim(Point, mem, rooted, held)

\* Precision: when no registration is in doubt, a value is only called stale
\* after a collection that no root protected it from, or computed from such
\* a value (domain.ml 508-519, 145-156).
StaleWasExposed ==
  (/\ run = "ok"
   /\ \A l \in Vals : Point.env[l].root # TOP) =>
     \A l \in Vals : Point.env[l].status = "Stale" => mem[l].exposed

\* The step in which a run breaks a rule is the one the analysis reports: it
\* stops there, or says that the value may be inactive (domain.ml 521-539,
\* 592-600).
ReportedAtOnce ==
  [][ (run = "ok" /\ run' \in Breaking) =>
        \/ ~flow'.reach /\ flow'.report \intersect ErrorAlarm # {}
        \/ run' = "inactive" /\ "maybe_non_active_value" \in flow'.report ]_vars

\* The double-root warning is never wrong: a variable reported as registered
\* twice was a root already (domain.ml 542-557).
DoubleRootIsReal ==
  [][ \A x \in Vals :
        (/\ Running
         /\ Param(x)
         /\ "double_root" \in flow'.report \ flow.report) => x \in rooted ]_vars

Messages == Alarm \union Diagnostic

Final == ErrorAlarm \union Diagnostic

Explains ==
  [b \in Breaking |->
     IF b = "inactive" THEN Final \union {"maybe_non_active_value"} ELSE Final]

Outcome ==
  CASE run = "ok" -> "running"
    [] run \in {"misuse", "done"} -> "over"
    [] OTHER -> run

Contract ==
  INSTANCE FfiContract WITH
    Message <- Messages, Breaking <- Breaking, Explains <- Explains,
    Final <- Final, report <- flow.report \union aside.report,
    outcome <- Outcome

\* What is known of a stub's run at the end of its analysis: see FfiContract.
KeepsContract == Contract!Spec
=============================================================================
