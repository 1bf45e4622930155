--------------------------- MODULE FfiLoop_proofs ---------------------------
(***************************************************************************)
(* The flow after a loop describes every run that leaves it, and a rule    *)
(* broken in any iteration is in its report, for every body, unrolling and *)
(* widening delay, if no for loop with an increment continues.             *)
(* The flow at the head where the iteration stops is a fixpoint.           *)
(***************************************************************************)
EXTENDS FfiLoop, FfiApi_proofs, WellFoundedInduction

-----------------------------------------------------------------------------
(* Induction, on sets of numbers.                                          *)

LEMMA NatSetInduction ==
  ASSUME NEW T, 0 \in T, \A n \in Nat : n \in T => n + 1 \in T
  PROVE  Nat \subseteq T
<1> DEFINE R == OpToRel(<, Nat)
           U == Nat \ T
<1>1. SUFFICES ASSUME U # {} PROVE FALSE
  OBVIOUS
<1>2. IsWellFoundedOn(R, Nat)
  BY NatLessThanWellFounded
<1>3. U \subseteq Nat
  OBVIOUS
<1>4. \E n \in U : \A m \in U : ~(<<m, n>> \in R)
  <2> HIDE DEF R, U
  <2> QED BY <1>1, <1>2, <1>3, WFMin
<1>5. PICK n \in U : \A m \in U : ~(<<m, n>> \in R)
  BY <1>4
<1>6. n \in Nat /\ n # 0
  OBVIOUS
<1>7. PICK m \in Nat : n = m + 1
  <2>1. n - 1 \in Nat /\ n = (n - 1) + 1
    BY <1>6
  <2> QED BY <2>1
<1>8. m \in U
  BY <1>7
<1>9. <<m, n>> \in R
  BY <1>6, <1>7 DEF OpToRel
<1> QED BY <1>5, <1>8, <1>9

-----------------------------------------------------------------------------
(* The analysis of the body, statement by statement.                       *)

TokenFlow == [cur : Flow, brk : Flow, cont : Flow]

\* The flows between the statements of the body, which starts in t.
Trace(t, tr) ==
  /\ tr \in [0 .. Len(Code) -> TokenFlow]
  /\ tr[0] = t
  /\ \A i \in 1 .. Len(Code) : tr[i] = Exec(tr[i - 1], Code[i])

CodeOK ==
  /\ Len(Code) \in Nat
  /\ \A i \in 1 .. Len(Code) : Code[i] \in Statement \union Jump

\* The code of a loop is a sequence of statements and jumps.
LEMMA CodeShape ==
  ASSUME loop \in Loops
  PROVE  CodeOK
<1>1. /\ loop.body \in Seq(Statement \union Jump)
      /\ loop.incr \in Seq(Statement \union Jump)
  BY LoopAssumption
<1>2. Code \in Seq(Statement \union Jump)
  BY <1>1 DEF Code
<1> HIDE DEF Code
<1> QED BY <1>2 DEF CodeOK

\* The body has a trace from every flow, if statements keep flows.
LEMMA TraceExists ==
  ASSUME CodeOK, NEW t \in TokenFlow,
         \A u \in TokenFlow, s \in Statement \union Jump : Exec(u, s) \in TokenFlow
  PROVE  \E tr : Trace(t, tr)
<1> DEFINE Part(n, tr) ==
             /\ tr \in [0 .. n -> TokenFlow]
             /\ tr[0] = t
             /\ \A i \in 1 .. n : tr[i] = Exec(tr[i - 1], Code[i])
           T == {n \in Nat : n <= Len(Code) => \E tr : Part(n, tr)}
<1>1. 0 \in T
  <2>1. Part(0, [i \in 0 .. 0 |-> t])
    OBVIOUS
  <2> HIDE DEF Part
  <2> QED BY <2>1
<1>2. ASSUME NEW n \in Nat, n \in T
      PROVE  n + 1 \in T
  <2> SUFFICES ASSUME n + 1 <= Len(Code)
               PROVE  \E tr : Part(n + 1, tr)
    OBVIOUS
  <2>1. PICK tr : Part(n, tr)
    BY <1>2 DEF CodeOK
  <2> DEFINE tn == Exec(tr[n], Code[n + 1])
             tr2 == [i \in 0 .. (n + 1) |-> IF i = n + 1 THEN tn ELSE tr[i]]
  <2>2. tn \in TokenFlow
    BY <2>1 DEF CodeOK
  <2>3. tr2 \in [0 .. (n + 1) -> TokenFlow] /\ tr2[0] = t /\ tr2[n + 1] = tn /\ tr2[n] = tr[n]
    BY <2>1, <2>2
  <2>4. ASSUME NEW i \in 1 .. (n + 1)
        PROVE  tr2[i] = Exec(tr2[i - 1], Code[i])
    <3>1. CASE i = n + 1
      BY <2>3, <3>1
    <3>2. CASE i # n + 1
      <4>1. i \in 1 .. n /\ i \in 0 .. (n + 1) /\ i - 1 \in 0 .. (n + 1) /\ i - 1 # n + 1
        BY <3>2
      <4>2. tr2[i] = tr[i] /\ tr2[i - 1] = tr[i - 1]
        BY <3>2, <4>1
      <4> QED BY <2>1, <4>1, <4>2
    <3> QED BY <3>1, <3>2
  <2>5. Part(n + 1, tr2)
    BY <2>3, <2>4
  <2> QED BY <2>5
<1>3. Len(Code) \in T
  <2> HIDE DEF T
  <2> QED BY <1>1, <1>2, NatSetInduction DEF CodeOK
<1>4. PICK tr : Part(Len(Code), tr)
  BY <1>3
<1> QED BY <1>4 DEF Trace

\* And what the body ends in is the end of that trace.
LEMMA BodyEnd ==
  ASSUME CodeOK, NEW t, NEW tr, Trace(t, tr)
  PROVE  ExecBody(t) = {tr[Len(Code)]}
<1> DEFINE N == Len(Code)
           g == [i \in 0 .. N |-> {tr[i]}]
           Fixed(f) == f = [i \in 0 .. N |->
                              IF i = 0 THEN {t} ELSE {Exec(u, Code[i]) : u \in f[i - 1]}]
<1>0. N \in Nat
  BY DEF CodeOK
<1>1. Fixed(g)
  <2>1. ASSUME NEW i \in 0 .. N
        PROVE  g[i] = IF i = 0 THEN {t} ELSE {Exec(u, Code[i]) : u \in g[i - 1]}
    <3>1. CASE i = 0
      BY <3>1 DEF Trace
    <3>2. CASE i # 0
      <4>1. i \in 1 .. N /\ i - 1 \in 0 .. N
        BY <3>2
      <4>2. tr[i] = Exec(tr[i - 1], Code[i]) /\ g[i - 1] = {tr[i - 1]}
        BY <4>1 DEF Trace
      <4> QED BY <3>2, <4>2
    <3> QED BY <3>1, <3>2
  <2> QED BY <2>1
<1>2. ASSUME NEW f, Fixed(f)
      PROVE  f[N] = {tr[N]}
  <2> DEFINE T == {n \in Nat : n <= N => f[n] = {tr[n]}}
  <2>1. \A i \in 0 .. N : f[i] = IF i = 0 THEN {t} ELSE {Exec(u, Code[i]) : u \in f[i - 1]}
    BY <1>2
  <2> HIDE DEF Fixed
  <2>2. 0 \in T
    <3>1. 0 \in 0 .. N
      BY <1>0
    <3>2. f[0] = {t} /\ tr[0] = t
      BY <2>1, <3>1 DEF Trace
    <3> QED BY <3>2
  <2>3. ASSUME NEW n \in Nat, n \in T PROVE n + 1 \in T
    <3> SUFFICES ASSUME n + 1 <= N PROVE f[n + 1] = {tr[n + 1]}
      OBVIOUS
    <3>1. f[n] = {tr[n]} /\ n + 1 \in 0 .. N /\ n + 1 \in 1 .. N /\ (n + 1) - 1 = n /\ n + 1 # 0
      BY <2>3, <1>0
    <3>2. f[n + 1] = {Exec(u, Code[n + 1]) : u \in f[n]}
      BY <2>1, <3>1
    <3>3. tr[n + 1] = Exec(tr[n], Code[n + 1])
      BY <3>1 DEF Trace
    <3> QED BY <3>1, <3>2, <3>3
  <2>4. N \in T
    <3> HIDE DEF T
    <3> QED BY <1>0, <2>2, <2>3, NatSetInduction
  <2> QED BY <1>0, <2>4
<1>3. ExecBody(t) = (CHOOSE f : Fixed(f))[N]
  BY DEF ExecBody
<1> HIDE DEF Fixed
<1>4. Fixed(CHOOSE f : Fixed(f))
  BY <1>1
<1> QED BY <1>2, <1>3, <1>4

-----------------------------------------------------------------------------
(* What covers a flow describes every run the flow describes.              *)

Covered(f, g) ==
  \A m \in Memory, r \in SUBSET Loc, h \in BOOLEAN : Sim(f, m, r, h) => Sim(g, m, r, h)

LEMMA CoveredTrans ==
  ASSUME NEW f, NEW g, NEW h, Covered(f, g), Covered(g, h)
  PROVE  Covered(f, h)
BY DEF Covered

\* A flow that differs in its report only.
LEMMA AlikeCovers ==
  ASSUME NEW f, NEW g, f.reach => g.reach /\ g.env = f.env /\ g.lock = f.lock
  PROVE  Covered(f, g)
BY DEF Covered, Sim

LEMMA JoinCovers ==
  ASSUME NEW f \in Flow, NEW g \in Flow
  PROVE  /\ JoinFlow(f, g) \in Flow
         /\ JoinFlow(f, g).report = f.report \union g.report
         /\ Covered(f, JoinFlow(f, g))
         /\ Covered(g, JoinFlow(f, g))
<1>1. JoinFlow(f, g) \in Flow /\ JoinFlow(f, g).report = f.report \union g.report
  BY JoinFlowFlow
<1>2. ASSUME NEW m \in Memory, NEW r \in SUBSET Loc, NEW h \in BOOLEAN
      PROVE  Sim(f, m, r, h) \/ Sim(g, m, r, h) => Sim(JoinFlow(f, g), m, r, h)
  BY JoinSim
<1> QED BY <1>1, <1>2 DEF Covered

\* What Flow.subset compares.
LEMMA SubsetCovers ==
  ASSUME NEW f \in Flow, NEW g \in Flow, FlowSubset(f, g)
  PROVE  Covered(f, g)
<1> SUFFICES ASSUME NEW m \in Memory, NEW r \in SUBSET Loc, NEW h \in BOOLEAN,
                    Sim(f, m, r, h)
             PROVE  Sim(g, m, r, h)
  BY DEF Covered
<1>1. g.reach /\ EnvSubset(f.env, g.env) /\ ConstSubset(f.lock, g.lock)
  BY DEF Sim, FlowSubset
<1>2. g.lock \in {TOP, IF h THEN "Locked" ELSE "Unlocked"}
  BY <1>1 DEF Sim, ConstSubset, BOT, TOP
<1>3. ASSUME NEW l \in Loc, Holds(m, l)
      PROVE  g.env[l] # Absent /\ Agrees(g.env[l], m[l], l \in r, h)
  <2>1. f.env[l] # Absent /\ Agrees(f.env[l], m[l], l \in r, h) /\ f.env[l] \in ProperEntry
    BY <1>3, SimEntry
  <2>2. g.env[l] # Absent /\ EntrySubset(f.env[l], g.env[l])
    BY <1>1, <2>1 DEF EnvSubset
  <2>3. f.env[l].status # BOT /\ f.env[l].root # BOT
    BY <2>1, ProperEntryFields DEF ProperStatus, ProperRoot, Status, Roots, BOT, TOP
  <2>4. /\ g.env[l].status = TOP \/ g.env[l].status = f.env[l].status
        /\ g.env[l].root = TOP \/ g.env[l].root = f.env[l].root
        /\ f.env[l].shape \subseteq g.env[l].shape
    BY <2>2, <2>3 DEF EntrySubset, ConstSubset
  <2> QED BY <2>1, <2>2, <2>4 DEF Agrees, TOP
<1> QED BY <1>1, <1>2, <1>3 DEF Sim, Describes

LEMMA NoFlowFlow == NoFlow \in Flow /\ NoFlow.report = {} /\ ~NoFlow.reach
BY UnreachableFlow DEF NoFlow

-----------------------------------------------------------------------------
(* One statement, of the run and of the analysis.                          *)

\* The memory of the run; the variables of the stub always hold something.
MemoryOK ==
  /\ mem \in Memory
  /\ rooted \in SUBSET Loc
  /\ held \in BOOLEAN
  /\ \A l \in Vals : Holds(mem, l)

\* f describes the run where it stands.
Here(f) == Sim(f, mem, rooted, held)

LEMMA ValsFacts ==
  ASSUME MemoryOK, NEW x \in Vals
  PROVE  x \in Loc /\ Holds(mem, x) /\ mem[x] \in Data
BY LocFacts, MemoryHolds DEF MemoryOK

\* x = y
LEMMA CopySound ==
  ASSUME MemoryOK, NEW f \in Flow, Here(f), NEW x \in Vals, NEW y \in Vals,
         held \/ ~mem[y].heap, CopyVal(f, x, y).reach
  PROVE  Sim(CopyVal(f, x, y), [mem EXCEPT ![x] = mem[y]], rooted, held)
<1> DEFINE g == CopyVal(f, x, y)
<1>1. x \in Loc /\ y \in Loc /\ Holds(mem, x) /\ Holds(mem, y) /\ mem[y] \in Data
  BY ValsFacts
<1>2. Updates(f, g, x, Bind(StatusVar(f, y), RootAfter(f, x), ShapesVar(f, y)))
  BY <1>1, CopyValUpdates
<1>3. /\ mem[y].kind \in ShapesVar(f, y)
      /\ StatusVar(f, y) = "Active" => ~mem[y].moved
      /\ StatusVar(f, y) = "Untracked" => ~mem[y].heap
  BY <1>1, SimEntry DEF Here
<1>4. mem \in Memory /\ g.reach
  BY DEF MemoryOK
<1> HIDE DEF g
<1>5. Sim(g, [mem EXCEPT ![x] = mem[y]], rooted, held)
  BY <1>1, <1>2, <1>3, <1>4, SimAssign DEF Here
<1> QED BY <1>5 DEF g

\* x = Val_long(...)
LEMMA LongSound ==
  ASSUME MemoryOK, NEW f \in Flow, Here(f), NEW x \in Vals, ValOfLong(f, x).reach
  PROVE  /\ Sim(ValOfLong(f, x), [mem EXCEPT ![x] = ValueOf(Imm)], rooted, held)
         /\ ValueOf(Imm) \in Data
<1> DEFINE g == ValOfLong(f, x)
<1>1. x \in Loc /\ Holds(mem, x) /\ Imm \in Kind /\ {Imm} \in ProperShape
  BY ValsFacts, KindAssumption, ProperConstants
<1>2. Updates(f, g, x, Bind("Active", RootAfter(f, x), {Imm}))
  BY <1>1, CheckedRefl, ReturnValueUpdates DEF ValOfLong
<1>3. /\ ValueOf(Imm) \in Data /\ ValueOf(Imm).kind \in {Imm}
      /\ ~ValueOf(Imm).moved /\ ~ValueOf(Imm).heap
  BY <1>1, DataFacts
<1>4. mem \in Memory /\ g.reach /\ "Active" # "Untracked"
  BY DEF MemoryOK
<1> HIDE DEF g
<1>5. Sim(g, [mem EXCEPT ![x] = ValueOf(Imm)], rooted, held)
  BY <1>1, <1>2, <1>3, <1>4, SimAssign DEF Here
<1> QED BY <1>3, <1>5 DEF g

\* x = caml_alloc(...)
LEMMA AllocSound ==
  ASSUME MemoryOK, NEW f \in Flow, Here(f), NEW x \in Vals, held,
         CamlAlloc(f, x, StdBlock).reach,
         NEW k \in StdBlock, NEW S \in SUBSET Unprotected(mem, rooted)
  PROVE  Sim(CamlAlloc(f, x, StdBlock),
             [Collected(mem, rooted, S) EXCEPT ![x] = ValueOf(k)], rooted, held)
<1> DEFINE g == CamlAlloc(f, x, StdBlock)
           c == Collected(mem, rooted, S)
<1>0. /\ x \in Loc /\ Holds(mem, x) /\ k \in Kind /\ StdBlock \in ProperShape
      /\ mem \in Memory /\ rooted \in SUBSET Loc
  BY ValsFacts, KindAssumption, ProperConstants DEF MemoryOK
<1>1. Allocates(f, g, x, StdBlock)
  BY <1>0, CamlAllocAllocates
<1>2. PICK d \in Flow : /\ Collects(f, d)
                        /\ Updates(d, g, x, Bind("Active", RootAfter(d, x), StdBlock))
  BY <1>1 DEF Allocates
<1>3. g.reach /\ d.reach
  BY <1>2 DEF Updates
<1>4. c \in Memory /\ Holds(c, x)
  BY <1>0, CollectedMemory
<1>5. Describes(d.env, c, rooted, held)
  BY <1>0, <1>2, <1>3, CollectDescribes DEF Here
<1> HIDE DEF c, g
<1>6. Sim(d, c, rooted, held)
  BY <1>2, <1>3, <1>5 DEF Here, Sim, Collects
<1>7. ValueOf(k) \in Data /\ ValueOf(k).kind \in StdBlock /\ ~ValueOf(k).moved
  BY <1>0, DataFacts
<1>8. "Active" # "Untracked"
  OBVIOUS
<1>9. Sim(g, [c EXCEPT ![x] = ValueOf(k)], rooted, held)
  BY <1>0, <1>2, <1>3, <1>4, <1>6, <1>7, <1>8, SimAssign
<1> QED BY <1>9 DEF c, g

\* A look into v.
LEMMA InspectSound ==
  ASSUME MemoryOK, NEW f \in Flow, Here(f), NEW v \in Vals,
         CamlInspect(f, v, StdBlock).reach
  PROVE  Here(CamlInspect(f, v, StdBlock))
<1>1. Checked(f, CamlInspect(f, v, StdBlock))
  BY ValsFacts, AssertBlockOfChecked DEF CamlInspect
<1> QED BY <1>1, SimChecked DEF Here

\* CAMLparam1(x)
LEMMA RootSound ==
  ASSUME MemoryOK, NEW f \in Flow, Here(f), NEW x \in Vals, CamlParam(f, x).reach
  PROVE  Sim(CamlParam(f, x), mem, rooted \union {x}, held)
<1>1. x \in Loc /\ mem \in Memory /\ rooted \in SUBSET Loc
  BY ValsFacts DEF MemoryOK
<1>2. Registers(f, CamlParam(f, x), x)
  BY <1>1, CamlParamRegisters DEF CamlParam
<1> QED BY <1>1, <1>2, SimRegister DEF Here

\* x is a root no more.
LEMMA UnrootSound ==
  ASSUME MemoryOK, NEW f \in Flow, Here(f), NEW x \in Vals, held,
         ExecUnregisterRoot(f, x).reach
  PROVE  Sim(ExecUnregisterRoot(f, x), mem, rooted \ {x}, held)
<1> DEFINE g == ExecUnregisterRoot(f, x)
           e == Bind(f.env[x].status, "NotRooted", f.env[x].shape)
<1>0. /\ x \in Loc /\ Holds(mem, x) /\ mem[x] \in Data
      /\ mem \in Memory /\ rooted \in SUBSET Loc
  BY ValsFacts DEF MemoryOK
<1>1. g.reach /\ g \in Flow /\ e \in ProperEntry /\ Sets(f, g, x, e)
  BY <1>0, ExecUnregisterRootCases
<1> HIDE DEF g
<1>2. Agrees(f.env[x], mem[x], x \in rooted, held)
  BY <1>0, SimEntry DEF Here
<1>3. Agrees(e, mem[x], x \in rooted \ {x}, held)
  BY <1>2 DEF Agrees, Bind
<1> HIDE DEF e
<1>4. Updates(f, g, x, e)
  BY <1>0, <1>1, SetsUpdates
<1>5. \A k \in Loc : k # x => (k \in rooted \ {x} <=> k \in rooted)
  OBVIOUS
<1>6. Sim(g, [mem EXCEPT ![x] = mem[x]], rooted \ {x}, held)
  BY <1>0, <1>1, <1>3, <1>4, <1>5, SimUpdate DEF Here
<1>7. [mem EXCEPT ![x] = mem[x]] = mem
  BY <1>0 DEF Memory
<1> QED BY <1>6, <1>7 DEF g

\* caml_enter_blocking_section()
LEMMA EnterSound ==
  ASSUME MemoryOK, NEW f \in Flow, Here(f), CamlEnterBlockingSection(f).reach,
         NEW S \in SUBSET Unprotected(mem, rooted)
  PROVE  Sim(CamlEnterBlockingSection(f), Collected(mem, rooted, S), rooted, FALSE)
<1> DEFINE g == CamlEnterBlockingSection(f)
<1>1. /\ g.reach /\ g.lock = "Unlocked"
      /\ \E d \in Flow : Collects(f, d) /\ d.reach /\ g.env = d.env
  BY CamlEnterBlockingSectionCollects
<1>2. PICK d \in Flow : Collects(f, d) /\ d.reach /\ g.env = d.env
  BY <1>1
<1>3. Describes(d.env, Collected(mem, rooted, S), rooted, FALSE)
  BY <1>2, CollectDescribes DEF Here, MemoryOK
<1> QED BY <1>1, <1>2, <1>3 DEF Sim

\* caml_leave_blocking_section()
LEMMA LeaveSound ==
  ASSUME MemoryOK, NEW f \in Flow, Here(f)
  PROVE  Sim(CamlLeaveBlockingSection(f), mem, rooted, TRUE)
<1> DEFINE g == CamlLeaveBlockingSection(f)
<1>1. g.reach = f.reach /\ (g.reach => g.env = f.env /\ g.lock = "Locked")
  BY CamlLeaveBlockingSectionFlow
<1> HIDE DEF g
<1>2. Describes(f.env, mem, rooted, TRUE)
  BY DEF Here, Sim, Describes, Agrees
<1>3. Sim(g, mem, rooted, TRUE)
  BY <1>1, <1>2 DEF Here, Sim
<1> QED BY <1>3 DEF g

\* The other threads only move what the flow already calls stale.
LEMMA UnlockedCollection ==
  ASSUME MemoryOK, ~held, NEW S \in SUBSET Unprotected(mem, rooted),
         NEW f, Here(f)
  PROVE  Sim(f, Collected(mem, rooted, S), rooted, held)
<1> DEFINE c == Collected(mem, rooted, S)
<1>1. \A l \in Loc :
        /\ Holds(c, l) <=> Holds(mem, l)
        /\ Holds(mem, l) => /\ c[l].kind = mem[l].kind
                            /\ c[l].heap = mem[l].heap
                            /\ c[l].moved /\ ~mem[l].moved => l \notin rooted /\ mem[l].heap
  BY CollectedMemory DEF MemoryOK
<1> HIDE DEF c
<1>2. ASSUME NEW l \in Loc, Holds(c, l)
      PROVE  f.env[l] # Absent /\ Agrees(f.env[l], c[l], l \in rooted, held)
  <2>1. f.env[l] # Absent /\ Agrees(f.env[l], mem[l], l \in rooted, held)
    BY <1>1, <1>2 DEF Here, Sim, Describes
  <2>2. /\ c[l].kind = mem[l].kind /\ c[l].heap = mem[l].heap
        /\ c[l].moved /\ ~mem[l].moved => l \notin rooted /\ mem[l].heap
    BY <1>1, <1>2
  <2>3. "Active" \notin {"Stale", TOP}
    BY DEF TOP
  <2> QED BY <2>1, <2>2, <2>3 DEF Agrees
<1>3. Sim(f, c, rooted, held)
  BY <1>2 DEF Here, Sim, Describes
<1> QED BY <1>3 DEF c

-----------------------------------------------------------------------------
(* Any statement.                                                          *)

LEMMA StatementCases ==
  ASSUME NEW s \in Statement \union Jump
  PROVE  \/ s[1] = "copy" /\ s[2] \in Vals /\ s[3] \in Vals
         \/ s[1] \in {"long", "alloc", "inspect", "root", "unroot"} /\ s[2] \in Vals
         \/ s[1] \in {"enter", "leave"}
         \/ s[1] \in {"break", "continue"} /\ s \in Jump
BY DEF Statement, Jump

LEMMA StatementIsNoJump ==
  ASSUME NEW s \in Statement
  PROVE  s[1] \notin {"break", "continue"}
BY DEF Statement

LEMMA TokenFields ==
  ASSUME NEW t \in TokenFlow
  PROVE  t.cur \in Flow /\ t.brk \in Flow /\ t.cont \in Flow
BY DEF TokenFlow

LEMMA TokenCur ==
  ASSUME NEW t \in TokenFlow, NEW g
  PROVE  /\ [t EXCEPT !.cur = g].cur = g
         /\ [t EXCEPT !.cur = g].brk = t.brk
         /\ [t EXCEPT !.cur = g].cont = t.cont
         /\ g \in Flow => [t EXCEPT !.cur = g] \in TokenFlow
BY DEF TokenFlow

\* A function of the interface, as an update of T_cur.
Moves(t, u, g) ==
  /\ u \in TokenFlow
  /\ u.cur = g
  /\ u.brk = t.brk
  /\ u.cont = t.cont
  /\ Progress(t.cur, g)

LEMMA MovesCur ==
  ASSUME NEW t \in TokenFlow, NEW g, Progress(t.cur, g)
  PROVE  Moves(t, [t EXCEPT !.cur = g], g)
BY TokenCur DEF Moves, Progress

LEMMA ExecMoves ==
  ASSUME NEW t \in TokenFlow, NEW s \in Statement
  PROVE  /\ s[1] = "copy"    => Moves(t, Exec(t, s), CopyVal(t.cur, s[2], s[3]))
         /\ s[1] = "long"    => Moves(t, Exec(t, s), ValOfLong(t.cur, s[2]))
         /\ s[1] = "alloc"   => Moves(t, Exec(t, s), CamlAlloc(t.cur, s[2], StdBlock))
         /\ s[1] = "inspect" => Moves(t, Exec(t, s), CamlInspect(t.cur, s[2], StdBlock))
         /\ s[1] = "root"    => Moves(t, Exec(t, s), CamlParam(t.cur, s[2]))
         /\ s[1] = "unroot"  => Moves(t, Exec(t, s), ExecUnregisterRoot(t.cur, s[2]))
         /\ s[1] = "enter"   => Moves(t, Exec(t, s), CamlEnterBlockingSection(t.cur))
         /\ s[1] = "leave"   => Moves(t, Exec(t, s), CamlLeaveBlockingSection(t.cur))
<1> DEFINE f == t.cur
<1>0. /\ f \in Flow
      /\ s[1] = "copy" => s[2] \in Loc /\ s[3] \in Loc
      /\ s[1] \in {"long", "alloc", "inspect", "root", "unroot"} => s[2] \in Loc
  BY TokenFields, StatementCases, LocFacts
<1> HIDE DEF f
<1>1. ASSUME s[1] = "copy"
      PROVE  Moves(t, Exec(t, s), CopyVal(t.cur, s[2], s[3]))
  <2>1. Progress(f, CopyVal(f, s[2], s[3]))
    BY <1>0, <1>1, CopyValUpdates DEF Updates
  <2>2. Exec(t, s) = [t EXCEPT !.cur = CopyVal(t.cur, s[2], s[3])]
    BY <1>1 DEF Exec
  <2> QED BY <2>1, <2>2, MovesCur DEF f
<1>2. ASSUME s[1] = "long"
      PROVE  Moves(t, Exec(t, s), ValOfLong(t.cur, s[2]))
  <2>1. Imm \in Kind /\ {Imm} \in ProperShape
    BY KindAssumption, ProperConstants
  <2>2. Progress(f, ValOfLong(f, s[2]))
    BY <1>0, <1>2, <2>1, CheckedRefl, ReturnValueUpdates DEF ValOfLong, Updates
  <2>3. Exec(t, s) = [t EXCEPT !.cur = ValOfLong(t.cur, s[2])]
    BY <1>2 DEF Exec
  <2> QED BY <2>2, <2>3, MovesCur DEF f
<1>3. ASSUME s[1] = "alloc"
      PROVE  Moves(t, Exec(t, s), CamlAlloc(t.cur, s[2], StdBlock))
  <2>1. Allocates(f, CamlAlloc(f, s[2], StdBlock), s[2], StdBlock)
    BY <1>0, <1>3, CamlAllocAllocates, ProperConstants
  <2>2. Progress(f, CamlAlloc(f, s[2], StdBlock))
    BY <2>1, ProgressTrans DEF Allocates, Collects, Updates
  <2>3. Exec(t, s) = [t EXCEPT !.cur = CamlAlloc(t.cur, s[2], StdBlock)]
    BY <1>3 DEF Exec
  <2> QED BY <2>2, <2>3, MovesCur DEF f
<1>4. ASSUME s[1] = "inspect"
      PROVE  Moves(t, Exec(t, s), CamlInspect(t.cur, s[2], StdBlock))
  <2>1. Checked(f, CamlInspect(f, s[2], StdBlock))
    BY <1>0, <1>4, AssertBlockOfChecked DEF CamlInspect
  <2>2. Exec(t, s) = [t EXCEPT !.cur = CamlInspect(t.cur, s[2], StdBlock)]
    BY <1>4 DEF Exec
  <2> QED BY <2>1, <2>2, CheckedProgress, MovesCur DEF f
<1>5. ASSUME s[1] = "root"
      PROVE  Moves(t, Exec(t, s), CamlParam(t.cur, s[2]))
  <2>1. Progress(f, CamlParam(f, s[2]))
    BY <1>0, <1>5, CamlParamRegisters DEF CamlParam, Registers
  <2>2. Exec(t, s) = [t EXCEPT !.cur = CamlParam(t.cur, s[2])]
    BY <1>5 DEF Exec
  <2> QED BY <2>1, <2>2, MovesCur DEF f
<1>6. ASSUME s[1] = "unroot"
      PROVE  Moves(t, Exec(t, s), ExecUnregisterRoot(t.cur, s[2]))
  <2>1. Progress(f, ExecUnregisterRoot(f, s[2]))
    BY <1>0, <1>6, ExecUnregisterRootCases DEF Progress
  <2>2. Exec(t, s) = [t EXCEPT !.cur = ExecUnregisterRoot(t.cur, s[2])]
    BY <1>6 DEF Exec
  <2> QED BY <2>1, <2>2, MovesCur DEF f
<1>7. ASSUME s[1] = "enter"
      PROVE  Moves(t, Exec(t, s), CamlEnterBlockingSection(t.cur))
  <2>1. Progress(f, CamlEnterBlockingSection(f))
    BY <1>0, CamlEnterBlockingSectionCollects
  <2>2. Exec(t, s) = [t EXCEPT !.cur = CamlEnterBlockingSection(t.cur)]
    BY <1>7 DEF Exec
  <2> QED BY <2>1, <2>2, MovesCur DEF f
<1>8. ASSUME s[1] = "leave"
      PROVE  Moves(t, Exec(t, s), CamlLeaveBlockingSection(t.cur))
  <2>1. Progress(f, CamlLeaveBlockingSection(f))
    BY <1>0, CamlLeaveBlockingSectionFlow DEF Progress
  <2>2. Exec(t, s) = [t EXCEPT !.cur = CamlLeaveBlockingSection(t.cur)]
    BY <1>8 DEF Exec
  <2> QED BY <2>1, <2>2, MovesCur DEF f
<1> QED BY <1>1, <1>2, <1>3, <1>4, <1>5, <1>6, <1>7, <1>8

\* What a statement does to the tokens: the flows of the jumps only grow.
Grows(t, u) ==
  /\ u \in TokenFlow
  /\ Progress(t.cur, u.cur)
  /\ t.brk.report \subseteq u.brk.report /\ Covered(t.brk, u.brk)
  /\ t.cont.report \subseteq u.cont.report /\ Covered(t.cont, u.cont)

LEMMA SelfCovers == \A f : Covered(f, f)
BY DEF Covered

LEMMA ProgressRefl ==
  ASSUME NEW f \in Flow
  PROVE  Progress(f, f)
BY CheckedRefl, CheckedProgress

LEMMA BreakJoins ==
  ASSUME NEW t \in TokenFlow, NEW s, s[1] = "break"
  PROVE  /\ Grows(t, Exec(t, s))
         /\ Exec(t, s).cur = t.cur
         /\ Covered(t.cur, Exec(t, s).brk)
<1> DEFINE j == JoinFlow(t.brk, t.cur)
           u == Exec(t, s)
<1>1. t.cur \in Flow /\ t.brk \in Flow /\ t.cont \in Flow
  BY TokenFields
<1>2. /\ j \in Flow /\ j.report = t.brk.report \union t.cur.report
      /\ Covered(t.brk, j) /\ Covered(t.cur, j)
  BY <1>1, JoinCovers
<1>3. u = [t EXCEPT !.brk = j]
  BY DEF Exec, ExecJump
<1> HIDE DEF j
<1>4. u \in TokenFlow /\ u.cur = t.cur /\ u.brk = j /\ u.cont = t.cont
  BY <1>2, <1>3 DEF TokenFlow
<1> HIDE DEF u
<1>5. Grows(t, u)
  BY <1>1, <1>2, <1>4, SelfCovers, ProgressRefl DEF Grows
<1> QED BY <1>2, <1>4, <1>5 DEF u

LEMMA ContinueJoins ==
  ASSUME NEW t \in TokenFlow, NEW s, s[1] = "continue"
  PROVE  /\ Grows(t, Exec(t, s))
         /\ Exec(t, s).cur = t.cur
         /\ Covered(t.cur, Exec(t, s).cont)
<1> DEFINE j == JoinFlow(t.cont, t.cur)
           u == Exec(t, s)
<1>1. t.cur \in Flow /\ t.brk \in Flow /\ t.cont \in Flow
  BY TokenFields
<1>2. /\ j \in Flow /\ j.report = t.cont.report \union t.cur.report
      /\ Covered(t.cont, j) /\ Covered(t.cur, j)
  BY <1>1, JoinCovers
<1>3. u = [t EXCEPT !.cont = j]
  BY DEF Exec, ExecJump
<1> HIDE DEF j
<1>4. u \in TokenFlow /\ u.cur = t.cur /\ u.brk = t.brk /\ u.cont = j
  BY <1>2, <1>3 DEF TokenFlow
<1> HIDE DEF u
<1>5. Grows(t, u)
  BY <1>1, <1>2, <1>4, SelfCovers, ProgressRefl DEF Grows
<1> QED BY <1>2, <1>4, <1>5 DEF u

LEMMA ExecGrows ==
  ASSUME NEW t \in TokenFlow, NEW s \in Statement \union Jump
  PROVE  Grows(t, Exec(t, s))
<1>1. CASE s \in Statement
  <2>1. \E g : Moves(t, Exec(t, s), g)
    <3>1. s[1] \in {"copy", "long", "alloc", "inspect", "root", "unroot", "enter", "leave"}
      BY <1>1 DEF Statement
    <3> QED BY <1>1, <3>1, ExecMoves
  <2> QED BY <2>1, SelfCovers DEF Moves, Grows
<1>2. CASE s \in Jump
  <2>1. s[1] = "break" \/ s[1] = "continue"
    BY <1>2 DEF Jump
  <2> QED BY <2>1, BreakJoins, ContinueJoins
<1> QED BY <1>1, <1>2

\* What a statement of the run does, the flow after it describes.
LEMMA StatementSound ==
  ASSUME MemoryOK, NEW t \in TokenFlow, NEW s \in Statement, Here(t.cur),
         Attempt(s) = "ok", Effect(s), Exec(t, s).cur.reach
  PROVE  Here(Exec(t, s).cur)'
<1> DEFINE f == t.cur
           g == Exec(t, s).cur
<1>0. f \in Flow /\ Here(f) /\ g.reach /\ held \in BOOLEAN
  BY TokenFields DEF MemoryOK
<1>1. SUFFICES Sim(g, mem', rooted', held')
  BY DEF Here
<1> HIDE DEF f
<1>2. CASE s[1] = "copy"
  <2>1. s[2] \in Vals /\ s[3] \in Vals /\ g = CopyVal(f, s[2], s[3])
    BY <1>2, StatementCases, ExecMoves DEF Moves, f
  <2>2. held \/ ~mem[s[3]].heap
    BY <1>2 DEF Attempt, Legal
  <2>3. mem' = [mem EXCEPT ![s[2]] = mem[s[3]]] /\ rooted' = rooted /\ held' = held
    BY <1>2 DEF Effect
  <2> HIDE DEF g
  <2> QED BY <1>0, <2>1, <2>2, <2>3, CopySound
<1>3. CASE s[1] = "long"
  <2>1. s[2] \in Vals /\ g = ValOfLong(f, s[2])
    BY <1>3, StatementCases, ExecMoves DEF Moves, f
  <2>2. mem' = [mem EXCEPT ![s[2]] = ValueOf(Imm)] /\ rooted' = rooted /\ held' = held
    BY <1>3 DEF Effect
  <2> HIDE DEF g
  <2> QED BY <1>0, <2>1, <2>2, LongSound
<1>4. CASE s[1] = "alloc"
  <2>1. s[2] \in Vals /\ g = CamlAlloc(f, s[2], StdBlock)
    BY <1>4, StatementCases, ExecMoves DEF Moves, f
  <2>2. held
    BY <1>4 DEF Attempt
  <2>3. \E m \in Collections, k \in StdBlock : mem' = [m EXCEPT ![s[2]] = ValueOf(k)]
    BY <1>4 DEF Effect
  <2>4. PICK S \in SUBSET Unprotected(mem, rooted), k \in StdBlock :
          mem' = [Collected(mem, rooted, S) EXCEPT ![s[2]] = ValueOf(k)]
    BY <2>3 DEF Collections
  <2>5. rooted' = rooted /\ held' = held
    BY <1>4 DEF Effect
  <2> HIDE DEF g
  <2> QED BY <1>0, <2>1, <2>2, <2>4, <2>5, AllocSound
<1>5. CASE s[1] = "inspect"
  <2>1. s[2] \in Vals /\ g = CamlInspect(f, s[2], StdBlock)
    BY <1>5, StatementCases, ExecMoves DEF Moves, f
  <2>2. mem' = mem /\ rooted' = rooted /\ held' = held
    BY <1>5 DEF Effect
  <2> HIDE DEF g
  <2> QED BY <1>0, <2>1, <2>2, InspectSound DEF Here
<1>6. CASE s[1] = "root"
  <2>1. s[2] \in Vals /\ g = CamlParam(f, s[2])
    BY <1>6, StatementCases, ExecMoves DEF Moves, f
  <2>2. mem' = mem /\ rooted' = rooted \union {s[2]} /\ held' = held
    BY <1>6 DEF Effect
  <2> HIDE DEF g
  <2> QED BY <1>0, <2>1, <2>2, RootSound
<1>7. CASE s[1] = "unroot"
  <2>1. s[2] \in Vals /\ g = ExecUnregisterRoot(f, s[2])
    BY <1>7, StatementCases, ExecMoves DEF Moves, f
  <2>2. mem' = mem /\ rooted' = rooted \ {s[2]} /\ held' = held
    BY <1>7 DEF Effect
  <2>3. held
    BY <1>7 DEF Attempt, Legal
  <2> HIDE DEF g
  <2> QED BY <1>0, <2>1, <2>2, <2>3, UnrootSound
<1>8. CASE s[1] = "enter"
  <2>1. g = CamlEnterBlockingSection(f)
    BY <1>8, ExecMoves DEF Moves, f
  <2>2. mem' \in Collections /\ rooted' = rooted /\ held' = FALSE
    BY <1>8 DEF Effect
  <2>3. PICK S \in SUBSET Unprotected(mem, rooted) : mem' = Collected(mem, rooted, S)
    BY <2>2 DEF Collections
  <2> HIDE DEF g
  <2> QED BY <1>0, <2>1, <2>2, <2>3, EnterSound
<1>9. CASE s[1] = "leave"
  <2>1. g = CamlLeaveBlockingSection(f)
    BY <1>9, ExecMoves DEF Moves, f
  <2>2. mem' = mem /\ rooted' = rooted /\ held' = TRUE
    BY <1>9 DEF Effect
  <2> HIDE DEF g
  <2> QED BY <1>0, <2>1, <2>2, LeaveSound
<1>10. s[1] \in {"copy", "long", "alloc", "inspect", "root", "unroot", "enter", "leave"}
  BY DEF Statement
<1> QED BY <1>2, <1>3, <1>4, <1>5, <1>6, <1>7, <1>8, <1>9, <1>10

\* A jump leaves the memory alone.
LEMMA JumpEffect ==
  ASSUME NEW s \in Jump
  PROVE  /\ Attempt(s) = "ok"
         /\ Effect(s) => mem' = mem /\ rooted' = rooted /\ held' = held
<1>1. s[1] = "break" \/ s[1] = "continue"
  BY DEF Jump
<1>2. Attempt(s) = "ok"
  BY <1>1 DEF Attempt
<1>3. ASSUME Effect(s) PROVE mem' = mem /\ rooted' = rooted /\ held' = held
  BY <1>1, <1>3 DEF Effect
<1> QED BY <1>2, <1>3

\* What a report says of a broken rule.
Tells(report, how) ==
  report \intersect ErrorAlarm # {} \/ (how = "inactive" /\ "maybe_non_active_value" \in report)

\* A check that fails says so.
LEMMA FailureTells ==
  ASSUME NEW f, Here(f), NEW g, Progress(f, g), ~g.reach, NEW how
  PROVE  Tells(g.report, how)
BY DEF Here, Sim, Progress, Tells

LEMMA UnlockedTells ==
  ASSUME MemoryOK, NEW f, Here(f), ~held, NEW g, Progress(f, g),
         g.reach => f.lock = "Locked", NEW how
  PROVE  Tells(g.report, how)
<1>1. f.lock # "Locked"
  BY DEF Here, Sim, TOP
<1> QED BY <1>1, FailureTells

\* A value that is looked into although it is none or has moved.
LEMMA UnusableTells ==
  ASSUME MemoryOK, NEW f \in Flow, Here(f), NEW v \in Vals, ~Usable(mem[v]),
         NEW g, Progress(f, g), g.reach => Inspected(f, v), Warned(f, g, v)
  PROVE  Tells(g.report, "inactive")
<1>1. v \in Loc /\ Holds(mem, v)
  BY ValsFacts
<1>2. /\ mem[v].kind \in ShapesVar(f, v)
      /\ StatusVar(f, v) = "Active" => ~mem[v].moved
      /\ f.reach
  BY <1>1, SimEntry DEF Here, Sim
<1>3. CASE StatusVar(f, v) = TOP
  BY <1>2, <1>3 DEF Warned, Tells
<1>4. CASE StatusVar(f, v) # TOP /\ mem[v].moved
  BY <1>2, <1>4, FailureTells DEF Inspected
<1>5. CASE mem[v].kind = NonValue
  <2>1. ~HasOCamlShape(f, v)
    BY <1>2, <1>5, KindAssumption DEF HasOCamlShape, OCamlShape, ShapesVar
  <2> QED BY <2>1, FailureTells DEF Inspected
<1> QED BY <1>3, <1>4, <1>5 DEF Usable

\* A rule that a statement breaks is in the report after it.
LEMMA StatementTells ==
  ASSUME MemoryOK, NEW t \in TokenFlow, NEW s \in Statement \union Jump, Here(t.cur),
         Attempt(s) \in Breaking
  PROVE  Tells(Exec(t, s).cur.report, Attempt(s))
<1> DEFINE f == t.cur
           g == Exec(t, s).cur
<1>0. f \in Flow /\ Here(f) /\ held \in BOOLEAN
  BY TokenFields DEF MemoryOK
<1>1. s \in Statement
  BY JumpEffect DEF Breaking
<1>2. \A ok \in BOOLEAN : Legal(ok) \notin Breaking
  BY DEF Legal, Breaking
<1> HIDE DEF f
<1>3. CASE s[1] = "copy"
  <2>1. s[3] \in Vals
    BY <1>1, <1>3, StatementCases
  <2>2. mem[s[3]].heap \in BOOLEAN
    BY <2>1, ValsFacts, DatumFields
  <2>3. Attempt(s) = Legal(held \/ ~mem[s[3]].heap)
    BY <1>3 DEF Attempt
  <2> QED BY <1>0, <1>2, <2>2, <2>3
<1>4. CASE s[1] = "alloc"
  <2>1. s[2] \in Vals /\ g = CamlAlloc(f, s[2], StdBlock) /\ Progress(f, g)
    BY <1>1, <1>4, StatementCases, ExecMoves DEF Moves, f
  <2>2. ~held
    BY <1>4 DEF Attempt, Breaking
  <2>3. Allocates(f, g, s[2], StdBlock)
    BY <1>0, <2>1, LocFacts, ProperConstants, CamlAllocAllocates
  <2> HIDE DEF g
  <2>4. Tells(g.report, Attempt(s))
    BY <1>0, <2>1, <2>2, <2>3, UnlockedTells DEF Allocates
  <2> QED BY <2>4 DEF g
<1>5. CASE s[1] = "enter"
  <2>1. g = CamlEnterBlockingSection(f) /\ Progress(f, g)
    BY <1>1, <1>5, ExecMoves DEF Moves, f
  <2>2. ~held
    BY <1>5 DEF Attempt, Breaking
  <2>3. g.reach => f.lock = "Locked"
    BY <1>0, <2>1, CamlEnterBlockingSectionCollects
  <2> HIDE DEF g
  <2>4. Tells(g.report, Attempt(s))
    BY <1>0, <2>1, <2>2, <2>3, UnlockedTells
  <2> QED BY <2>4 DEF g
<1>6. CASE s[1] = "inspect"
  <2>1. s[2] \in Vals /\ g = CamlInspect(f, s[2], StdBlock) /\ Progress(f, g)
    BY <1>1, <1>6, StatementCases, ExecMoves DEF Moves, f
  <2>2. (g.reach => Inspected(f, s[2])) /\ Warned(f, g, s[2])
    BY <1>0, <2>1, LocFacts, AssertBlockOfChecked DEF CamlInspect
  <2> HIDE DEF g
  <2>3. CASE ~held
    <3>1. Tells(g.report, Attempt(s))
      BY <1>0, <2>1, <2>2, <2>3, UnlockedTells DEF Inspected
    <3> QED BY <3>1 DEF g
  <2>4. CASE held /\ ~Usable(mem[s[2]])
    <3>1. Attempt(s) = "inactive"
      BY <1>6, <2>4 DEF Attempt
    <3>2. Tells(g.report, Attempt(s))
      BY <1>0, <2>1, <2>2, <2>4, <3>1, UnusableTells
    <3> QED BY <3>2 DEF g
  <2>5. CASE held /\ Usable(mem[s[2]])
    <3>1. Attempt(s) = Legal(mem[s[2]].kind \in StdBlock)
      BY <1>6, <2>5 DEF Attempt
    <3>2. Attempt(s) \in {"ok", "misuse"}
      BY <3>1 DEF Legal
    <3> QED BY <3>2 DEF Breaking
  <2> QED BY <1>0, <2>3, <2>4, <2>5
<1>7. CASE s[1] \in {"long", "root", "unroot", "leave"}
  <2>1. Attempt(s) \in {"ok", Legal(held), Legal(~held)}
    BY <1>7 DEF Attempt
  <2>2. (~held) \in BOOLEAN /\ "ok" \notin Breaking
    BY DEF Breaking
  <2> QED BY <1>0, <1>2, <2>1, <2>2
<1>8. s[1] \in {"copy", "long", "alloc", "inspect", "root", "unroot", "enter", "leave"}
  BY <1>1 DEF Statement
<1> QED BY <1>3, <1>4, <1>5, <1>6, <1>7, <1>8

\* The run keeps its memory in order.
LEMMA EffectMemory ==
  ASSUME MemoryOK, NEW s \in Statement \union Jump, Effect(s)
  PROVE  MemoryOK'
<1>0. /\ mem \in Memory /\ rooted \in SUBSET Loc /\ held \in BOOLEAN
      /\ \A l \in Vals : Holds(mem, l)
  BY DEF MemoryOK
<1>1. held' \in BOOLEAN
  BY <1>0 DEF Effect
<1>2. rooted' \in SUBSET Loc
  <2>1. s[1] \in {"root", "unroot"} => s[2] \in Loc
    BY StatementCases, LocFacts
  <2> QED BY <1>0, <2>1 DEF Effect
<1>3. ASSUME NEW m \in Memory, \A l \in Vals : Holds(m, l), NEW x \in Vals, NEW d \in Data,
             mem' = [m EXCEPT ![x] = d]
      PROVE  MemoryOK'
  <2>1. x \in Loc /\ Vals \subseteq Loc
    BY LocFacts
  <2>2. mem' \in Memory /\ \A l \in Vals : Holds(mem', l)
    BY <1>3, <2>1, StoreMemory
  <2> QED BY <1>1, <1>2, <2>2 DEF MemoryOK
<1>4. ASSUME NEW m \in Collections
      PROVE  m \in Memory /\ \A l \in Vals : Holds(m, l)
  <2>1. PICK S \in SUBSET Unprotected(mem, rooted) : m = Collected(mem, rooted, S)
    BY DEF Collections
  <2> QED BY <1>0, <2>1, CollectedMemory, LocFacts
<1>5. CASE s[1] = "copy"
  <2>1. s[2] \in Vals /\ s[3] \in Vals
    BY <1>5, StatementCases
  <2>2. mem[s[3]] \in Data /\ mem' = [mem EXCEPT ![s[2]] = mem[s[3]]]
    BY <1>5, <2>1, ValsFacts DEF Effect
  <2> QED BY <1>0, <1>3, <2>1, <2>2
<1>6. CASE s[1] = "long"
  <2>1. s[2] \in Vals
    BY <1>6, StatementCases
  <2>2. ValueOf(Imm) \in Data /\ mem' = [mem EXCEPT ![s[2]] = ValueOf(Imm)]
    BY <1>6, KindAssumption, DataFacts DEF Effect
  <2> QED BY <1>0, <1>3, <2>1, <2>2
<1>7. CASE s[1] = "alloc"
  <2>1. s[2] \in Vals
    BY <1>7, StatementCases
  <2>2. \E m \in Collections, k \in StdBlock : mem' = [m EXCEPT ![s[2]] = ValueOf(k)]
    BY <1>7 DEF Effect
  <2>3. PICK m \in Collections, k \in StdBlock : mem' = [m EXCEPT ![s[2]] = ValueOf(k)]
    BY <2>2
  <2>4. ValueOf(k) \in Data
    BY KindAssumption, DataFacts
  <2> QED BY <1>3, <1>4, <2>1, <2>3, <2>4
<1>8. CASE s[1] = "enter"
  <2>1. mem' \in Collections
    BY <1>8 DEF Effect
  <2> QED BY <1>1, <1>2, <1>4, <2>1 DEF MemoryOK, Holds
<1>9. CASE s[1] \notin {"copy", "long", "alloc", "enter"}
  <2>1. mem' = mem
    BY <1>9 DEF Effect
  <2> QED BY <1>0, <1>1, <1>2, <2>1 DEF MemoryOK, Holds
<1> QED BY <1>5, <1>6, <1>7, <1>8, <1>9

-----------------------------------------------------------------------------
(* Along the body.                                                         *)

\* Reports grow, and the flows of the jumps cover what they covered.
Later(t, u) ==
  /\ t.cur.report \subseteq u.cur.report
  /\ t.brk.report \subseteq u.brk.report /\ Covered(t.brk, u.brk)
  /\ t.cont.report \subseteq u.cont.report /\ Covered(t.cont, u.cont)

LEMMA LaterTrans ==
  ASSUME NEW t, NEW u, NEW w, Later(t, u), Later(u, w)
  PROVE  Later(t, w)
<1>1. Covered(t.brk, w.brk) /\ Covered(t.cont, w.cont)
  BY CoveredTrans DEF Later
<1> QED BY <1>1 DEF Later

LEMMA TraceGrows ==
  ASSUME CodeOK, NEW t, NEW tr, Trace(t, tr), NEW i \in 0 .. Len(Code)
  PROVE  Later(tr[i], tr[Len(Code)])
<1> DEFINE T == {n \in Nat : i + n <= Len(Code) => Later(tr[i], tr[i + n])}
<1>1. 0 \in T
  <2>1. i + 0 = i
    OBVIOUS
  <2> QED BY <2>1, SelfCovers DEF Later
<1>2. ASSUME NEW n \in Nat, n \in T
      PROVE  n + 1 \in T
  <2> SUFFICES ASSUME i + (n + 1) <= Len(Code)
               PROVE  Later(tr[i], tr[i + (n + 1)])
    OBVIOUS
  <2>1. PICK k \in 1 .. Len(Code) : k = i + (n + 1) /\ k - 1 = i + n /\ k - 1 \in 0 .. Len(Code)
    BY DEF CodeOK
  <2>2. tr[k] = Exec(tr[k - 1], Code[k]) /\ tr[k - 1] \in TokenFlow
    BY <2>1 DEF Trace
  <2>3. Code[k] \in Statement \union Jump
    BY DEF CodeOK
  <2>4. Grows(tr[k - 1], tr[k])
    BY <2>2, <2>3, ExecGrows
  <2>5. Later(tr[k - 1], tr[k])
    BY <2>4 DEF Grows, Later, Progress
  <2>6. Later(tr[i], tr[k - 1])
    BY <1>2, <2>1 DEF CodeOK
  <2> QED BY <2>1, <2>5, <2>6, LaterTrans
<1>3. Nat \subseteq T
  <2> HIDE DEF T
  <2> QED BY <1>1, <1>2, NatSetInduction
<1>4. PICK n \in Nat : i + n = Len(Code)
  <2>1. Len(Code) - i \in Nat /\ i + (Len(Code) - i) = Len(Code)
    BY DEF CodeOK
  <2> QED BY <2>1
<1>5. n \in T
  <2> HIDE DEF T
  <2> QED BY <1>3, <1>4
<1> QED BY <1>4, <1>5 DEF CodeOK

\* What the body is analysed to from t, and the trace that leads there.
LEMMA BodyTrace ==
  ASSUME CodeOK, NEW t \in TokenFlow
  PROVE  \E tr : /\ Trace(t, tr)
                 /\ ExecBody(t) = {tr[Len(Code)]}
                 /\ tr[Len(Code)] \in TokenFlow
                 /\ Later(t, tr[Len(Code)])
<1>1. \A u \in TokenFlow, s \in Statement \union Jump : Exec(u, s) \in TokenFlow
  BY ExecGrows DEF Grows
<1>2. PICK tr : Trace(t, tr)
  BY <1>1, TraceExists
<1>3. 0 \in 0 .. Len(Code) /\ Len(Code) \in 0 .. Len(Code)
  BY DEF CodeOK
<1>4. tr[Len(Code)] \in TokenFlow /\ tr[0] = t
  BY <1>2, <1>3 DEF Trace
<1>5. Later(tr[0], tr[Len(Code)])
  BY <1>2, <1>3, TraceGrows
<1> QED BY <1>2, <1>4, <1>5, BodyEnd

-----------------------------------------------------------------------------
(* The operations on flows with tokens.                                    *)

\* g is a flow that has taken f in.
Takes(g, f) == f.report \subseteq g.report /\ Covered(f, g)

LEMMA TakesTrans ==
  ASSUME NEW f, NEW g, NEW h, Takes(h, g), Takes(g, f)
  PROVE  Takes(h, f)
<1>1. Covered(f, h)
  BY CoveredTrans DEF Takes
<1> QED BY <1>1 DEF Takes

LEMMA JoinTakes ==
  ASSUME NEW f \in Flow, NEW g \in Flow
  PROVE  /\ JoinFlow(f, g) \in Flow
         /\ Takes(JoinFlow(f, g), f)
         /\ Takes(JoinFlow(f, g), g)
BY JoinCovers DEF Takes

LEMMA TokensFlow ==
  ASSUME NEW f \in Flow
  PROVE  /\ Tokens(f) \in TokenFlow
         /\ Tokens(f).cur = f /\ Tokens(f).brk = NoFlow /\ Tokens(f).cont = NoFlow
BY NoFlowFlow DEF Tokens, TokenFlow

LEMMA MergeFacts ==
  ASSUME NEW e \in TokenFlow
  PROVE  LET m == MergeCurAndContinue(e)
         IN  /\ m \in TokenFlow
             /\ Takes(m.cur, e.cur) /\ Takes(m.cur, e.cont)
             /\ m.brk = e.brk
<1> DEFINE j == JoinFlow(e.cur, e.cont)
           m == MergeCurAndContinue(e)
<1>1. e.cur \in Flow /\ e.brk \in Flow /\ e.cont \in Flow /\ NoFlow \in Flow
  BY TokenFields, NoFlowFlow
<1>2. j \in Flow /\ Takes(j, e.cur) /\ Takes(j, e.cont)
  BY <1>1, JoinTakes
<1>3. m = [e EXCEPT !.cur = j, !.cont = NoFlow]
  BY DEF MergeCurAndContinue
<1> HIDE DEF j
<1>4. m \in TokenFlow /\ m.cur = j /\ m.brk = e.brk
  BY <1>1, <1>2, <1>3 DEF TokenFlow
<1> QED BY <1>2, <1>4

LEMMA JoinTokensFacts ==
  ASSUME NEW t \in TokenFlow, NEW u \in TokenFlow
  PROVE  LET j == JoinTokens(t, u)
         IN  /\ j \in TokenFlow
             /\ Takes(j.cur, t.cur) /\ Takes(j.cur, u.cur)
             /\ Takes(j.brk, t.brk) /\ Takes(j.brk, u.brk)
<1>1. /\ t.cur \in Flow /\ t.brk \in Flow /\ t.cont \in Flow
      /\ u.cur \in Flow /\ u.brk \in Flow /\ u.cont \in Flow
  BY TokenFields
<1>2. /\ JoinFlow(t.cur, u.cur) \in Flow
      /\ JoinFlow(t.brk, u.brk) \in Flow
      /\ JoinFlow(t.cont, u.cont) \in Flow
  BY <1>1, JoinTakes
<1>3. /\ Takes(JoinFlow(t.cur, u.cur), t.cur) /\ Takes(JoinFlow(t.cur, u.cur), u.cur)
      /\ Takes(JoinFlow(t.brk, u.brk), t.brk) /\ Takes(JoinFlow(t.brk, u.brk), u.brk)
  BY <1>1, JoinTakes
<1>4. /\ JoinTokens(t, u) \in TokenFlow
      /\ JoinTokens(t, u).cur = JoinFlow(t.cur, u.cur)
      /\ JoinTokens(t, u).brk = JoinFlow(t.brk, u.brk)
  BY <1>2 DEF JoinTokens, TokenFlow
<1> QED BY <1>3, <1>4

\* The flows that leave the loop at its condition.
LEMMA AssumeNotFacts ==
  ASSUME NEW t \in TokenFlow
  PROVE  LET a == AssumeNot(t)
         IN  /\ a \in TokenFlow
             /\ a.cur.report = t.cur.report
             /\ a.brk = t.brk
             /\ ~loop.forever => a.cur = t.cur
<1> DEFINE f == Unreachable(t.cur)
<1>1. t.cur \in Flow /\ t.cur.report \in SUBSET (Alarm \union Diagnostic)
  BY TokenFields, FlowFields
<1>2. f \in Flow /\ f.report = t.cur.report
  BY <1>1, UnreachableFlow
<1>3. CASE loop.forever
  <2>1. AssumeNot(t) = [t EXCEPT !.cur = f]
    BY <1>3 DEF AssumeNot
  <2> HIDE DEF f
  <2> QED BY <1>2, <1>3, <2>1, TokenCur
<1>4. CASE ~loop.forever
  BY <1>4 DEF AssumeNot
<1> QED BY <1>3, <1>4

LEMMA CurWithReportFacts ==
  ASSUME NEW t \in TokenFlow, NEW report \in SUBSET (Alarm \union Diagnostic)
  PROVE  LET b == CurWithReport(t, report)
         IN  /\ b \in TokenFlow
             /\ Covered(t.cur, b.cur)
             /\ b.cur.report = report
<1> DEFINE f == t.cur
           g == [f EXCEPT !.report = report]
<1>1. f \in Flow
  BY TokenFields
<1>2. /\ g \in Flow /\ g.report = report
      /\ g.reach = f.reach /\ g.env = f.env /\ g.lock = f.lock
  BY <1>1 DEF Flow
<1>3. CurWithReport(t, report) = Tokens(g)
  BY DEF CurWithReport
<1> HIDE DEF g
<1>4. Covered(f, g)
  BY <1>2, AlikeCovers
<1> QED BY <1>2, <1>3, <1>4, TokensFlow

LEMMA ReportProper ==
  ASSUME NEW t \in TokenFlow
  PROVE  Report(t) \in SUBSET (Alarm \union Diagnostic)
BY TokenFields, FlowFields DEF Report

\* The flow after the loop takes in all that leaves it.
LEMMA EscapeFacts ==
  ASSUME NEW o \in TokenFlow, NEW t \in TokenFlow, result \in Flow
  PROVE  LET x == Escape(o, t)
         IN  /\ x \in Flow
             /\ Takes(x, result) /\ Takes(x, o.cur) /\ Takes(x, t.brk)
             /\ t.cur.report \subseteq x.report
             /\ loop.forever \/ Covered(t.cur, x)
<1> DEFINE a == AssumeNot(t)
           res0 == JoinTokens(o, a)
           left == JoinFlow(res0.cur, res0.brk)
           x == Escape(o, t)
<1>1. /\ a \in TokenFlow /\ a.cur.report = t.cur.report /\ a.brk = t.brk
      /\ ~loop.forever => a.cur = t.cur
  BY AssumeNotFacts
<1> HIDE DEF a
<1>2. /\ res0 \in TokenFlow
      /\ Takes(res0.cur, o.cur) /\ Takes(res0.cur, a.cur) /\ Takes(res0.brk, a.brk)
  BY <1>1, JoinTokensFacts
<1>3. x = JoinFlow(result, left)
  BY DEF Escape, a
<1> HIDE DEF res0, x
<1>4. res0.cur \in Flow /\ res0.brk \in Flow
  BY <1>2, TokenFields
<1>5. left \in Flow /\ Takes(left, res0.cur) /\ Takes(left, res0.brk)
  BY <1>4, JoinTakes
<1> HIDE DEF left
<1>6. x \in Flow /\ Takes(x, result) /\ Takes(x, left)
  BY <1>3, <1>5, JoinTakes
<1>7. Takes(x, res0.cur) /\ Takes(x, res0.brk)
  BY <1>5, <1>6, TakesTrans
<1>8. Takes(x, o.cur) /\ Takes(x, a.cur) /\ Takes(x, t.brk)
  BY <1>1, <1>2, <1>7, TakesTrans
<1>9. t.cur.report \subseteq x.report
  BY <1>1, <1>8 DEF Takes
<1>10. loop.forever \/ Covered(t.cur, x)
  BY <1>1, <1>8 DEF Takes
<1> QED BY <1>6, <1>8, <1>9, <1>10 DEF x

-----------------------------------------------------------------------------
(* The inductive invariant: the heads H the condition was tested in and    *)
(* the bodies B that were run are linked.  Whatever leaves one of them is  *)
(* covered by a flow of X, after the loop, or by one of N, at its head.    *)

\* From a head the run leaves the loop or enters a body.
HeadLinked(h, B, X) ==
  /\ loop.kind # "once"
  /\ loop.forever \/ \E x \in X : Covered(h, x)
  /\ \E tr \in B : Covered(h, tr[0].cur)

\* From the end of a body it leaves the loop or goes to a head.
EndLinked(e, X, N, R) ==
  /\ e.cur.report \subseteq R
  /\ \E x \in X : Covered(e.brk, x)
  /\ \E y \in (IF loop.kind = "once" THEN X ELSE N) : Covered(e.cur, y)
  /\ \E y \in (IF loop.kind = "once" THEN X ELSE N) : Covered(e.cont, y)

BodyLinked(tr, X, N, R) == Trace(tr[0], tr) /\ EndLinked(tr[Len(Code)], X, N, R)

\* Where the run is, a flow describes it.
Located(B, X, N) ==
  \/ pc = 0 /\ \E n \in N : Here(n)
  \/ pc \in 1 .. Len(Code) /\ \E tr \in B : Here(tr[pc - 1].cur)
  \/ pc = Exit /\ \E x \in X : Here(x)

\* Or the report says why none does.
Judged(B, X, N, R) ==
  /\ run = "ok" => R \intersect ErrorAlarm # {} \/ Located(B, X, N)
  /\ run \in Breaking => Tells(R, run)

Chain(H, B, X, N, R) ==
  /\ H \subseteq Flow
  /\ \A h \in H : HeadLinked(h, B, X)
  /\ \A tr \in B : BodyLinked(tr, X, N, R)
  /\ Judged(B, X, N, R)

\* Until the end, the head is still to be tested.
Base == IF stage = "lfp" THEN entry ELSE head

Open(H, B) ==
  Chain(H, B, {result, out.cur, Base.brk}, H \union {Base.cur},
        result.report \union Base.cur.report)

Closed(H, B) == Chain(H, B, {result}, H, result.report)

Types ==
  /\ loop \in Loops
  /\ stage \in {"first", "unroll", "lfp", "done"}
  /\ head \in TokenFlow /\ entry \in TokenFlow /\ out \in TokenFlow
  /\ result \in Flow
  /\ count \in 0 .. (Unrolling + Delay)
  /\ pc \in 0 .. Exit
  /\ MemoryOK
  /\ run \in {"ok", "misuse"} \union Breaking

Linked ==
  /\ stage = "first" => /\ loop.kind \in {"do", "once"}
                        /\ pc = Following(0) /\ run = "ok" /\ Here(head.cur)
  /\ stage \in {"unroll", "lfp"} => /\ loop.kind # "once" /\ run = "ok"
                                   /\ \E H, B : Open(H, B)
  /\ stage = "done" => \E H, B : Closed(H, B)

IInv == Types /\ Linked

Within(X, Y) == \A x \in X : \E y \in Y : Covered(x, y)

LEMMA HereCovered ==
  ASSUME MemoryOK, NEW f, NEW g, Covered(f, g), Here(f)
  PROVE  Here(g)
BY DEF MemoryOK, Covered, Here

LEMMA WithinSame == \A X : Within(X, X)
BY SelfCovers DEF Within

\* A chain may be closed with larger flows.
LEMMA ChainGrows ==
  ASSUME MemoryOK, NEW H, NEW B, NEW X, NEW N, NEW R, NEW X2, NEW N2, NEW R2,
         Chain(H, B, X, N, R), Within(X, X2), Within(N, N2), R \subseteq R2
  PROVE  Chain(H, B, X2, N2, R2)
<1>1. \A f : (\E x \in X : Covered(f, x)) => \E x \in X2 : Covered(f, x)
  BY CoveredTrans DEF Within
<1>2. \A f : (\E x \in N : Covered(f, x)) => \E x \in N2 : Covered(f, x)
  BY CoveredTrans DEF Within
<1>3. (\E x \in X : Here(x)) => \E x \in X2 : Here(x)
  BY HereCovered DEF Within
<1>4. (\E x \in N : Here(x)) => \E x \in N2 : Here(x)
  BY HereCovered DEF Within
<1>5. \A h \in H : HeadLinked(h, B, X2)
  BY <1>1 DEF Chain, HeadLinked
<1>6. ASSUME NEW tr \in B PROVE BodyLinked(tr, X2, N2, R2)
  <2> DEFINE e == tr[Len(Code)]
  <2>1. EndLinked(e, X, N, R) /\ Trace(tr[0], tr)
    BY <1>6 DEF Chain, BodyLinked
  <2> HIDE DEF e
  <2>2. EndLinked(e, X2, N2, R2)
    BY <1>1, <1>2, <2>1 DEF EndLinked
  <2> QED BY <2>1, <2>2 DEF BodyLinked, e
<1>7. Located(B, X, N) => Located(B, X2, N2)
  BY <1>3, <1>4 DEF Located
<1>8. Judged(B, X2, N2, R2)
  BY <1>7 DEF Chain, Judged, Tells
<1> QED BY <1>5, <1>6, <1>8 DEF Chain

\* A head and its body are added to a chain.
LEMMA ChainAdd ==
  ASSUME NEW H, NEW B, NEW X, NEW N, NEW R, Chain(H, B, X, N, R),
         NEW h \in Flow, NEW tr, HeadLinked(h, {tr}, X), BodyLinked(tr, X, N, R)
  PROVE  Chain(H \union {h}, B \union {tr}, X, N, R)
<1>1. \A k \in H : HeadLinked(k, B \union {tr}, X)
  BY DEF Chain, HeadLinked
<1>2. HeadLinked(h, B \union {tr}, X)
  BY DEF HeadLinked
<1>3. Judged(B \union {tr}, X, N, R)
  BY DEF Chain, Judged, Located
<1> QED BY <1>1, <1>2, <1>3 DEF Chain

\* A chain depends on the loop and on the run only.
LEMMA ChainKept ==
  ASSUME loop' = loop, UNCHANGED <<pc, memory, run>>,
         NEW H, NEW B, NEW X, NEW N, NEW R, Chain(H, B, X, N, R)
  PROVE  Chain(H, B, X, N, R)'
<1>1. Code' = Code /\ pc' = pc /\ mem' = mem /\ rooted' = rooted /\ held' = held /\ run' = run
  BY DEF Code, memory
<1>2. \A h \in H : HeadLinked(h, B, X)'
  BY DEF Chain, HeadLinked
<1>3. \A tr \in B : BodyLinked(tr, X, N, R)'
  BY <1>1 DEF Chain, BodyLinked, EndLinked, Trace
<1>4. Located(B, X, N) => Located(B, X, N)'
  BY <1>1 DEF Located, Here, Exit
<1>5. Judged(B, X, N, R)'
  BY <1>1, <1>4 DEF Chain, Judged
<1> QED BY <1>2, <1>3, <1>5 DEF Chain

-----------------------------------------------------------------------------
(* Type correctness.                                                       *)

LEMMA PlacesInCode ==
  ASSUME loop \in Loops
  PROVE  /\ CodeOK /\ Exit = Len(Code) + 1
         /\ \A i \in 0 .. Len(Code) : Following(i) \in 0 .. Exit
         /\ \A s : Target(s) \in 0 .. Exit
<1>1. CodeOK
  BY CodeShape
<1>2. Len(loop.body) + 1 \in 0 .. Exit
  <2>1. loop.body \in Seq(Statement \union Jump) /\ loop.incr \in Seq(Statement)
    BY LoopAssumption
  <2>2. loop.incr \in Seq(Statement \union Jump)
    BY LoopAssumption
  <2>3. Len(loop.body \o loop.incr) = Len(loop.body) + Len(loop.incr)
    BY <2>1, <2>2
  <2>4. Len(loop.body) \in Nat /\ Len(loop.incr) \in Nat
    BY <2>1
  <2>5. Exit = Len(loop.body) + Len(loop.incr) + 1
    BY <2>3 DEF Exit, Code
  <2>6. \A m, n \in Nat : m + 1 \in 0 .. (m + n + 1)
    OBVIOUS
  <2> QED BY <2>4, <2>5, <2>6, Zenon
<1>3. 0 \in 0 .. Exit /\ Exit \in 0 .. Exit /\ Exit = Len(Code) + 1
  BY <1>1 DEF CodeOK, Exit
<1>4. ASSUME NEW i \in 0 .. Len(Code) PROVE Following(i) \in 0 .. Exit
  BY <1>1, <1>3 DEF Following, CodeOK
<1>5. ASSUME NEW s PROVE Target(s) \in 0 .. Exit
  BY <1>2, <1>3 DEF Target
<1> QED BY <1>1, <1>3, <1>4, <1>5

\* The body of the loop, analysed from t.
BodyRun(t, tr, e) ==
  /\ Trace(t, tr) /\ e = tr[Len(Code)] /\ t = tr[0]
  /\ e \in TokenFlow /\ Later(t, e)

LEMMA BodyRuns ==
  ASSUME CodeOK, NEW t \in TokenFlow
  PROVE  \E tr, e : /\ BodyRun(t, tr, e)
                    /\ ExecBody(t) = {e}
                    /\ Iterate(t) = {MergeCurAndContinue(e)}
<1>1. PICK tr : /\ Trace(t, tr)
                /\ ExecBody(t) = {tr[Len(Code)]}
                /\ tr[Len(Code)] \in TokenFlow
                /\ Later(t, tr[Len(Code)])
  BY BodyTrace
<1>2. t = tr[0]
  BY <1>1 DEF Trace
<1>3. BodyRun(t, tr, tr[Len(Code)])
  BY <1>1, <1>2 DEF BodyRun
<1>4. Iterate(t) = {MergeCurAndContinue(tr[Len(Code)])}
  BY <1>1 DEF Iterate
<1> QED BY <1>1, <1>3, <1>4

\* What a step of the analysis leaves alone.
LEMMA AnalysisTypes ==
  ASSUME Types, loop' = loop, UNCHANGED <<pc, memory, run>>,
         stage' \in {"first", "unroll", "lfp", "done"},
         head' \in TokenFlow, entry' \in TokenFlow, out' \in TokenFlow,
         result' \in Flow, count' \in 0 .. (Unrolling + Delay)
  PROVE  Types'
BY DEF Types, memory, MemoryOK, Holds, Exit, Code

LEMMA FirstTypes ==
  ASSUME Types, ExecFirst, UNCHANGED <<pc, memory, run>>
  PROVE  Types'
<1>1. PICK tr, e : BodyRun(head, tr, e) /\ ExecBody(head) = {e}
  BY PlacesInCode, BodyRuns DEF Types
<1>2. head' = Tokens(MergeCurAndContinue(e).cur) /\ result' = e.brk
  BY <1>1 DEF ExecFirst
<1>3. MergeCurAndContinue(e).cur \in Flow /\ e.brk \in Flow
  BY <1>1, MergeFacts, TokenFields DEF BodyRun
<1>4. head' \in TokenFlow
  BY <1>2, <1>3, TokensFlow
<1> QED BY <1>2, <1>3, <1>4, AnalysisTypes DEF ExecFirst, Types

LEMMA OnceTypes ==
  ASSUME Types, ExecOnce, UNCHANGED <<pc, memory, run>>
  PROVE  Types'
<1>1. PICK tr, e : BodyRun(head, tr, e) /\ Iterate(head) = {MergeCurAndContinue(e)}
  BY PlacesInCode, BodyRuns DEF Types
<1> DEFINE m == MergeCurAndContinue(e)
<1>2. m.cur \in Flow /\ m.brk \in Flow
  BY <1>1, MergeFacts, TokenFields DEF BodyRun
<1>3. result' = JoinFlow(m.cur, m.brk)
  BY <1>1 DEF ExecOnce
<1> HIDE DEF m
<1>4. result' \in Flow
  BY <1>2, <1>3, JoinTakes
<1> QED BY <1>4, AnalysisTypes DEF ExecOnce, Types

LEMMA FinishTypes ==
  ASSUME Types, NEW o \in TokenFlow, NEW t \in TokenFlow, Finish(o, t),
         UNCHANGED <<pc, memory, run>>
  PROVE  Types'
<1>1. result' \in Flow
  BY EscapeFacts DEF Finish, Types
<1> QED BY <1>1, AnalysisTypes DEF Finish, Types

LEMMA UnrollTypes ==
  ASSUME Types, Unroll, UNCHANGED <<pc, memory, run>>
  PROVE  Types'
<1> DEFINE left == JoinTokens(out, AssumeNot(head))
<1>1. PICK tr, e : BodyRun(head, tr, e) /\ Iterate(head) = {MergeCurAndContinue(e)}
  BY PlacesInCode, BodyRuns DEF Types
<1> DEFINE flow1 == MergeCurAndContinue(e)
<1>2. flow1 \in TokenFlow
  BY <1>1, MergeFacts DEF BodyRun
<1>3. left \in TokenFlow
  BY AssumeNotFacts, JoinTokensFacts DEF Types
<1>4. \/ Finish(left, flow1)
      \/ /\ head' = flow1 /\ out' = left /\ count' = count - 1
         /\ UNCHANGED <<loop, stage, entry, result>>
  BY <1>1 DEF Unroll
<1> HIDE DEF left, flow1
<1>5. CASE Finish(left, flow1)
  BY <1>2, <1>3, <1>5, FinishTypes
<1>6. CASE /\ head' = flow1 /\ out' = left /\ count' = count - 1
           /\ UNCHANGED <<loop, stage, entry, result>>
  <2>0. count > 0 /\ count \in 0 .. (Unrolling + Delay) /\ count' = count - 1
    BY <1>6 DEF Unroll, Types
  <2>1. count' \in 0 .. (Unrolling + Delay)
    BY <2>0, LoopAssumption
  <2> QED BY <1>2, <1>3, <1>6, <2>1, AnalysisTypes DEF Types
<1> QED BY <1>4, <1>5, <1>6

LEMMA LfpTypes ==
  ASSUME Types, Lfp, UNCHANGED <<pc, memory, run>>
  PROVE  Types'
<1> DEFINE b == CurWithReport(head, Report(entry))
<1>1. b \in TokenFlow
  BY ReportProper, CurWithReportFacts DEF Types
<1>2. PICK tr, e : BodyRun(b, tr, e) /\ Iterate(b) = {MergeCurAndContinue(e)}
  BY <1>1, PlacesInCode, BodyRuns DEF Types
<1> DEFINE u == MergeCurAndContinue(e)
           flow == JoinTokens(u, entry)
<1>3. u \in TokenFlow
  BY <1>2, MergeFacts DEF BodyRun
<1>4. NextIterate(head) = {flow}
  BY <1>2 DEF NextIterate
<1> HIDE DEF b, u
<1>5. flow \in TokenFlow /\ Widen(head, flow) \in TokenFlow
  BY <1>3, JoinTokensFacts DEF Types, Widen
<1> HIDE DEF flow
<1>6. \/ Finish(out, flow)
      \/ /\ head' = IF count = 0 THEN Widen(head, flow) ELSE flow
         /\ count' = IF count = 0 THEN Delay ELSE count - 1
         /\ UNCHANGED <<loop, stage, entry, out, result>>
  BY <1>4 DEF Lfp
<1>7. CASE Finish(out, flow)
  BY <1>5, <1>7, FinishTypes DEF Types
<1>8. CASE /\ head' = IF count = 0 THEN Widen(head, flow) ELSE flow
           /\ count' = IF count = 0 THEN Delay ELSE count - 1
           /\ UNCHANGED <<loop, stage, entry, out, result>>
  <2>1. count' \in 0 .. (Unrolling + Delay)
    BY <1>8, LoopAssumption DEF Types
  <2>2. head' \in TokenFlow
    BY <1>5, <1>8
  <2> QED BY <1>8, <2>1, <2>2, AnalysisTypes DEF Types
<1> QED BY <1>6, <1>7, <1>8

LEMMA AnalyseTypes ==
  ASSUME Types, Analyse
  PROVE  Types'
<1>1. UNCHANGED <<pc, memory, run>>
  BY DEF Analyse
<1>2. CASE StartLfp
  <2>1. count' \in 0 .. (Unrolling + Delay)
    BY <1>2, LoopAssumption DEF StartLfp
  <2> QED BY <1>1, <1>2, <2>1, AnalysisTypes DEF StartLfp, Types
<1> QED BY <1>1, <1>2, FirstTypes, OnceTypes, UnrollTypes, LfpTypes DEF Analyse

\* The memory after a collection is in order too.
LEMMA CollectionMemory ==
  ASSUME MemoryOK, mem' \in Collections, rooted' = rooted, held' = held
  PROVE  MemoryOK'
<1>1. PICK S \in SUBSET Unprotected(mem, rooted) : mem' = Collected(mem, rooted, S)
  BY DEF Collections
<1>2. mem' \in Memory /\ \A l \in Loc : Holds(mem, l) => Holds(mem', l)
  BY <1>1, CollectedMemory DEF MemoryOK
<1> QED BY <1>2, LocFacts DEF MemoryOK

\* What a step of the run leaves alone.
LEMMA RunTypes ==
  ASSUME Types, UNCHANGED analysis, pc' \in 0 .. Exit, MemoryOK',
         run' \in {"ok", "misuse"} \union Breaking
  PROVE  Types'
BY DEF Types, analysis, Exit, Code

LEMMA AttemptAnswers ==
  ASSUME NEW s
  PROVE  Attempt(s) \in {"ok", "misuse"} \union Breaking
BY DEF Attempt, Legal, Breaking

LEMMA NextTypes ==
  ASSUME Types, [Next]_vars
  PROVE  Types'
<1>0. /\ CodeOK /\ \A i \in 0 .. Len(Code) : Following(i) \in 0 .. Exit
      /\ \A s : Target(s) \in 0 .. Exit
      /\ Exit \in 0 .. Exit
      /\ 0 \in 0 .. Len(Code)
  BY PlacesInCode DEF Types, CodeOK
<1>1. CASE Analyse
  BY <1>1, AnalyseTypes
<1>2. CASE TestCondition
  <2>1. pc' \in 0 .. Exit
    BY <1>0, <1>2 DEF TestCondition
  <2>2. MemoryOK' /\ run' \in {"ok", "misuse"} \union Breaking /\ UNCHANGED analysis
    BY <1>2 DEF TestCondition, memory, Types, MemoryOK, Holds
  <2> QED BY <2>1, <2>2, RunTypes
<1>3. CASE RunStatement
  <2> DEFINE s == Code[pc]
  <2>1. pc \in 1 .. Len(Code) /\ pc \in 0 .. Len(Code) /\ s \in Statement \union Jump
    BY <1>0, <1>3 DEF RunStatement, CodeOK
  <2>2. \/ Effect(s) /\ pc' \in {Following(pc), Target(s)} /\ run' = run
        \/ run' = Attempt(s) /\ pc' = pc /\ UNCHANGED memory
    BY <1>3 DEF RunStatement
  <2>3. UNCHANGED analysis
    BY <1>3 DEF RunStatement
  <2> HIDE DEF s
  <2>4. pc' \in 0 .. Exit
    BY <1>0, <2>1, <2>2 DEF Types
  <2>5. MemoryOK'
    <3>1. CASE Effect(s)
      BY <2>1, <3>1, EffectMemory DEF Types
    <3>2. CASE UNCHANGED memory
      BY <3>2 DEF Types, memory, MemoryOK, Holds
    <3> QED BY <2>2, <3>1, <3>2
  <2>6. run' \in {"ok", "misuse"} \union Breaking
    BY <2>2, AttemptAnswers DEF Types
  <2> QED BY <2>3, <2>4, <2>5, <2>6, RunTypes
<1>4. CASE ConcurrentGC
  <2>1. MemoryOK' /\ UNCHANGED <<analysis, pc, run>>
    BY <1>4, CollectionMemory DEF ConcurrentGC, Types
  <2>2. pc' \in 0 .. Exit /\ run' \in {"ok", "misuse"} \union Breaking /\ UNCHANGED analysis
    BY <2>1 DEF Types
  <2> QED BY <2>1, <2>2, RunTypes
<1>5. CASE UNCHANGED vars
  <2>1. MemoryOK' /\ UNCHANGED <<analysis, pc, run>>
    BY <1>5 DEF vars, memory, Types, MemoryOK, Holds
  <2>2. pc' \in 0 .. Exit /\ run' \in {"ok", "misuse"} \union Breaking /\ UNCHANGED analysis
    BY <2>1 DEF Types
  <2> QED BY <2>1, <2>2, RunTypes
<1> QED BY <1>1, <1>2, <1>3, <1>4, <1>5 DEF Next

-----------------------------------------------------------------------------
(* The steps of the analysis keep the chain.                               *)

LEMMA OpenNext ==
  ASSUME loop' = loop, UNCHANGED <<pc, memory, run>>,
         stage' \in {"unroll", "lfp"}, loop.kind # "once", run = "ok",
         NEW H, NEW B,
         Chain(H, B, {result', out'.cur, Base'.brk}, H \union {Base'.cur},
               result'.report \union Base'.cur.report)
  PROVE  Linked'
<1>1. PICK X, N, R : /\ X = {result', out'.cur, Base'.brk}
                     /\ N = H \union {Base'.cur}
                     /\ R = result'.report \union Base'.cur.report
  OBVIOUS
<1>2. Chain(H, B, X, N, R)
  BY <1>1
<1>3. Chain(H, B, X, N, R)'
  BY <1>2, ChainKept
<1>4. Open(H, B)'
  BY <1>1, <1>3 DEF Open
<1>5. loop'.kind # "once" /\ run' = "ok"
  OBVIOUS
<1> QED BY <1>4, <1>5 DEF Linked

LEMMA ClosedNext ==
  ASSUME loop' = loop, UNCHANGED <<pc, memory, run>>, stage' = "done",
         NEW H, NEW B, Chain(H, B, {result'}, H, result'.report)
  PROVE  Linked'
<1>1. PICK X, R : X = {result'} /\ R = result'.report
  OBVIOUS
<1>2. Chain(H, B, X, H, R)
  BY <1>1
<1>3. Chain(H, B, X, H, R)'
  BY <1>2, ChainKept
<1>4. Closed(H, B)'
  BY <1>1, <1>3 DEF Closed
<1> QED BY <1>4 DEF Linked

\* A run that enters a body is located, even in a body without statements.
LEMMA EnteredLocated ==
  ASSUME CodeOK, MemoryOK, NEW tr, NEW X, NEW N, NEW R, NEW place,
         BodyLinked(tr, X, N, R), Here(tr[0].cur), place = Following(0)
  PROVE  \/ place = 0 /\ \E n \in N : Here(n)
         \/ place \in 1 .. Len(Code) /\ Here(tr[place - 1].cur)
         \/ place = Exit /\ \E x \in X : Here(x)
<1>1. CASE Len(Code) > 0
  <2>1. place = 1 /\ place \in 1 .. Len(Code) /\ place - 1 = 0
    BY <1>1 DEF Following, CodeOK
  <2> QED BY <2>1
<1>2. CASE Len(Code) = 0
  <2>1. place = IF loop.kind = "once" THEN Exit ELSE 0
    BY <1>2 DEF Following
  <2>2. PICK y \in (IF loop.kind = "once" THEN X ELSE N) : Covered(tr[0].cur, y)
    BY <1>2 DEF BodyLinked, EndLinked
  <2>3. Here(y)
    BY <2>2, HereCovered
  <2> QED BY <2>1, <2>2, <2>3
<1> QED BY <1>1, <1>2 DEF CodeOK

LEMMA EndOfBody ==
  ASSUME NEW t, NEW tr, NEW e, BodyRun(t, tr, e), NEW X, NEW N, NEW R,
         EndLinked(e, X, N, R)
  PROVE  BodyLinked(tr, X, N, R)
BY DEF BodyRun, BodyLinked

\* The chain of one body, which the run is about to enter.
LEMMA FirstChain ==
  ASSUME CodeOK, MemoryOK, NEW t, NEW tr, NEW e, BodyRun(t, tr, e), Here(t.cur),
         pc = Following(0), run = "ok", NEW X, NEW N, NEW R, EndLinked(e, X, N, R)
  PROVE  Chain({}, {tr}, X, N, R)
<1>1. BodyLinked(tr, X, N, R) /\ Here(tr[0].cur)
  BY EndOfBody DEF BodyRun
<1>2. Located({tr}, X, N)
  BY <1>1, EnteredLocated DEF Located
<1>3. Judged({tr}, X, N, R)
  BY <1>2 DEF Judged, Breaking
<1> QED BY <1>1, <1>3 DEF Chain

LEMMA FirstLinked ==
  ASSUME IInv, ExecFirst, UNCHANGED <<pc, memory, run>>
  PROVE  Linked'
<1>0. /\ CodeOK /\ MemoryOK /\ head \in TokenFlow
      /\ Here(head.cur) /\ pc = Following(0) /\ run = "ok"
      /\ loop.kind = "do" /\ loop' = loop /\ stage' = "unroll" /\ out' = out
  BY PlacesInCode DEF IInv, Types, Linked, ExecFirst
<1>1. PICK tr, e : BodyRun(head, tr, e) /\ ExecBody(head) = {e}
  BY <1>0, BodyRuns
<1> DEFINE m == MergeCurAndContinue(e)
<1>2. m \in TokenFlow /\ Takes(m.cur, e.cur) /\ Takes(m.cur, e.cont)
  BY <1>1, MergeFacts DEF BodyRun
<1>3. head' = Tokens(m.cur) /\ result' = e.brk
  BY <1>1 DEF ExecFirst
<1> HIDE DEF m
<1>4. head'.cur = m.cur /\ Base' = head'
  BY <1>0, <1>2, <1>3, TokenFields, TokensFlow DEF Base
<1>5. EndLinked(e, {result', out'.cur, Base'.brk}, {Base'.cur},
                result'.report \union Base'.cur.report)
  BY <1>0, <1>2, <1>3, <1>4, SelfCovers DEF EndLinked, Takes
<1>6. Chain({}, {tr}, {result', out'.cur, Base'.brk}, {} \union {Base'.cur},
            result'.report \union Base'.cur.report)
  BY <1>0, <1>1, <1>5, FirstChain
<1> QED BY <1>0, <1>6, OpenNext

LEMMA OnceLinked ==
  ASSUME IInv, ExecOnce, UNCHANGED <<pc, memory, run>>
  PROVE  Linked'
<1>0. /\ CodeOK /\ MemoryOK /\ head \in TokenFlow
      /\ Here(head.cur) /\ pc = Following(0) /\ run = "ok"
      /\ loop.kind = "once" /\ loop' = loop /\ stage' = "done"
  BY PlacesInCode DEF IInv, Types, Linked, ExecOnce
<1>1. PICK tr, e : BodyRun(head, tr, e) /\ Iterate(head) = {MergeCurAndContinue(e)}
  BY <1>0, BodyRuns
<1> DEFINE m == MergeCurAndContinue(e)
<1>2. m \in TokenFlow /\ Takes(m.cur, e.cur) /\ Takes(m.cur, e.cont) /\ m.brk = e.brk
  BY <1>1, MergeFacts DEF BodyRun
<1>3. result' = JoinFlow(m.cur, m.brk)
  BY <1>1 DEF ExecOnce
<1> HIDE DEF m
<1>4. Takes(result', m.cur) /\ Takes(result', m.brk)
  BY <1>2, <1>3, JoinTakes, TokenFields
<1>5. Takes(result', e.cur) /\ Takes(result', e.cont) /\ Takes(result', e.brk)
  BY <1>2, <1>4, TakesTrans
<1>6. EndLinked(e, {result'}, {}, result'.report)
  BY <1>0, <1>5 DEF EndLinked, Takes
<1>7. Chain({}, {tr}, {result'}, {}, result'.report)
  BY <1>0, <1>1, <1>6, FirstChain
<1> QED BY <1>0, <1>7, ClosedNext

\* One more iteration: what was covered still is, and the chain gets a head h
\* that enters the body tr.
LEMMA ChainStep ==
  ASSUME MemoryOK, NEW H, NEW B, NEW X, NEW N, NEW R, NEW X2, NEW N2, NEW R2,
         Chain(H, B, X, N, R), Within(X, X2), Within(N, N2), R \subseteq R2,
         NEW h \in Flow, NEW t, NEW tr, NEW e, BodyRun(t, tr, e),
         loop.kind # "once", Covered(h, t.cur),
         loop.forever \/ \E x \in X2 : Covered(h, x),
         EndLinked(e, X2, N2, R2)
  PROVE  Chain(H \union {h}, B \union {tr}, X2, N2, R2)
<1>1. Chain(H, B, X2, N2, R2)
  BY ChainGrows
<1>2. BodyLinked(tr, X2, N2, R2)
  BY EndOfBody
<1>3. HeadLinked(h, {tr}, X2)
  BY DEF HeadLinked, BodyRun
<1> QED BY <1>1, <1>2, <1>3, ChainAdd

\* The stage of a chain that is still open.
OpenStage(H, B, base) ==
  /\ CodeOK /\ MemoryOK /\ loop.kind # "once" /\ run = "ok"
  /\ head \in TokenFlow /\ entry \in TokenFlow /\ out \in TokenFlow /\ result \in Flow
  /\ Chain(H, B, {result, out.cur, base.brk}, H \union {base.cur},
           result.report \union base.cur.report)

LEMMA StageIsOpen ==
  ASSUME IInv, stage \in {"unroll", "lfp"}
  PROVE  \E H, B : OpenStage(H, B, Base)
BY PlacesInCode DEF IInv, Types, Linked, Open, OpenStage

LEMMA FinishLinked ==
  ASSUME MemoryOK, NEW H, NEW B, NEW X, NEW N, NEW R, Chain(H, B, X, N, R),
         NEW t, NEW tr, NEW e, BodyRun(t, tr, e), loop.kind # "once",
         NEW h \in Flow, Covered(h, t.cur), loop.forever \/ Covered(h, result'),
         Within(X, {result'}), Within(N, H \union {h}), R \subseteq result'.report,
         EndLinked(e, {result'}, H \union {h}, result'.report),
         stage' = "done", loop' = loop, UNCHANGED <<pc, memory, run>>
  PROVE  Linked'
<1>1. PICK x : x = result'
  OBVIOUS
<1>2. loop.forever \/ \E y \in {x} : Covered(h, y)
  BY <1>1
<1>3. Chain(H \union {h}, B \union {tr}, {x}, H \union {h}, x.report)
  BY <1>1, <1>2, ChainStep
<1> QED BY <1>1, <1>3, ClosedNext

LEMMA UnrollLinked ==
  ASSUME IInv, Unroll, UNCHANGED <<pc, memory, run>>
  PROVE  Linked'
<1> DEFINE left == JoinTokens(out, AssumeNot(head))
           h == head.cur
<1>0. stage = "unroll" /\ Base = head
  BY DEF Unroll, Base
<1>1. PICK H, B : OpenStage(H, B, head)
  BY <1>0, StageIsOpen
<1>2. /\ CodeOK /\ MemoryOK /\ loop.kind # "once" /\ run = "ok"
      /\ head \in TokenFlow /\ out \in TokenFlow /\ result \in Flow /\ h \in Flow
      /\ Chain(H, B, {result, out.cur, head.brk}, H \union {h},
               result.report \union h.report)
  BY <1>1, TokenFields DEF OpenStage
<1>3. PICK tr, e : BodyRun(head, tr, e) /\ Iterate(head) = {MergeCurAndContinue(e)}
  BY <1>2, BodyRuns
<1> DEFINE flow1 == MergeCurAndContinue(e)
<1>4. /\ flow1 \in TokenFlow
      /\ Takes(flow1.cur, e.cur) /\ Takes(flow1.cur, e.cont) /\ flow1.brk = e.brk
  BY <1>3, MergeFacts DEF BodyRun
<1>5. h.report \subseteq flow1.cur.report /\ Covered(head.brk, flow1.brk)
  BY <1>3, <1>4 DEF BodyRun, Later, Takes
<1>6. /\ left \in TokenFlow /\ Takes(left.cur, out.cur)
      /\ loop.forever \/ Takes(left.cur, h)
  BY <1>2, AssumeNotFacts, JoinTokensFacts
<1>7. \/ SubsetTokens(flow1, head) /\ Finish(left, flow1)
      \/ /\ head' = flow1 /\ out' = left
         /\ UNCHANGED <<loop, stage, entry, result>>
  BY <1>3 DEF Unroll
<1> HIDE DEF left, flow1, h
<1>8. CASE SubsetTokens(flow1, head) /\ Finish(left, flow1)
  <2>1. stage' = "done" /\ loop' = loop /\ result' = Escape(left, flow1)
    BY <1>8 DEF Finish
  <2>2. /\ Takes(result', result) /\ Takes(result', left.cur) /\ Takes(result', flow1.brk)
        /\ flow1.cur.report \subseteq result'.report
    BY <1>2, <1>4, <1>6, <2>1, EscapeFacts
  <2>3. Takes(result', out.cur) /\ (loop.forever \/ Takes(result', h))
    BY <1>6, <2>2, TakesTrans
  <2>4. Covered(head.brk, result')
    BY <1>5, <2>2, CoveredTrans DEF Takes
  <2>5. Within({result, out.cur, head.brk}, {result'})
    BY <2>2, <2>3, <2>4 DEF Within, Takes
  <2>6. Covered(flow1.cur, h)
    BY <1>2, <1>4, <1>8, SubsetCovers, TokenFields DEF SubsetTokens, h
  <2>7. Covered(e.cur, h) /\ Covered(e.cont, h)
    BY <1>4, <2>6, CoveredTrans DEF Takes
  <2>8. result.report \union h.report \subseteq result'.report
    BY <1>5, <2>2 DEF Takes
  <2>9. e.cur.report \subseteq result'.report
    BY <1>4, <2>2 DEF Takes
  <2>10. EndLinked(e, {result'}, H \union {h}, result'.report)
    BY <1>2, <1>4, <2>2, <2>7, <2>9 DEF EndLinked, Takes
  <2>11. Covered(h, head.cur) /\ (loop.forever \/ Covered(h, result'))
    BY <2>3, SelfCovers DEF Takes, h
  <2>12. Within(H \union {h}, H \union {h})
    BY WithinSame
  <2> QED BY <1>2, <1>3, <2>1, <2>5, <2>8, <2>10, <2>11, <2>12, FinishLinked
<1>9. CASE /\ head' = flow1 /\ out' = left
           /\ UNCHANGED <<loop, stage, entry, result>>
  <2>1. PICK X, N, R : /\ X = {result', out'.cur, Base'.brk}
                       /\ N = (H \union {h}) \union {Base'.cur}
                       /\ R = result'.report \union Base'.cur.report
    OBVIOUS
  <2>2. Base' = flow1 /\ out' = left /\ result' = result /\ stage' = "unroll" /\ loop' = loop
    BY <1>0, <1>9 DEF Base
  <2>3. /\ X = {result, left.cur, flow1.brk} /\ N = (H \union {h}) \union {flow1.cur}
        /\ R = result.report \union flow1.cur.report
    BY <2>1, <2>2
  <2>4. Within({result, out.cur, head.brk}, X)
    BY <1>5, <1>6, <2>3, SelfCovers DEF Within, Takes
  <2>5. Within(H \union {h}, N)
    BY <2>3, SelfCovers DEF Within
  <2>6. result.report \union h.report \subseteq R
    BY <1>5, <2>3
  <2>7. EndLinked(e, X, N, R)
    BY <1>2, <1>4, <2>3, SelfCovers DEF EndLinked, Takes
  <2>8. Covered(h, head.cur) /\ (loop.forever \/ \E x \in X : Covered(h, x))
    BY <1>6, <2>3, SelfCovers DEF Takes, h
  <2>9. Chain(H \union {h}, B \union {tr}, X, N, R)
    BY <1>2, <1>3, <2>4, <2>5, <2>6, <2>7, <2>8, ChainStep
  <2> QED BY <1>2, <2>1, <2>2, <2>9, OpenNext
<1> QED BY <1>7, <1>8, <1>9

LEMMA StartLfpLinked ==
  ASSUME IInv, StartLfp, UNCHANGED <<pc, memory, run>>
  PROVE  Linked'
<1>1. /\ stage = "unroll" /\ Base = head /\ stage' = "lfp" /\ entry' = head
      /\ loop' = loop /\ out' = out /\ result' = result
  BY DEF StartLfp, Base
<1>2. Base' = head
  BY <1>1 DEF Base
<1>3. PICK H, B : OpenStage(H, B, head)
  BY <1>1, StageIsOpen
<1>4. /\ loop.kind # "once" /\ run = "ok"
      /\ Chain(H, B, {result', out'.cur, Base'.brk}, H \union {Base'.cur},
               result'.report \union Base'.cur.report)
  BY <1>1, <1>2, <1>3 DEF OpenStage
<1> QED BY <1>1, <1>4, OpenNext

LEMMA LfpLinked ==
  ASSUME IInv, Lfp, UNCHANGED <<pc, memory, run>>
  PROVE  Linked'
<1> DEFINE b == CurWithReport(head, Report(entry))
<1>0. stage = "lfp" /\ Base = entry
  BY DEF Lfp, Base
<1>1. PICK H, B : OpenStage(H, B, entry)
  BY <1>0, StageIsOpen
<1>2. /\ CodeOK /\ MemoryOK /\ loop.kind # "once" /\ run = "ok"
      /\ head \in TokenFlow /\ entry \in TokenFlow /\ out \in TokenFlow /\ result \in Flow
      /\ Chain(H, B, {result, out.cur, entry.brk}, H \union {entry.cur},
               result.report \union entry.cur.report)
  BY <1>1 DEF OpenStage
<1>3. b \in TokenFlow /\ Covered(head.cur, b.cur)
  BY <1>2, ReportProper, CurWithReportFacts
<1>4. PICK tr, e : BodyRun(b, tr, e) /\ Iterate(b) = {MergeCurAndContinue(e)}
  BY <1>2, <1>3, BodyRuns
<1> DEFINE u == MergeCurAndContinue(e)
           flow == JoinTokens(u, entry)
           h == flow.cur
<1>5. u \in TokenFlow /\ Takes(u.cur, e.cur) /\ Takes(u.cur, e.cont) /\ u.brk = e.brk
  BY <1>4, MergeFacts DEF BodyRun
<1>6. NextIterate(head) = {flow}
  BY <1>4 DEF NextIterate
<1> HIDE DEF b, u
<1>7. /\ flow \in TokenFlow /\ Takes(h, u.cur) /\ Takes(h, entry.cur)
      /\ Takes(flow.brk, u.brk) /\ Takes(flow.brk, entry.brk)
  BY <1>2, <1>5, JoinTokensFacts
<1> HIDE DEF flow
<1>8. h \in Flow /\ Takes(h, e.cur) /\ Takes(h, e.cont)
  BY <1>5, <1>7, TakesTrans, TokenFields
<1>9. \/ FlowSubset(h, head.cur) /\ Finish(out, flow)
      \/ UNCHANGED <<loop, stage, entry, out, result>>
  BY <1>6 DEF Lfp
<1>10. CASE FlowSubset(h, head.cur) /\ Finish(out, flow)
  <2>1. stage' = "done" /\ loop' = loop /\ result' = Escape(out, flow)
    BY <1>10 DEF Finish
  <2>2. /\ Takes(result', result) /\ Takes(result', out.cur) /\ Takes(result', flow.brk)
        /\ h.report \subseteq result'.report
        /\ loop.forever \/ Covered(h, result')
    BY <1>2, <1>7, <2>1, EscapeFacts
  <2>3. Takes(result', entry.brk) /\ Takes(result', e.brk)
    BY <1>5, <1>7, <2>2, TakesTrans
  <2>4. Within({result, out.cur, entry.brk}, {result'})
    BY <2>2, <2>3 DEF Within, Takes
  <2>5. Within(H \union {entry.cur}, H \union {h})
    BY <1>7, SelfCovers DEF Within, Takes
  <2>6. result.report \union entry.cur.report \subseteq result'.report
    BY <1>7, <2>2 DEF Takes
  <2>7. e.cur.report \subseteq result'.report
    BY <1>8, <2>2 DEF Takes
  <2>8. EndLinked(e, {result'}, H \union {h}, result'.report)
    BY <1>2, <1>8, <2>3, <2>7 DEF EndLinked, Takes
  <2>9. Covered(h, head.cur)
    BY <1>2, <1>8, <1>10, SubsetCovers, TokenFields
  <2>10. Covered(h, b.cur)
    BY <1>3, <2>9, CoveredTrans
  <2> HIDE DEF h
  <2> QED BY <1>2, <1>4, <1>8, <2>1, <2>2, <2>4, <2>5, <2>6, <2>8, <2>10, FinishLinked
<1>11. CASE UNCHANGED <<loop, stage, entry, out, result>>
  <2>1. Base' = entry /\ stage' = "lfp" /\ loop' = loop /\ out' = out /\ result' = result
    BY <1>0, <1>11 DEF Base
  <2>2. Chain(H, B, {result', out'.cur, Base'.brk}, H \union {Base'.cur},
              result'.report \union Base'.cur.report)
    BY <1>2, <2>1
  <2> QED BY <1>2, <2>1, <2>2, OpenNext
<1> QED BY <1>9, <1>10, <1>11

LEMMA AnalyseLinked ==
  ASSUME IInv, Analyse
  PROVE  Linked'
BY FirstLinked, OnceLinked, UnrollLinked, StartLfpLinked, LfpLinked DEF Analyse

-----------------------------------------------------------------------------
(* So do those of the run.                                                 *)

\* A for loop with an increment does not continue.
Plain ==
  \A l \in Loops : l.incr # <<>> => \A i \in 1 .. Len(l.body) : l.body[i] # <<"continue">>

LEMMA PlainCode ==
  ASSUME Plain, loop \in Loops, NEW i \in 1 .. Len(Code), Code[i] = <<"continue">>
  PROVE  loop.incr = <<>>
<1>1. loop.body \in Seq(Statement \union Jump) /\ loop.incr \in Seq(Statement)
  BY LoopAssumption
<1>2. loop.incr \in Seq(Statement \union Jump)
  BY LoopAssumption
<1>3. Len(loop.body) \in Nat /\ Len(loop.incr) \in Nat
  BY <1>1
<1>4. Len(Code) = Len(loop.body) + Len(loop.incr)
  BY <1>1, <1>2 DEF Code
<1>5. CASE i \in 1 .. Len(loop.body)
  <2>1. Code[i] = loop.body[i]
    BY <1>1, <1>2, <1>5 DEF Code
  <2> QED BY <1>5, <2>1 DEF Plain
<1>6. CASE i \notin 1 .. Len(loop.body)
  <2>1. PICK k \in 1 .. Len(loop.incr) : i = Len(loop.body) + k
    <3>1. \A m, n \in Nat : i \in 1 .. (m + n) /\ i \notin 1 .. m
            => i - m \in 1 .. n /\ i = m + (i - m)
      OBVIOUS
    <3>2. i - Len(loop.body) \in 1 .. Len(loop.incr) /\ i = Len(loop.body) + (i - Len(loop.body))
      BY <1>3, <1>4, <1>6, <3>1
    <3> QED BY <3>2
  <2>2. Code[i] = loop.incr[k] /\ loop.incr[k] \in Statement
    BY <1>1, <1>2, <1>3, <2>1 DEF Code
  <2>3. Code[i][1] = "continue"
    OBVIOUS
  <2> QED BY <2>2, <2>3, StatementIsNoJump
<1> QED BY <1>5, <1>6

LEMMA ClosedMoves ==
  ASSUME UNCHANGED analysis, stage = "done", NEW H, NEW B, Closed(H, B),
         Judged(B, {result}, H, result.report)'
  PROVE  Linked'
<1>1. loop' = loop /\ result' = result /\ stage' = "done" /\ Code' = Code
  BY DEF analysis, Code
<1>2. \A h \in H : HeadLinked(h, B, {result})'
  BY <1>1 DEF Closed, Chain, HeadLinked
<1>3. \A tr \in B : BodyLinked(tr, {result}, H, result.report)'
  BY <1>1 DEF Closed, Chain, BodyLinked, EndLinked, Trace
<1>4. Closed(H, B)'
  BY <1>2, <1>3 DEF Closed, Chain
<1> QED BY <1>1, <1>4 DEF Linked

\* The run goes on at a place that a flow describes.
LEMMA MovesLocated ==
  ASSUME UNCHANGED analysis, run' = run, run = "ok", stage = "done",
         NEW H, NEW B, Closed(H, B),
         result.report \intersect ErrorAlarm # {} \/ Located(B, {result}, H)'
  PROVE  Linked'
<1>1. result' = result
  BY DEF analysis
<1>2. Judged(B, {result}, H, result.report)'
  BY <1>1 DEF Judged, Breaking
<1> QED BY <1>2, ClosedMoves

LEMMA TestLinked ==
  ASSUME IInv, TestCondition
  PROVE  Linked'
<1>0. /\ CodeOK /\ MemoryOK /\ stage = "done" /\ run = "ok" /\ run' = run /\ pc = 0
      /\ pc' \in {Following(0)} \union (IF loop.forever THEN {} ELSE {Exit})
      /\ UNCHANGED analysis /\ UNCHANGED memory
  BY PlacesInCode DEF IInv, Types, TestCondition, Running
<1>1. PICK H, B : Closed(H, B)
  BY <1>0 DEF IInv, Linked
<1>2. CASE Located(B, {result}, H)
  <2>0. 0 \notin 1 .. Len(Code) /\ 0 # Exit
    BY <1>0 DEF CodeOK, Exit
  <2>1. PICK h \in H : Here(h)
    BY <1>0, <1>2, <2>0 DEF Located
  <2>2. HeadLinked(h, B, {result})
    BY <1>1 DEF Closed, Chain
  <2>3. Code' = Code /\ result' = result /\ Exit' = Exit /\ \A f : Here(f) => Here(f)'
    BY <1>0 DEF analysis, memory, Code, Exit, Here
  <2>4. CASE pc' = Exit /\ ~loop.forever
    <3>1. Here(result)
      BY <1>0, <2>1, <2>2, <2>4, HereCovered DEF HeadLinked
    <3>2. pc' = Exit' /\ Here(result)'
      BY <2>3, <2>4, <3>1 DEF Here
    <3>3. Located(B, {result}, H)'
      BY <3>2 DEF Located
    <3> QED BY <1>0, <1>1, <3>3, MovesLocated
  <2>5. CASE pc' = Following(0)
    <3>1. PICK tr \in B : Covered(h, tr[0].cur)
      BY <2>2 DEF HeadLinked
    <3>2. BodyLinked(tr, {result}, H, result.report) /\ Here(tr[0].cur)
      BY <1>0, <1>1, <2>1, <3>1, HereCovered DEF Closed, Chain
    <3>3. PICK place : place = Following(0)
      OBVIOUS
    <3>4. \/ place = 0 /\ \E n \in H : Here(n)
          \/ place \in 1 .. Len(Code) /\ Here(tr[place - 1].cur)
          \/ place = Exit /\ \E x \in {result} : Here(x)
      BY <1>0, <3>2, <3>3, EnteredLocated
    <3>5. pc' = place
      BY <2>5, <3>3
    <3>6. Located(B, {result}, H)'
      BY <2>3, <3>1, <3>4, <3>5 DEF Located
    <3> QED BY <1>0, <1>1, <3>6, MovesLocated
  <2> QED BY <1>0, <2>4, <2>5
<1>3. CASE result.report \intersect ErrorAlarm # {}
  BY <1>0, <1>1, <1>3, MovesLocated
<1> QED BY <1>0, <1>1, <1>2, <1>3 DEF Closed, Chain, Judged

\* The statement at hand, in the body that describes the run.
AtStatement(B, tr, t, u, s, e) ==
  /\ CodeOK /\ MemoryOK /\ tr \in B /\ s = Code[pc] /\ s \in Statement \union Jump
  /\ t \in TokenFlow /\ u \in TokenFlow /\ u = Exec(t, s) /\ Here(t.cur)
  /\ u = tr[pc] /\ e = tr[Len(Code)] /\ Later(u, e)
  /\ pc \in 1 .. Len(Code) /\ pc \in 0 .. Len(Code)

LEMMA StatementAtHand ==
  ASSUME IInv, pc \in 1 .. Len(Code), NEW H, NEW B, NEW X, NEW N, NEW R,
         Chain(H, B, X, N, R), Located(B, X, N)
  PROVE  \E tr, t, u, s, e : AtStatement(B, tr, t, u, s, e) /\ EndLinked(e, X, N, R)
<1>0. CodeOK /\ MemoryOK /\ pc # 0 /\ pc # Exit
  BY PlacesInCode DEF IInv, Types, CodeOK
<1>1. PICK tr \in B : Here(tr[pc - 1].cur)
  BY <1>0 DEF Located
<1>2. Trace(tr[0], tr) /\ EndLinked(tr[Len(Code)], X, N, R)
  BY DEF Chain, BodyLinked
<1>3. pc \in 0 .. Len(Code) /\ pc - 1 \in 0 .. Len(Code) /\ pc \in 1 .. Len(Code)
  BY <1>0 DEF CodeOK
<1>4. /\ tr[pc - 1] \in TokenFlow /\ tr[pc] \in TokenFlow
      /\ tr[pc] = Exec(tr[pc - 1], Code[pc])
      /\ Code[pc] \in Statement \union Jump
  BY <1>0, <1>2, <1>3 DEF Trace, CodeOK
<1>5. Later(tr[pc], tr[Len(Code)])
  BY <1>0, <1>2, <1>3, TraceGrows
<1>6. AtStatement(B, tr, tr[pc - 1], tr[pc], Code[pc], tr[Len(Code)])
  BY <1>0, <1>1, <1>3, <1>4, <1>5 DEF AtStatement
<1> QED BY <1>2, <1>6

\* A statement or jump is described by what the analysis made of it.
LEMMA StatementHere ==
  ASSUME NEW B, NEW tr, NEW t, NEW u, NEW s, NEW e, AtStatement(B, tr, t, u, s, e),
         Attempt(s) = "ok", Effect(s), e.cur.report \intersect ErrorAlarm = {}
  PROVE  Here(u.cur)'
<1>1. /\ MemoryOK /\ t \in TokenFlow /\ s \in Statement \union Jump /\ u = Exec(t, s)
      /\ Here(t.cur) /\ Later(u, e)
  BY DEF AtStatement
<1>2. CASE s \in Statement
  <2>1. t.cur.reach
    BY <1>1 DEF Here, Sim
  <2>2. Progress(t.cur, u.cur)
    BY <1>1, ExecGrows DEF Grows
  <2>3. u.cur.reach
    BY <1>1, <2>1, <2>2 DEF Progress, Later
  <2> QED BY <1>1, <1>2, <2>3, StatementSound
<1>3. CASE s \in Jump
  <2>1. s[1] = "break" \/ s[1] = "continue"
    BY <1>3 DEF Jump
  <2>2. u.cur = t.cur
    BY <1>1, <2>1, BreakJoins, ContinueJoins
  <2>3. mem' = mem /\ rooted' = rooted /\ held' = held
    BY <1>3, JumpEffect
  <2> QED BY <1>1, <2>2, <2>3 DEF Here
<1> QED BY <1>1, <1>2, <1>3

\* After a statement the run goes on, to the next or from the end of the body.
LEMMA FollowingLocated ==
  ASSUME NEW B, NEW tr, NEW t, NEW u, NEW s, NEW e, AtStatement(B, tr, t, u, s, e),
         Here(u.cur)', MemoryOK', loop' = loop, pc' = Following(pc),
         NEW X, NEW N, NEW R, EndLinked(e, X, N, R)
  PROVE  Located(B, X, N)'
<1>0. /\ CodeOK /\ tr \in B /\ u = tr[pc] /\ e = tr[Len(Code)]
      /\ pc \in 1 .. Len(Code)
  BY DEF AtStatement
<1>1. Code' = Code /\ Exit' = Exit
  BY DEF Code, Exit
<1>2. CASE pc < Len(Code)
  <2>1. pc' = pc + 1 /\ pc' \in 1 .. Len(Code) /\ pc' - 1 = pc
    BY <1>0, <1>2 DEF Following, CodeOK
  <2>2. Sim(tr[pc' - 1].cur, mem', rooted', held')
    BY <1>0, <2>1 DEF Here
  <2> QED BY <1>0, <1>1, <2>1, <2>2 DEF Located, Here
<1>3. CASE pc = Len(Code)
  <2>1. pc' = IF loop.kind = "once" THEN Exit ELSE 0
    BY <1>0, <1>3 DEF Following, CodeOK
  <2>2. e = u
    BY <1>0, <1>3
  <2>3. PICK y \in (IF loop.kind = "once" THEN X ELSE N) : Covered(e.cur, y)
    BY DEF EndLinked
  <2>4. Here(y)'
    BY <2>2, <2>3 DEF MemoryOK, Covered, Here
  <2>5. Located(B, X, N)'
    BY <1>1, <2>1, <2>3, <2>4 DEF Located
  <2> QED BY <2>5
<1> QED BY <1>0, <1>2, <1>3 DEF CodeOK

\* And so it does at the target of a jump.
LEMMA TargetLocated ==
  ASSUME Plain, loop \in Loops,
         NEW B, NEW tr, NEW t, NEW u, NEW s, NEW e, AtStatement(B, tr, t, u, s, e),
         s[1] \in {"break", "continue"}, UNCHANGED memory, loop' = loop, pc' = Target(s),
         NEW X, NEW N, NEW R, EndLinked(e, X, N, R)
  PROVE  Located(B, X, N)'
<1>0. /\ MemoryOK /\ t \in TokenFlow /\ u = Exec(t, s) /\ Here(t.cur) /\ Later(u, e)
      /\ s \in Statement \union Jump /\ s = Code[pc] /\ pc \in 1 .. Len(Code)
  BY DEF AtStatement
<1>1. Exit' = Exit /\ \A f : Here(f) => Here(f)'
  BY DEF Code, Exit, Here, memory
<1>2. CASE s[1] = "break"
  <2>1. Covered(t.cur, u.brk)
    BY <1>0, <1>2, BreakJoins
  <2>2. Covered(t.cur, e.brk)
    BY <1>0, <2>1, CoveredTrans DEF Later
  <2>3. PICK x \in X : Covered(e.brk, x)
    BY DEF EndLinked
  <2>4. Here(x)
    BY <1>0, <2>2, <2>3, HereCovered
  <2>5. pc' = Exit
    BY <1>2 DEF Target
  <2> QED BY <1>1, <2>4, <2>5 DEF Located
<1>3. CASE s[1] = "continue"
  <2>1. Covered(t.cur, u.cont)
    BY <1>0, <1>3, ContinueJoins
  <2>2. Covered(t.cur, e.cont)
    BY <1>0, <2>1, CoveredTrans DEF Later
  <2>3. PICK y \in (IF loop.kind = "once" THEN X ELSE N) : Covered(e.cont, y)
    BY DEF EndLinked
  <2>4. Here(y)
    BY <1>0, <2>2, <2>3, HereCovered
  <2>5. s = <<"continue">>
    <3>1. s \in Jump
      BY <1>0, <1>3, StatementIsNoJump
    <3> QED BY <1>3, <3>1 DEF Jump
  <2>6. loop.incr = <<>>
    BY <1>0, <2>5, PlainCode
  <2>7. pc' = IF loop.kind = "once" THEN Exit ELSE 0
    BY <1>3, <2>6 DEF Target
  <2>8. CASE loop.kind = "once"
    BY <1>1, <2>3, <2>4, <2>7, <2>8 DEF Located
  <2>9. CASE loop.kind # "once"
    BY <1>1, <2>3, <2>4, <2>7, <2>9 DEF Located
  <2> QED BY <2>8, <2>9
<1> QED BY <1>2, <1>3

\* A broken rule is in the report after the loop.
LEMMA BreakJudged ==
  ASSUME NEW B, NEW tr, NEW t, NEW u, NEW s, NEW e, AtStatement(B, tr, t, u, s, e),
         Attempt(s) \in Breaking, NEW R, e.cur.report \subseteq R
  PROVE  Tells(R, Attempt(s))
<1>1. Tells(u.cur.report, Attempt(s))
  BY StatementTells DEF AtStatement
<1>2. u.cur.report \subseteq R
  BY DEF AtStatement, Later
<1> QED BY <1>1, <1>2 DEF Tells

LEMMA RunLinked ==
  ASSUME Plain, IInv, RunStatement, MemoryOK'
  PROVE  Linked'
<1> DEFINE at == Code[pc]
<1>0. /\ stage = "done" /\ run = "ok" /\ loop \in Loops /\ UNCHANGED analysis
      /\ pc \in 1 .. Len(Code)
  BY DEF IInv, Types, RunStatement, Running
<1>1. loop' = loop /\ result' = result
  BY <1>0 DEF analysis
<1>2. \/ /\ Attempt(at) = "ok" /\ Effect(at) /\ run' = run
         /\ \/ pc' = Following(pc)
            \/ at[1] \in {"break", "continue"} /\ pc' = Target(at)
      \/ Attempt(at) # "ok" /\ run' = Attempt(at)
  BY DEF RunStatement
<1>3. PICK H, B : Closed(H, B)
  BY <1>0 DEF IInv, Linked
<1> DEFINE R == result.report
           X == {result}
<1>4. Chain(H, B, X, H, R)
  BY <1>3 DEF Closed
<1> HIDE DEF at
<1>5. ASSUME R \intersect ErrorAlarm # {} PROVE Linked'
  <2>1. Judged(B, {result}, H, result.report)'
    BY <1>1, <1>5 DEF Judged, Tells
  <2> QED BY <1>0, <1>3, <2>1, ClosedMoves
<1>6. ASSUME R \intersect ErrorAlarm = {} PROVE Linked'
  <2>1. Located(B, X, H)
    BY <1>0, <1>4, <1>6 DEF Chain, Judged
  <2>2. PICK tr, t, u, s, e : AtStatement(B, tr, t, u, s, e) /\ EndLinked(e, X, H, R)
    <3> HIDE DEF X, R
    <3> QED BY <1>0, <1>4, <2>1, StatementAtHand
  <2>3. s = at /\ e.cur.report \subseteq R
    BY <2>2 DEF AtStatement, EndLinked, at
  <2>4. CASE /\ Attempt(at) = "ok" /\ Effect(at) /\ run' = run
             /\ \/ pc' = Following(pc)
                \/ at[1] \in {"break", "continue"} /\ pc' = Target(at)
    <3>1. e.cur.report \intersect ErrorAlarm = {}
      BY <1>6, <2>3
    <3>2. PICK Y, P : Y = X /\ P = R
      OBVIOUS
    <3>3. EndLinked(e, Y, H, P)
      BY <2>2, <3>2
    <3>4. CASE pc' = Following(pc)
      <4>1. Here(u.cur)'
        BY <2>2, <2>3, <2>4, <3>1, StatementHere
      <4>2. Located(B, Y, H)'
        BY <1>1, <2>2, <3>3, <3>4, <4>1, FollowingLocated
      <4>3. Located(B, {result}, H)'
        BY <1>1, <3>2, <4>2 DEF Located
      <4> QED BY <1>0, <1>3, <2>4, <4>3, MovesLocated
    <3>5. CASE at[1] \in {"break", "continue"} /\ pc' = Target(at)
      <4>1. s \in Jump
        BY <2>2, <2>3, <3>5, StatementIsNoJump DEF AtStatement
      <4>2. UNCHANGED memory
        BY <2>3, <2>4, <4>1, JumpEffect DEF memory
      <4>3. Located(B, Y, H)'
        BY <1>0, <1>1, <2>2, <2>3, <3>3, <3>5, <4>2, TargetLocated
      <4>4. Located(B, {result}, H)'
        BY <1>1, <3>2, <4>3 DEF Located
      <4> QED BY <1>0, <1>3, <2>4, <4>4, MovesLocated
    <3> QED BY <2>4, <3>4, <3>5
  <2>5. CASE Attempt(at) # "ok" /\ run' = Attempt(at)
    <3>1. ASSUME Attempt(at) \in Breaking PROVE Tells(R, Attempt(at))
      <4> HIDE DEF R
      <4> QED BY <2>2, <2>3, <3>1, BreakJudged
    <3>2. run' \in Breaking => Tells(result'.report, run')
      BY <1>1, <2>5, <3>1
    <3>3. Judged(B, {result}, H, result.report)'
      BY <2>5, <3>2 DEF Judged
    <3> QED BY <1>0, <1>3, <3>3, ClosedMoves
  <2> QED BY <1>2, <2>4, <2>5
<1> QED BY <1>5, <1>6

LEMMA ConcurrentGCLinked ==
  ASSUME IInv, ConcurrentGC
  PROVE  Linked'
<1>0. /\ MemoryOK /\ stage = "done" /\ run = "ok" /\ run' = run /\ ~held
      /\ mem' \in Collections /\ rooted' = rooted /\ held' = held /\ pc' = pc
      /\ UNCHANGED analysis
  BY DEF IInv, Types, ConcurrentGC, Running
<1>1. PICK S \in SUBSET Unprotected(mem, rooted) : mem' = Collected(mem, rooted, S)
  BY <1>0 DEF Collections
<1>2. \A f : Here(f) => Sim(f, mem', rooted', held')
  BY <1>0, <1>1, UnlockedCollection
<1>3. PICK H, B : Closed(H, B)
  BY <1>0 DEF IInv, Linked
<1>4. Exit' = Exit /\ Code' = Code /\ result' = result
  BY <1>0 DEF analysis, Code, Exit
<1>5. Located(B, {result}, H) => Located(B, {result}, H)'
  BY <1>0, <1>2, <1>4 DEF Located, Here
<1>6. result.report \intersect ErrorAlarm # {} \/ Located(B, {result}, H)'
  BY <1>0, <1>3, <1>5 DEF Closed, Chain, Judged
<1> QED BY <1>0, <1>3, <1>6, MovesLocated

-----------------------------------------------------------------------------
(* The initial states and the steps.                                       *)

\* The flow the loop is entered with describes the stub's variables.
LEMMA InitIInv ==
  ASSUME Init
  PROVE  IInv
<1>0. PICK protected \in SUBSET Vals, kind \in [Vals -> ArgShape] :
        LET f == [reach |-> TRUE, lock |-> "Locked", report |-> {},
                  env |-> [l \in Loc |->
                    IF l \in Vals
                      THEN Bind("Active", IF l \in protected THEN "Rooted" ELSE "NotRooted",
                                ArgShape)
                      ELSE Absent]]
        IN  /\ head = Tokens(f)
            /\ mem = [l \in Loc |-> IF l \in Vals THEN ValueOf(kind[l]) ELSE Absent]
            /\ rooted = protected
  BY DEF Init
<1> DEFINE status == "Active"
           root(l) == IF l \in protected THEN "Rooted" ELSE "NotRooted"
           env == [l \in Loc |-> IF l \in Vals THEN Bind("Active", root(l), ArgShape)
                                 ELSE Absent]
           f == [reach |-> TRUE, lock |-> "Locked", report |-> {}, env |-> env]
<1>1. /\ head = Tokens(f)
      /\ mem = [l \in Loc |-> IF l \in Vals THEN ValueOf(kind[l]) ELSE Absent]
      /\ rooted = protected /\ held = TRUE
  BY <1>0 DEF Init
<1>2. ArgShape \in ProperShape /\ ArgShape \subseteq Kind
  BY LoopAssumption, ProperConstants
<1>3. ASSUME NEW l \in Vals
      PROVE  /\ l \in Loc /\ Bind("Active", root(l), ArgShape) \in ProperEntry
             /\ ValueOf(kind[l]) \in Data
             /\ Agrees(Bind("Active", root(l), ArgShape), ValueOf(kind[l]), l \in protected, TRUE)
  <2>1. kind[l] \in ArgShape /\ kind[l] \in Kind
    BY <1>2
  <2>2. /\ ValueOf(kind[l]) \in Data /\ ValueOf(kind[l]).kind = kind[l]
        /\ ~ValueOf(kind[l]).moved
    BY <2>1, DataFacts
  <2>3. "Active" \in ProperStatus /\ root(l) \in ProperRoot
    BY DEF ProperStatus, ProperRoot, Status, Roots
  <2>4. Bind("Active", root(l), ArgShape) \in ProperEntry
    BY <1>2, <2>3, ProperEntryFields
  <2>5. /\ root(l) = "Rooted" => l \in protected
        /\ root(l) = "NotRooted" => l \notin protected
    OBVIOUS
  <2>6. Agrees(Bind("Active", root(l), ArgShape), ValueOf(kind[l]), l \in protected, TRUE)
    <3> HIDE DEF root
    <3> QED BY <2>1, <2>2, <2>5, AgreesBind
  <2> QED BY <2>2, <2>4, <2>6, LocFacts
<1>4. env \in ProperEnv
  <2> HIDE DEF root
  <2> QED BY <1>3 DEF ProperEnv
<1>5. f \in Flow /\ f.reach /\ f.lock = "Locked" /\ f.env = env
  <2> HIDE DEF env
  <2> QED BY <1>4 DEF Flow, Flat, RuntimeLock
<1>6. MemoryOK
  <2>1. mem \in Memory
    BY <1>1, <1>3 DEF Memory
  <2>2. \A l \in Vals : Holds(mem, l)
    BY <1>1, <1>3, DataFacts DEF Holds
  <2> QED BY <1>1, <2>1, <2>2, LocFacts DEF MemoryOK
<1>7. Here(f)
  <2>1. ASSUME NEW l \in Loc, Holds(mem, l)
        PROVE  env[l] # Absent /\ Agrees(env[l], mem[l], l \in rooted, TRUE)
    <3>1. l \in Vals
      BY <1>1, <2>1 DEF Holds
    <3>2. env[l] = Bind("Active", root(l), ArgShape) /\ mem[l] = ValueOf(kind[l])
      BY <1>1, <1>3, <3>1
    <3>3. env[l] # Absent
      <4> HIDE DEF root
      <4> QED BY <1>3, <3>1, <3>2, ProperEntryIsEntry, AbsentAssumption
    <3> QED BY <1>1, <1>3, <3>1, <3>2, <3>3
  <2> HIDE DEF env, f
  <2> QED BY <1>1, <1>5, <2>1 DEF Here, Sim, Describes
<1> HIDE DEF f
<1>8. head \in TokenFlow /\ head.cur = f
  BY <1>1, <1>5, TokensFlow
<1>9. NoFlow \in Flow /\ Tokens(NoFlow) \in TokenFlow
  BY NoFlowFlow, TokensFlow
<1>10. Types
  <2>1. loop \in Loops /\ count = Unrolling /\ run = "ok" /\ entry = Tokens(NoFlow)
        /\ out = Tokens(NoFlow) /\ result = NoFlow /\ stage \in {"first", "unroll"}
        /\ pc \in {0, Following(0)}
    BY DEF Init
  <2>2. pc \in 0 .. Exit
    BY <2>1, PlacesInCode DEF CodeOK
  <2>3. count \in 0 .. (Unrolling + Delay)
    BY <2>1, LoopAssumption
  <2> QED BY <1>6, <1>8, <1>9, <2>1, <2>2, <2>3 DEF Types
<1>11. CASE stage = "first"
  <2>1. loop.kind \in {"do", "once"} /\ pc = Following(0) /\ run = "ok"
    BY <1>11 DEF Init
  <2> QED BY <1>7, <1>8, <1>10, <1>11, <2>1 DEF IInv, Linked
<1>12. CASE stage # "first"
  <2>1. loop.kind # "once" /\ pc = 0 /\ run = "ok" /\ stage = "unroll"
    BY <1>12 DEF Init
  <2>2. Base = head
    BY <2>1 DEF Base
  <2> DEFINE X == {result, out.cur, Base.brk}
             R == result.report \union Base.cur.report
  <2>3. Located({}, X, {} \union {head.cur})
    BY <1>7, <1>8, <2>1 DEF Located
  <2> HIDE DEF X, R
  <2>4. Judged({}, X, {} \union {head.cur}, R)
    BY <2>1, <2>3 DEF Judged, Breaking
  <2>5. Chain({}, {}, X, {} \union {head.cur}, R)
    BY <2>4 DEF Chain
  <2>6. Open({}, {})
    BY <2>2, <2>5 DEF Open, X, R
  <2> QED BY <1>10, <2>1, <2>6 DEF IInv, Linked
<1> QED BY <1>11, <1>12

LEMMA NextIInv ==
  ASSUME Plain, IInv, [Next]_vars
  PROVE  IInv'
<1>1. Types'
  BY NextTypes DEF IInv
<1>2. MemoryOK'
  BY <1>1 DEF Types
<1> SUFFICES Linked'
  BY <1>1 DEF IInv
<1>3. CASE Analyse
  BY <1>3, AnalyseLinked
<1>4. CASE TestCondition
  BY <1>4, TestLinked
<1>5. CASE RunStatement
  BY <1>2, <1>5, RunLinked
<1>6. CASE ConcurrentGC
  BY <1>6, ConcurrentGCLinked
<1>7. CASE UNCHANGED vars
  <2>1. loop' = loop /\ stage' = stage /\ UNCHANGED <<pc, memory, run>>
    BY <1>7 DEF vars, analysis
  <2>2. head' = head /\ out' = out /\ result' = result /\ Base' = Base
    BY <1>7 DEF vars, analysis, Base
  <2>3. CASE stage = "first"
    BY <2>1, <2>2, <2>3 DEF IInv, Linked, Following, Exit, Code, Here, memory
  <2>4. CASE stage \in {"unroll", "lfp"}
    <3>1. PICK H, B : Open(H, B)
      BY <2>4 DEF IInv, Linked
    <3>2. Chain(H, B, {result', out'.cur, Base'.brk}, H \union {Base'.cur},
                result'.report \union Base'.cur.report)
      BY <2>2, <3>1 DEF Open
    <3>3. loop.kind # "once" /\ run = "ok" /\ stage' \in {"unroll", "lfp"}
      BY <2>1, <2>4 DEF IInv, Linked
    <3> QED BY <2>1, <3>2, <3>3, OpenNext
  <2>5. CASE stage = "done"
    <3>1. PICK H, B : Closed(H, B)
      BY <2>5 DEF IInv, Linked
    <3>2. Chain(H, B, {result'}, H, result'.report)
      BY <2>2, <3>1 DEF Closed
    <3> QED BY <2>1, <2>5, <3>2, ClosedNext
  <2> QED BY <2>3, <2>4, <2>5 DEF IInv, Types
<1> QED BY <1>3, <1>4, <1>5, <1>6, <1>7 DEF Next

-----------------------------------------------------------------------------
(* The fixpoint.  One iteration is monotone in FlowBelow, unless the flow   *)
(* above reports an error.                                                  *)

\* The variables of the stub have a binding.
Declared(f) == f.reach => \A x \in Vals : f.env[x] # Absent

Lower(f, g) == f \in Flow /\ g \in Flow /\ Declared(f) /\ FlowBelow(f, g)

Clean(f) == f.report \intersect ErrorAlarm = {}

LEMMA StatusConstants ==
  \A s \in ProperStatus : s # BOT
BY DEF ProperStatus, Status, BOT, TOP

LEMMA RootConstants ==
  \A s \in ProperRoot : s # BOT
BY DEF ProperRoot, Roots, BOT, TOP

LEMMA EntryFacts ==
  ASSUME NEW f \in Flow, NEW l \in Loc, f.env[l] # Absent
  PROVE  /\ f.env[l] \in ProperEntry
         /\ f.env[l].status \in ProperStatus /\ f.env[l].root \in ProperRoot
         /\ f.env[l].shape \in Shape
         /\ StatusVar(f, l) = f.env[l].status
         /\ ShapesVar(f, l) = f.env[l].shape
         /\ RootAfter(f, l) = f.env[l].root
<1>1. f.env[l] \in ProperEntry
  BY FlowFields
<1>2. f.env[l].shape \in ProperShape
  BY <1>1, ProperEntryFields
<1> QED BY <1>1, <1>2, ProperEntryFields DEF StatusVar, ShapesVar, RootAfter, ProperShape

\* A flow describes every run that the flows below it describe.
LEMMA BelowCovers ==
  ASSUME NEW f \in Flow, NEW g, FlowBelow(f, g)
  PROVE  Covered(f, g)
<1> SUFFICES ASSUME NEW m \in Memory, NEW r \in SUBSET Loc, NEW h \in BOOLEAN,
                    Sim(f, m, r, h)
             PROVE  Sim(g, m, r, h)
  BY DEF Covered
<1>1. /\ g.reach /\ ConstSubset(f.lock, g.lock)
      /\ \A l \in Loc : f.env[l] # Absent => g.env[l] # Absent /\ EntryBelow(f.env[l], g.env[l])
  BY DEF Sim, FlowBelow
<1>2. g.lock \in {TOP, IF h THEN "Locked" ELSE "Unlocked"}
  BY <1>1 DEF Sim, ConstSubset, BOT, TOP
<1>3. ASSUME NEW l \in Loc, Holds(m, l)
      PROVE  g.env[l] # Absent /\ Agrees(g.env[l], m[l], l \in r, h)
  <2>1. f.env[l] # Absent /\ Agrees(f.env[l], m[l], l \in r, h)
    BY <1>3, SimEntry
  <2>2. f.env[l].root # BOT
    BY <2>1, EntryFacts, RootConstants
  <2>3. /\ g.env[l] # Absent
        /\ g.env[l].status \in {f.env[l].status, "Stale", TOP}
        /\ g.env[l].root = TOP \/ g.env[l].root = f.env[l].root
        /\ f.env[l].shape \subseteq g.env[l].shape
    BY <1>1, <2>1, <2>2 DEF EntryBelow, ConstSubset
  <2> QED BY <2>1, <2>3 DEF Agrees, TOP
<1> QED BY <1>1, <1>2, <1>3 DEF Sim, Describes

LEMMA SubsetBelow ==
  ASSUME NEW f \in Flow, NEW g, FlowSubset(f, g)
  PROVE  FlowBelow(f, g)
<1> SUFFICES ASSUME f.reach PROVE FlowBelow(f, g)
  BY DEF FlowBelow
<1>1. g.reach /\ EnvSubset(f.env, g.env) /\ ConstSubset(f.lock, g.lock)
  BY DEF FlowSubset
<1>2. ASSUME NEW l \in Loc, f.env[l] # Absent
      PROVE  g.env[l] # Absent /\ EntryBelow(f.env[l], g.env[l])
  <2>1. g.env[l] # Absent /\ EntrySubset(f.env[l], g.env[l])
    BY <1>1, <1>2 DEF EnvSubset
  <2>2. f.env[l].status # BOT
    BY <1>2, EntryFacts, StatusConstants
  <2> QED BY <2>1, <2>2 DEF EntrySubset, EntryBelow, ConstSubset
<1> QED BY <1>1, <1>2 DEF FlowBelow

LEMMA EntryBelowTrans ==
  ASSUME NEW c, NEW d, NEW e, EntryBelow(c, d), EntryBelow(d, e)
  PROVE  EntryBelow(c, e)
BY DEF EntryBelow, ConstSubset, TOP, BOT

LEMMA BelowTrans ==
  ASSUME NEW f, NEW g, NEW h, FlowBelow(f, g), FlowBelow(g, h)
  PROVE  FlowBelow(f, h)
<1> SUFFICES ASSUME f.reach PROVE FlowBelow(f, h)
  BY DEF FlowBelow
<1>1. g.reach /\ h.reach /\ ConstSubset(f.lock, g.lock) /\ ConstSubset(g.lock, h.lock)
  BY DEF FlowBelow
<1>2. ConstSubset(f.lock, h.lock)
  BY <1>1 DEF ConstSubset, TOP, BOT
<1>3. ASSUME NEW l \in Loc, f.env[l] # Absent
      PROVE  h.env[l] # Absent /\ EntryBelow(f.env[l], h.env[l])
  <2>1. g.env[l] # Absent /\ EntryBelow(f.env[l], g.env[l])
    BY <1>3 DEF FlowBelow
  <2>2. h.env[l] # Absent /\ EntryBelow(g.env[l], h.env[l])
    BY <1>1, <2>1 DEF FlowBelow
  <2> QED BY <2>1, <2>2, EntryBelowTrans
<1> QED BY <1>1, <1>2, <1>3 DEF FlowBelow

LEMMA BelowRefl == \A f : FlowBelow(f, f)
BY DEF FlowBelow, EntryBelow, ConstSubset

\* A flow that differs in its report only.
LEMMA AlikeBelow ==
  ASSUME NEW f, NEW g, f.reach => g.reach /\ g.env = f.env /\ g.lock = f.lock
  PROVE  FlowBelow(f, g)
BY DEF FlowBelow, EntryBelow, ConstSubset

-----------------------------------------------------------------------------
(* Joins.                                                                   *)

LEMMA EntryJoinBounds ==
  ASSUME NEW d \in ProperEntry, NEW e \in ProperEntry
  PROVE  /\ EntryBelow(d, EntryJoin(d, e)) /\ EntryBelow(e, EntryJoin(d, e))
         /\ \A u \in ProperEntry : EntryBelow(d, u) /\ EntryBelow(e, u) => EntryBelow(EntryJoin(d, e), u)
<1>1. /\ d.status \in ProperStatus /\ d.root \in ProperRoot /\ d.shape \in Shape
      /\ e.status \in ProperStatus /\ e.root \in ProperRoot /\ e.shape \in Shape
  BY ProperEntryFields DEF ProperShape
<1>2. /\ d.status # BOT /\ e.status # BOT /\ d.root # BOT /\ e.root # BOT
  BY <1>1, StatusConstants, RootConstants
<1>3. /\ EntryJoin(d, e).status = (IF d.status = e.status THEN d.status ELSE TOP)
      /\ EntryJoin(d, e).root = (IF d.root = e.root THEN d.root ELSE TOP)
      /\ EntryJoin(d, e).shape = ShapeJoin(d.shape, e.shape)
  BY <1>2 DEF EntryJoin, Bind, ConstJoin
<1>4. d.shape \subseteq ShapeJoin(d.shape, e.shape) /\ e.shape \subseteq ShapeJoin(d.shape, e.shape)
  BY <1>1, ShapeJoinUpper
<1>5. EntryBelow(d, EntryJoin(d, e)) /\ EntryBelow(e, EntryJoin(d, e))
  BY <1>3, <1>4 DEF EntryBelow, ConstSubset
<1>6. ASSUME NEW u \in ProperEntry, EntryBelow(d, u), EntryBelow(e, u)
      PROVE  EntryBelow(EntryJoin(d, e), u)
  <2>1. ShapeJoin(d.shape, e.shape) \subseteq u.shape
    BY <1>1, <1>6, ShapeJoinLeast, ProperEntryFields DEF EntryBelow, ProperShape
  <2>2. ConstSubset(EntryJoin(d, e).root, u.root)
    BY <1>2, <1>3, <1>6 DEF EntryBelow, ConstSubset
  <2>3. u.status \in {EntryJoin(d, e).status, "Stale", TOP}
    BY <1>3, <1>6 DEF EntryBelow
  <2> QED BY <1>3, <2>1, <2>2, <2>3 DEF EntryBelow
<1> QED BY <1>5, <1>6

LEMMA JoinAbove ==
  ASSUME NEW f \in Flow, NEW g \in Flow
  PROVE  FlowBelow(f, JoinFlow(f, g)) /\ FlowBelow(g, JoinFlow(f, g))
<1> DEFINE j == JoinFlow(f, g)
<1>1. /\ ~f.reach => j.reach = g.reach /\ j.env = g.env /\ j.lock = g.lock
      /\ f.reach /\ ~g.reach => j.reach /\ j.env = f.env /\ j.lock = f.lock
      /\ f.reach /\ g.reach => /\ j.reach /\ j.env = EnvJoin(f.env, g.env)
                               /\ j.lock = ConstJoin(f.lock, g.lock)
  BY JoinFlowFlow
<1> HIDE DEF j
<1> SUFFICES FlowBelow(f, j) /\ FlowBelow(g, j)
  BY DEF j
<1>2. CASE ~f.reach
  <2>1. g.reach => j.reach /\ j.env = g.env /\ j.lock = g.lock
    BY <1>1, <1>2
  <2>2. FlowBelow(g, j)
    BY <2>1, AlikeBelow
  <2>3. FlowBelow(f, j)
    BY <1>2 DEF FlowBelow
  <2> QED BY <2>2, <2>3
<1>3. CASE f.reach /\ ~g.reach
  <2>1. f.reach => j.reach /\ j.env = f.env /\ j.lock = f.lock
    BY <1>1, <1>3
  <2>2. FlowBelow(f, j)
    BY <2>1, AlikeBelow
  <2>3. FlowBelow(g, j)
    BY <1>3 DEF FlowBelow
  <2> QED BY <2>2, <2>3
<1>4. CASE f.reach /\ g.reach
  <2>1. ConstSubset(f.lock, j.lock) /\ ConstSubset(g.lock, j.lock)
    BY <1>1, <1>4, FlowFields, FlatConstants, ConstJoinUpper
  <2>2. ASSUME NEW l \in Loc
        PROVE  /\ f.env[l] # Absent => j.env[l] # Absent /\ EntryBelow(f.env[l], j.env[l])
               /\ g.env[l] # Absent => j.env[l] # Absent /\ EntryBelow(g.env[l], j.env[l])
    <3>1. j.env[l] = IF f.env[l] = Absent THEN g.env[l]
                     ELSE IF g.env[l] = Absent THEN f.env[l] ELSE EntryJoin(f.env[l], g.env[l])
      BY <1>1, <1>4 DEF EnvJoin
    <3>2. \A e : EntryBelow(e, e)
      BY DEF EntryBelow, ConstSubset
    <3>3. CASE f.env[l] # Absent /\ g.env[l] # Absent
      <4>1. f.env[l] \in ProperEntry /\ g.env[l] \in ProperEntry
        BY <3>3, EntryFacts
      <4>2. j.env[l] # Absent
        BY <3>1, <3>3, <4>1, EntryJoinProper, ProperEntryIsEntry, AbsentAssumption
      <4> QED BY <3>1, <3>3, <4>1, <4>2, EntryJoinBounds
    <3>4. CASE f.env[l] = Absent \/ g.env[l] = Absent
      BY <3>1, <3>2, <3>4
    <3> QED BY <3>3, <3>4
  <2> QED BY <1>1, <1>4, <2>1, <2>2 DEF FlowBelow
<1>5. f.reach \in BOOLEAN /\ g.reach \in BOOLEAN
  BY FlowFields
<1> QED BY <1>2, <1>3, <1>4, <1>5

LEMMA JoinLeast ==
  ASSUME NEW f \in Flow, NEW g \in Flow, NEW h \in Flow, FlowBelow(f, h), FlowBelow(g, h)
  PROVE  FlowBelow(JoinFlow(f, g), h)
<1> DEFINE j == JoinFlow(f, g)
<1>1. /\ ~f.reach => j.reach = g.reach /\ j.env = g.env /\ j.lock = g.lock
      /\ f.reach /\ ~g.reach => j.reach /\ j.env = f.env /\ j.lock = f.lock
      /\ f.reach /\ g.reach => /\ j.reach /\ j.env = EnvJoin(f.env, g.env)
                               /\ j.lock = ConstJoin(f.lock, g.lock)
  BY JoinFlowFlow
<1> HIDE DEF j
<1> SUFFICES FlowBelow(j, h)
  BY DEF j
<1>2. CASE ~f.reach
  <2>1. j.reach => g.reach /\ j.env = g.env /\ j.lock = g.lock
    BY <1>1, <1>2
  <2>2. FlowBelow(j, g)
    BY <2>1, AlikeBelow
  <2> QED BY <2>2, BelowTrans
<1>3. CASE f.reach /\ ~g.reach
  <2>1. j.reach => f.reach /\ j.env = f.env /\ j.lock = f.lock
    BY <1>1, <1>3
  <2>2. FlowBelow(j, f)
    BY <2>1, AlikeBelow
  <2> QED BY <2>2, BelowTrans
<1>4. CASE f.reach /\ g.reach
  <2>1. h.reach /\ ConstSubset(j.lock, h.lock)
    BY <1>1, <1>4, ConstJoinLeast DEF FlowBelow
  <2>2. ASSUME NEW l \in Loc, j.env[l] # Absent
        PROVE  h.env[l] # Absent /\ EntryBelow(j.env[l], h.env[l])
    <3>1. j.env[l] = IF f.env[l] = Absent THEN g.env[l]
                     ELSE IF g.env[l] = Absent THEN f.env[l] ELSE EntryJoin(f.env[l], g.env[l])
      BY <1>1, <1>4 DEF EnvJoin
    <3>2. /\ f.env[l] # Absent => h.env[l] # Absent /\ EntryBelow(f.env[l], h.env[l])
          /\ g.env[l] # Absent => h.env[l] # Absent /\ EntryBelow(g.env[l], h.env[l])
      BY <1>4 DEF FlowBelow
    <3>3. CASE f.env[l] # Absent /\ g.env[l] # Absent
      <4>1. f.env[l] \in ProperEntry /\ g.env[l] \in ProperEntry /\ h.env[l] \in ProperEntry
        BY <3>2, <3>3, EntryFacts
      <4> QED BY <3>1, <3>2, <3>3, <4>1, EntryJoinBounds
    <3>4. CASE f.env[l] = Absent \/ g.env[l] = Absent
      BY <2>2, <3>1, <3>2, <3>4
    <3> QED BY <3>3, <3>4
  <2> QED BY <1>1, <1>4, <2>1, <2>2 DEF FlowBelow
<1> QED BY <1>2, <1>3, <1>4

LEMMA JoinDeclared ==
  ASSUME NEW f \in Flow, NEW g \in Flow, Declared(f), Declared(g)
  PROVE  Declared(JoinFlow(f, g))
<1> DEFINE j == JoinFlow(f, g)
<1>1. /\ ~f.reach => j.reach = g.reach
      /\ f.reach \in BOOLEAN
  BY JoinFlowFlow, FlowFields
<1>3. FlowBelow(f, j) /\ FlowBelow(g, j)
  BY JoinAbove
<1> HIDE DEF j
<1>2. Declared(j)
  BY <1>1, <1>3, LocFacts DEF Declared, FlowBelow
<1> QED BY <1>2 DEF j

LEMMA JoinLower ==
  ASSUME NEW f, NEW f2, NEW g, NEW g2, Lower(f, g), Lower(f2, g2)
  PROVE  Lower(JoinFlow(f, f2), JoinFlow(g, g2))
<1>1. JoinFlow(f, f2) \in Flow /\ JoinFlow(g, g2) \in Flow
  BY JoinTakes DEF Lower
<1>2. FlowBelow(f, JoinFlow(g, g2)) /\ FlowBelow(f2, JoinFlow(g, g2))
  BY JoinAbove, BelowTrans DEF Lower
<1> QED BY <1>1, <1>2, JoinLeast, JoinDeclared DEF Lower

-----------------------------------------------------------------------------
(* Statements on two flows, one below the other.                           *)

\* Every variable keeps a binding.
Keeps(f, f2) ==
  f2.reach => f.reach /\ \A x \in Vals : f.env[x] # Absent => f2.env[x] # Absent

LEMMA KeepsTrans ==
  ASSUME NEW f, NEW g, NEW h, Keeps(f, g), Keeps(g, h)
  PROVE  Keeps(f, h)
BY DEF Keeps

LEMMA KeepsDeclared ==
  ASSUME NEW f, NEW g, Declared(f), Keeps(f, g)
  PROVE  Declared(g)
BY DEF Keeps, Declared

\* The flow above has no error, so it still covers the one below.
LEMMA LowerIntro ==
  ASSUME NEW f, NEW g, NEW f2 \in Flow, NEW g2 \in Flow,
         Lower(f, g), Progress(g, g2), Clean(g2), Keeps(f, f2),
         f2.reach /\ g2.reach =>
           /\ ConstSubset(f2.lock, g2.lock)
           /\ \A l \in Loc : f2.env[l] # Absent =>
                g2.env[l] # Absent /\ EntryBelow(f2.env[l], g2.env[l])
  PROVE  Lower(f2, g2)
<1>1. Declared(f2)
  BY KeepsDeclared DEF Lower
<1>2. f2.reach => g2.reach
  <2>1. f2.reach => g.reach
    BY DEF Keeps, Lower, FlowBelow
  <2>2. g.reach => g2.reach
    BY DEF Progress, Clean
  <2> QED BY <2>1, <2>2
<1>3. FlowBelow(f2, g2)
  BY <1>2 DEF FlowBelow
<1> QED BY <1>1, <1>3 DEF Lower

\* What two flows, one below the other, say of a variable.
LEMMA LowerLookups ==
  ASSUME NEW f, NEW g, Lower(f, g), f.reach, NEW x \in Vals
  PROVE  /\ g.reach
         /\ f.env[x] # Absent /\ g.env[x] # Absent
         /\ EntryBelow(f.env[x], g.env[x])
         /\ StatusVar(g, x) \in {StatusVar(f, x), "Stale", TOP}
         /\ ShapesVar(f, x) \subseteq ShapesVar(g, x)
         /\ ConstSubset(RootAfter(f, x), RootAfter(g, x))
<1>1. x \in Loc /\ f \in Flow /\ g \in Flow
  BY LocFacts DEF Lower
<1>2. f.env[x] # Absent
  BY DEF Lower, Declared
<1>3. g.reach /\ g.env[x] # Absent /\ EntryBelow(f.env[x], g.env[x])
  BY <1>1, <1>2 DEF Lower, FlowBelow
<1>4. /\ StatusVar(f, x) = f.env[x].status /\ StatusVar(g, x) = g.env[x].status
      /\ ShapesVar(f, x) = f.env[x].shape /\ ShapesVar(g, x) = g.env[x].shape
      /\ RootAfter(f, x) = f.env[x].root /\ RootAfter(g, x) = g.env[x].root
  BY <1>1, <1>2, <1>3, EntryFacts
<1> QED BY <1>2, <1>3, <1>4 DEF EntryBelow

LEMMA UpdatesKeep ==
  ASSUME NEW f \in Flow, NEW f2, NEW l, NEW d, Updates(f, f2, l, d)
  PROVE  Keeps(f, f2)
<1> SUFFICES ASSUME f2.reach, NEW x \in Vals, f.env[x] # Absent
             PROVE  f2.env[x] # Absent
  BY DEF Updates, Keeps
<1>1. f2.env = [f.env EXCEPT ![l] = d] /\ d # Absent
  BY ProperEntryIsEntry, AbsentAssumption DEF Updates
<1>2. f.env \in ProperEnv /\ x \in Loc
  BY FlowFields, LocFacts
<1> QED BY <1>1, <1>2 DEF ProperEnv

LEMMA UpdatesLower ==
  ASSUME NEW f, NEW g, Lower(f, g), NEW f2, NEW g2, NEW l \in Loc, NEW d, NEW e,
         Updates(f, f2, l, d), Updates(g, g2, l, e), Clean(g2),
         f.reach => EntryBelow(d, e)
  PROVE  Lower(f2, g2)
<1>1. /\ f \in Flow /\ g \in Flow /\ f2 \in Flow /\ g2 \in Flow
      /\ Keeps(f, f2) /\ Progress(g, g2)
  BY UpdatesKeep DEF Lower, Updates, Progress
<1>2. ASSUME f2.reach, g2.reach
      PROVE  ConstSubset(f2.lock, g2.lock)
  BY <1>2 DEF Updates, Lower, FlowBelow
<1>3. ASSUME f2.reach, g2.reach, NEW k \in Loc, f2.env[k] # Absent
      PROVE  g2.env[k] # Absent /\ EntryBelow(f2.env[k], g2.env[k])
  <2>1. /\ f.reach /\ e # Absent
        /\ f2.env = [f.env EXCEPT ![l] = d] /\ g2.env = [g.env EXCEPT ![l] = e]
    BY <1>3, ProperEntryIsEntry, AbsentAssumption DEF Updates
  <2>2. f.env \in ProperEnv /\ g.env \in ProperEnv
    BY <1>1, FlowFields
  <2>3. CASE k = l
    <3>1. f2.env[k] = d /\ g2.env[k] = e
      BY <2>1, <2>2, <2>3 DEF ProperEnv
    <3> QED BY <2>1, <3>1
  <2>4. CASE k # l
    <3>1. f2.env[k] = f.env[k] /\ g2.env[k] = g.env[k]
      BY <2>1, <2>2, <2>4 DEF ProperEnv
    <3> QED BY <1>3, <2>1, <3>1 DEF Lower, FlowBelow
  <2> QED BY <2>3, <2>4
<1> QED BY <1>1, <1>2, <1>3, LowerIntro

LEMMA ChecksLower ==
  ASSUME NEW f, NEW g, Lower(f, g), NEW f2, NEW g2, Checked(f, f2), Checked(g, g2), Clean(g2)
  PROVE  Lower(f2, g2)
<1>1. f2 \in Flow /\ g2 \in Flow /\ Progress(g, g2) /\ Keeps(f, f2)
  BY DEF Checked, Progress, Keeps
<1>2. f2.reach /\ g2.reach => /\ f.reach /\ f2.env = f.env /\ f2.lock = f.lock
                              /\ g2.env = g.env /\ g2.lock = g.lock
  BY DEF Checked
<1> QED BY <1>1, <1>2, LowerIntro DEF Lower, FlowBelow

\* A collection that makes a value stale makes it stale above as well.
LEMMA CollectEntryBelow ==
  ASSUME NEW d \in ProperEntry, NEW e \in ProperEntry, EntryBelow(d, e)
  PROVE  EntryBelow(CollectEntry(d), CollectEntry(e))
<1> DEFINE Stales(c) == c.status = "Active" /\ c.root # "Rooted" /\ ~IsGuaranteedImmediate(c.shape)
<1>1. \A c \in ProperEntry :
        /\ CollectEntry(c).status = IF Stales(c) THEN "Stale" ELSE c.status
        /\ CollectEntry(c).root = c.root
        /\ CollectEntry(c).shape = c.shape
  BY DEF CollectEntry, ProperEntry
<1>2. d.root # BOT
  BY ProperEntryFields, RootConstants
<1>3. Stales(d) /\ e.status = "Active" => Stales(e)
  BY <1>2 DEF EntryBelow, ConstSubset, IsGuaranteedImmediate, TOP
<1> HIDE DEF Stales
<1>4. Stales(d) => d.status = "Active"
  BY DEF Stales
<1> QED BY <1>1, <1>3, <1>4 DEF EntryBelow

LEMMA CollectsKeep ==
  ASSUME NEW f \in Flow, NEW f2 \in Flow, Collects(f, f2)
  PROVE  Keeps(f, f2)
<1> SUFFICES ASSUME f2.reach, NEW x \in Vals, f.env[x] # Absent
             PROVE  f2.env[x] # Absent
  BY DEF Collects, Keeps
<1>1. x \in Loc /\ f2.env[x] = CollectEntry(f.env[x])
  BY LocFacts DEF Collects
<1>2. f.env[x] \in ProperEntry
  BY <1>1, EntryFacts
<1>3. CollectEntry(f.env[x]) \in ProperEntry
  BY <1>2 DEF CollectEntry, ProperEntry, Status
<1> QED BY <1>1, <1>3, ProperEntryIsEntry, AbsentAssumption

LEMMA CollectsLower ==
  ASSUME NEW f, NEW g, Lower(f, g), NEW f2 \in Flow, NEW g2 \in Flow,
         Collects(f, f2), Collects(g, g2), Clean(g2)
  PROVE  Lower(f2, g2)
<1>1. f \in Flow /\ g \in Flow /\ Keeps(f, f2) /\ Progress(g, g2)
  BY CollectsKeep DEF Lower, Collects
<1>2. ASSUME f2.reach, g2.reach
      PROVE  ConstSubset(f2.lock, g2.lock)
  BY <1>2 DEF Collects, Lower, FlowBelow
<1>3. ASSUME f2.reach, g2.reach, NEW l \in Loc, f2.env[l] # Absent
      PROVE  g2.env[l] # Absent /\ EntryBelow(f2.env[l], g2.env[l])
  <2>1. f.reach /\ f.env[l] # Absent /\ f2.env[l] = CollectEntry(f.env[l])
    BY <1>3 DEF Collects
  <2>2. g.env[l] # Absent /\ EntryBelow(f.env[l], g.env[l])
    BY <2>1 DEF Lower, FlowBelow
  <2>3. g2.env[l] = CollectEntry(g.env[l])
    BY <1>3, <2>2 DEF Collects
  <2>4. f.env[l] \in ProperEntry /\ g.env[l] \in ProperEntry
    BY <1>1, <2>1, <2>2, EntryFacts
  <2>5. CollectEntry(g.env[l]) \in ProperEntry
    BY <2>4 DEF CollectEntry, ProperEntry, Status
  <2> QED BY <2>1, <2>2, <2>3, <2>4, <2>5, CollectEntryBelow, ProperEntryIsEntry, AbsentAssumption
<1> QED BY <1>1, <1>2, <1>3, LowerIntro

\* Earlier flows have no more errors.
LEMMA CleanBefore ==
  ASSUME NEW f, NEW g, f.report \subseteq g.report, Clean(g)
  PROVE  Clean(f)
BY DEF Clean

-----------------------------------------------------------------------------
(* The statements of the body.                                             *)

\* x = y
LEMMA CopyLower ==
  ASSUME NEW x \in Vals, NEW y \in Vals
  PROVE  /\ \A f \in Flow : Keeps(f, CopyVal(f, x, y))
         /\ \A f, g : Lower(f, g) /\ Clean(CopyVal(g, x, y)) => Lower(CopyVal(f, x, y), CopyVal(g, x, y))
<1> DEFINE E(f) == Bind(StatusVar(f, y), RootAfter(f, x), ShapesVar(f, y))
<1>1. \A f \in Flow : Updates(f, CopyVal(f, x, y), x, E(f))
  BY LocFacts, CopyValUpdates
<1>2. ASSUME NEW f, NEW g, Lower(f, g), f.reach
      PROVE  EntryBelow(E(f), E(g))
  BY <1>2, LowerLookups DEF EntryBelow, Bind
<1> HIDE DEF E
<1>3. ASSUME NEW f, NEW g, Lower(f, g), Clean(CopyVal(g, x, y))
      PROVE  Lower(CopyVal(f, x, y), CopyVal(g, x, y))
  <2>1. f \in Flow /\ g \in Flow /\ x \in Loc
    BY <1>3, LocFacts DEF Lower
  <2> QED BY <1>1, <1>2, <1>3, <2>1, UpdatesLower
<1> QED BY <1>1, <1>3, UpdatesKeep

\* A result is active and of a given shape in both flows.
LEMMA ResultBelow ==
  ASSUME NEW f, NEW g, Lower(f, g), f.reach, NEW x \in Vals, NEW shape
  PROVE  EntryBelow(Bind("Active", RootAfter(f, x), shape), Bind("Active", RootAfter(g, x), shape))
BY LowerLookups DEF EntryBelow, Bind

\* x = Val_long(n)
LEMMA LongLower ==
  ASSUME NEW x \in Vals
  PROVE  /\ \A f \in Flow : Keeps(f, ValOfLong(f, x))
         /\ \A f, g : Lower(f, g) /\ Clean(ValOfLong(g, x)) => Lower(ValOfLong(f, x), ValOfLong(g, x))
<1>1. \A f \in Flow : Updates(f, ValOfLong(f, x), x, Bind("Active", RootAfter(f, x), {Imm}))
  BY LocFacts, ProperConstants, CheckedRefl, ReturnValueUpdates DEF ValOfLong
<1>2. ASSUME NEW f, NEW g, Lower(f, g), Clean(ValOfLong(g, x))
      PROVE  Lower(ValOfLong(f, x), ValOfLong(g, x))
  <2>1. f \in Flow /\ g \in Flow /\ x \in Loc
    BY <1>2, LocFacts DEF Lower
  <2> QED BY <1>1, <1>2, <2>1, ResultBelow, UpdatesLower
<1> QED BY <1>1, <1>2, UpdatesKeep

\* x = caml_alloc(n, tag)
LEMMA AllocLower ==
  ASSUME NEW x \in Vals
  PROVE  /\ \A f \in Flow : Keeps(f, CamlAlloc(f, x, StdBlock))
         /\ \A f, g : Lower(f, g) /\ Clean(CamlAlloc(g, x, StdBlock)) =>
              Lower(CamlAlloc(f, x, StdBlock), CamlAlloc(g, x, StdBlock))
<1>1. ASSUME NEW f \in Flow
      PROVE  \E d \in Flow : /\ Collects(f, d)
                             /\ Updates(d, CamlAlloc(f, x, StdBlock), x,
                                        Bind("Active", RootAfter(d, x), StdBlock))
  BY LocFacts, ProperConstants, CamlAllocAllocates DEF Allocates
<1>2. ASSUME NEW f \in Flow
      PROVE  Keeps(f, CamlAlloc(f, x, StdBlock))
  BY <1>1, CollectsKeep, UpdatesKeep, KeepsTrans
<1>3. ASSUME NEW f, NEW g, Lower(f, g), Clean(CamlAlloc(g, x, StdBlock))
      PROVE  Lower(CamlAlloc(f, x, StdBlock), CamlAlloc(g, x, StdBlock))
  <2>1. f \in Flow /\ g \in Flow /\ x \in Loc
    BY <1>3, LocFacts DEF Lower
  <2>2. PICK c \in Flow : /\ Collects(f, c)
                          /\ Updates(c, CamlAlloc(f, x, StdBlock), x,
                                     Bind("Active", RootAfter(c, x), StdBlock))
    BY <1>1, <2>1
  <2>3. PICK d \in Flow : /\ Collects(g, d)
                          /\ Updates(d, CamlAlloc(g, x, StdBlock), x,
                                     Bind("Active", RootAfter(d, x), StdBlock))
    BY <1>1, <2>1
  <2>4. Clean(d)
    BY <1>3, <2>3, CleanBefore DEF Updates, Progress
  <2>5. Lower(c, d)
    BY <1>3, <2>2, <2>3, <2>4, CollectsLower
  <2> QED BY <1>3, <2>1, <2>2, <2>3, <2>5, ResultBelow, UpdatesLower
<1> QED BY <1>2, <1>3

\* Tag_val(x), Wosize_val(x)
LEMMA InspectLower ==
  ASSUME NEW x \in Vals
  PROVE  /\ \A f \in Flow : Keeps(f, CamlInspect(f, x, StdBlock))
         /\ \A f, g : Lower(f, g) /\ Clean(CamlInspect(g, x, StdBlock)) =>
              Lower(CamlInspect(f, x, StdBlock), CamlInspect(g, x, StdBlock))
<1>1. \A f \in Flow : Checked(f, CamlInspect(f, x, StdBlock))
  BY LocFacts, AssertBlockOfChecked DEF CamlInspect
<1>2. \A f \in Flow : Keeps(f, CamlInspect(f, x, StdBlock))
  BY <1>1 DEF Checked, Keeps
<1> QED BY <1>1, <1>2, ChecksLower DEF Lower

\* A root is registered or removed: what is known of its value stays.
LEMMA RootSetLower ==
  ASSUME NEW f, NEW g, Lower(f, g), NEW x \in Vals, NEW root \in Roots
  PROVE  f.reach => EntryBelow(Bind(f.env[x].status, root, f.env[x].shape),
                               Bind(g.env[x].status, root, g.env[x].shape))
BY LowerLookups DEF EntryBelow, Bind, ConstSubset

\* CAMLparam1(x)
LEMMA RootLower ==
  ASSUME NEW x \in Vals
  PROVE  /\ \A f \in Flow : Keeps(f, CamlParam(f, x))
         /\ \A f, g : Lower(f, g) /\ Clean(CamlParam(g, x)) => Lower(CamlParam(f, x), CamlParam(g, x))
<1>0. x \in Loc /\ "Rooted" \in Roots
  BY LocFacts DEF Roots
<1>1. \A f \in Flow : Registers(f, CamlParam(f, x), x)
  BY <1>0, CamlParamRegisters DEF CamlParam
<1>2. ASSUME NEW f \in Flow
      PROVE  Keeps(f, CamlParam(f, x))
  <2>1. ASSUME CamlParam(f, x).reach, NEW y \in Vals, f.env[y] # Absent
        PROVE  CamlParam(f, x).env[y] # Absent
    BY <1>1, <2>1, LocFacts DEF Registers
  <2> QED BY <1>1, <2>1 DEF Registers, Keeps
<1>3. ASSUME NEW f, NEW g, Lower(f, g), Clean(CamlParam(g, x))
      PROVE  Lower(CamlParam(f, x), CamlParam(g, x))
  <2> DEFINE f2 == CamlParam(f, x)
             g2 == CamlParam(g, x)
  <2>1. /\ f \in Flow /\ g \in Flow /\ Keeps(f, f2)
        /\ Registers(f, f2, x) /\ Registers(g, g2, x) /\ Clean(g2)
    BY <1>1, <1>2, <1>3 DEF Lower
  <2> HIDE DEF f2, g2
  <2>2. ASSUME f2.reach, g2.reach
        PROVE  ConstSubset(f2.lock, g2.lock)
    BY <1>3, <2>1, <2>2 DEF Registers, Lower, FlowBelow
  <2>3. ASSUME f2.reach, g2.reach, NEW l \in Loc, f2.env[l] # Absent
        PROVE  g2.env[l] # Absent /\ EntryBelow(f2.env[l], g2.env[l])
    <3>1. CASE l = x
      <4>1. /\ f.reach /\ g2.env[l] # Absent
            /\ f2.env[l] = Bind(f.env[x].status, "Rooted", f.env[x].shape)
            /\ g2.env[l] = Bind(g.env[x].status, "Rooted", g.env[x].shape)
        BY <2>1, <2>3, <3>1 DEF Registers
      <4> QED BY <1>0, <1>3, <4>1, RootSetLower
    <3>2. CASE l # x
      BY <1>3, <2>1, <2>3, <3>2 DEF Registers, Lower, FlowBelow
    <3> QED BY <3>1, <3>2
  <2>4. f2 \in Flow /\ g2 \in Flow /\ Progress(g, g2)
    BY <2>1 DEF Registers
  <2>5. Lower(f2, g2)
    BY <1>3, <2>1, <2>2, <2>3, <2>4, LowerIntro
  <2> QED BY <2>5 DEF f2, g2
<1> QED BY <1>2, <1>3

\* caml_remove_global_root(&x)
LEMMA UnrootLower ==
  ASSUME NEW x \in Vals
  PROVE  /\ \A f \in Flow : Keeps(f, ExecUnregisterRoot(f, x))
         /\ \A f, g : Lower(f, g) /\ Clean(ExecUnregisterRoot(g, x)) =>
              Lower(ExecUnregisterRoot(f, x), ExecUnregisterRoot(g, x))
<1> DEFINE E(f) == Bind(f.env[x].status, "NotRooted", f.env[x].shape)
<1>0. x \in Loc /\ "NotRooted" \in Roots
  BY LocFacts DEF Roots
<1>1. ASSUME NEW f \in Flow
      PROVE  Updates(f, ExecUnregisterRoot(f, x), x, E(f))
  BY <1>0, ExecUnregisterRootCases DEF Updates, Progress, Sets
<1>2. ASSUME NEW f, NEW g, Lower(f, g)
      PROVE  f.reach => EntryBelow(E(f), E(g))
  BY <1>0, <1>2, RootSetLower
<1> HIDE DEF E
<1>3. ASSUME NEW f, NEW g, Lower(f, g), Clean(ExecUnregisterRoot(g, x))
      PROVE  Lower(ExecUnregisterRoot(f, x), ExecUnregisterRoot(g, x))
  <2>1. f \in Flow /\ g \in Flow
    BY <1>3 DEF Lower
  <2> QED BY <1>0, <1>1, <1>2, <1>3, <2>1, UpdatesLower
<1> QED BY <1>1, <1>3, UpdatesKeep

\* caml_enter_blocking_section()
LEMMA EnterLower ==
  /\ \A f \in Flow : Keeps(f, CamlEnterBlockingSection(f))
  /\ \A f, g : Lower(f, g) /\ Clean(CamlEnterBlockingSection(g)) =>
       Lower(CamlEnterBlockingSection(f), CamlEnterBlockingSection(g))
<1>1. ASSUME NEW f \in Flow, CamlEnterBlockingSection(f).reach
      PROVE  \E d \in Flow : Collects(f, d) /\ d.reach /\ CamlEnterBlockingSection(f).env = d.env
  BY <1>1, CamlEnterBlockingSectionCollects
<1>2. ASSUME NEW f \in Flow
      PROVE  Keeps(f, CamlEnterBlockingSection(f))
  <2> SUFFICES ASSUME CamlEnterBlockingSection(f).reach
               PROVE  Keeps(f, CamlEnterBlockingSection(f))
    BY DEF Keeps
  <2>1. PICK d \in Flow : Collects(f, d) /\ d.reach /\ CamlEnterBlockingSection(f).env = d.env
    BY <1>1
  <2>2. Keeps(f, d)
    BY <2>1, CollectsKeep
  <2> QED BY <2>1, <2>2 DEF Keeps
<1>3. ASSUME NEW f, NEW g, Lower(f, g), Clean(CamlEnterBlockingSection(g))
      PROVE  Lower(CamlEnterBlockingSection(f), CamlEnterBlockingSection(g))
  <2> DEFINE f2 == CamlEnterBlockingSection(f)
             g2 == CamlEnterBlockingSection(g)
  <2>1. /\ f \in Flow /\ g \in Flow /\ f2 \in Flow /\ g2 \in Flow
        /\ Keeps(f, f2) /\ Progress(g, g2) /\ Clean(g2)
        /\ f2.reach => f2.lock = "Unlocked"
        /\ g2.reach => g2.lock = "Unlocked"
    BY <1>2, <1>3, CamlEnterBlockingSectionCollects DEF Lower
  <2>2. ASSUME f2.reach, g2.reach, NEW l \in Loc, f2.env[l] # Absent
        PROVE  g2.env[l] # Absent /\ EntryBelow(f2.env[l], g2.env[l])
    <3>1. PICK c \in Flow : Collects(f, c) /\ c.reach /\ f2.env = c.env
      BY <1>1, <2>1, <2>2
    <3>2. PICK d \in Flow : Collects(g, d) /\ d.reach /\ g2.env = d.env
      BY <1>1, <2>1, <2>2
    <3> HIDE DEF f2, g2
    <3>3. f.reach /\ f.env[l] # Absent /\ f2.env[l] = CollectEntry(f.env[l])
      BY <2>2, <3>1 DEF Collects
    <3>4. g.env[l] # Absent /\ EntryBelow(f.env[l], g.env[l])
      BY <1>3, <3>3 DEF Lower, FlowBelow
    <3>5. g2.env[l] = CollectEntry(g.env[l])
      BY <3>2, <3>4 DEF Collects
    <3>6. f.env[l] \in ProperEntry /\ g.env[l] \in ProperEntry
      BY <2>1, <3>3, <3>4, EntryFacts
    <3>7. CollectEntry(g.env[l]) \in ProperEntry
      BY <3>6 DEF CollectEntry, ProperEntry, Status
    <3> QED BY <3>3, <3>4, <3>5, <3>6, <3>7, CollectEntryBelow, ProperEntryIsEntry, AbsentAssumption
  <2> HIDE DEF f2, g2
  <2>3. f2.reach /\ g2.reach => ConstSubset(f2.lock, g2.lock)
    BY <2>1 DEF ConstSubset
  <2>4. Lower(f2, g2)
    BY <1>3, <2>1, <2>2, <2>3, LowerIntro
  <2> QED BY <2>4 DEF f2, g2
<1> QED BY <1>2, <1>3

\* caml_leave_blocking_section()
LEMMA LeaveLower ==
  /\ \A f \in Flow : Keeps(f, CamlLeaveBlockingSection(f))
  /\ \A f, g : Lower(f, g) /\ Clean(CamlLeaveBlockingSection(g)) =>
       Lower(CamlLeaveBlockingSection(f), CamlLeaveBlockingSection(g))
<1>1. ASSUME NEW f \in Flow
      PROVE  Keeps(f, CamlLeaveBlockingSection(f))
  BY CamlLeaveBlockingSectionFlow DEF Keeps
<1>2. ASSUME NEW f, NEW g, Lower(f, g), Clean(CamlLeaveBlockingSection(g))
      PROVE  Lower(CamlLeaveBlockingSection(f), CamlLeaveBlockingSection(g))
  <2> DEFINE f2 == CamlLeaveBlockingSection(f)
             g2 == CamlLeaveBlockingSection(g)
  <2>1. /\ f \in Flow /\ g \in Flow /\ f2 \in Flow /\ g2 \in Flow
        /\ Keeps(f, f2) /\ Clean(g2)
        /\ f2.reach = f.reach /\ g2.reach = g.reach /\ g2.report = g.report
        /\ f2.reach => f2.env = f.env /\ f2.lock = "Locked"
        /\ g2.reach => g2.env = g.env /\ g2.lock = "Locked"
    BY <1>1, <1>2, CamlLeaveBlockingSectionFlow DEF Lower
  <2> HIDE DEF f2, g2
  <2>2. Progress(g, g2)
    BY <2>1 DEF Progress
  <2>3. ASSUME f2.reach, g2.reach, NEW l \in Loc, f2.env[l] # Absent
        PROVE  g2.env[l] # Absent /\ EntryBelow(f2.env[l], g2.env[l])
    BY <1>2, <2>1, <2>3 DEF Lower, FlowBelow
  <2>4. f2.reach /\ g2.reach => ConstSubset(f2.lock, g2.lock)
    BY <2>1 DEF ConstSubset
  <2>5. Lower(f2, g2)
    BY <1>2, <2>1, <2>2, <2>3, <2>4, LowerIntro
  <2> QED BY <2>5 DEF f2, g2
<1> QED BY <1>1, <1>2

-----------------------------------------------------------------------------
(* The body on two flows, one below the other.                             *)

LowerT(t, u) ==
  /\ t \in TokenFlow /\ u \in TokenFlow
  /\ Lower(t.cur, u.cur) /\ Lower(t.cont, u.cont)

DeclaredT(t) == Declared(t.cur) /\ Declared(t.cont)

LEMMA NoFlowLower ==
  /\ Declared(NoFlow)
  /\ \A f \in Flow : Lower(NoFlow, f)
BY NoFlowFlow DEF Declared, Lower, FlowBelow

\* What a jump does to the flow of its token.
LEMMA JumpFlows ==
  ASSUME NEW t \in TokenFlow, NEW s \in Jump
  PROVE  /\ Exec(t, s).cur = t.cur
         /\ Exec(t, s).cont = IF s[1] = "continue" THEN JoinFlow(t.cont, t.cur) ELSE t.cont
<1>1. s[1] \in {"break", "continue"}
  BY DEF Jump
<1>2. CASE s[1] = "break"
  BY <1>2 DEF Exec, ExecJump, TokenFlow
<1>3. CASE s[1] = "continue"
  BY <1>3 DEF Exec, ExecJump, TokenFlow
<1> QED BY <1>1, <1>2, <1>3

LEMMA ExecDeclared ==
  ASSUME NEW t \in TokenFlow, NEW s \in Statement \union Jump, DeclaredT(t)
  PROVE  DeclaredT(Exec(t, s))
<1>0. t.cur \in Flow /\ t.cont \in Flow
  BY TokenFields
<1>1. CASE s \in Statement
  <2>1. Keeps(t.cur, Exec(t, s).cur) /\ Exec(t, s).cont = t.cont
    <3>1. CASE s[1] = "copy"
      BY <1>0, <1>1, <3>1, StatementCases, ExecMoves, CopyLower DEF Moves
    <3>2. CASE s[1] = "long"
      BY <1>0, <1>1, <3>2, StatementCases, ExecMoves, LongLower DEF Moves
    <3>3. CASE s[1] = "alloc"
      BY <1>0, <1>1, <3>3, StatementCases, ExecMoves, AllocLower DEF Moves
    <3>4. CASE s[1] = "inspect"
      BY <1>0, <1>1, <3>4, StatementCases, ExecMoves, InspectLower DEF Moves
    <3>5. CASE s[1] = "root"
      BY <1>0, <1>1, <3>5, StatementCases, ExecMoves, RootLower DEF Moves
    <3>6. CASE s[1] = "unroot"
      BY <1>0, <1>1, <3>6, StatementCases, ExecMoves, UnrootLower DEF Moves
    <3>7. CASE s[1] = "enter"
      BY <1>0, <1>1, <3>7, ExecMoves, EnterLower DEF Moves
    <3>8. CASE s[1] = "leave"
      BY <1>0, <1>1, <3>8, ExecMoves, LeaveLower DEF Moves
    <3>9. s[1] \in {"copy", "long", "alloc", "inspect", "root", "unroot", "enter", "leave"}
      BY <1>1 DEF Statement
    <3> QED BY <3>1, <3>2, <3>3, <3>4, <3>5, <3>6, <3>7, <3>8, <3>9
  <2> QED BY <2>1, KeepsDeclared DEF DeclaredT
<1>2. CASE s \in Jump
  BY <1>0, <1>2, JumpFlows, JoinDeclared DEF DeclaredT
<1> QED BY <1>1, <1>2

LEMMA ExecLower ==
  ASSUME NEW t, NEW u, NEW s \in Statement \union Jump, LowerT(t, u), Clean(Exec(u, s).cur)
  PROVE  LowerT(Exec(t, s), Exec(u, s))
<1>0. /\ t \in TokenFlow /\ u \in TokenFlow
      /\ Exec(t, s) \in TokenFlow /\ Exec(u, s) \in TokenFlow
      /\ Lower(t.cur, u.cur) /\ Lower(t.cont, u.cont)
  BY ExecGrows DEF LowerT, Grows
<1> SUFFICES Lower(Exec(t, s).cur, Exec(u, s).cur) /\ Lower(Exec(t, s).cont, Exec(u, s).cont)
  BY <1>0 DEF LowerT
<1>1. CASE s \in Statement
  <2>1. Exec(t, s).cont = t.cont /\ Exec(u, s).cont = u.cont
    <3>1. \A w \in TokenFlow : \E g : Moves(w, Exec(w, s), g)
      <4>1. s[1] \in {"copy", "long", "alloc", "inspect", "root", "unroot", "enter", "leave"}
        BY <1>1 DEF Statement
      <4> QED BY <1>1, <4>1, ExecMoves
    <3> QED BY <1>0, <3>1 DEF Moves
  <2>2. Lower(Exec(t, s).cur, Exec(u, s).cur)
    <3>1. CASE s[1] = "copy"
      BY <1>0, <1>1, <3>1, StatementCases, ExecMoves, CopyLower DEF Moves
    <3>2. CASE s[1] = "long"
      BY <1>0, <1>1, <3>2, StatementCases, ExecMoves, LongLower DEF Moves
    <3>3. CASE s[1] = "alloc"
      BY <1>0, <1>1, <3>3, StatementCases, ExecMoves, AllocLower DEF Moves
    <3>4. CASE s[1] = "inspect"
      BY <1>0, <1>1, <3>4, StatementCases, ExecMoves, InspectLower DEF Moves
    <3>5. CASE s[1] = "root"
      BY <1>0, <1>1, <3>5, StatementCases, ExecMoves, RootLower DEF Moves
    <3>6. CASE s[1] = "unroot"
      BY <1>0, <1>1, <3>6, StatementCases, ExecMoves, UnrootLower DEF Moves
    <3>7. CASE s[1] = "enter"
      BY <1>0, <1>1, <3>7, ExecMoves, EnterLower DEF Moves
    <3>8. CASE s[1] = "leave"
      BY <1>0, <1>1, <3>8, ExecMoves, LeaveLower DEF Moves
    <3>9. s[1] \in {"copy", "long", "alloc", "inspect", "root", "unroot", "enter", "leave"}
      BY <1>1 DEF Statement
    <3> QED BY <3>1, <3>2, <3>3, <3>4, <3>5, <3>6, <3>7, <3>8, <3>9
  <2> QED BY <1>0, <2>1, <2>2
<1>2. CASE s \in Jump
  BY <1>0, <1>2, JumpFlows, JoinLower
<1> QED BY <1>1, <1>2

\* Every flow of the body has its variables.
LEMMA TraceDeclared ==
  ASSUME CodeOK, NEW t, NEW tr, Trace(t, tr), DeclaredT(t)
  PROVE  DeclaredT(tr[Len(Code)])
<1> DEFINE T == {n \in Nat : n <= Len(Code) => DeclaredT(tr[n])}
<1>1. 0 \in T
  BY DEF Trace
<1>2. ASSUME NEW n \in Nat, n \in T
      PROVE  n + 1 \in T
  <2> SUFFICES ASSUME n + 1 <= Len(Code)
               PROVE  DeclaredT(tr[n + 1])
    OBVIOUS
  <2>1. PICK k \in 1 .. Len(Code) : k = n + 1 /\ k - 1 = n /\ k - 1 \in 0 .. Len(Code)
    BY DEF CodeOK
  <2>2. tr[k] = Exec(tr[k - 1], Code[k]) /\ tr[k - 1] \in TokenFlow
    BY <2>1 DEF Trace
  <2>3. Code[k] \in Statement \union Jump
    BY DEF CodeOK
  <2>4. DeclaredT(tr[k - 1])
    BY <1>2, <2>1 DEF CodeOK
  <2>5. DeclaredT(Exec(tr[k - 1], Code[k]))
    BY <2>2, <2>3, <2>4, ExecDeclared
  <2> QED BY <2>1, <2>2, <2>5
<1>3. Len(Code) \in T
  <2> HIDE DEF T
  <2> QED BY <1>1, <1>2, NatSetInduction DEF CodeOK
<1> QED BY <1>3 DEF CodeOK

\* Two analyses of the body that start one below the other stay so, if the one
\* above ends without an error.
LEMMA TraceLower ==
  ASSUME CodeOK, NEW t, NEW u, LowerT(t, u), NEW tr, Trace(t, tr), NEW ur, Trace(u, ur),
         Clean(ur[Len(Code)].cur)
  PROVE  LowerT(tr[Len(Code)], ur[Len(Code)])
<1> DEFINE T == {n \in Nat : n <= Len(Code) => LowerT(tr[n], ur[n])}
<1>1. 0 \in T
  BY DEF Trace
<1>2. ASSUME NEW n \in Nat, n \in T
      PROVE  n + 1 \in T
  <2> SUFFICES ASSUME n + 1 <= Len(Code)
               PROVE  LowerT(tr[n + 1], ur[n + 1])
    OBVIOUS
  <2>1. PICK k \in 1 .. Len(Code) : k = n + 1 /\ k - 1 = n /\ k \in 0 .. Len(Code)
    BY DEF CodeOK
  <2>2. tr[k] = Exec(tr[k - 1], Code[k]) /\ ur[k] = Exec(ur[k - 1], Code[k])
    BY <2>1 DEF Trace
  <2>3. Code[k] \in Statement \union Jump
    BY DEF CodeOK
  <2>4. LowerT(tr[k - 1], ur[k - 1])
    BY <1>2, <2>1 DEF CodeOK
  <2>5. Clean(ur[k].cur)
    BY <2>1, TraceGrows, CleanBefore DEF Later
  <2>6. LowerT(Exec(tr[k - 1], Code[k]), Exec(ur[k - 1], Code[k]))
    BY <2>2, <2>3, <2>4, <2>5, ExecLower
  <2> QED BY <2>1, <2>2, <2>6
<1>3. Len(Code) \in T
  <2> HIDE DEF T
  <2> QED BY <1>1, <1>2, NatSetInduction DEF CodeOK
<1> QED BY <1>3 DEF CodeOK

\* The head of the next iteration.
LEMMA MergedFlows ==
  ASSUME NEW e \in TokenFlow
  PROVE  /\ MergeCurAndContinue(e).cur = JoinFlow(e.cur, e.cont)
         /\ MergeCurAndContinue(e).cont = NoFlow
BY DEF MergeCurAndContinue, TokenFlow

LEMMA IterateDeclared ==
  ASSUME CodeOK, NEW t \in TokenFlow, DeclaredT(t), NEW a \in Iterate(t)
  PROVE  a \in TokenFlow /\ DeclaredT(a)
<1>1. PICK tr, e : BodyRun(t, tr, e) /\ Iterate(t) = {MergeCurAndContinue(e)}
  BY BodyRuns
<1>2. a = MergeCurAndContinue(e) /\ e \in TokenFlow /\ e.cur \in Flow /\ e.cont \in Flow
  BY <1>1, TokenFields DEF BodyRun
<1>3. DeclaredT(e)
  BY <1>1, TraceDeclared DEF BodyRun
<1>4. Declared(a.cur) /\ Declared(a.cont)
  BY <1>2, <1>3, MergedFlows, JoinDeclared, NoFlowLower DEF DeclaredT
<1>5. a \in TokenFlow
  BY <1>2, MergeFacts
<1> QED BY <1>4, <1>5 DEF DeclaredT

LEMMA IterateLower ==
  ASSUME CodeOK, NEW t, NEW u, LowerT(t, u), NEW a \in Iterate(t), NEW b \in Iterate(u),
         Clean(b.cur)
  PROVE  FlowBelow(a.cur, b.cur)
<1>0. t \in TokenFlow /\ u \in TokenFlow
  BY DEF LowerT
<1>1. PICK tr, d : BodyRun(t, tr, d) /\ Iterate(t) = {MergeCurAndContinue(d)}
  BY <1>0, BodyRuns
<1>2. PICK ur, e : BodyRun(u, ur, e) /\ Iterate(u) = {MergeCurAndContinue(e)}
  BY <1>0, BodyRuns
<1>3. /\ a = MergeCurAndContinue(d) /\ d \in TokenFlow
      /\ b = MergeCurAndContinue(e) /\ e \in TokenFlow
  BY <1>1, <1>2 DEF BodyRun
<1>4. e.cur.report \subseteq b.cur.report
  BY <1>3, MergeFacts DEF Takes
<1>5. Clean(e.cur)
  BY <1>4, CleanBefore
<1>6. LowerT(d, e)
  BY <1>1, <1>2, <1>5, TraceLower DEF BodyRun
<1>7. Lower(a.cur, b.cur)
  BY <1>3, <1>6, MergedFlows, JoinLower DEF LowerT
<1> QED BY <1>7 DEF Lower

-----------------------------------------------------------------------------
(* The fixpoint is reached.                                                *)

\* Where the iteration has stopped, one more iteration stays below its head.
Settled ==
  (stage = "done" /\ loop.kind # "once" /\ ~Errors) =>
    \E tr : /\ Trace(Tokens(head.cur), tr)
            /\ FlowBelow(MergeCurAndContinue(tr[Len(Code)]).cur, head.cur)

FInv == Types /\ DeclaredT(head) /\ DeclaredT(entry) /\ Settled

LEMMA SettledStable ==
  ASSUME FInv
  PROVE  Stable
<1> SUFFICES ASSUME stage = "done", loop.kind # "once", ~Errors,
                    NEW t \in Iterate(Tokens(head.cur))
             PROVE  FlowBelow(t.cur, head.cur)
  BY DEF Stable
<1>1. PICK tr : /\ Trace(Tokens(head.cur), tr)
                /\ FlowBelow(MergeCurAndContinue(tr[Len(Code)]).cur, head.cur)
  BY DEF FInv, Settled
<1>2. ExecBody(Tokens(head.cur)) = {tr[Len(Code)]}
  BY <1>1, PlacesInCode, BodyEnd DEF FInv, Types
<1>3. t = MergeCurAndContinue(tr[Len(Code)])
  BY <1>2 DEF Iterate
<1> QED BY <1>1, <1>3

LEMMA TokensDeclared ==
  ASSUME NEW f \in Flow, Declared(f)
  PROVE  DeclaredT(Tokens(f))
BY TokensFlow, NoFlowLower DEF DeclaredT

LEMMA JoinTokensDeclared ==
  ASSUME NEW t \in TokenFlow, NEW u \in TokenFlow, DeclaredT(t), DeclaredT(u)
  PROVE  DeclaredT(JoinTokens(t, u))
<1>1. t.cur \in Flow /\ t.cont \in Flow /\ u.cur \in Flow /\ u.cont \in Flow
  BY TokenFields
<1>2. /\ JoinTokens(t, u).cur = JoinFlow(t.cur, u.cur)
      /\ JoinTokens(t, u).cont = JoinFlow(t.cont, u.cont)
  BY DEF JoinTokens
<1> QED BY <1>1, <1>2, JoinDeclared DEF DeclaredT

\* The iteration of the fixpoint starts from the environment of the head.
LEMMA CurWithReportSame ==
  ASSUME NEW t \in TokenFlow, DeclaredT(t), NEW report \in SUBSET (Alarm \union Diagnostic)
  PROVE  LET b == CurWithReport(t, report)
         IN  /\ b \in TokenFlow /\ DeclaredT(b)
             /\ b.cur.reach = t.cur.reach /\ b.cur.env = t.cur.env /\ b.cur.lock = t.cur.lock
<1> DEFINE f == t.cur
           g == [f EXCEPT !.report = report]
<1>1. f \in Flow
  BY TokenFields
<1>2. g \in Flow /\ g.reach = f.reach /\ g.env = f.env /\ g.lock = f.lock
  BY <1>1 DEF Flow
<1>3. CurWithReport(t, report) = Tokens(g)
  BY DEF CurWithReport
<1> HIDE DEF g
<1>4. Declared(g)
  BY <1>2 DEF DeclaredT, Declared
<1> QED BY <1>2, <1>3, <1>4, TokensFlow, TokensDeclared

\* The iteration from u gave b, which t has taken in: if t adds nothing to u,
\* an iteration from t is below the one from u, and so below t.
LEMMA FinishSettles ==
  ASSUME Types, NEW o \in TokenFlow, NEW t \in TokenFlow, Finish(o, t), DeclaredT(t),
         NEW u \in TokenFlow, FlowSubset(t.cur, u.cur),
         NEW b \in Iterate(u), b.cur.report \subseteq t.cur.report, FlowBelow(b.cur, t.cur)
  PROVE  Settled'
<1>1. /\ head' = t /\ loop' = loop /\ result' = Escape(o, t)
      /\ Code' = Code
  BY DEF Finish, Code
<1>2. CodeOK /\ result \in Flow
  BY PlacesInCode DEF Types
<1> SUFFICES ASSUME ~Errors'
             PROVE  \E tr : /\ Trace(Tokens(t.cur), tr)'
                            /\ FlowBelow(MergeCurAndContinue(tr[Len(Code)]).cur, t.cur)
  BY <1>1 DEF Settled, Trace
<1>3. Clean(b.cur)
  <2>1. t.cur.report \subseteq result'.report
    BY <1>1, <1>2, EscapeFacts
  <2> QED BY <2>1 DEF Errors, Clean
<1>4. LowerT(Tokens(t.cur), u)
  <2>1. t.cur \in Flow /\ u.cur \in Flow /\ u.cont \in Flow
    BY TokenFields
  <2>2. Lower(t.cur, u.cur)
    BY <2>1, SubsetBelow DEF Lower, DeclaredT
  <2> QED BY <2>1, <2>2, TokensFlow, NoFlowLower DEF LowerT
<1>5. PICK tr, e : /\ BodyRun(Tokens(t.cur), tr, e)
                   /\ Iterate(Tokens(t.cur)) = {MergeCurAndContinue(e)}
  BY <1>2, <1>4, BodyRuns DEF LowerT
<1>6. FlowBelow(MergeCurAndContinue(e).cur, b.cur)
  BY <1>2, <1>3, <1>4, <1>5, IterateLower
<1>7. FlowBelow(MergeCurAndContinue(e).cur, t.cur)
  BY <1>6, BelowTrans
<1>8. Trace(Tokens(t.cur), tr) /\ e = tr[Len(Code)]
  BY <1>5 DEF BodyRun
<1>9. Trace(Tokens(t.cur), tr)'
  BY <1>1, <1>8 DEF Trace
<1> QED BY <1>1, <1>7, <1>8, <1>9

LEMMA SettledOpen ==
  ASSUME stage' # "done" \/ loop'.kind = "once"
  PROVE  Settled'
BY DEF Settled

LEMMA FirstFixpoint ==
  ASSUME FInv, ExecFirst
  PROVE  DeclaredT(head)' /\ DeclaredT(entry)' /\ Settled'
<1>1. CodeOK /\ head \in TokenFlow /\ DeclaredT(head)
  BY PlacesInCode DEF FInv, Types
<1>2. PICK tr, e : BodyRun(head, tr, e) /\ ExecBody(head) = {e} /\ Iterate(head) = {MergeCurAndContinue(e)}
  BY <1>1, BodyRuns
<1>3. MergeCurAndContinue(e) \in TokenFlow /\ DeclaredT(MergeCurAndContinue(e))
  BY <1>1, <1>2, IterateDeclared
<1>4. DeclaredT(Tokens(MergeCurAndContinue(e).cur))
  BY <1>3, TokensDeclared, TokenFields DEF DeclaredT
<1>5. head' = Tokens(MergeCurAndContinue(e).cur) /\ entry' = entry /\ stage' = "unroll"
  BY <1>2 DEF ExecFirst
<1> QED BY <1>4, <1>5, SettledOpen DEF FInv, DeclaredT

LEMMA UnrollFixpoint ==
  ASSUME FInv, Unroll
  PROVE  DeclaredT(head)' /\ DeclaredT(entry)' /\ Settled'
<1> DEFINE left == JoinTokens(out, AssumeNot(head))
<1>1. CodeOK /\ Types /\ head \in TokenFlow /\ DeclaredT(head)
  BY PlacesInCode DEF FInv, Types
<1>2. PICK tr, e : BodyRun(head, tr, e) /\ Iterate(head) = {MergeCurAndContinue(e)}
  BY <1>1, BodyRuns
<1> DEFINE flow1 == MergeCurAndContinue(e)
<1>3. flow1 \in Iterate(head) /\ flow1 \in TokenFlow /\ DeclaredT(flow1)
  BY <1>1, <1>2, IterateDeclared
<1>4. left \in TokenFlow
  BY <1>1, AssumeNotFacts, JoinTokensFacts DEF Types
<1>5. \/ SubsetTokens(flow1, head) /\ Finish(left, flow1)
      \/ stage' = "unroll" /\ head' = flow1 /\ entry' = entry
  BY <1>2 DEF Unroll
<1> HIDE DEF left, flow1
<1>6. head' = flow1 /\ entry' = entry
  BY <1>5 DEF Finish
<1>7. Settled'
  <2>1. CASE SubsetTokens(flow1, head) /\ Finish(left, flow1)
    BY <1>1, <1>3, <1>4, <2>1, BelowRefl, FinishSettles DEF SubsetTokens
  <2>2. CASE stage' = "unroll"
    BY <2>2, SettledOpen
  <2> QED BY <1>5, <2>1, <2>2
<1> QED BY <1>3, <1>6, <1>7 DEF FInv, DeclaredT

LEMMA LfpFixpoint ==
  ASSUME FInv, Lfp
  PROVE  DeclaredT(head)' /\ DeclaredT(entry)' /\ Settled'
<1> DEFINE u == CurWithReport(head, Report(entry))
<1>1. /\ CodeOK /\ Types /\ head \in TokenFlow /\ entry \in TokenFlow /\ out \in TokenFlow
      /\ DeclaredT(head) /\ DeclaredT(entry)
  BY PlacesInCode DEF FInv, Types
<1>2. /\ u \in TokenFlow /\ DeclaredT(u) /\ u.cur.reach = head.cur.reach
      /\ u.cur.env = head.cur.env /\ u.cur.lock = head.cur.lock
  BY <1>1, ReportProper, CurWithReportSame
<1> HIDE DEF u
<1>3. PICK tr, e : BodyRun(u, tr, e) /\ Iterate(u) = {MergeCurAndContinue(e)}
  BY <1>1, <1>2, BodyRuns
<1> DEFINE b == MergeCurAndContinue(e)
           flow == JoinTokens(b, entry)
<1>4. b \in Iterate(u) /\ b \in TokenFlow /\ DeclaredT(b)
  BY <1>1, <1>2, <1>3, IterateDeclared
<1>5. NextIterate(head) = {flow}
  BY <1>3 DEF NextIterate, u
<1> HIDE DEF b
<1>6. flow \in TokenFlow /\ DeclaredT(flow) /\ DeclaredT(Widen(head, flow))
  BY <1>1, <1>4, JoinTokensFacts, JoinTokensDeclared DEF Widen
<1>7. b.cur.report \subseteq flow.cur.report
  BY <1>1, <1>4, JoinTokensFacts DEF Takes
<1>8. FlowBelow(b.cur, flow.cur)
  <2>1. flow.cur = JoinFlow(b.cur, entry.cur)
    BY DEF JoinTokens
  <2> QED BY <1>1, <1>4, <2>1, TokenFields, JoinAbove
<1> HIDE DEF flow
<1>9. \/ FlowSubset(flow.cur, head.cur) /\ Finish(out, flow)
      \/ /\ head' = IF count = 0 THEN Widen(head, flow) ELSE flow
         /\ UNCHANGED <<stage, entry>> /\ stage = "lfp"
  BY <1>5 DEF Lfp
<1>10. head' \in {flow, Widen(head, flow)} /\ entry' = entry
  BY <1>9 DEF Finish
<1>11. Settled'
  <2>1. CASE FlowSubset(flow.cur, head.cur) /\ Finish(out, flow)
    <3>1. FlowSubset(flow.cur, u.cur)
      BY <1>2, <2>1 DEF FlowSubset
    <3> QED BY <1>1, <1>2, <1>4, <1>6, <1>7, <1>8, <2>1, <3>1, FinishSettles
  <2>2. CASE stage' = "lfp"
    BY <2>2, SettledOpen
  <2> QED BY <1>9, <2>1, <2>2
<1>12. DeclaredT(head')
  BY <1>6, <1>10
<1> QED BY <1>1, <1>10, <1>11, <1>12 DEF DeclaredT

LEMMA FixpointKept ==
  ASSUME FInv, UNCHANGED analysis
  PROVE  DeclaredT(head)' /\ DeclaredT(entry)' /\ Settled'
<1>1. /\ loop' = loop /\ stage' = stage /\ head' = head /\ entry' = entry /\ result' = result
      /\ Code' = Code
  BY DEF analysis, Code
<1> QED BY <1>1 DEF FInv, DeclaredT, Settled, Errors, Trace

LEMMA InitFInv ==
  ASSUME Init
  PROVE  FInv
<1>1. Types
  BY InitIInv DEF IInv
<1>2. PICK f : /\ head = Tokens(f) /\ entry = Tokens(NoFlow)
               /\ \A x \in Vals : \E root \in Roots : f.env[x] = Bind("Active", root, ArgShape)
  <2>1. PICK protected \in SUBSET Vals :
          head = Tokens([reach |-> TRUE, lock |-> "Locked", report |-> {},
                         env |-> [l \in Loc |->
                           IF l \in Vals
                             THEN Bind("Active", IF l \in protected THEN "Rooted" ELSE "NotRooted",
                                       ArgShape)
                             ELSE Absent]])
    BY DEF Init
  <2> DEFINE root(l) == IF l \in protected THEN "Rooted" ELSE "NotRooted"
             env == [l \in Loc |-> IF l \in Vals THEN Bind("Active", root(l), ArgShape)
                                   ELSE Absent]
             f == [reach |-> TRUE, lock |-> "Locked", report |-> {}, env |-> env]
  <2>2. head = Tokens(f) /\ entry = Tokens(NoFlow) /\ f.env = env
    BY <2>1 DEF Init
  <2>3. ASSUME NEW x \in Vals
        PROVE  root(x) \in Roots /\ env[x] = Bind("Active", root(x), ArgShape)
    BY LocFacts DEF Roots
  <2> HIDE DEF env, f, root
  <2> QED BY <2>2, <2>3
<1>3. f = head.cur /\ head.cont = NoFlow /\ entry.cur = NoFlow /\ entry.cont = NoFlow
  BY <1>2 DEF Tokens
<1>4. ASSUME NEW x \in Vals
      PROVE  f.env[x] # Absent
  <2>1. PICK root \in Roots : f.env[x] = Bind("Active", root, ArgShape)
    BY <1>2
  <2>2. Bind("Active", root, ArgShape) \in ProperEntry
    BY LoopAssumption, ProperConstants, ProperEntryFields DEF Status
  <2> QED BY <2>1, <2>2, ProperEntryIsEntry, AbsentAssumption
<1>5. DeclaredT(head) /\ DeclaredT(entry)
  BY <1>3, <1>4, NoFlowLower DEF DeclaredT, Declared
<1>6. Settled
  BY DEF Init, Settled
<1> QED BY <1>1, <1>5, <1>6 DEF FInv

LEMMA NextFInv ==
  ASSUME FInv, [Next]_vars
  PROVE  FInv'
<1>1. Types'
  BY NextTypes DEF FInv
<1> SUFFICES DeclaredT(head)' /\ DeclaredT(entry)' /\ Settled'
  BY <1>1 DEF FInv
<1>2. CASE ExecFirst
  BY <1>2, FirstFixpoint
<1>3. CASE ExecOnce
  <2>1. head' = head /\ entry' = entry /\ loop'.kind = "once"
    BY <1>3 DEF ExecOnce
  <2> QED BY <2>1, SettledOpen DEF FInv, DeclaredT
<1>4. CASE Unroll
  BY <1>4, UnrollFixpoint
<1>5. CASE StartLfp
  <2>1. head' = head /\ entry' = head /\ stage' = "lfp"
    BY <1>5 DEF StartLfp
  <2> QED BY <2>1, SettledOpen DEF FInv, DeclaredT
<1>6. CASE Lfp
  BY <1>6, LfpFixpoint
<1>7. CASE UNCHANGED analysis
  BY <1>7, FixpointKept
<1>8. [Next]_vars => ExecFirst \/ ExecOnce \/ Unroll \/ StartLfp \/ Lfp \/ UNCHANGED analysis
  BY DEF Next, Analyse, TestCondition, RunStatement, ConcurrentGC, vars
<1> QED BY <1>2, <1>3, <1>4, <1>5, <1>6, <1>7, <1>8

-----------------------------------------------------------------------------
(* The theorems.                                                           *)

\* The flows of every stage of the analysis hold only proper entries, the
\* iterations left never exceed what unrolling and widening allow, and the run
\* never leaves the code of the loop.
THEOREM TypeCorrect == Spec => []TypeOK
<1>1. Init => Types
  BY InitIInv DEF IInv
<1>2. Types /\ [Next]_vars => Types'
  BY NextTypes
<1>3. Types => TypeOK
  BY TokenFields DEF Types, MemoryOK, TypeOK
<1> QED BY <1>1, <1>2, <1>3, PTL DEF Spec

LEMMA InductiveInvariant ==
  ASSUME Plain
  PROVE  Spec => []IInv
<1>1. Init => IInv
  BY InitIInv
<1>2. IInv /\ [Next]_vars => IInv'
  BY NextIInv
<1> QED BY <1>1, <1>2, PTL DEF Spec

\* However often a run goes round a loop, and wherever it leaves it, the flow
\* after the loop describes it, unless an error was reported in the loop
\* (loops.ml 288-394): for every body, every number of iterations analysed
\* apart and every widening delay.  What is excluded is the continue of a for
\* loop, which forgets the increment.
THEOREM LeavingDescribed ==
  ASSUME Plain
  PROVE  Spec => []LoopDescribed
<1>1. IInv => LoopDescribed
  <2> SUFFICES ASSUME IInv, Running, pc = Exit, ~Errors
               PROVE  Sim(result, mem, rooted, held)
    BY DEF LoopDescribed
  <2>1. PICK H, B : Closed(H, B)
    BY DEF IInv, Linked, Running
  <2>2. Located(B, {result}, H)
    BY <2>1 DEF Closed, Chain, Judged, Errors, Running
  <2>3. pc # 0 /\ pc \notin 1 .. Len(Code)
    BY PlacesInCode DEF IInv, Types, CodeOK, Exit
  <2> QED BY <2>2, <2>3 DEF Located, Here
<1> QED BY <1>1, InductiveInvariant, PTL

\* A rule broken in any iteration is in the report after the loop, although
\* each iteration of the fixpoint starts from the report of the flow before the
\* loop and drops that of the iteration before (loops.ml 294).
THEOREM BreaksAreReported ==
  ASSUME Plain
  PROVE  Spec => []LoopReported
<1>1. IInv => LoopReported
  <2> SUFFICES ASSUME IInv, run \in Breaking
               PROVE  Errors \/ (run = "inactive" /\ "maybe_non_active_value" \in result.report)
    BY DEF LoopReported
  <2>1. CASE stage = "done"
    <3>1. PICK H, B : Closed(H, B)
      BY <2>1 DEF IInv, Linked
    <3> QED BY <3>1 DEF Closed, Chain, Judged, Tells, Errors
  <2>2. CASE stage # "done"
    BY <2>2 DEF IInv, Types, Linked, Breaking
  <2> QED BY <2>1, <2>2
<1> QED BY <1>1, InductiveInvariant, PTL

\* What the iteration stops at is a fixpoint: one more iteration from the head
\* describes no more runs (loops.ml 304-308, 338-340), for every body, number
\* of iterations analysed apart and widening delay, and although the test that
\* stops it compares one iteration only, by an order in which an iteration is
\* not monotone.
THEOREM FixpointReached == Spec => []Stable
<1>1. Init => FInv
  BY InitFInv
<1>2. FInv /\ [Next]_vars => FInv'
  BY NextFInv
<1>3. FInv => Stable
  BY SettledStable
<1> QED BY <1>1, <1>2, <1>3, PTL DEF Spec
=============================================================================
