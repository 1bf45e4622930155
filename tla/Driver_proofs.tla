----------------------------- MODULE Driver_proofs ---------------------------
(***************************************************************************)
(* Proofs about the two programs that decide what a user is told.          *)
(*                                                                         *)
(* The driver of -runtimetest (StubDriver), for every set of stubs and any *)
(* number of them: diagnostics form a lattice, the verdict of a stub is    *)
(* the one of its own part of the final report, a stub passes only if all  *)
(* of it was analysed, and the exit code tells whether all have passed.    *)
(*                                                                         *)
(* vicuna.py, which runs the analyzer (VicunaProcess), for every set of    *)
(* analyses, every capacity of the pipes and every time limit: its types,  *)
(* and that a printed summary is a whole one.                              *)
(***************************************************************************)
EXTENDS StubDriver, VicunaProcess, SequenceTheorems, FiniteSetTheorems, TLAPS

-----------------------------------------------------------------------------
(* Diagnostics.                                                            *)

\* The join of two diagnostics of a check is a diagnostic.
LEMMA JoinKindType ==
  ASSUME NEW k \in Kinds, NEW l \in Kinds
  PROVE  JoinKind(k, l) \in Kinds
BY DEF JoinKind, Kinds

\* A check that was not met says nothing, and saying something twice is saying
\* it once.
LEMMA JoinKindUnit ==
  ASSUME NEW k \in Kinds
  PROVE  /\ JoinKind(k, "unreachable") = k
         /\ JoinKind("unreachable", k) = k
         /\ JoinKind(k, k) = k
BY DEF JoinKind, Kinds

\* join_diagnostic_kind is the least upper bound in the order drawn above it:
\* the diagnostic of a check does not depend on the order of its paths
\* (alarm.ml 238-294).
THEOREM JoinKindIsLub ==
  ASSUME NEW k \in Kinds, NEW l \in Kinds
  PROVE  /\ SubsetKind(k, JoinKind(k, l))
         /\ SubsetKind(l, JoinKind(k, l))
         /\ \A m \in Kinds : SubsetKind(k, m) /\ SubsetKind(l, m) => SubsetKind(JoinKind(k, l), m)
<1>1. SubsetKind(k, JoinKind(k, l)) /\ SubsetKind(l, JoinKind(k, l))
  BY DEF SubsetKind, JoinKind, Kinds
<1>2. ASSUME NEW m \in Kinds, SubsetKind(k, m), SubsetKind(l, m)
      PROVE  SubsetKind(JoinKind(k, l), m)
  BY <1>2 DEF SubsetKind, JoinKind, Kinds
<1> QED
  BY <1>1, <1>2

-----------------------------------------------------------------------------
(* The parts of a report.                                                  *)

\* The part of the report that concerns a stub: its own places and those of the
\* globals.
Part(said, k) == {said[p] : p \in {q \in Places : q[1] \in {0, k}}}

Bad == {"error", "warning", "unimplemented"}

\* A verdict depends on what was said only.
LEMMA OutcomeSame ==
  ASSUME NEW S, NEW T,
         \A k : k # "unreachable" => (k \in S <=> k \in T)
  PROVE  Outcome(S) = Outcome(T)
<1>1. S \intersect {"error", "warning"} # {} <=> T \intersect {"error", "warning"} # {}
  <2>1. "error" \in S <=> "error" \in T
    OBVIOUS
  <2>2. "warning" \in S <=> "warning" \in T
    OBVIOUS
  <2> QED
    BY <2>1, <2>2
<1>2. "unimplemented" \in S <=> "unimplemented" \in T
  OBVIOUS
<1>3. "info" \in S <=> "info" \in T
  OBVIOUS
<1> QED
  BY <1>1, <1>2, <1>3 DEF Outcome

\* A verdict is one of four, and it is good exactly when nothing bad was said.
LEMMA OutcomeGood ==
  ASSUME NEW S
  PROVE  /\ Outcome(S) \in Verdicts
         /\ Outcome(S) \in {"safe", "info"} <=> S \intersect Bad = {}
<1>1. Outcome(S) \in Verdicts
  BY DEF Outcome, Verdicts
<1>2. S \intersect Bad = {} <=> /\ S \intersect {"error", "warning"} = {}
                                /\ "unimplemented" \notin S
  BY DEF Bad
<1>3. Outcome(S) \in {"safe", "info"} <=> /\ S \intersect {"error", "warning"} = {}
                                          /\ "unimplemented" \notin S
  BY DEF Outcome
<1> QED
  BY <1>1, <1>2, <1>3

-----------------------------------------------------------------------------
(* The inductive invariant.                                                *)

InStub == pc \in {"arity", "call", "shape", "record"}

\* A flow with something bad in its report.
Flawed(f) == \E p \in Places : f.report[p] \in Bad

\* Only globals have said something before the stubs.
BaseOK ==
  /\ \A p \in Places : p[1] # 0 => base.report[p] = "unreachable"
  /\ ~base.alive => ErrorBehind(base)

\* The joined report has the globals' part once a stub is done, and nothing of
\* the stubs to come.
JoinedOK ==
  \A p \in Places :
    /\ p[1] = 0 => joined[p] = IF results = <<>> THEN "unreachable" ELSE base.report[p]
    /\ p[1] > Len(results) => joined[p] = "unreachable"

\* The flow of the stub under test has the globals' part and its own.
CurOK ==
  InStub => \A p \in Places :
              /\ p[1] = 0 => cur.report[p] = base.report[p]
              /\ p[1] \notin {0, Current} => cur.report[p] = "unreachable"

\* What each stage knows of the stub under test.
StageOK ==
  /\ InStub /\ ~cur.alive /\ pc # "record" => Flawed(cur)
  /\ pc = "arity" => cur = base
  /\ pc = "call" /\ cur.alive =>
       ArityAgrees(stub) /\ \A c \in Body : cur.report[<<Current, c>>] = "unreachable"
  /\ pc = "shape" =>
       /\ cur.alive /\ ArityAgrees(stub) /\ stub.ends = "value"
       /\ \A c \in Body : cur.report[<<Current, c>>] = stub.says[c]
  /\ pc = "record" /\ KindsOf(cur.report) \intersect Bad = {} => Sound(stub)

\* Each verdict is that of the stub's part of what has been joined.
VerdictsOK ==
  \A k \in DOMAIN results : results[k] = Outcome(Part(joined, k))

EndOK ==
  pc = "ended" /\ exit # 2 =>
    /\ Len(results) = Len(stubs)
    /\ exit = IF IsSafeReport(FinalReport) THEN 0 ELSE 1

IInv == TypeOK /\ BaseOK /\ JoinedOK /\ CurOK /\ StageOK /\ VerdictsOK
          /\ PassMeansAnalysed /\ EndOK

-----------------------------------------------------------------------------
(* The steps.                                                              *)

LEMMA AddDiagnosticType ==
  ASSUME NEW f \in Flows, NEW p \in Places, NEW k \in Kinds
  PROVE  /\ AddDiagnostic(f, p, k) \in Flows
         /\ AddDiagnostic(f, p, k).alive = f.alive
         /\ AddDiagnostic(f, p, k).report[p] = JoinKind(f.report[p], k)
         /\ \A q \in Places \ {p} : AddDiagnostic(f, p, k).report[q] = f.report[q]
<1>1. JoinKind(f.report[p], k) \in Kinds
  BY JoinKindType DEF Flows, Reports
<1> QED
  BY <1>1 DEF AddDiagnostic, Flows, Reports

\* Raising an alarm ends the flow and leaves an error behind.
LEMMA RaiseAlarmType ==
  ASSUME NEW f \in Flows, NEW p \in Places, ~f.alive => Flawed(f)
  PROVE  /\ RaiseAlarm(f, p) \in Flows
         /\ ~RaiseAlarm(f, p).alive
         /\ \A q \in Places \ {p} : RaiseAlarm(f, p).report[q] = f.report[q]
         /\ \E q \in Places : RaiseAlarm(f, p).report[q] \in Bad
<1>1. CASE ~f.alive
  BY <1>1 DEF RaiseAlarm, Flawed
<1>2. CASE f.alive
  <2>1. f.report[p] \in Kinds /\ f.report \in Reports
    BY DEF Flows, Reports
  <2>2. AlarmedKind(f.report[p]) \in Kinds \intersect Bad
    BY <2>1 DEF AlarmedKind, Kinds, Bad
  <2> DEFINE r == [f.report EXCEPT ![p] = AlarmedKind(@)]
  <2>3. RaiseAlarm(f, p) = [alive |-> FALSE, report |-> r]
    BY <1>2 DEF RaiseAlarm, Flows
  <2>4. /\ r \in Reports /\ r[p] \in Bad
        /\ \A q \in Places \ {p} : r[q] = f.report[q]
    BY <2>1, <2>2 DEF Reports
  <2> HIDE DEF r
  <2> QED
    BY <2>3, <2>4 DEF Flows
<1> QED
  BY <1>1, <1>2

\* What is set once a stub is done stays until the next one is.
Kept == UNCHANGED <<stubs, base, joined, results>>

LEMMA KeptParts ==
  ASSUME IInv, Kept
  PROVE  /\ BaseOK' /\ JoinedOK' /\ VerdictsOK' /\ PassMeansAnalysed'
         /\ Current' = Current /\ stub' = stub
<1>1. BaseOK'
  BY DEF IInv, Kept, BaseOK, ErrorBehind
<1>2. JoinedOK'
  BY DEF IInv, Kept, JoinedOK
<1>3. VerdictsOK'
  BY DEF IInv, Kept, VerdictsOK, Part
<1>4. PassMeansAnalysed'
  BY DEF IInv, Kept, PassMeansAnalysed
<1>5. Current' = Current /\ stub' = stub
  BY DEF Kept, Current, stub
<1> QED
  BY <1>1, <1>2, <1>3, <1>4, <1>5

LEMMA InitEstablishes == Init => IInv
<1> SUFFICES ASSUME Init PROVE IInv
  OBVIOUS
<1> USE DriverAssumption
<1>1. NoReport \in Reports
  BY DEF NoReport, Reports, Kinds
<1>2. stubs \in Seq(Stubs) /\ Len(stubs) <= MaxStubs
  <2>1. PICK n \in 0 .. MaxStubs : stubs \in [1 .. n -> Stubs]
    BY DEF Init
  <2>2. n \in Nat /\ n <= MaxStubs
    OBVIOUS
  <2> QED
    BY <2>1, <2>2
<1>3. results \in Seq(Verdicts) /\ Len(results) = 0 /\ DOMAIN results = {}
  BY DEF Init
<1>4. base \in Globals /\ cur \in Flows
  BY DEF Init
<1>5. TypeOK
  BY <1>1, <1>2, <1>3, <1>4 DEF Init, TypeOK
<1>6. BaseOK
  BY <1>4 DEF BaseOK
<1>7. JoinedOK
  BY DEF Init, JoinedOK, NoReport
<1>8. CurOK /\ StageOK /\ EndOK
  BY DEF Init, CurOK, StageOK, EndOK, InStub
<1>9. VerdictsOK /\ PassMeansAnalysed
  BY <1>3 DEF VerdictsOK, PassMeansAnalysed
<1> QED
  BY <1>5, <1>6, <1>7, <1>8, <1>9 DEF IInv

LEMMA InitGlobalsKeeps == IInv /\ InitGlobals => IInv'
<1> SUFFICES ASSUME IInv, InitGlobals PROVE IInv'
  OBVIOUS
<1>1. Kept /\ UNCHANGED <<cur, interrupts>> /\ pc' \in {"next", "ended"}
      /\ exit' \in 0 .. 2 /\ (pc' = "ended" => exit' = 2)
  BY DEF IInv, TypeOK, InitGlobals, Kept
<1>2. TypeOK'
  BY <1>1, KeptParts DEF IInv, TypeOK, Kept
<1>3. CurOK' /\ StageOK' /\ EndOK'
  BY <1>1 DEF CurOK, StageOK, EndOK, InStub
<1> QED
  BY <1>1, <1>2, <1>3, KeptParts DEF IInv

LEMMA StartStubKeeps == IInv /\ StartStub => IInv'
<1> SUFFICES ASSUME IInv, StartStub PROVE IInv'
  OBVIOUS
<1> USE DriverAssumption
<1>1. Kept /\ UNCHANGED <<exit, interrupts>> /\ pc' = "arity" /\ cur' = base
      /\ Current <= Len(stubs)
  BY DEF StartStub, Kept
<1>2. base \in Flows /\ base' = base
  BY <1>1 DEF IInv, TypeOK, Kept
<1>3. TypeOK'
  BY <1>1, <1>2, KeptParts DEF IInv, TypeOK, Kept
<1>4. CurOK'
  BY <1>1, <1>2 DEF IInv, BaseOK, CurOK
<1>5. StageOK'
  BY <1>1, <1>2 DEF IInv, BaseOK, StageOK, ErrorBehind, Flawed, Bad
<1>6. EndOK'
  BY <1>1 DEF EndOK
<1> QED
  BY <1>1, <1>3, <1>4, <1>5, <1>6, KeptParts DEF IInv
\* What a stage of a stub has to keep to itself: its flow stays a flow, and
\* touches the stub's own places only.
LEMMA StageKeeps ==
  ASSUME IInv, Kept, UNCHANGED <<exit, interrupts>>, InStub,
         Current <= Len(stubs),
         pc' \in {"call", "shape", "record", "catch"},
         cur' \in Flows,
         \A p \in Places : p[1] # Current => cur'.report[p] = cur.report[p],
         StageOK'
  PROVE  IInv'
<1>1. TypeOK'
  BY KeptParts DEF IInv, TypeOK, Kept
<1>2. CurOK'
  <2> SUFFICES ASSUME NEW p \in Places
               PROVE  /\ p[1] = 0 => cur'.report[p] = base'.report[p]
                      /\ p[1] \notin {0, Current'} => cur'.report[p] = "unreachable"
    BY DEF CurOK
  <2>1. Current \in Nat /\ Current # 0
    BY DEF IInv, TypeOK, Current
  <2>2. /\ p[1] = 0 => cur.report[p] = base.report[p]
        /\ p[1] \notin {0, Current} => cur.report[p] = "unreachable"
    BY DEF IInv, CurOK
  <2>3. base' = base /\ Current' = Current
    BY KeptParts DEF Kept
  <2> QED
    BY <2>1, <2>2, <2>3
<1>3. EndOK'
  BY DEF EndOK
<1> QED
  BY <1>1, <1>2, <1>3, KeptParts DEF IInv

\* The places of the stub under test.
LEMMA OwnPlaces ==
  ASSUME IInv, pc \in {"arity", "call", "shape", "catch", "record"}
  PROVE  /\ Current \in 1 .. MaxStubs /\ Current <= Len(stubs)
         /\ stub \in StubType
         /\ \A c \in Checks : <<Current, c>> \in Places
<1> USE DriverAssumption
<1>1. Current \in Nat /\ Current >= 1 /\ Current <= Len(stubs) /\ Len(stubs) <= MaxStubs
      /\ stubs \in Seq(Stubs)
  BY DEF IInv, TypeOK, Current
<1>2. stub \in StubType
  BY <1>1 DEF stub
<1>3. Current \in 0 .. MaxStubs /\ Current \in 1 .. MaxStubs
  BY <1>1
<1> QED
  BY <1>1, <1>2, <1>3 DEF Places

LEMMA ExecArityCheckKeeps == IInv /\ ExecArityCheck => IInv'
<1> SUFFICES ASSUME IInv, ExecArityCheck PROVE IInv'
  OBVIOUS
<1> DEFINE own == <<Current, "arity">>
<1>1. Kept /\ UNCHANGED <<exit, interrupts>> /\ pc = "arity" /\ pc' = "call"
  BY DEF ExecArityCheck, Kept
<1>2. /\ own \in Places /\ own[1] = Current /\ Current <= Len(stubs)
      /\ Current \in Nat \ {0}
  BY <1>1, OwnPlaces DEF Checks
<1>3. cur \in Flows /\ (~cur.alive => Flawed(cur)) /\ cur = base
  BY <1>1 DEF IInv, TypeOK, StageOK, InStub
<1>4. ASSUME NEW c \in Body
      PROVE  /\ <<Current, c>> \in Places
             /\ <<Current, c>> # own
             /\ cur.report[<<Current, c>>] = "unreachable"
  BY <1>1, <1>2, <1>3, OwnPlaces DEF IInv, BaseOK, Body, Checks
<1>5. cur.report[own] = "unreachable"
  BY <1>2, <1>3 DEF IInv, BaseOK
<1>6. Current' = Current /\ stub' = stub
  BY <1>1, KeptParts
<1>7. CASE stub.params = 0
  <2>1. cur' = cur /\ ArityAgrees(stub)
    BY <1>7 DEF ExecArityCheck, ArityAgrees
  <2>2. StageOK'
    BY <1>1, <1>3, <1>4, <1>6, <2>1 DEF StageOK, Flawed
  <2> QED
    BY <1>1, <1>2, <1>3, <2>1, <2>2, StageKeeps DEF InStub
<1>8. CASE stub.params # 0 /\ ArityAgrees(stub)
  <2>1. cur' = AddDiagnostic(cur, own, "safe")
    BY <1>8 DEF ExecArityCheck
  <2>2. /\ cur' \in Flows /\ cur'.alive = cur.alive
        /\ \A q \in Places \ {own} : cur'.report[q] = cur.report[q]
    BY <1>2, <1>3, <2>1, AddDiagnosticType DEF Kinds
  <2>3. ~cur'.alive => Flawed(cur')
    BY <1>3, <1>5, <2>2 DEF Flawed, Bad
  <2>4. \A c \in Body : cur'.report[<<Current, c>>] = "unreachable"
    BY <1>4, <2>2
  <2>5. StageOK'
    BY <1>1, <1>6, <1>8, <2>3, <2>4 DEF StageOK, Flawed
  <2> QED
    BY <1>1, <1>2, <2>2, <2>5, StageKeeps DEF InStub
<1>9. CASE stub.params # 0 /\ ~ArityAgrees(stub)
  <2>1. cur' = RaiseAlarm(cur, own)
    BY <1>9 DEF ExecArityCheck
  <2>2. /\ cur' \in Flows /\ ~cur'.alive /\ Flawed(cur')
        /\ \A q \in Places \ {own} : cur'.report[q] = cur.report[q]
    BY <1>2, <1>3, <2>1, RaiseAlarmType DEF Flawed
  <2>3. StageOK'
    BY <1>1, <2>2 DEF StageOK, Flawed
  <2> QED
    BY <1>1, <1>2, <2>2, <2>3, StageKeeps DEF InStub
<1> QED
  BY <1>7, <1>8, <1>9

\* The body of a stub adds what it says at its own places.
LEMMA AfterBodyType ==
  ASSUME IInv, pc = "call", cur.alive
  PROVE  /\ AfterBody \in Flows /\ AfterBody.alive
         /\ \A p \in Places : p[1] # Current => AfterBody.report[p] = cur.report[p]
         /\ \A c \in Body : AfterBody.report[<<Current, c>>] = stub.says[c]
<1>1. cur \in Flows /\ stub \in StubType
  BY OwnPlaces DEF IInv, TypeOK
<1>2. \A p \in Places : cur.report[p] \in Kinds
  BY <1>1 DEF Flows, Reports
<1>3. \A c \in Body : stub.says[c] \in Kinds
  BY <1>1 DEF StubType
<1> DEFINE after == [p \in Places |-> IF p[1] = Current /\ p[2] \in Body
                                        THEN JoinKind(cur.report[p], stub.says[p[2]])
                                        ELSE cur.report[p]]
<1>4. AfterBody = [cur EXCEPT !.report = after]
  BY DEF AfterBody
<1>5. after \in Reports
  <2> SUFFICES ASSUME NEW p \in Places
               PROVE  (IF p[1] = Current /\ p[2] \in Body
                         THEN JoinKind(cur.report[p], stub.says[p[2]])
                         ELSE cur.report[p]) \in Kinds
    BY DEF Reports
  <2> QED
    BY <1>2, <1>3, JoinKindType
<1>6. ASSUME NEW c \in Body
      PROVE  after[<<Current, c>>] = stub.says[c]
  <2>1. <<Current, c>> \in Places /\ <<Current, c>>[1] = Current /\ <<Current, c>>[2] = c
    BY OwnPlaces DEF Checks
  <2>2. cur.report[<<Current, c>>] = "unreachable"
    BY DEF IInv, StageOK
  <2>3. after[<<Current, c>>] = JoinKind("unreachable", stub.says[c])
    BY <2>1, <2>2
  <2> QED
    BY <1>3, <2>3, JoinKindUnit
<1>7. \A p \in Places : p[1] # Current => after[p] = cur.report[p]
  OBVIOUS
<1> HIDE DEF after
<1>8. /\ [cur EXCEPT !.report = after] \in Flows
      /\ [cur EXCEPT !.report = after].report = after
      /\ [cur EXCEPT !.report = after].alive = cur.alive
  BY <1>1, <1>5 DEF Flows
<1> QED
  BY <1>4, <1>6, <1>7, <1>8

\* A flow with something bad in its report is no proof of soundness.
LEMMA FlawedRecord ==
  ASSUME NEW f, Flawed(f)
  PROVE  KindsOf(f.report) \intersect Bad # {}
BY DEF Flawed, KindsOf

LEMMA EvalCallKeeps == IInv /\ EvalCall => IInv'
<1> SUFFICES ASSUME IInv, EvalCall PROVE IInv'
  OBVIOUS
<1> DEFINE own == <<Current, "arity">>
<1>1. Kept /\ UNCHANGED <<exit, interrupts>> /\ pc = "call"
  BY DEF EvalCall, Kept
<1>2. own \in Places /\ own[1] = Current /\ Current <= Len(stubs) /\ cur \in Flows
  BY <1>1, OwnPlaces DEF Checks, IInv, TypeOK
<1>3. Current' = Current /\ stub' = stub
  BY <1>1, KeptParts
<1>4. cur.alive => ArityAgrees(stub)
  BY <1>1 DEF IInv, StageOK
<1>5. CASE ~cur.alive
  <2>1. cur' = cur /\ pc' = "record"
    BY <1>5 DEF EvalCall
  <2>2. Flawed(cur)
    BY <1>1, <1>5 DEF IInv, StageOK, InStub
  <2>3. StageOK'
    BY <2>1, <2>2, FlawedRecord DEF StageOK
  <2> QED
    BY <1>1, <1>2, <2>1, <2>3, StageKeeps DEF InStub
<1>6. CASE cur.alive /\ stub.ends = "value"
  <2>1. cur' = AfterBody /\ pc' = "shape"
    BY <1>6 DEF EvalCall
  <2>2. StageOK'
    BY <1>1, <1>3, <1>4, <1>6, <2>1, AfterBodyType DEF StageOK
  <2> QED
    BY <1>1, <1>2, <1>6, <2>1, <2>2, StageKeeps, AfterBodyType DEF InStub
<1>7. CASE cur.alive /\ stub.ends = "void"
  <2>1. cur' = RaiseAlarm(AfterBody, own) /\ pc' = "record"
    BY <1>7 DEF EvalCall
  <2>2. /\ cur' \in Flows /\ Flawed(cur')
        /\ \A q \in Places \ {own} : cur'.report[q] = AfterBody.report[q]
    BY <1>1, <1>2, <1>7, <2>1, RaiseAlarmType, AfterBodyType DEF Flawed
  <2>3. StageOK'
    BY <2>1, <2>2, FlawedRecord DEF StageOK
  <2> QED
    BY <1>1, <1>2, <1>7, <2>1, <2>2, <2>3, StageKeeps, AfterBodyType DEF InStub
<1>8. CASE cur.alive /\ stub.ends = "never"
  <2>1. cur' = [AfterBody EXCEPT !.alive = FALSE] /\ pc' = "record"
    BY <1>8 DEF EvalCall
  <2>2. cur' \in Flows /\ cur'.report = AfterBody.report
    BY <1>1, <1>8, <2>1, AfterBodyType DEF Flows
  <2>3. ASSUME KindsOf(cur'.report) \intersect Bad = {}
        PROVE  Sound(stub)
    <3>1. ASSUME NEW c \in Body
          PROVE  stub.says[c] \in {"unreachable", "safe", "info"}
      <4>1. <<Current, c>> \in Places
        BY <1>1, OwnPlaces DEF Checks
      <4>2. stub.says[c] = cur'.report[<<Current, c>>]
        BY <1>1, <1>8, <2>2, AfterBodyType
      <4>3. stub.says[c] \in KindsOf(cur'.report)
        BY <4>1, <4>2 DEF KindsOf
      <4>4. stub.says[c] \in Kinds
        BY <1>1, OwnPlaces DEF StubType
      <4> QED
        BY <2>3, <4>3, <4>4 DEF Kinds, Bad
    <3> QED
      BY <1>4, <1>8, <3>1 DEF Sound
  <2>4. StageOK'
    BY <1>3, <2>1, <2>3 DEF StageOK
  <2> QED
    BY <1>1, <1>2, <1>8, <2>1, <2>2, <2>4, StageKeeps, AfterBodyType DEF InStub
<1>9. CASE cur.alive /\ stub.ends = "crash"
  <2>1. cur' = cur /\ pc' = "catch"
    BY <1>9 DEF EvalCall
  <2>2. StageOK'
    BY <2>1 DEF StageOK, InStub
  <2> QED
    BY <1>1, <1>2, <2>1, <2>2, StageKeeps DEF InStub
<1> QED
  BY <1>5, <1>6, <1>7, <1>8, <1>9 DEF EvalCall

LEMMA AssertShapeKeeps == IInv /\ AssertShape => IInv'
<1> SUFFICES ASSUME IInv, AssertShape PROVE IInv'
  OBVIOUS
<1> DEFINE own == <<Current, "shape">>
<1>1. Kept /\ UNCHANGED <<exit, interrupts>> /\ pc = "shape" /\ pc' = "record"
  BY DEF AssertShape, Kept
<1>2. own \in Places /\ own[1] = Current /\ Current <= Len(stubs) /\ cur \in Flows
  BY <1>1, OwnPlaces DEF Checks, IInv, TypeOK
<1>3. Current' = Current /\ stub' = stub
  BY <1>1, KeptParts
<1>4. /\ cur.alive /\ ArityAgrees(stub) /\ stub.ends = "value"
      /\ \A c \in Body : cur.report[<<Current, c>>] = stub.says[c]
  BY <1>1 DEF IInv, StageOK
<1>5. CASE stub.shape = "fits"
  <2>1. cur' = AddDiagnostic(cur, own, "safe")
    BY <1>5 DEF AssertShape
  <2>2. /\ cur' \in Flows
        /\ \A q \in Places \ {own} : cur'.report[q] = cur.report[q]
    BY <1>2, <2>1, AddDiagnosticType DEF Kinds
  <2>3. ASSUME KindsOf(cur'.report) \intersect Bad = {}
        PROVE  Sound(stub)
    <3>1. ASSUME NEW c \in Body
          PROVE  stub.says[c] \in {"unreachable", "safe", "info"}
      <4>1. <<Current, c>> \in Places \ {own}
        BY <1>1, OwnPlaces DEF Checks, Body
      <4>2. stub.says[c] = cur'.report[<<Current, c>>]
        BY <1>4, <2>2, <4>1
      <4>3. stub.says[c] \in KindsOf(cur'.report)
        BY <4>1, <4>2 DEF KindsOf
      <4>4. stub.says[c] \in Kinds
        BY <1>1, OwnPlaces DEF StubType
      <4> QED
        BY <2>3, <4>3, <4>4 DEF Kinds, Bad
    <3> QED
      BY <1>4, <1>5, <3>1 DEF Sound
  <2>4. StageOK'
    BY <1>1, <1>3, <2>3 DEF StageOK
  <2> QED
    BY <1>1, <1>2, <2>2, <2>4, StageKeeps DEF InStub
<1>6. CASE stub.shape # "fits"
  <2>1. cur' = RaiseAlarm(cur, own)
    BY <1>6 DEF AssertShape
  <2>2. /\ cur' \in Flows /\ Flawed(cur')
        /\ \A q \in Places \ {own} : cur'.report[q] = cur.report[q]
    BY <1>2, <1>4, <2>1, RaiseAlarmType DEF Flawed
  <2>3. StageOK'
    BY <1>1, <2>2, FlawedRecord DEF StageOK
  <2> QED
    BY <1>1, <1>2, <2>2, <2>3, StageKeeps DEF InStub
<1> QED
  BY <1>5, <1>6
LEMMA CatchKeeps == IInv /\ Catch => IInv'
<1> SUFFICES ASSUME IInv, Catch PROVE IInv'
  OBVIOUS
<1> USE DriverAssumption
<1> DEFINE own == <<Current, "abort">>
<1>1. Kept /\ UNCHANGED <<exit, interrupts>> /\ pc = "catch" /\ pc' = "record"
      /\ cur' = AddDiagnostic(base, own, "unimplemented")
  BY DEF Catch, Kept
<1>2. own \in Places /\ own[1] = Current /\ Current <= Len(stubs) /\ Current \in Nat \ {0}
  BY <1>1, OwnPlaces DEF Checks
<1>3. base \in Flows /\ base.report[own] = "unreachable"
  BY <1>2 DEF IInv, TypeOK, BaseOK
<1>4. /\ cur' \in Flows /\ cur'.report[own] = "unimplemented"
      /\ \A q \in Places \ {own} : cur'.report[q] = base.report[q]
  <2>1. "unimplemented" \in Kinds
    BY DEF Kinds
  <2> QED
    BY <1>1, <1>2, <1>3, <2>1, AddDiagnosticType, JoinKindUnit
<1>5. Current' = Current /\ base' = base
  BY <1>1, KeptParts DEF Kept
<1>6. TypeOK'
  BY <1>1, <1>2, <1>4, KeptParts DEF IInv, TypeOK, Kept
<1>7. CurOK'
  BY <1>2, <1>4, <1>5 DEF IInv, BaseOK, CurOK
<1>8. StageOK'
  <2>1. Flawed(cur')
    BY <1>2, <1>4 DEF Flawed, Bad
  <2> QED
    BY <1>1, <2>1, FlawedRecord DEF StageOK
<1>9. EndOK'
  BY <1>1 DEF EndOK
<1> QED
  BY <1>1, <1>6, <1>7, <1>8, <1>9, KeptParts DEF IInv

\* The part of a stub is its verdict's part once its flow is joined, and the
\* parts of the stubs before it stay as they were.
LEMMA RecordedPart ==
  ASSUME IInv, Record
  PROVE  /\ \A k \in 1 .. Len(results) : Part(joined', k) = Part(joined, k)
         /\ Outcome(Part(joined', Current)) = Outcome(KindsOf(cur.report))
         /\ \A p \in Places :
              /\ p[1] = 0 => joined'[p] = base.report[p]
              /\ p[1] > Current => joined'[p] = "unreachable"
<1>1. pc = "record" /\ joined' = JoinReport(joined, cur.report)
  BY DEF Record
<1>2. cur \in Flows /\ joined \in Reports /\ base \in Flows
      /\ Len(results) \in Nat /\ Current = Len(results) + 1
  BY DriverAssumption DEF IInv, TypeOK, Current
<1>3. \A p \in Places : joined[p] \in Kinds /\ cur.report[p] \in Kinds /\ base.report[p] \in Kinds
  BY <1>2 DEF Flows, Reports
<1>4. \A p \in Places : joined'[p] = JoinKind(joined[p], cur.report[p])
  BY <1>1 DEF JoinReport
<1>5. \A p \in Places : /\ p[1] \in Nat
                        /\ p[1] = 0 => cur.report[p] = base.report[p]
                        /\ p[1] \notin {0, Current} => cur.report[p] = "unreachable"
  BY <1>1 DEF IInv, CurOK, InStub, Places
<1>6. \A p \in Places :
        /\ p[1] = 0 => joined[p] = IF results = <<>> THEN "unreachable" ELSE base.report[p]
        /\ p[1] > Len(results) => joined[p] = "unreachable"
  BY DEF IInv, JoinedOK
<1>7. \A p \in Places : p[1] = 0 => joined'[p] = base.report[p]
  BY <1>3, <1>4, <1>5, <1>6, JoinKindUnit
<1>8. \A p \in Places : p[1] = Current => joined'[p] = cur.report[p]
  BY <1>2, <1>3, <1>4, <1>5, <1>6, JoinKindUnit
<1>9. \A p \in Places : p[1] > Current => joined'[p] = "unreachable"
  BY <1>2, <1>3, <1>4, <1>5, <1>6, JoinKindUnit
<1>10. ASSUME NEW k \in 1 .. Len(results)
       PROVE  Part(joined', k) = Part(joined, k)
  <2>1. results # <<>>
    BY <1>2
  <2>2. \A p \in Places : p[1] \in {0, k} => joined'[p] = joined[p]
    <3> SUFFICES ASSUME NEW p \in Places, p[1] \in {0, k} PROVE joined'[p] = joined[p]
      OBVIOUS
    <3>1. CASE p[1] = 0
      BY <1>6, <1>7, <2>1, <3>1
    <3>2. CASE p[1] = k
      <4>1. p[1] \notin {0, Current}
        BY <1>2, <3>2
      <4> QED
        BY <1>3, <1>4, <1>5, <4>1, JoinKindUnit
    <3> QED
      BY <3>1, <3>2
  <2> QED
    BY <2>2 DEF Part
<1>11. Outcome(Part(joined', Current)) = Outcome(KindsOf(cur.report))
  <2>1. ASSUME NEW p \in Places, p[1] \in {0, Current}
        PROVE  joined'[p] = cur.report[p]
    BY <1>5, <1>7, <1>8, <2>1
  <2>2. ASSUME NEW k, k # "unreachable", k \in KindsOf(cur.report)
        PROVE  k \in Part(joined', Current)
    <3>1. PICK p \in Places : k = cur.report[p]
      BY <2>2 DEF KindsOf
    <3>2. p[1] \in {0, Current}
      BY <1>5, <2>2, <3>1
    <3> QED
      BY <2>1, <3>1, <3>2 DEF Part
  <2>3. ASSUME NEW k, k \in Part(joined', Current)
        PROVE  k \in KindsOf(cur.report)
    BY <2>1, <2>3 DEF Part, KindsOf
  <2> QED
    BY <2>2, <2>3, OutcomeSame
<1> QED
  BY <1>7, <1>9, <1>10, <1>11

LEMMA RecordKeeps == IInv /\ Record => IInv'
<1> SUFFICES ASSUME IInv, Record PROVE IInv'
  OBVIOUS
<1> DEFINE verdict == Outcome(KindsOf(cur.report))
<1>1. /\ pc = "record" /\ pc' = "next" /\ joined' = JoinReport(joined, cur.report)
      /\ results' = Append(results, verdict)
      /\ UNCHANGED <<stubs, base, cur, exit, interrupts>>
  BY DEF Record
<1>2. /\ cur \in Flows /\ joined \in Reports /\ results \in Seq(Verdicts)
      /\ stubs \in Seq(Stubs) /\ Current = Len(results) + 1 /\ Current <= Len(stubs)
  BY <1>1 DEF IInv, TypeOK, Current
<1>3. verdict \in Verdicts /\ (verdict \in {"safe", "info"} => KindsOf(cur.report) \intersect Bad = {})
  BY OutcomeGood
<1> HIDE DEF verdict
<1>4. /\ results' \in Seq(Verdicts) /\ Len(results') = Current
      /\ results'[Current] = verdict
      /\ \A k \in 1 .. Len(results) : results'[k] = results[k]
      /\ DOMAIN results = 1 .. Len(results) /\ DOMAIN results' = 1 .. Current
      /\ results' # <<>>
  BY <1>1, <1>2, <1>3
<1>5. joined' \in Reports
  <2>1. \A p \in Places : JoinKind(joined[p], cur.report[p]) \in Kinds
    BY <1>2, JoinKindType DEF Flows, Reports
  <2> QED
    BY <1>1, <2>1 DEF JoinReport, Reports
<1>6. TypeOK'
  BY <1>1, <1>2, <1>4, <1>5 DEF IInv, TypeOK
<1>7. BaseOK'
  BY <1>1 DEF IInv, BaseOK, ErrorBehind
<1>8. JoinedOK'
  BY <1>1, <1>4, RecordedPart DEF JoinedOK
<1>9. CurOK' /\ StageOK' /\ EndOK'
  BY <1>1 DEF CurOK, StageOK, EndOK, InStub
<1>10. VerdictsOK'
  <2> SUFFICES ASSUME NEW k \in 1 .. Current
               PROVE  results'[k] = Outcome(Part(joined', k))
    BY <1>4 DEF VerdictsOK
  <2>1. CASE k = Current
    BY <1>4, <2>1, RecordedPart DEF verdict
  <2>2. CASE k \in 1 .. Len(results)
    <3>1. results[k] = Outcome(Part(joined, k))
      BY <1>4, <2>2 DEF IInv, VerdictsOK
    <3>2. Part(joined', k) = Part(joined, k)
      BY <2>2, RecordedPart
    <3>3. results'[k] = results[k]
      BY <1>4, <2>2
    <3> QED
      BY <3>1, <3>2, <3>3
  <2> QED
    BY <1>2, <2>1, <2>2
<1>11. PassMeansAnalysed'
  <2> SUFFICES ASSUME NEW k \in 1 .. Current, results'[k] \in {"safe", "info"}
               PROVE  Sound(stubs[k])
    BY <1>1, <1>4 DEF PassMeansAnalysed
  <2>1. CASE k = Current
    <3>1. KindsOf(cur.report) \intersect Bad = {}
      BY <1>3, <1>4, <2>1
    <3> QED
      BY <1>1, <2>1, <3>1 DEF IInv, StageOK, stub
  <2>2. CASE k \in 1 .. Len(results)
    BY <1>4, <2>2 DEF IInv, PassMeansAnalysed
  <2> QED
    BY <1>2, <2>1, <2>2
<1> QED
  BY <1>6, <1>7, <1>8, <1>9, <1>10, <1>11 DEF IInv

LEMMA FinishKeeps == IInv /\ Finish => IInv'
<1> SUFFICES ASSUME IInv, Finish PROVE IInv'
  OBVIOUS
<1>1. Kept /\ UNCHANGED <<cur, interrupts>> /\ pc = "next" /\ pc' = "ended"
      /\ exit' = (IF IsSafeReport(FinalReport) THEN 0 ELSE 1) /\ Current > Len(stubs)
  BY DEF Finish, Kept
<1>2. TypeOK'
  BY <1>1, KeptParts DEF IInv, TypeOK, Kept
<1>3. CurOK' /\ StageOK'
  BY <1>1 DEF CurOK, StageOK, InStub
<1>4. EndOK'
  <2>1. FinalReport' = FinalReport
    BY <1>1 DEF Kept, FinalReport
  <2>2. IsSafeReport(FinalReport') <=> IsSafeReport(FinalReport)
    BY <2>1
  <2>3. Len(results') = Len(stubs')
    BY <1>1 DEF IInv, TypeOK, Kept, Current
  <2>4. IsSafeReport(FinalReport)' <=> IsSafeReport(FinalReport')
    BY DEF IsSafeReport
  <2> QED
    BY <1>1, <2>2, <2>3, <2>4 DEF EndOK
<1> QED
  BY <1>1, <1>2, <1>3, <1>4, KeptParts DEF IInv

LEMMA InterruptKeeps == IInv /\ Interrupt => IInv'
<1> SUFFICES ASSUME IInv, Interrupt PROVE IInv'
  OBVIOUS
<1>1. Kept /\ UNCHANGED cur /\ interrupts' = interrupts + 1 /\ interrupts < MaxInterrupts
      /\ \/ pc \in {"arity", "call", "shape"} /\ pc' = "catch" /\ exit' = exit
         \/ pc' = "ended" /\ exit' = 2
  BY DEF Interrupt, Kept
<1>2. TypeOK'
  BY <1>1, KeptParts, DriverAssumption DEF IInv, TypeOK, Kept
<1>3. CurOK' /\ StageOK' /\ EndOK'
  BY <1>1 DEF CurOK, StageOK, EndOK, InStub
<1> QED
  BY <1>1, <1>2, <1>3, KeptParts DEF IInv

LEMMA StutterKeeps == IInv /\ UNCHANGED vars => IInv'
<1> SUFFICES ASSUME IInv, UNCHANGED vars PROVE IInv'
  OBVIOUS
<1>1. Kept /\ UNCHANGED <<pc, cur, exit, interrupts>>
  BY DEF vars, Kept
<1>2. TypeOK' /\ CurOK'
  BY <1>1, KeptParts DEF IInv, TypeOK, Kept, CurOK, InStub
<1>3. StageOK'
  <2>1. cur' = cur /\ pc' = pc /\ base' = base /\ Current' = Current /\ stub' = stub
    BY <1>1, KeptParts DEF Kept
  <2> QED
    BY <2>1 DEF IInv, StageOK, InStub, Flawed, KindsOf, Sound, ArityAgrees
<1>4. EndOK'
  BY <1>1 DEF IInv, EndOK, Kept, FinalReport, IsSafeReport
<1> QED
  BY <1>1, <1>2, <1>3, <1>4, KeptParts DEF IInv

LEMMA Invariance == Spec => []IInv
<1>1. IInv /\ [Next]_vars => IInv'
  BY InitGlobalsKeeps, StartStubKeeps, ExecArityCheckKeeps, EvalCallKeeps, AssertShapeKeeps,
     CatchKeeps, RecordKeeps, FinishKeeps, InterruptKeeps, StutterKeeps
     DEF Next, Driver
<1> QED
  BY InitEstablishes, <1>1, PTL DEF Spec

-----------------------------------------------------------------------------
(* The theorems.                                                           *)

\* The driver never goes past its last stub, and its flows and reports stay
\* what they are for any number of stubs (program.ml 296-309).
THEOREM TypeCorrect == Spec => []TypeOK
<1>1. IInv => TypeOK
  BY DEF IInv
<1> QED
  BY Invariance, <1>1, PTL

\* No stub suffers from another one, however many there are: the flow each of
\* them starts from is that of the globals (program.ml 296-309).
THEOREM NoStubSuffers == Spec => []VerdictsAreJustified
<1>1. IInv => VerdictsAreJustified
  <2> SUFFICES ASSUME IInv, pc = "ended", exit # 2, NEW k \in DOMAIN results
               PROVE  results[k] = Outcome({FinalReport[p] : p \in {q \in Places : q[1] \in {0, k}}})
    BY DEF VerdictsAreJustified
  <2>1. stubs # <<>>
    BY DEF IInv, EndOK, TypeOK
  <2>2. FinalReport = joined
    BY <2>1 DEF FinalReport
  <2> QED
    BY <2>2 DEF IInv, VerdictsOK, Part
<1> QED
  BY Invariance, <1>1, PTL

\* A stub whose analysis failed, or was interrupted, never passes
\* (program.ml 287-294).
THEOREM NoPassUnanalysed == Spec => []PassMeansAnalysed
<1>1. IInv => PassMeansAnalysed
  BY DEF IInv
<1> QED
  BY Invariance, <1>1, PTL

\* The exit code and the verdicts agree (factory.ml 44-49).
THEOREM ExitCodeAgrees == Spec => []ExitAgrees
<1>1. IInv => ExitAgrees
  <2> SUFFICES ASSUME IInv, pc = "ended", exit # 2, stubs # <<>>
               PROVE  exit = 0 <=> \A k \in DOMAIN results : results[k] \in {"safe", "info"}
    BY DEF ExitAgrees
  <2>1. exit = 0 <=> IsSafeReport(joined)
    BY DEF IInv, EndOK, FinalReport
  <2>2. /\ joined \in Reports /\ DOMAIN results = 1 .. Len(results)
        /\ Len(results) >= 1 /\ Len(results) \in Nat
    BY DEF IInv, TypeOK, EndOK
  <2>3. \A k \in DOMAIN results : results[k] \in {"safe", "info"} <=> Part(joined, k) \intersect Bad = {}
    BY OutcomeGood DEF IInv, VerdictsOK
  <2>4. \A p \in Places : joined[p] \in {"safe", "unreachable", "info"} <=> joined[p] \notin Bad
    BY <2>2 DEF Reports, Kinds, Bad
  <2>5. ASSUME IsSafeReport(joined), NEW k \in DOMAIN results
        PROVE  Part(joined, k) \intersect Bad = {}
    BY <2>4, <2>5 DEF IsSafeReport, Part
  <2>6. ASSUME \A k \in DOMAIN results : Part(joined, k) \intersect Bad = {}
        PROVE  IsSafeReport(joined)
    <3> SUFFICES ASSUME NEW p \in Places PROVE joined[p] \notin Bad
      BY <2>4 DEF IsSafeReport
    <3>1. p[1] \in Nat
      BY DEF Places
    <3>2. CASE p[1] = 0
      <4>1. 1 \in DOMAIN results /\ joined[p] \in Part(joined, 1)
        BY <2>2, <3>2 DEF Part
      <4> QED
        BY <2>6, <4>1
    <3>3. CASE p[1] \in DOMAIN results
      <4>1. joined[p] \in Part(joined, p[1])
        BY DEF Part
      <4> QED
        BY <2>6, <3>3, <4>1
    <3>4. CASE p[1] > Len(results)
      BY <3>4 DEF IInv, JoinedOK, Bad
    <3> QED
      BY <2>2, <3>1, <3>2, <3>3, <3>4
  <2> QED
    BY <2>1, <2>3, <2>5, <2>6
<1> QED
  BY Invariance, <1>1, PTL

-----------------------------------------------------------------------------
(* vicuna.py.                                                              *)

(* How many of the writes that the analyzer has already made go to s. *)
Sent(s) == Cardinality({ i \in 1 .. Len(job) - Len(todo) : job[i] = s })

(* What is left to write is the end of what will be written. *)
TodoIsSuffix ==
  /\ job \in Seq(Streams)
  /\ Len(todo) <= Len(job)
  /\ \A i \in 1 .. Len(todo) : todo[i] = job[Len(job) - Len(todo) + i]

(* Until the script has its report the pipes hold everything the analyzer wrote. *)
PipesHold == stage \in {"start", "wait", "kill", "read"} => \A s \in Streams : pipe[s] = Sent(s)

(*
Where the script is tells what may have happened to the analyzer: it dies of a
signal after the script gave up only, and of a closed pipe after its end only.
*)
Order ==
  /\ stage \in {"start", "wait", "kill", "read"} => ~signal /\ child # "killed"
  /\ stage = "start" => child = "none"
  /\ stage \in {"wait", "kill"} => child # "none"
  /\ stage = "read" => child = "exited"
  /\ child = "exited" /\ code \in {0, 1} => todo = <<>>

(* A summary that is prepared is whole, and only a prepared one is printed. *)
Prepared ==
  /\ report.kind = "summary" => report.text["out"] = Written("out") /\ todo = <<>>
  /\ report.kind = "summary" => stage \in {"print", "ended"}
  /\ printed = "summary" => report.kind = "summary"

ProcessInv == ProcessTypeOK /\ TodoIsSuffix /\ PipesHold /\ Order /\ Prepared

-----------------------------------------------------------------------------
(* Every step keeps the types; only a write moves the pipes and what is left. *)
LEMMA ProcessTypeStep == ProcessTypeOK /\ [ProcessNext]_processVars => ProcessTypeOK'
<1> SUFFICES ASSUME ProcessTypeOK, [ProcessNext]_processVars PROVE ProcessTypeOK'
  OBVIOUS
<1> USE ProcessAssumption DEF ProcessTypeOK, Streams, ReportKinds, Nothing, given
<1>1. CASE RefuseArguments
  BY <1>1 DEF RefuseArguments, Stop, analyzer
<1>2. CASE NothingToDo
  BY <1>2 DEF NothingToDo, analyzer
<1>3. CASE Popen
  BY <1>3 DEF Popen
<1>4. CASE Wait
  BY <1>4 DEF Wait, analyzer
<1>5. CASE GiveUp
  BY <1>5 DEF GiveUp, Killpg
<1>6. CASE Read
  <2>1. PICK kind \in ReportKinds, text \in [Streams -> Nat] : report' = [kind |-> kind, text |-> text]
    <3>1. [pipe EXCEPT !["err"] = 0] \in [Streams -> Nat] /\ pipe \in [Streams -> Nat]
      OBVIOUS
    <3> QED
      BY <1>6, <3>1 DEF Read
  <2>2. pipe' \in [Streams -> 0 .. Capacity]
    BY <1>6 DEF Read
  <2> QED
    BY <1>6, <2>1, <2>2 DEF Read, analyzer
<1>7. CASE Publish
  BY <1>7 DEF Publish, OutputResult, Stop, analyzer
<1>8. CASE Write
  <2>1. CASE stage = "ended"
    BY <1>8, <2>1 DEF Write, script
  <2>2. CASE stage # "ended"
    <3>1. Head(todo) \in Streams /\ Tail(todo) \in Seq(Streams)
      BY <1>8 DEF Write
    <3>2. pipe[Head(todo)] + 1 \in 0 .. Capacity
      BY <1>8, <2>2, <3>1 DEF Write, Blocked
    <3>3. pipe' \in [Streams -> 0 .. Capacity]
      BY <1>8, <2>2, <3>1, <3>2 DEF Write
    <3> QED
      BY <1>8, <2>2, <3>1, <3>3 DEF Write, script
  <2> QED
    BY <2>1, <2>2
<1>9. CASE Complete
  BY <1>9 DEF Complete, script
<1>10. CASE Fail
  BY <1>10 DEF Fail, script
<1>11. CASE Die
  BY <1>11 DEF Die, script
<1>12. CASE Tick
  BY <1>12 DEF Tick, script, analyzer
<1>13. CASE UNCHANGED processVars
  BY <1>13 DEF processVars, script, analyzer
<1> QED
  BY <1>1, <1>2, <1>3, <1>4, <1>5, <1>6, <1>7, <1>8, <1>9, <1>10, <1>11, <1>12, <1>13
  DEF ProcessNext, Script

-----------------------------------------------------------------------------
(* One more write counts once, in the stream it goes to. *)
LEMMA SentAfterWrite ==
  ASSUME ProcessTypeOK, TodoIsSuffix, todo # <<>>, todo' = Tail(todo), job' = job,
         NEW s \in Streams
  PROVE  Sent(s)' = IF s = Head(todo) THEN Sent(s) + 1 ELSE Sent(s)
<1> DEFINE n == Len(job) - Len(todo)
           Old == { i \in 1 .. n : job[i] = s }
           Grown == { i \in 1 .. n + 1 : job[i] = s }
<1>1. n \in Nat /\ Len(todo) \in Nat \ {0}
  BY DEF ProcessTypeOK, TodoIsSuffix
<1>2. Len(todo') = Len(todo) - 1
  BY <1>1 DEF ProcessTypeOK
<1>3. Len(job') - Len(todo') = n + 1
  BY <1>1, <1>2 DEF TodoIsSuffix
<1>4. Sent(s)' = Cardinality(Grown)
  BY <1>3 DEF Sent
<1>5. job[n + 1] = Head(todo)
  <2>1. Head(todo) = todo[1]
    BY DEF ProcessTypeOK
  <2>2. 1 \in 1 .. Len(todo)
    BY <1>1
  <2> QED
    BY <2>1, <2>2 DEF TodoIsSuffix
<1>6. IsFiniteSet(Old)
  <2>1. IsFiniteSet(1 .. n)
    BY <1>1, FS_Interval
  <2> QED
    BY <2>1, FS_Subset
<1>7. CASE s = Head(todo)
  <2>1. Grown = Old \cup {n + 1} /\ n + 1 \notin Old
    BY <1>1, <1>5, <1>7
  <2>2. Cardinality(Grown) = Cardinality(Old) + 1
    BY <1>6, <2>1, FS_AddElement
  <2> QED
    BY <1>4, <1>7, <2>2 DEF Sent
<1>8. CASE s # Head(todo)
  <2>1. Grown = Old
    BY <1>1, <1>5, <1>8
  <2> QED
    BY <1>4, <1>8, <2>1 DEF Sent
<1> QED
  BY <1>7, <1>8

(* When nothing is left to write, what was sent is what was to be written. *)
LEMMA SentIsWritten ==
  ASSUME TodoIsSuffix, todo = <<>>, NEW s \in Streams
  PROVE  Sent(s) = Written(s)
<1>1. Len(job) - Len(todo) = Len(job) /\ DOMAIN job = 1 .. Len(job)
  BY DEF TodoIsSuffix
<1> QED
  BY <1>1 DEF Sent, Written

-----------------------------------------------------------------------------
LEMMA ProcessInitEstablishes == ProcessInit => ProcessInv
<1> SUFFICES ASSUME ProcessInit PROVE ProcessInv
  OBVIOUS
<1>1. job \in Seq(Streams) /\ todo = job
  BY ProcessAssumption DEF ProcessInit, Streams
<1>2. ProcessTypeOK
  <2>1. report \in [kind : ReportKinds, text : [Streams -> Nat]] /\ pipe \in [Streams -> 0 .. Capacity]
    BY ProcessAssumption DEF ProcessInit, ReportKinds, Nothing
  <2>2. clock \in 0 .. Timeout
    BY ProcessAssumption DEF ProcessInit
  <2>3. printed \in ReportKinds /\ code \in 0 .. 3 /\ status \in {0, 1}
    BY DEF ProcessInit, ReportKinds
  <2>4. child \in {"none", "running", "exited", "killed"}
    BY DEF ProcessInit
  <2>5. stage \in {"start", "wait", "kill", "read", "print", "ended"}
    BY DEF ProcessInit
  <2>6. outlet \in {"stdout", "writable", "denied", "full"}
    BY DEF ProcessInit
  <2>7. signal \in BOOLEAN
    BY DEF ProcessInit
  <2> QED
    BY <1>1, <2>1, <2>2, <2>3, <2>4, <2>5, <2>6, <2>7 DEF ProcessTypeOK
<1>3. TodoIsSuffix
  BY <1>1 DEF TodoIsSuffix
<1>4. PipesHold
  <2>1. \A s \in Streams : { i \in 1 .. Len(job) - Len(todo) : job[i] = s } = {}
    BY <1>1
  <2> QED
    BY <2>1, FS_EmptySet DEF ProcessInit, PipesHold, Sent, Nothing
<1>5. Order /\ Prepared
  BY DEF ProcessInit, Order, Prepared
<1> QED
  BY <1>2, <1>3, <1>4, <1>5 DEF ProcessInv

(* Steps that leave the analyzer's writes and the pipes alone. *)
LEMMA QuietProcess ==
  ASSUME TodoIsSuffix, PipesHold, UNCHANGED <<job, todo, pipe>>,
         stage' \in {"start", "wait", "kill", "read"} => stage \in {"start", "wait", "kill", "read"}
  PROVE  TodoIsSuffix' /\ PipesHold'
  BY DEF TodoIsSuffix, PipesHold, Sent

LEMMA ProcessStep == ProcessInv /\ [ProcessNext]_processVars => ProcessInv'
<1> SUFFICES ASSUME ProcessInv, [ProcessNext]_processVars PROVE ProcessInv'
  OBVIOUS
<1>0. ProcessTypeOK'
  BY ProcessTypeStep DEF ProcessInv
<1> USE DEF ProcessInv
<1>1. CASE RefuseArguments
  <2>1. TodoIsSuffix' /\ PipesHold'
    BY <1>1, QuietProcess DEF RefuseArguments, Stop, analyzer, given
  <2>2. Order' /\ Prepared'
    BY <1>1 DEF RefuseArguments, Stop, analyzer, given, Order, Prepared, Written
  <2> QED
    BY <1>0, <2>1, <2>2
<1>2. CASE NothingToDo
  <2>1. TodoIsSuffix' /\ PipesHold'
    BY <1>2, QuietProcess DEF NothingToDo, analyzer, given
  <2>2. Order' /\ Prepared'
    BY <1>2 DEF NothingToDo, analyzer, given, Order, Prepared, Written
  <2> QED
    BY <1>0, <2>1, <2>2
<1>3. CASE Popen
  <2>1. TodoIsSuffix' /\ PipesHold'
    BY <1>3, QuietProcess DEF Popen, given
  <2>2. Order' /\ Prepared'
    BY <1>3 DEF Popen, given, Order, Prepared, Written
  <2> QED
    BY <1>0, <2>1, <2>2
<1>4. CASE Wait
  <2>1. TodoIsSuffix' /\ PipesHold'
    BY <1>4, QuietProcess DEF Wait, analyzer, given
  <2>2. Order' /\ Prepared'
    BY <1>4 DEF Wait, analyzer, given, Order, Prepared, Written, ProcessTypeOK
  <2> QED
    BY <1>0, <2>1, <2>2
<1>5. CASE GiveUp
  <2>1. TodoIsSuffix' /\ PipesHold'
    BY <1>5, QuietProcess DEF GiveUp, given
  <2>2. Order' /\ Prepared'
    BY <1>5 DEF GiveUp, given, Order, Prepared, Written
  <2> QED
    BY <1>0, <2>1, <2>2
<1>6. CASE Read
  <2>1. TodoIsSuffix' /\ PipesHold'
    BY <1>6 DEF Read, analyzer, given, TodoIsSuffix, PipesHold
  <2>2. Order'
    BY <1>6 DEF Read, analyzer, Order
  <2>3. Prepared'
    <3>1. CASE Succeeded
      <4>1. todo = <<>> /\ todo' = <<>>
        BY <1>6, <3>1 DEF Read, Succeeded, Order, analyzer
      <4>2. report'.text["out"] = pipe["out"]
        BY <1>6, <3>1 DEF Read, ProcessTypeOK, Streams
      <4>3. pipe["out"] = Written("out")
        BY <1>6, <4>1, SentIsWritten DEF Read, PipesHold, Streams
      <4>4. Written("out")' = Written("out")
        BY <1>6 DEF Read, given, Written
      <4> QED
        BY <1>6, <4>1, <4>2, <4>3, <4>4 DEF Read, Prepared
    <3>2. CASE ~Succeeded
      BY <1>6, <3>2 DEF Read, Prepared
    <3> QED
      BY <3>1, <3>2
  <2> QED
    BY <1>0, <2>1, <2>2, <2>3
<1>7. CASE Publish
  <2>1. TodoIsSuffix' /\ PipesHold'
    BY <1>7, QuietProcess DEF Publish, OutputResult, Stop, analyzer, given, ProcessTypeOK
  <2>2. Order' /\ Prepared'
    BY <1>7 DEF Publish, OutputResult, Stop, analyzer, given, Order, Prepared, Written, ProcessTypeOK
  <2> QED
    BY <1>0, <2>1, <2>2
<1>8. CASE Write
  <2>1. CASE stage = "ended"
    <3>1. TodoIsSuffix' /\ PipesHold'
      BY <1>8, <2>1, QuietProcess DEF Write, script, given
    <3>2. Order' /\ Prepared'
      BY <1>8, <2>1 DEF Write, script, given, Order, Prepared, Written
    <3> QED
      BY <1>0, <3>1, <3>2
  <2>2. CASE stage # "ended"
    <3>1. todo' = Tail(todo) /\ UNCHANGED <<stage, job>> /\ todo # <<>>
      BY <1>8, <2>2 DEF Write, script, given
    <3>2. TodoIsSuffix'
      BY <3>1 DEF TodoIsSuffix, ProcessTypeOK
    <3>3. PipesHold'
      <4> SUFFICES ASSUME stage \in {"start", "wait", "kill", "read"}, NEW s \in Streams
                   PROVE  pipe'[s] = Sent(s)'
        BY <3>1 DEF PipesHold
      <4>1. pipe[s] = Sent(s) /\ s \in DOMAIN pipe /\ pipe[s] \in Nat
        BY DEF PipesHold, ProcessTypeOK
      <4>2. pipe'[s] = IF s = Head(todo) THEN pipe[s] + 1 ELSE pipe[s]
        BY <1>8, <2>2, <4>1 DEF Write, ProcessTypeOK
      <4> QED
        BY <3>1, <4>1, <4>2, SentAfterWrite
    <3>4. Order' /\ Prepared'
      BY <1>8, <2>2 DEF Write, script, given, Order, Prepared, Written
    <3> QED
      BY <1>0, <3>2, <3>3, <3>4
  <2> QED
    BY <2>1, <2>2
<1>9. CASE Complete
  <2>1. TodoIsSuffix' /\ PipesHold'
    BY <1>9, QuietProcess DEF Complete, script, given
  <2>2. Order' /\ Prepared'
    BY <1>9 DEF Complete, script, given, Order, Prepared, Written
  <2> QED
    BY <1>0, <2>1, <2>2
<1>10. CASE Fail
  <2>1. TodoIsSuffix' /\ PipesHold'
    BY <1>10, QuietProcess DEF Fail, script, given
  <2>2. Order' /\ Prepared'
    BY <1>10 DEF Fail, script, given, Order, Prepared, Written
  <2> QED
    BY <1>0, <2>1, <2>2
<1>11. CASE Die
  <2>1. TodoIsSuffix' /\ PipesHold'
    BY <1>11, QuietProcess DEF Die, script, given
  <2>2. Order' /\ Prepared'
    BY <1>11 DEF Die, script, given, Order, Prepared, Written
  <2> QED
    BY <1>0, <2>1, <2>2
<1>12. CASE Tick
  <2>1. TodoIsSuffix' /\ PipesHold'
    BY <1>12, QuietProcess DEF Tick, script, analyzer, given
  <2>2. Order' /\ Prepared'
    BY <1>12 DEF Tick, script, analyzer, given, Order, Prepared, Written
  <2> QED
    BY <1>0, <2>1, <2>2
<1>13. CASE UNCHANGED processVars
  <2>1. TodoIsSuffix' /\ PipesHold'
    BY <1>13, QuietProcess DEF processVars, script, analyzer, given
  <2>2. Order' /\ Prepared'
    BY <1>13 DEF processVars, script, analyzer, given, Order, Prepared, Written
  <2> QED
    BY <1>0, <2>1, <2>2
<1> QED
  BY <1>1, <1>2, <1>3, <1>4, <1>5, <1>6, <1>7, <1>8, <1>9, <1>10, <1>11, <1>12, <1>13
  DEF ProcessNext, Script

-----------------------------------------------------------------------------
(* The state of the script, of the analyzer and of the pipes keeps its types. *)
THEOREM ProcessTypeCorrect == ProcessSpec => []ProcessTypeOK
<1>1. ProcessInit => ProcessTypeOK
  BY ProcessInitEstablishes DEF ProcessInv
<1> QED
  BY <1>1, ProcessTypeStep, PTL DEF ProcessSpec

(*
A summary that vicuna.py prints holds everything the analyzer wrote to its
output, and the analyzer came to its end: the time limit, a panic or a full pipe
never cut it short.
*)
THEOREM SummaryWhole == ProcessSpec => []SummaryIsWhole
<1>1. ProcessInv => SummaryIsWhole
  BY DEF ProcessInv, Prepared, SummaryIsWhole
<1> QED
  BY <1>1, ProcessInitEstablishes, ProcessStep, PTL DEF ProcessSpec

=============================================================================
