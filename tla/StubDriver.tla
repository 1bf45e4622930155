----------------------------- MODULE StubDriver -----------------------------
(***************************************************************************)
(* The driver of -runtimetest (c/iterators/program.ml): every C function   *)
(* that the OCaml program declares external is analysed on arguments of    *)
(* its declared shape, and gets a verdict of its own; their reports are    *)
(* joined, and the joined report fixes the exit code of the analyzer.      *)
(*                                                                         *)
(* A stub is the little the driver can tell about a function: how many     *)
(* parameters it has and should have, what its body adds to the report,    *)
(* how its call ends, and whether its result fits.  What a body does is    *)
(* the subject of FfiSoundness.                                            *)
(***************************************************************************)
EXTENDS Integers, Sequences

CONSTANTS
  Stubs,         \* the stubs a program may have
  Globals,       \* the flows the initialization of globals may leave
  MaxStubs,      \* most stubs of a program
  MaxInterrupts  \* most Ctrl-C of a run

\* Where a stub's diagnostics are: the ranges of its body, of its declaration
\* (arity and void result share a check), of its result, and of its failure.
Body   == {"first", "second"}
Checks == Body \union {"arity", "shape", "abort"}
Kinds  == {"unreachable", "safe", "info", "error", "warning", "unimplemented"}

\* 0 stands for the code that initializes globals.
Places  == (0 .. MaxStubs) \X Checks
Reports == [Places -> Kinds]
Flows   == [alive : BOOLEAN, report : Reports]

\* A program point without T_cur has an error behind it.
ErrorBehind(f) == \E p \in Places : f.report[p] \in {"error", "warning"}

StubType ==
  [params : Nat, args : Nat, says : [Body -> Kinds],
   ends : {"value", "void", "never", "crash"}, shape : {"fits", "wrong"}]

ASSUME DriverAssumption ==
  /\ MaxStubs \in Nat
  /\ MaxInterrupts \in Nat
  /\ Stubs \subseteq StubType
  /\ Globals \subseteq Flows
  /\ \A f \in Globals :
       /\ \A p \in Places : p[1] # 0 => f.report[p] = "unreachable"
       /\ ~f.alive => ErrorBehind(f)

VARIABLES
  stubs,       \* the functions to test, in program order
  base,        \* the flow all of them start from
  pc,          \* the driver's stage
  cur,         \* the flow of the stub under test
  joined,      \* the report of the stubs tested so far
  results,     \* their verdicts
  exit,        \* exit code of the analyzer, once it has ended
  interrupts   \* Ctrl-C pressed so far

vars == <<stubs, base, pc, cur, joined, results, exit, interrupts>>

-----------------------------------------------------------------------------
(* Diagnostics.                                                            *)

JoinKind(k, l) ==
  IF k = l THEN k
  ELSE IF "unimplemented" \in {k, l} THEN "unimplemented"
  ELSE IF k = "unreachable" THEN l
  ELSE IF l = "unreachable" THEN k
  ELSE IF {k, l} = {"safe", "info"} THEN "info"
  ELSE "warning"

\* The order drawn above join_diagnostic_kind, as subset_diagnostic_kind has it.
SubsetKind(k, l) ==
  \/ k = l
  \/ l = "unimplemented"
  \/ k = "unreachable"
  \/ l = "warning" /\ k # "unimplemented"
  \/ k = "safe" /\ l = "info"

AddDiagnostic(flow, place, kind) ==
  [flow EXCEPT !.report[place] = JoinKind(@, kind)]

\* add_alarm_to_diagnostic: an alarm is not joined, it makes a safe check an error.
AlarmedKind(k) == IF k \in {"warning", "unimplemented"} THEN k ELSE "error"

\* An alarm where T_cur is bottom is an unreachable check.
RaiseAlarm(flow, place) ==
  IF flow.alive THEN [flow EXCEPT !.report[place] = AlarmedKind(@), !.alive = FALSE]
                ELSE flow

JoinReport(r, s) == [p \in Places |-> JoinKind(r[p], s[p])]

NoReport == [p \in Places |-> "unreachable"]

\* function_report_outcome, of the kinds a report has
Outcome(kinds) ==
  IF kinds \intersect {"error", "warning"} # {} THEN "error"
  ELSE IF "unimplemented" \in kinds THEN "unimplemented"
  ELSE IF "info" \in kinds THEN "info"
  ELSE "safe"

KindsOf(report) == {report[p] : p \in Places}

\* (mutant) what could not be analysed is no reason to fail
IsSafeReportLax(report) ==
  \A p \in Places : report[p] \in {"safe", "unreachable", "info", "unimplemented"}

IsSafeReport(report) ==
  \A p \in Places : report[p] \in {"safe", "unreachable", "info"}

-----------------------------------------------------------------------------
(* One stub.                                                               *)

Current == Len(results) + 1
stub    == stubs[Current]

ArityAgrees(s) ==
  \/ s.params = 0
  \/ s.args <= 5 /\ s.params = s.args
  \/ s.args > 5 /\ s.params = 2

\* exec_arity_check
ExecArityCheck ==
  /\ pc = "arity"
  /\ pc' = "call"
  /\ cur' = IF stub.params = 0 THEN cur
            ELSE IF ArityAgrees(stub) THEN AddDiagnostic(cur, <<Current, "arity">>, "safe")
            ELSE RaiseAlarm(cur, <<Current, "arity">>)
  /\ UNCHANGED <<stubs, base, joined, results, exit, interrupts>>

AfterBody ==
  [cur EXCEPT !.report =
     [p \in Places |-> IF p[1] = Current /\ p[2] \in Body
                         THEN JoinKind(@[p], stub.says[p[2]]) ELSE @[p]]]

\* The call of the stub, and the check that it returns something.  Nothing is
\* evaluated where the arity check has failed.
EvalCall ==
  /\ pc = "call"
  /\ \/ /\ ~cur.alive
        /\ pc' = "record"
        /\ UNCHANGED cur
     \/ /\ cur.alive /\ stub.ends = "value"
        /\ pc' = "shape"
        /\ cur' = AfterBody
     \/ /\ cur.alive /\ stub.ends = "void"
        /\ pc' = "record"
        /\ cur' = RaiseAlarm(AfterBody, <<Current, "arity">>)
     \/ /\ cur.alive /\ stub.ends = "never"
        /\ pc' = "record"
        /\ cur' = [AfterBody EXCEPT !.alive = FALSE]
     \/ /\ cur.alive /\ stub.ends = "crash"
        /\ pc' = "catch"
        /\ UNCHANGED cur
  /\ UNCHANGED <<stubs, base, joined, results, exit, interrupts>>

\* _ffi_assert_shape of the result
AssertShape ==
  /\ pc = "shape"
  /\ pc' = "record"
  /\ cur' = IF stub.shape = "fits" THEN AddDiagnostic(cur, <<Current, "shape">>, "safe")
                                   ELSE RaiseAlarm(cur, <<Current, "shape">>)
  /\ UNCHANGED <<stubs, base, joined, results, exit, interrupts>>

\* (mutant) the exception is swallowed
CatchSilently ==
  /\ pc = "catch"
  /\ pc' = "record"
  /\ cur' = base
  /\ UNCHANGED <<stubs, base, joined, results, exit, interrupts>>

\* with e -> ... : what the stub had added to the report is gone, and one
\* diagnostic says that it could not be analysed.
Catch ==
  /\ pc = "catch"
  /\ pc' = "record"
  /\ cur' = AddDiagnostic(base, <<Current, "abort">>, "unimplemented")
  /\ UNCHANGED <<stubs, base, joined, results, exit, interrupts>>

-----------------------------------------------------------------------------
(* All stubs.                                                              *)

\* init_globals and exec_stub_directives return, or panic.
InitGlobals ==
  /\ pc = "globals"
  /\ \/ pc' = "next" /\ UNCHANGED exit
     \/ pc' = "ended" /\ exit' = 2
  /\ UNCHANGED <<stubs, base, cur, joined, results, interrupts>>

\* (mutant) the driver goes one stub too far
StartStubPast ==
  /\ pc = "next"
  /\ Len(results) <= Len(stubs)
  /\ pc' = "arity"
  /\ cur' = base
  /\ UNCHANGED <<stubs, base, joined, results, exit, interrupts>>

\* (mutant) a stub starts from the flow of the one before
StartStubAfter ==
  /\ pc = "next"
  /\ Current <= Len(stubs)
  /\ pc' = "arity"
  /\ UNCHANGED <<stubs, base, cur, joined, results, exit, interrupts>>

StartStub ==
  /\ pc = "next"
  /\ Current <= Len(stubs)
  /\ pc' = "arity"
  /\ cur' = base
  /\ UNCHANGED <<stubs, base, joined, results, exit, interrupts>>

\* (mutant) the usual bind, which goes no further where the flow is empty
RecordAlive ==
  /\ pc = "record"
  /\ cur.alive
  /\ pc' = "next"
  /\ joined' = JoinReport(joined, cur.report)
  /\ results' = Append(results, Outcome(KindsOf(cur.report)))
  /\ UNCHANGED <<stubs, base, cur, exit, interrupts>>

\* The verdict of the stub; its flow is kept to be joined with the others.
Record ==
  /\ pc = "record"
  /\ pc' = "next"
  /\ joined' = JoinReport(joined, cur.report)
  /\ results' = Append(results, Outcome(KindsOf(cur.report)))
  /\ UNCHANGED <<stubs, base, cur, exit, interrupts>>

FinalReport == IF stubs = <<>> THEN base.report ELSE joined

\* output_results, then the report and the exit code
Finish ==
  /\ pc = "next"
  /\ Current > Len(stubs)
  /\ pc' = "ended"
  /\ exit' = IF IsSafeReport(FinalReport) THEN 0 ELSE 1
  /\ UNCHANGED <<stubs, base, cur, joined, results, interrupts>>

\* Ctrl-C raises an exception wherever the analyzer is: the handler around a
\* stub takes it for a failure of that stub, elsewhere it ends the analyzer.
Interrupt ==
  /\ pc # "ended"
  /\ interrupts < MaxInterrupts
  /\ interrupts' = interrupts + 1
  /\ IF pc \in {"arity", "call", "shape"}
       THEN pc' = "catch" /\ UNCHANGED exit
       ELSE pc' = "ended" /\ exit' = 2
  /\ UNCHANGED <<stubs, base, cur, joined, results>>

-----------------------------------------------------------------------------
Init ==
  /\ stubs \in UNION {[1 .. n -> Stubs] : n \in 0 .. MaxStubs}
  /\ base \in Globals
  /\ pc = "globals"
  /\ cur = base
  /\ joined = NoReport
  /\ results = <<>>
  /\ exit = 0
  /\ interrupts = 0

Driver == InitGlobals \/ StartStub \/ ExecArityCheck \/ EvalCall \/ AssertShape
            \/ Catch \/ Record \/ Finish

Next == Driver \/ Interrupt

\* One thread, which goes on unless the user stops it.
Spec == Init /\ [][Next]_vars /\ WF_vars(Driver)

-----------------------------------------------------------------------------
(* Properties.                                                             *)

Verdicts == {"error", "unimplemented", "info", "safe"}

TypeOK ==
  /\ stubs \in Seq(Stubs) /\ Len(stubs) <= MaxStubs
  /\ base \in Globals
  /\ pc \in {"globals", "next", "arity", "call", "shape", "catch", "record", "ended"}
  /\ cur \in Flows
  /\ joined \in Reports
  /\ results \in Seq(Verdicts) /\ Len(results) <= Len(stubs)
  /\ pc \in {"arity", "call", "shape", "catch", "record"} => Current <= Len(stubs)
  /\ exit \in 0 .. 2
  /\ interrupts \in 0 .. MaxInterrupts

\* The verdict printed for a stub is the one its own part of the final report
\* calls for, together with that of the globals: no stub suffers from another,
\* and no reason of a verdict is lost (program.ml 296-309).
VerdictsAreJustified ==
  pc = "ended" /\ exit # 2 =>
    \A k \in DOMAIN results :
      results[k] = Outcome({FinalReport[p] : p \in {q \in Places : q[1] \in {0, k}}})

\* A stub passes only if all of it was analysed and nothing was found: the
\* arities agree, the call neither failed nor returned void, and a result it
\* returns has the declared shape (program.ml 269-294).
Sound(s) ==
  /\ ArityAgrees(s)
  /\ \/ s.ends = "never"
     \/ s.ends = "value" /\ s.shape = "fits"
  /\ \A c \in Body : s.says[c] \in {"unreachable", "safe", "info"}

PassMeansAnalysed ==
  \A k \in DOMAIN results : results[k] \in {"safe", "info"} => Sound(stubs[k])

\* The exit code tells whether some verdict is bad, for a caller that reads
\* nothing else (factory.ml 44-49, vicuna.py 305).
ExitAgrees ==
  pc = "ended" /\ exit # 2 /\ stubs # <<>> =>
    (exit = 0 <=> \A k \in DOMAIN results : results[k] \in {"safe", "info"})

\* A run that is not stopped ends, with one verdict for each stub, whatever the
\* stubs before it did to their flow (program.ml 303-309).
AllAnalysed == <>(pc = "ended" /\ (exit # 2 => Len(results) = Len(stubs)))

=============================================================================
