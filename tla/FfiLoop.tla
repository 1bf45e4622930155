------------------------------ MODULE FfiLoop -------------------------------
(***************************************************************************)
(* The analysis of a loop of a stub, and then a run of that loop.          *)
(*                                                                         *)
(* The iterators (universal/iterators/loops.ml, c/iterators/loops.ml)      *)
(* unroll the first iterations, then look for a fixpoint with widening.    *)
(* The body is a straight line of statements, interface calls and jumps    *)
(* under conditions the analysis does not know; jumps leave the current    *)
(* flow T_cur for the flows T_break and T_continue.                        *)
(*                                                                         *)
(* The analysis reaches its end without the run.  The run then goes        *)
(* through the loop as many times as it likes, and leaves it in a memory   *)
(* that the flow after the loop must describe.                             *)
(***************************************************************************)
EXTENDS OcamlRuntime, Sequences

CONSTANTS
  Loops,      \* the loops of C: records [kind, forever, body, incr]
  Unrolling,  \* iterations analysed apart (-loop-unrolling)
  Delay,      \* iterations before each widening (-widening-delay)
  ArgShape    \* the shape of the values the stub is entered with

\* A statement is a tuple of its name and its variables.
Statement ==
  ({"copy"} \X Vals \X Vals)
  \union ({"long", "alloc", "inspect", "root", "unroot"} \X Vals)
  \union {<<"enter">>, <<"leave">>}

\* if (unknown) break;  if (unknown) continue;
Jump == {<<"break">>, <<"continue">>}

ASSUME LoopAssumption ==
  /\ \A loop \in Loops :
       /\ loop.kind \in {"while", "for", "do", "once"}
       /\ loop.forever \in BOOLEAN  \* the condition is a non-zero constant
       /\ loop.body \in Seq(Statement \union Jump)
       /\ loop.incr \in Seq(Statement)
       /\ loop.incr # <<>> => loop.kind = "for"
  /\ Unrolling \in Nat
  /\ Delay \in Nat
  /\ ArgShape \in (SUBSET Kind) \ {{}}

VARIABLES
  loop,    \* the loop
  stage,   \* of its analysis: "first", "unroll", "lfp", "done"
  head,    \* the flows at the head of the loop
  entry,   \* those the fixpoint starts from
  out,     \* those that have left the loop at its condition
  count,   \* iterations left before the next stage or widening
  result,  \* the flow after the loop
  pc,      \* the run's next statement, 0 at the head
  mem, rooted, held, run

analysis == <<loop, stage, head, entry, out, count, result>>
memory   == <<mem, rooted, held>>
vars     == <<analysis, pc, memory, run>>

Breaking == {"inactive", "unlocked"}

-----------------------------------------------------------------------------
(* Flows with the tokens T_cur, T_break, T_continue.                       *)

NoFlow == Unreachable([report |-> {}])

Tokens(f) == [cur |-> f, brk |-> NoFlow, cont |-> NoFlow]

Report(t) == t.cur.report \union t.brk.report \union t.cont.report

\* Flow.remove T_break, T_continue; Flow.set_report
CurWithReport(t, report) == Tokens([t.cur EXCEPT !.report = report])

JoinTokens(t, u) ==
  [cur  |-> JoinFlow(t.cur, u.cur),
   brk  |-> JoinFlow(t.brk, u.brk),
   cont |-> JoinFlow(t.cont, u.cont)]

\* (mutant) bottom is below nothing
FlowSubsetNoBottom(f, g) ==
  f.reach /\ g.reach /\ EnvSubset(f.env, g.env) /\ ConstSubset(f.lock, g.lock)

\* Flow.subset on one token: the report does not count.
FlowSubset(f, g) ==
  f.reach => g.reach /\ EnvSubset(f.env, g.env) /\ ConstSubset(f.lock, g.lock)

\* (mutant) only the jumps are compared
SubsetTokensJumps(t, u) == FlowSubset(t.brk, u.brk) /\ FlowSubset(t.cont, u.cont)

SubsetTokens(t, u) ==
  /\ FlowSubset(t.cur, u.cur)
  /\ FlowSubset(t.brk, u.brk)
  /\ FlowSubset(t.cont, u.cont)

\* Widening joins: flat lattices and finite shapes need nothing stronger.
Widen(t, u) == JoinTokens(t, u)

-----------------------------------------------------------------------------
(* The analysis of the body.                                               *)

\* A jump under a condition: the flow goes on and joins that of the token.
ExecJump(t, tk) == [t EXCEPT ![tk] = JoinFlow(@, t.cur)]

Exec(t, s) ==
  LET f == t.cur
      Cur(g) == [t EXCEPT !.cur = g]
  IN CASE s[1] = "copy"     -> Cur(CopyVal(f, s[2], s[3]))
       [] s[1] = "long"     -> Cur(ValOfLong(f, s[2]))
       [] s[1] = "alloc"    -> Cur(CamlAlloc(f, s[2], StdBlock))
       [] s[1] = "inspect"  -> Cur(CamlInspect(f, s[2], StdBlock))
       [] s[1] = "root"     -> Cur(CamlParam(f, s[2]))
       [] s[1] = "unroot"   -> Cur(ExecUnregisterRoot(f, s[2]))
       [] s[1] = "enter"    -> Cur(CamlEnterBlockingSection(f))
       [] s[1] = "leave"    -> Cur(CamlLeaveBlockingSection(f))
       [] s[1] = "break"    -> ExecJump(t, "brk")
       [] s[1] = "continue" -> ExecJump(t, "cont")

\* S_c_for becomes S_while with the increment at the end of the body.
Code == loop.body \o loop.incr

\* The post-states of the body: one, since no statement splits cases.
ExecBody(t) ==
  LET after[i \in 0 .. Len(Code)] ==
        IF i = 0 THEN {t} ELSE {Exec(u, Code[i]) : u \in after[i - 1]}
  IN after[Len(Code)]

MergeCurAndContinue(t) ==
  [t EXCEPT !.cur = JoinFlow(@, t.cont), !.cont = NoFlow]

\* The flow after one more iteration from t.
Iterate(t) == {MergeCurAndContinue(u) : u \in ExecBody(t)}

\* assume(!cond)
AssumeNot(t) ==
  IF loop.forever THEN [t EXCEPT !.cur = Unreachable(@)] ELSE t

-----------------------------------------------------------------------------
(* The stages of the analysis.                                             *)

\* The first iteration of do ... while, before the while it becomes: its
\* break goes to the end, its continue to the head.
ExecFirst ==
  /\ stage = "first"
  /\ loop.kind = "do"
  /\ \E after \in ExecBody(head) :
       /\ head' = Tokens(MergeCurAndContinue(after).cur)
       /\ result' = after.brk
  /\ stage' = "unroll"
  /\ UNCHANGED <<loop, entry, out, count>>

\* do ... while (0) is its body: every jump goes to the end.
ExecOnce ==
  /\ stage = "first"
  /\ loop.kind = "once"
  /\ \E after \in Iterate(head) : result' = JoinFlow(after.cur, after.brk)
  /\ stage' = "done"
  /\ UNCHANGED <<loop, head, entry, out, count>>

\* (mutant) the flows that left through break are forgotten
EscapeAtCondition(o, t) == JoinFlow(result, JoinTokens(o, AssumeNot(t)).cur)

\* The end of S_while: the flow t of the fixpoint that leaves at the condition,
\* those of o that left there before, and those of break.
Escape(o, t) ==
  LET res0 == JoinTokens(o, AssumeNot(t))
  IN JoinFlow(result, JoinFlow(res0.cur, res0.brk))

Finish(o, t) ==
  /\ stage' = "done"
  /\ head' = t
  /\ out' = o
  /\ result' = Escape(o, t)
  /\ UNCHANGED <<loop, entry, count>>

\* The iterations before the fixpoint; a loop that adds nothing stops here.
Unroll ==
  /\ stage = "unroll"
  /\ count > 0
  /\ \E flow1 \in Iterate(head), left \in {JoinTokens(out, AssumeNot(head))} :
       IF SubsetTokens(flow1, head) THEN Finish(left, flow1)
       ELSE /\ head' = flow1
            /\ out' = left
            /\ count' = count - 1
            /\ UNCHANGED <<loop, stage, entry, result>>

StartLfp ==
  /\ stage = "unroll"
  /\ count = 0
  /\ stage' = "lfp"
  /\ entry' = head
  /\ count' = Delay
  /\ UNCHANGED <<loop, head, out, result>>

\* (mutant) the report is dropped after the iteration, not before
NextIterateSilent(t) ==
  {JoinTokens(CurWithReport(u, Report(entry)), entry) : u \in Iterate(Tokens(t.cur))}

\* One iteration from T_cur of head; the report of the others is dropped.
NextIterate(t) ==
  {JoinTokens(u, entry) : u \in Iterate(CurWithReport(t, Report(entry)))}

Lfp ==
  /\ stage = "lfp"
  /\ \E flow \in NextIterate(head) :
       IF FlowSubset(flow.cur, head.cur) THEN Finish(out, flow)
       ELSE /\ head' = IF count = 0 THEN Widen(head, flow) ELSE flow
            /\ count' = IF count = 0 THEN Delay ELSE count - 1
            /\ UNCHANGED <<loop, stage, entry, out, result>>

Analyse ==
  /\ ExecFirst \/ ExecOnce \/ Unroll \/ StartLfp \/ Lfp
  /\ UNCHANGED <<pc, memory, run>>

-----------------------------------------------------------------------------
(* The run.  Its pc is 0 at the head of the loop and Exit after it.        *)

Exit == Len(Code) + 1

\* Where a jump goes; a for loop goes on with its increment.
Target(s) ==
  IF s[1] = "break" \/ loop.kind = "once" THEN Exit
  ELSE IF loop.kind = "for" /\ loop.incr # <<>> THEN Len(loop.body) + 1
  ELSE 0

\* After statement i, or before the first one (0).
Following(i) == IF i < Len(Code) THEN i + 1 ELSE IF loop.kind = "once" THEN Exit ELSE 0

Attempt(s) ==
  CASE s[1] = "copy"  -> Legal(held \/ ~mem[s[3]].heap)
    [] s[1] = "alloc" -> IF held THEN "ok" ELSE "unlocked"
    [] s[1] = "enter" -> IF held THEN "ok" ELSE "unlocked"
    [] s[1] = "inspect" ->
         IF ~held THEN "unlocked"
         ELSE IF ~Usable(mem[s[2]]) THEN "inactive"
         ELSE Legal(mem[s[2]].kind \in StdBlock)
    [] s[1] = "unroot" -> Legal(held)
    [] s[1] = "leave" -> Legal(~held)
    [] OTHER          -> "ok"

\* The memories a collection may leave.
Collections == {Collected(mem, rooted, S) : S \in SUBSET Unprotected(mem, rooted)}

Effect(s) ==
  /\ CASE s[1] = "copy"  -> mem' = [mem EXCEPT ![s[2]] = mem[s[3]]]
       [] s[1] = "long"  -> mem' = [mem EXCEPT ![s[2]] = ValueOf(Imm)]
       [] s[1] = "alloc" -> \E m \in Collections, k \in StdBlock :
                              mem' = [m EXCEPT ![s[2]] = ValueOf(k)]
       [] s[1] = "enter" -> mem' \in Collections
       [] OTHER          -> UNCHANGED mem
  /\ rooted' = CASE s[1] = "root"   -> rooted \union {s[2]}
                [] s[1] = "unroot" -> rooted \ {s[2]}
                [] OTHER           -> rooted
  /\ held' = CASE s[1] = "enter" -> FALSE
              [] s[1] = "leave" -> TRUE
              [] OTHER          -> held

Running == stage = "done" /\ run = "ok"

\* The condition of the loop is tested.
TestCondition ==
  /\ Running
  /\ pc = 0
  /\ pc' \in {Following(0)} \union (IF loop.forever THEN {} ELSE {Exit})
  /\ UNCHANGED <<analysis, memory, run>>

RunStatement ==
  /\ Running
  /\ pc \in 1 .. Len(Code)
  /\ LET s == Code[pc]
     IN IF Attempt(s) = "ok"
          THEN /\ Effect(s)
               /\ pc' \in IF s[1] \in {"break", "continue"}
                          THEN {Following(pc), Target(s)} ELSE {Following(pc)}
               /\ UNCHANGED run
          ELSE run' = Attempt(s) /\ UNCHANGED <<pc, memory>>
  /\ UNCHANGED analysis

ConcurrentGC ==
  /\ Running
  /\ ~held
  /\ mem' \in Collections
  /\ UNCHANGED <<analysis, pc, rooted, held, run>>

-----------------------------------------------------------------------------
\* The variables of the stub hold its arguments, and it has protected some of
\* them (CAMLparam) before the loop.
Init ==
  /\ loop \in Loops
  /\ stage = IF loop.kind \in {"do", "once"} THEN "first" ELSE "unroll"
  /\ \E protected \in SUBSET Vals, kind \in [Vals -> ArgShape] :
       LET f == [reach |-> TRUE, lock |-> "Locked", report |-> {},
                 env |-> [l \in Loc |->
                   IF l \in Vals
                     THEN Bind("Active", IF l \in protected THEN "Rooted" ELSE "NotRooted",
                               ArgShape)
                     ELSE Absent]]
       IN /\ head = Tokens(f)
          /\ mem = [l \in Loc |-> IF l \in Vals THEN ValueOf(kind[l]) ELSE Absent]
          /\ rooted = protected
  /\ entry = Tokens(NoFlow)
  /\ out = Tokens(NoFlow)
  /\ count = Unrolling
  /\ result = NoFlow
  /\ pc = IF loop.kind \in {"do", "once"} THEN Following(0) ELSE 0
  /\ held = TRUE
  /\ run = "ok"

Next == Analyse \/ TestCondition \/ RunStatement \/ ConcurrentGC

\* The analyzer is one thread of its own: it goes on while it can.
Spec == Init /\ [][Next]_vars /\ WF_vars(Analyse)

-----------------------------------------------------------------------------
(* Properties.                                                             *)

TypeOK ==
  /\ stage \in {"first", "unroll", "lfp", "done"}
  /\ \A t \in {head, entry, out} : \A f \in {t.cur, t.brk, t.cont} : f \in Flow
  /\ result \in Flow
  /\ count \in 0 .. (Unrolling + Delay)
  /\ pc \in 0 .. Exit
  /\ mem \in Memory
  /\ rooted \subseteq Loc
  /\ held \in BOOLEAN
  /\ run \in {"ok", "misuse"} \union Breaking

Errors == result.report \intersect ErrorAlarm # {}

\* However often the run goes round and wherever it leaves the loop, the flow
\* after the loop describes it, unless an error was reported in the loop
\* (loops.ml 288-394).
LoopDescribed ==
  (Running /\ pc = Exit /\ ~Errors) => Sim(result, mem, rooted, held)

\* A rule broken in any iteration is reported in the end, although each
\* iteration of the fixpoint drops the report of the one before
\* (loops.ml 294).
LoopReported ==
  run \in Breaking =>
    Errors \/ (run = "inactive" /\ "maybe_non_active_value" \in result.report)

\* What e describes, f describes as well: nothing is claimed of a stale value.
EntryBelow(e, f) ==
  /\ f.status \in {e.status, "Stale", TOP}
  /\ ConstSubset(e.root, f.root)
  /\ e.shape \subseteq f.shape

FlowBelow(f, g) ==
  f.reach =>
    /\ g.reach
    /\ ConstSubset(f.lock, g.lock)
    /\ \A l \in Loc : f.env[l] # Absent => g.env[l] # Absent /\ EntryBelow(f.env[l], g.env[l])

\* What the iteration stops at is a fixpoint: one more iteration from the head
\* describes no more runs, although one iteration is not monotone in the order
\* of Flow.subset that stops it (loops.ml 304-308, 338-340).
Stable ==
  (stage = "done" /\ loop.kind # "once" /\ ~Errors) =>
    \A t \in Iterate(Tokens(head.cur)) : FlowBelow(t.cur, head.cur)

\* The iteration stops, whatever the loop does (loops.ml 288-316).
Terminates == <>(stage = "done")
=============================================================================
