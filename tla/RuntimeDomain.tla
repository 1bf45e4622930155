--------------------------- MODULE RuntimeDomain ----------------------------
(***************************************************************************)
(* The transfer functions of the OCaml runtime domain                      *)
(* (analyzer/languages/c/memory/runtime/domain.ml), as operators on flows. *)
(*                                                                         *)
(* A flow is the analyzer's state at a program point: whether the point is *)
(* reachable (T_cur is not bottom), the map of entries, the runtime lock,  *)
(* and the report of everything raised on the way here.  A transfer        *)
(* function applied to a flow without T_cur returns it unchanged: every    *)
(* lookup in a bottom map yields bottom and raise_alarm records no alarm   *)
(* when T_cur is bottom.                                                   *)
(***************************************************************************)
EXTENDS RuntimeLattice

\* The alarms that set T_cur to bottom.
ErrorAlarm ==
  {"non_active_value", "runtime_unlocked", "non_variable_root", "not_rooted",
   "bad_shape"}

\* The alarms raised with ~bottom:false: the analysis goes on.
WarningAlarm == {"maybe_non_active_value", "double_root"}

Alarm == ErrorAlarm \union WarningAlarm

\* raise_ffi_unimplemented adds a diagnostic, no alarm.
Diagnostic == {"unimplemented"}

Flow ==
  [reach : BOOLEAN, env : ProperEnv, lock : Flat(RuntimeLock),
   report : SUBSET (Alarm \union Diagnostic)]

\* T_cur is removed; the report survives.
Unreachable(f) ==
  [reach |-> FALSE, env |-> [l \in Loc |-> Absent], lock |-> BOT,
   report |-> f.report]

\* Flow.raise_alarm, with ~bottom for the error alarms.
RaiseAlarm(f, alarm) ==
  LET g == [f EXCEPT !.report = @ \union {alarm}]
  IN IF ~f.reach THEN f
     ELSE IF alarm \in ErrorAlarm THEN Unreachable(g) ELSE g

\* A check that passes leaves the flow alone; one that fails raises alarm.
Check(f, ok, alarm) == IF ok THEN f ELSE RaiseAlarm(f, alarm)

\* (mutant) the report of an unreachable branch is dropped at the join
JoinFlowDropping(f, g) ==
  IF ~f.reach THEN g ELSE IF ~g.reach THEN f
  ELSE [reach |-> TRUE, env |-> EnvJoin(f.env, g.env),
        lock |-> ConstJoin(f.lock, g.lock), report |-> f.report \union g.report]

\* The end of a conditional: environments, locks and reports are joined.
JoinFlow(f, g) ==
  LET report == f.report \union g.report
  IN IF ~f.reach THEN [g EXCEPT !.report = report]
     ELSE IF ~g.reach THEN [f EXCEPT !.report = report]
     ELSE [reach |-> TRUE, env |-> EnvJoin(f.env, g.env),
           lock |-> ConstJoin(f.lock, g.lock), report |-> report]

-----------------------------------------------------------------------------
(* Lookups.  A location without binding is untracked C data.               *)

StatusVar(f, l) == IF f.env[l] = Absent THEN "Untracked" ELSE f.env[l].status

ShapesVar(f, l) ==
  IF f.env[l] = Absent THEN NonOCamlValue ELSE f.env[l].shape

\* (mutant) the meet of the operands
StatusBinopMeet(s1, s2) == ConstMeet(s1, s2)

\* (mutant) an active operand hides a stale one
StatusBinopActiveFirst(s1, s2) ==
  CASE BOT \in {s1, s2}      -> BOT
    [] TOP \in {s1, s2}      -> TOP
    [] "Active" \in {s1, s2} -> "Active"
    [] OTHER -> IF "Stale" \in {s1, s2} THEN "Stale" ELSE "Untracked"

\* A result is as fragile as its most fragile operand.
StatusBinop(s1, s2) ==
  CASE BOT \in {s1, s2}     -> BOT
    [] TOP \in {s1, s2}     -> TOP
    [] "Stale" \in {s1, s2} -> "Stale"
    [] OTHER -> IF "Active" \in {s1, s2} THEN "Active" ELSE "Untracked"

\* The shape of a variable, when it is exactly an OCaml shape.
HasOCamlShape(f, l) == f.env[l] # Absent /\ f.env[l].shape \in OCamlShape \ {{}}

-----------------------------------------------------------------------------
(* Statements.                                                             *)

SetEntry(f, l, e) == IF f.reach THEN [f EXCEPT !.env[l] = e] ELSE f

\* S_add: a fresh binding.
ExecAdd(f, l) == SetEntry(f, l, Bind("Untracked", "NotRooted", NonOCamlValue))

\* S_remove: the variable leaves its scope.
ExecRemove(f, l) == SetEntry(f, l, Absent)

\* S_assign: status and shape of the right-hand side; the root is kept.
ExecUpdate(f, l, status, shape) ==
  LET root == IF f.env[l] = Absent THEN "NotRooted" ELSE f.env[l].root
  IN SetEntry(f, l, Bind(status, root, shape))

\* S_c_ext_call: only untracked and active values may leave to unknown code.
ExecExtCallArg(f, l) ==
  Check(f, StatusVar(f, l) \in {"Untracked", "Active"}, "non_active_value")

-----------------------------------------------------------------------------
(* FFI primitives.                                                         *)

MarkVarActive(f, l) == ExecUpdate(f, l, "Active", ShapesVar(f, l))

\* (mutant) roots do not protect their contents
CollectEntryUnrooted(e) ==
  IF e.status = "Active" /\ ~IsGuaranteedImmediate(e.shape)
    THEN [e EXCEPT !.status = "Stale"] ELSE e

\* (mutant) an unknown root protects its contents
CollectEntryTrusting(e) ==
  IF e.status = "Active" /\ e.root = "NotRooted" /\ ~IsGuaranteedImmediate(e.shape)
    THEN [e EXCEPT !.status = "Stale"] ELSE e

\* What a collection does to one binding.
CollectEntry(e) ==
  IF /\ e.status = "Active"
     /\ e.root # "Rooted"
     /\ ~IsGuaranteedImmediate(e.shape)
  THEN [e EXCEPT !.status = "Stale"]
  ELSE e

EvalGarbageCollect(f) ==
  IF ~f.reach THEN f
  ELSE [f EXCEPT !.env =
         [l \in Loc |-> IF @[l] = Absent THEN Absent ELSE CollectEntry(@[l])]]

EvalAssertValid(f, l) ==
  CASE StatusVar(f, l) = "Active" -> f
    [] StatusVar(f, l) = TOP      -> RaiseAlarm(f, "maybe_non_active_value")
    [] OTHER                      -> RaiseAlarm(f, "non_active_value")

\* Registering twice only warns; an unknown status or root cannot be rooted.
RootOf(f, l) == IF f.env[l] = Absent THEN BOT ELSE f.env[l].root

ExecRegisterRoot(f, l) ==
  CASE RootOf(f, l) = "Rooted" -> RaiseAlarm(f, "double_root")
    [] RootOf(f, l) = "NotRooted" /\ StatusVar(f, l) \in Status ->
         SetEntry(f, l, [f.env[l] EXCEPT !.root = "Rooted"])
    [] OTHER -> RaiseAlarm(f, "non_variable_root")

ExecUnregisterRoot(f, l) ==
  IF RootOf(f, l) = "Rooted"
    THEN SetEntry(f, l, [f.env[l] EXCEPT !.root = "NotRooted"])
    ELSE RaiseAlarm(f, "not_rooted")

\* (mutant) only a lock known to be released is reported
EvalAssertRuntimeLockLax(f) == Check(f, f.lock # "Unlocked", "runtime_unlocked")

EvalAssertRuntimeLock(f) == Check(f, f.lock = "Locked", "runtime_unlocked")

EvalUpdateRuntimeLock(f, state) == IF f.reach THEN [f EXCEPT !.lock = state] ELSE f

EvalSetShape(f, l, sh) ==
  IF f.env[l] = Absent THEN RaiseAlarm(f, "bad_shape")
  ELSE SetEntry(f, l, [f.env[l] EXCEPT !.shape = sh])

\* S_ffi_init_with_shape: a runtime argument, active and of a given shape.
ExecInitWithShape(f, l, sh) == EvalSetShape(MarkVarActive(f, l), l, sh)

\* The shape check accepts every value whose shape meets the constraint.
EvalAssertShape(f, l, constr) ==
  Check(f, HasOCamlShape(f, l) /\ Compat(f.env[l].shape, constr), "bad_shape")

EvalAssertShapeCompat(f, l, m) ==
  Check(f, /\ HasOCamlShape(f, l)
           /\ HasOCamlShape(f, m)
           /\ Compat(f.env[l].shape, f.env[m].shape), "bad_shape")

\* The shape handed to a field; nothing is when its index is not a constant.
EvalPassOnShape(f, parent, child, index) ==
  IF ~index THEN f
  ELSE IF HasOCamlShape(f, parent)
    THEN EvalSetShape(f, child, FieldShape(f.env[parent].shape))
    ELSE RaiseAlarm(f, "bad_shape")

\* The two cases of _ffi_is_immediate on a variable: the flow in which it
\* answers 1 (imm) or 0, empty when no value of the shape can give it.  A
\* shape that may be no OCaml value raises an alarm, and the cases where it
\* is one go on.
EvalIsImmediate(f, l, imm) ==
  LET kinds == (IF imm THEN {Imm} ELSE Kind \ {Imm}) \intersect ShapesVar(f, l)
      g == IF NonValue \in ShapesVar(f, l)
             THEN [f EXCEPT !.report = @ \union {"bad_shape"}] ELSE f
  IN IF ~f.reach THEN f
     ELSE IF kinds = {} THEN Unreachable(g)
     ELSE SetEntry(g, l, [g.env[l] EXCEPT !.shape = kinds])

\* (mutant) the analysis stops without a word
EvalUnimplementedSilent(f) == Unreachable(f)

\* The analysis of the current function stops here, without an alarm.
EvalUnimplemented(f) ==
  IF ~f.reach THEN f
  ELSE Unreachable([f EXCEPT !.report = @ \union {"unimplemented"}])

-----------------------------------------------------------------------------
(* c.runtime.status_protection: a pointer is checked before it is followed. *)

CheckVarAccess(f, l) ==
  Check(f, f.env[l] # Absent /\ f.env[l].status \in {"Untracked", "Active"},
        "non_active_value")
=============================================================================
