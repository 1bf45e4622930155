---------------------------- MODULE FfiApi_proofs ----------------------------
(***************************************************************************)
(* What the analysis does to a flow, in three layers: the joins of the     *)
(* value lattice are upper bounds that stay inside the lattice, a transfer *)
(* function of the domain either checks the flow or sets an entry of it,   *)
(* and a function of the interface is a sequence of those.  Then what      *)
(* becomes of a run that the flow describes.                               *)
(***************************************************************************)
EXTENDS OcamlRuntime, TLAPS

-----------------------------------------------------------------------------
(* The value lattice.                                                      *)

\* The join of two flat elements is above both (Const.join, const.ml 71-80).
LEMMA ConstJoinUpper ==
  ASSUME NEW C, BOT \notin C, TOP \notin C,
         NEW a \in Flat(C), NEW b \in Flat(C)
  PROVE  /\ ConstJoin(a, b) \in Flat(C)
         /\ ConstSubset(a, ConstJoin(a, b))
         /\ ConstSubset(b, ConstJoin(a, b))
  BY DEF Flat, ConstJoin, ConstSubset, BOT, TOP

\* ... and below every element that is above both.
LEMMA ConstJoinLeast ==
  ASSUME NEW a, NEW b, NEW c, ConstSubset(a, c), ConstSubset(b, c)
  PROVE  ConstSubset(ConstJoin(a, b), c)
  BY DEF ConstJoin, ConstSubset, BOT, TOP

\* A join of proper elements is proper: it is bottom only if both are.
LEMMA ConstJoinProper ==
  ASSUME NEW C, BOT \notin C, TOP \notin C,
         NEW a \in C \union {TOP}, NEW b \in C \union {TOP}
  PROVE  /\ ConstJoin(a, b) \in C \union {TOP}
         /\ \A c \in C : ConstJoin(a, b) = c => a = c /\ b = c
  BY DEF ConstJoin, BOT, TOP

\* Disjoint.join is an upper bound of its arguments (disjoint.ml 59-68).
LEMMA ShapeJoinUpper ==
  ASSUME NEW a \in Shape, NEW b \in Shape
  PROVE  /\ ShapeJoin(a, b) \in Shape
         /\ a \subseteq ShapeJoin(a, b)
         /\ b \subseteq ShapeJoin(a, b)
  BY DEF Shape, ShapeJoin, TopShape, OCamlShape, NonOCamlValue

\* ... the least one: only the shapes in the lattice compete.
LEMMA ShapeJoinLeast ==
  ASSUME NEW a \in Shape, NEW b \in Shape, NEW c \in Shape,
         a \subseteq c, b \subseteq c
  PROVE  ShapeJoin(a, b) \subseteq c
  BY KindAssumption DEF Shape, ShapeJoin, TopShape, OCamlShape, NonOCamlValue

\* A field has at least one kind, and only kinds of OCaml values.
LEMMA FieldShapeProper ==
  ASSUME NEW sh \in Shape
  PROVE  /\ FieldShape(sh) \in SUBSET Kind
         /\ FieldShape(sh) # {}
         /\ \A k \in sh \intersect StdBlock : FieldOf[k] \subseteq FieldShape(sh)
  BY KindAssumption DEF FieldShape, Shape

\* The constants of the flat lattices are no bounds.
LEMMA FlatConstants ==
  /\ BOT \notin Status /\ TOP \notin Status
  /\ BOT \notin Roots /\ TOP \notin Roots
  /\ BOT \notin RuntimeLock /\ TOP \notin RuntimeLock
  BY DEF BOT, TOP, Status, Roots, RuntimeLock

\* Pair.join on entries is an upper bound (pair.ml 75-77).
LEMMA EntryJoinUpper ==
  ASSUME NEW e \in Entry, NEW f \in Entry
  PROVE  /\ EntryJoin(e, f) \in Entry
         /\ EntrySubset(e, EntryJoin(e, f))
         /\ EntrySubset(f, EntryJoin(e, f))
  BY FlatConstants, ConstJoinUpper, ShapeJoinUpper
     DEF Entry, EntryJoin, EntrySubset, Bind

\* Entries met in practice stay so under joins.
LEMMA EntryJoinProper ==
  ASSUME NEW e \in ProperEntry, NEW f \in ProperEntry
  PROVE  EntryJoin(e, f) \in ProperEntry
<1>1. e.status \in Status \union {TOP} /\ f.status \in Status \union {TOP}
  BY DEF ProperEntry
<1>2. e.root \in Roots \union {TOP} /\ f.root \in Roots \union {TOP}
  BY DEF ProperEntry
<1>3. e.shape \in Shape \ {{}} /\ f.shape \in Shape \ {{}}
  BY DEF ProperEntry
<1>4. ShapeJoin(e.shape, f.shape) \in Shape \ {{}}
  BY <1>3, ShapeJoinUpper
<1> QED
  BY <1>1, <1>2, <1>4, FlatConstants, ConstJoinProper
     DEF EntryJoin, Bind, ProperEntry

\* Proper entries are entries.
LEMMA ProperEntryIsEntry == ProperEntry \subseteq Entry
  BY DEF ProperEntry, Entry, Flat

\* The join of two environments is above both: at the end of a conditional
\* nothing that either branch knows of a location is contradicted
\* (Partial_map.join and subset, partial_map.ml 72-99).
THEOREM EnvJoinUpper ==
  ASSUME NEW m \in Env, NEW n \in Env
  PROVE  /\ EnvJoin(m, n) \in Env
         /\ EnvSubset(m, EnvJoin(m, n))
         /\ EnvSubset(n, EnvJoin(m, n))
<1>1. \A e \in Entry : EntrySubset(e, e)
  BY DEF EntrySubset, ConstSubset
<1>2. ASSUME NEW l \in Loc
      PROVE  /\ EnvJoin(m, n)[l] \in Entry \union {Absent}
             /\ m[l] # Absent =>
                  EnvJoin(m, n)[l] # Absent /\ EntrySubset(m[l], EnvJoin(m, n)[l])
             /\ n[l] # Absent =>
                  EnvJoin(m, n)[l] # Absent /\ EntrySubset(n[l], EnvJoin(m, n)[l])
  <2>1. m[l] \in Entry \union {Absent} /\ n[l] \in Entry \union {Absent}
    BY DEF Env
  <2>2. CASE m[l] = Absent \/ n[l] = Absent
    BY <2>1, <2>2, <1>1 DEF EnvJoin
  <2>3. CASE m[l] # Absent /\ n[l] # Absent
    BY <2>1, <2>3, EntryJoinUpper, AbsentAssumption DEF EnvJoin
  <2> QED BY <2>2, <2>3
<1>3. EnvJoin(m, n) \in Env
  BY <1>2 DEF EnvJoin, Env
<1> QED BY <1>2, <1>3 DEF EnvSubset

\* Joins of proper environments are proper.
LEMMA EnvJoinProper ==
  ASSUME NEW m \in ProperEnv, NEW n \in ProperEnv
  PROVE  EnvJoin(m, n) \in ProperEnv
<1>1. ASSUME NEW l \in Loc
      PROVE  EnvJoin(m, n)[l] \in ProperEntry \union {Absent}
  BY EntryJoinProper DEF EnvJoin, ProperEnv
<1> QED BY <1>1 DEF EnvJoin, ProperEnv

-----------------------------------------------------------------------------
(* The transfer functions.                                                 *)

\* g is f after some checks: they extend the report, and if the point is
\* still reachable they have changed nothing else.
Checked(f, g) ==
  /\ g \in Flow
  /\ f.report \subseteq g.report
  /\ g.reach => f.reach /\ g.env = f.env /\ g.lock = f.lock
  /\ f.reach /\ ~g.reach => g.report \intersect ErrorAlarm # {}

\* g is f with the entry e at l.
Sets(f, g, l, e) ==
  /\ g \in Flow
  /\ g.report = f.report
  /\ g.lock = f.lock
  /\ g.reach = f.reach
  /\ g.reach => g.env = [f.env EXCEPT ![l] = e]

-----------------------------------------------------------------------------
(* Flows.                                                                  *)

\* The parts of a flow.
LEMMA FlowFields ==
  ASSUME NEW f \in Flow
  PROVE  /\ f.reach \in BOOLEAN
         /\ f.env \in ProperEnv
         /\ f.lock \in Flat(RuntimeLock)
         /\ f.report \in SUBSET (Alarm \union Diagnostic)
         /\ \A l \in Loc : f.env[l] \in ProperEntry \union {Absent}
  BY DEF Flow, ProperEnv

\* Giving up a point keeps its report and nothing else.
LEMMA UnreachableFlow ==
  ASSUME NEW f, f.report \in SUBSET (Alarm \union Diagnostic)
  PROVE  /\ Unreachable(f) \in Flow
         /\ Unreachable(f).reach = FALSE
         /\ Unreachable(f).report = f.report
  BY DEF Unreachable, Flow, ProperEnv, Flat

\* No check at all.
LEMMA CheckedRefl ==
  ASSUME NEW f \in Flow
  PROVE  Checked(f, f)
  BY DEF Checked

\* Checks one after the other (the `let*` chains of domain.ml).
LEMMA CheckedTrans ==
  ASSUME NEW f \in Flow, NEW g \in Flow, NEW h \in Flow,
         Checked(f, g), Checked(g, h)
  PROVE  Checked(f, h)
  BY DEF Checked

\* An alarm is recorded on a reachable point; an error ends it
\* (Flow.raise_alarm).
LEMMA RaiseAlarmChecked ==
  ASSUME NEW f \in Flow, NEW alarm \in Alarm
  PROVE  /\ Checked(f, RaiseAlarm(f, alarm))
         /\ alarm \in ErrorAlarm => ~RaiseAlarm(f, alarm).reach
         /\ f.reach => alarm \in RaiseAlarm(f, alarm).report
<1> DEFINE g == [f EXCEPT !.report = @ \union {alarm}]
<1>1. f.reach \in BOOLEAN /\ f.report \in SUBSET (Alarm \union Diagnostic)
  BY FlowFields
<1>2. /\ g \in Flow
      /\ g.report = f.report \union {alarm}
      /\ g.reach = f.reach /\ g.env = f.env /\ g.lock = f.lock
  BY DEF Flow
<1>3. CASE ~f.reach
  BY <1>3, CheckedRefl DEF RaiseAlarm
<1>4. CASE f.reach /\ alarm \in ErrorAlarm
  <2>1. RaiseAlarm(f, alarm) = Unreachable(g)
    BY <1>4 DEF RaiseAlarm
  <2>2. /\ Unreachable(g) \in Flow /\ ~Unreachable(g).reach
        /\ Unreachable(g).report = f.report \union {alarm}
    <3> HIDE DEF g
    <3>1. g.report \in SUBSET (Alarm \union Diagnostic)
      BY <1>2, FlowFields
    <3> QED BY <3>1, <1>2, UnreachableFlow
  <2> HIDE DEF g
  <2> QED BY <1>4, <2>1, <2>2 DEF Checked
<1>5. CASE f.reach /\ alarm \notin ErrorAlarm
  <2>1. RaiseAlarm(f, alarm) = g
    BY <1>5 DEF RaiseAlarm
  <2> HIDE DEF g
  <2> QED BY <1>5, <1>2, <2>1 DEF Checked
<1> QED BY <1>3, <1>4, <1>5

\* A check that passes says that its condition holds.
LEMMA CheckChecked ==
  ASSUME NEW f \in Flow, NEW ok \in BOOLEAN, NEW alarm \in ErrorAlarm
  PROVE  /\ Checked(f, Check(f, ok, alarm))
         /\ Check(f, ok, alarm).reach => ok
<1>1. alarm \in Alarm
  BY DEF Alarm
<1> QED BY <1>1, RaiseAlarmChecked, CheckedRefl DEF Check

\* Setting an entry to a proper one, or removing it, gives a flow.
LEMMA SetEntrySets ==
  ASSUME NEW f \in Flow, NEW l \in Loc, NEW e \in ProperEntry \union {Absent}
  PROVE  Sets(f, SetEntry(f, l, e), l, e)
<1>1. CASE ~f.reach
  BY <1>1 DEF SetEntry, Sets, Flow
<1>2. CASE f.reach
  <2>1. [f.env EXCEPT ![l] = e] \in ProperEnv
    BY FlowFields DEF ProperEnv
  <2>2. SetEntry(f, l, e) = [f EXCEPT !.env = [f.env EXCEPT ![l] = e]]
    BY <1>2 DEF SetEntry
  <2> QED BY <2>1, <2>2 DEF Sets, Flow
<1> QED BY <1>1, <1>2, FlowFields

-----------------------------------------------------------------------------
(* Lookups.                                                                *)

ProperStatus == Status \union {TOP}
ProperRoot   == Roots \union {TOP}
ProperShape  == Shape \ {{}}

\* The parts of a proper entry, and how one is built.
LEMMA ProperEntryFields ==
  /\ \A e \in ProperEntry :
       e.status \in ProperStatus /\ e.root \in ProperRoot /\ e.shape \in ProperShape
  /\ \A s \in ProperStatus, r \in ProperRoot, sh \in ProperShape :
       /\ Bind(s, r, sh) \in ProperEntry
       /\ Bind(s, r, sh).status = s
       /\ Bind(s, r, sh).root = r
       /\ Bind(s, r, sh).shape = sh
  BY DEF ProperEntry, ProperStatus, ProperRoot, ProperShape, Bind

\* The constants the domain assigns are proper.
LEMMA ProperConstants ==
  /\ Status \subseteq ProperStatus /\ Roots \subseteq ProperRoot
  /\ NonOCamlValue \in ProperShape
  /\ \A sh \in SUBSET Kind : sh # {} => sh \in ProperShape
  /\ Kind \in ProperShape /\ {Imm} \in ProperShape /\ StdBlock \in ProperShape
  BY KindAssumption
     DEF ProperStatus, ProperRoot, ProperShape, Shape, NonOCamlValue, OCamlShape

\* Lookups never give bottom on a proper environment.
LEMMA Lookups ==
  ASSUME NEW f \in Flow, NEW l \in Loc
  PROVE  /\ StatusVar(f, l) \in ProperStatus
         /\ ShapesVar(f, l) \in ProperShape
         /\ HasOCamlShape(f, l) \in BOOLEAN
  BY FlowFields, ProperEntryFields, ProperConstants
     DEF StatusVar, ShapesVar, HasOCamlShape, Status

\* The status of a binary operation is never better than that of an operand
\* (status_binop).
LEMMA StatusBinopProper ==
  ASSUME NEW s \in ProperStatus, NEW t \in ProperStatus
  PROVE  /\ StatusBinop(s, t) \in ProperStatus
         /\ StatusBinop(s, t) = "Untracked" => s = "Untracked" /\ t = "Untracked"
         /\ StatusBinop(s, t) = "Active" =>
              s \in {"Untracked", "Active"} /\ t \in {"Untracked", "Active"}
  BY DEF ProperStatus, Status, StatusBinop, TOP, BOT

-----------------------------------------------------------------------------
(* Statements and primitives.                                              *)

\* A declaration sets a fresh entry (exec_add).
LEMMA ExecAddSets ==
  ASSUME NEW f \in Flow, NEW l \in Loc
  PROVE  /\ Bind("Untracked", "NotRooted", NonOCamlValue) \in ProperEntry
         /\ Sets(f, ExecAdd(f, l), l, Bind("Untracked", "NotRooted", NonOCamlValue))
<1>1. Bind("Untracked", "NotRooted", NonOCamlValue) \in ProperEntry
  BY ProperEntryFields, ProperConstants DEF Status, Roots
<1> QED BY <1>1, SetEntrySets DEF ExecAdd

\* The end of a scope removes the entry (exec_remove).
LEMMA ExecRemoveSets ==
  ASSUME NEW f \in Flow, NEW l \in Loc
  PROVE  Sets(f, ExecRemove(f, l), l, Absent)
  BY SetEntrySets DEF ExecRemove

\* The root of a location after an assignment.
RootAfter(f, l) == IF f.env[l] = Absent THEN "NotRooted" ELSE f.env[l].root

\* An assignment sets status and shape and keeps the root (exec_update).
LEMMA ExecUpdateSets ==
  ASSUME NEW f \in Flow, NEW l \in Loc,
         NEW status \in ProperStatus, NEW shape \in ProperShape
  PROVE  /\ RootAfter(f, l) \in ProperRoot
         /\ Bind(status, RootAfter(f, l), shape) \in ProperEntry
         /\ Sets(f, ExecUpdate(f, l, status, shape), l,
                 Bind(status, RootAfter(f, l), shape))
<1>1. RootAfter(f, l) \in ProperRoot
  BY FlowFields, ProperEntryFields, ProperConstants DEF RootAfter, Roots
<1>2. Bind(status, RootAfter(f, l), shape) \in ProperEntry
  BY <1>1, ProperEntryFields
<1> QED BY <1>1, <1>2, SetEntrySets DEF ExecUpdate, RootAfter

\* Only a lock that is surely held passes the lock check
\* (eval_assert_runtime_lock).
LEMMA EvalAssertRuntimeLockChecked ==
  ASSUME NEW f \in Flow
  PROVE  /\ Checked(f, EvalAssertRuntimeLock(f))
         /\ EvalAssertRuntimeLock(f).reach => f.lock = "Locked"
<1>1. "runtime_unlocked" \in ErrorAlarm
  BY DEF ErrorAlarm
<1> QED BY <1>1, CheckChecked DEF EvalAssertRuntimeLock

\* Only an active value, or one that may be, passes the liveness check.
LEMMA EvalAssertValidChecked ==
  ASSUME NEW f \in Flow, NEW l \in Loc
  PROVE  /\ Checked(f, EvalAssertValid(f, l))
         /\ EvalAssertValid(f, l).reach => StatusVar(f, l) \in {"Active", TOP}
<1>1. /\ "maybe_non_active_value" \in Alarm
      /\ "non_active_value" \in Alarm /\ "non_active_value" \in ErrorAlarm
  BY DEF Alarm, ErrorAlarm, WarningAlarm
<1> QED BY <1>1, RaiseAlarmChecked, CheckedRefl DEF EvalAssertValid, TOP

\* Only a location that surely holds an OCaml value passes a shape check
\* (exec_assert_ocaml_shape_var).
LEMMA EvalAssertShapeChecked ==
  ASSUME NEW f \in Flow, NEW l \in Loc, NEW constr
  PROVE  /\ Checked(f, EvalAssertShape(f, l, constr))
         /\ EvalAssertShape(f, l, constr).reach => HasOCamlShape(f, l)
<1>1. "bad_shape" \in ErrorAlarm
  BY DEF ErrorAlarm
<1>2. (HasOCamlShape(f, l) /\ Compat(f.env[l].shape, constr)) \in BOOLEAN
  OBVIOUS
<1> QED BY <1>1, <1>2, CheckChecked DEF EvalAssertShape

\* The compatibility of two shapes is a check
\* (exec_assert_shape_compat_var).
LEMMA EvalAssertShapeCompatChecked ==
  ASSUME NEW f \in Flow, NEW l \in Loc, NEW m \in Loc
  PROVE  Checked(f, EvalAssertShapeCompat(f, l, m))
<1>1. "bad_shape" \in ErrorAlarm
  BY DEF ErrorAlarm
<1> QED BY <1>1, CheckChecked DEF EvalAssertShapeCompat

\* Only C data and active values are handed to unknown functions
\* (exec_check_ext_call_arg).
LEMMA ExecExtCallArgChecked ==
  ASSUME NEW f \in Flow, NEW l \in Loc
  PROVE  /\ Checked(f, ExecExtCallArg(f, l))
         /\ ExecExtCallArg(f, l).reach => StatusVar(f, l) \in {"Untracked", "Active"}
<1>1. "non_active_value" \in ErrorAlarm
  BY DEF ErrorAlarm
<1>2. (StatusVar(f, l) \in {"Untracked", "Active"}) \in BOOLEAN
  OBVIOUS
<1> QED BY <1>1, <1>2, CheckChecked DEF ExecExtCallArg

\* Only a C pointer or an active one is followed (check_var_access).
LEMMA CheckVarAccessChecked ==
  ASSUME NEW f \in Flow, NEW l \in Loc
  PROVE  /\ Checked(f, CheckVarAccess(f, l))
         /\ CheckVarAccess(f, l).reach =>
              f.env[l] # Absent /\ f.env[l].status \in {"Untracked", "Active"}
<1>1. "non_active_value" \in ErrorAlarm
  BY DEF ErrorAlarm
<1> QED BY <1>1, CheckChecked DEF CheckVarAccess

\* Setting a shape keeps status and root (eval_set_shape_var).
LEMMA EvalSetShapeSets ==
  ASSUME NEW f \in Flow, NEW l \in Loc, NEW sh \in ProperShape,
         f.env[l] # Absent
  PROVE  /\ [f.env[l] EXCEPT !.shape = sh]
               = Bind(f.env[l].status, f.env[l].root, sh)
         /\ Bind(f.env[l].status, f.env[l].root, sh) \in ProperEntry
         /\ Sets(f, EvalSetShape(f, l, sh), l,
                 Bind(f.env[l].status, f.env[l].root, sh))
<1>1. f.env[l] \in ProperEntry
  BY FlowFields
<1>2. [f.env[l] EXCEPT !.shape = sh] = Bind(f.env[l].status, f.env[l].root, sh)
  BY <1>1 DEF ProperEntry, Bind
<1>3. Bind(f.env[l].status, f.env[l].root, sh) \in ProperEntry
  BY <1>1, ProperEntryFields
<1> QED BY <1>2, <1>3, SetEntrySets DEF EvalSetShape

\* Handing a shape to a field either sets its shape, fails or does nothing.
LEMMA EvalPassOnShapeCases ==
  ASSUME NEW f \in Flow, NEW parent \in Loc, NEW child \in Loc,
         NEW index \in BOOLEAN, f.env[child] # Absent
  PROVE  LET g  == EvalPassOnShape(f, parent, child, index)
             sh == FieldShape(f.env[parent].shape)
         IN  /\ g \in Flow
             /\ ~index => Checked(f, g)
             /\ index /\ g.reach =>
                  /\ f.env[parent] # Absent
                  /\ sh \in ProperShape
                  /\ Bind(f.env[child].status, f.env[child].root, sh) \in ProperEntry
                  /\ Sets(f, g, child, Bind(f.env[child].status, f.env[child].root, sh))
             /\ f.report \subseteq g.report
             /\ f.reach /\ ~g.reach => g.report \intersect ErrorAlarm # {}
<1> DEFINE g  == EvalPassOnShape(f, parent, child, index)
           sh == FieldShape(f.env[parent].shape)
<1>1. CASE ~index
  BY <1>1, CheckedRefl DEF EvalPassOnShape, Checked
<1>2. CASE index /\ HasOCamlShape(f, parent)
  <2>1. f.env[parent] # Absent /\ f.env[parent].shape \in Shape
    BY <1>2 DEF HasOCamlShape, Shape
  <2>2. sh \in ProperShape
    BY <2>1, FieldShapeProper, ProperConstants
  <2>3. g = EvalSetShape(f, child, sh)
    BY <1>2 DEF EvalPassOnShape
  <2> HIDE DEF g, sh
  <2>4. Sets(f, g, child, Bind(f.env[child].status, f.env[child].root, sh))
    BY <2>2, <2>3, EvalSetShapeSets
  <2>5. Bind(f.env[child].status, f.env[child].root, sh) \in ProperEntry
    BY <2>2, EvalSetShapeSets
  <2>6. g \in Flow /\ f.report \subseteq g.report /\ g.reach = f.reach
    BY <2>4 DEF Sets
  <2> USE DEF g, sh
  <2> QED BY <1>2, <2>1, <2>2, <2>4, <2>5, <2>6
<1>3. CASE index /\ ~HasOCamlShape(f, parent)
  <2>1. "bad_shape" \in Alarm /\ "bad_shape" \in ErrorAlarm
    BY DEF Alarm, ErrorAlarm
  <2>2. g = RaiseAlarm(f, "bad_shape")
    BY <1>3 DEF EvalPassOnShape
  <2> HIDE DEF g
  <2>3. Checked(f, g) /\ ~g.reach
    BY <2>1, <2>2, RaiseAlarmChecked
  <2> USE DEF g
  <2> QED BY <1>3, <2>3 DEF Checked
<1> QED BY <1>1, <1>2, <1>3

\* A registration succeeds, warns of a root that is one already, or fails.
LEMMA ExecRegisterRootCases ==
  ASSUME NEW f \in Flow, NEW l \in Loc
  PROVE  LET g == ExecRegisterRoot(f, l)
             e == Bind(f.env[l].status, "Rooted", f.env[l].shape)
         IN  /\ g \in Flow
             /\ f.report \subseteq g.report
             /\ f.reach /\ ~g.reach => g.report \intersect ErrorAlarm # {}
             /\ g.reach =>
                  \/ /\ Checked(f, g)
                     /\ f.env[l] # Absent
                     /\ f.env[l].root = "Rooted"
                  \/ /\ f.env[l] # Absent
                     /\ f.env[l].root = "NotRooted"
                     /\ e \in ProperEntry
                     /\ Sets(f, g, l, e)
<1> DEFINE g == ExecRegisterRoot(f, l)
           e == Bind(f.env[l].status, "Rooted", f.env[l].shape)
<1>0. /\ "double_root" \in Alarm
      /\ "non_variable_root" \in Alarm /\ "non_variable_root" \in ErrorAlarm
  BY DEF Alarm, ErrorAlarm, WarningAlarm
<1>1. CASE RootOf(f, l) = "Rooted"
  <2>1. f.env[l] # Absent /\ f.env[l].root = "Rooted"
    BY <1>1 DEF RootOf, BOT
  <2>2. g = RaiseAlarm(f, "double_root")
    BY <1>1 DEF ExecRegisterRoot
  <2> HIDE DEF g, e
  <2>3. Checked(f, g)
    BY <1>0, <2>2, RaiseAlarmChecked
  <2> USE DEF g, e
  <2> QED BY <2>1, <2>3 DEF Checked
<1>2. CASE RootOf(f, l) = "NotRooted" /\ StatusVar(f, l) \in Status
  <2>1. f.env[l] # Absent /\ f.env[l].root = "NotRooted"
    BY <1>2 DEF RootOf, BOT
  <2>2. f.env[l] \in ProperEntry
    BY <2>1, FlowFields
  <2>3. e \in ProperEntry
    BY <2>2, ProperEntryFields, ProperConstants DEF Roots
  <2>4. g = SetEntry(f, l, [f.env[l] EXCEPT !.root = "Rooted"])
    BY <1>2 DEF ExecRegisterRoot
  <2>5. [f.env[l] EXCEPT !.root = "Rooted"] = e
    BY <2>2 DEF ProperEntry, Bind
  <2> HIDE DEF g, e
  <2>6. Sets(f, g, l, e)
    BY <2>3, <2>4, <2>5, SetEntrySets
  <2> USE DEF g, e
  <2> QED BY <2>1, <2>3, <2>6 DEF Sets
<1>3. CASE /\ RootOf(f, l) # "Rooted"
           /\ ~(RootOf(f, l) = "NotRooted" /\ StatusVar(f, l) \in Status)
  <2>1. g = RaiseAlarm(f, "non_variable_root")
    BY <1>3 DEF ExecRegisterRoot
  <2> HIDE DEF g
  <2>2. Checked(f, g) /\ ~g.reach
    BY <1>0, <2>1, RaiseAlarmChecked
  <2> USE DEF g
  <2> QED BY <2>2 DEF Checked
<1> QED BY <1>1, <1>2, <1>3

\* Only a root is unregistered.
LEMMA ExecUnregisterRootCases ==
  ASSUME NEW f \in Flow, NEW l \in Loc
  PROVE  LET g == ExecUnregisterRoot(f, l)
             e == Bind(f.env[l].status, "NotRooted", f.env[l].shape)
         IN  /\ g \in Flow
             /\ f.report \subseteq g.report
             /\ f.reach /\ ~g.reach => g.report \intersect ErrorAlarm # {}
             /\ g.reach => /\ f.env[l] # Absent
                           /\ f.env[l].root = "Rooted"
                           /\ e \in ProperEntry
                           /\ Sets(f, g, l, e)
<1> DEFINE g == ExecUnregisterRoot(f, l)
           e == Bind(f.env[l].status, "NotRooted", f.env[l].shape)
<1>1. CASE RootOf(f, l) = "Rooted"
  <2>1. f.env[l] # Absent /\ f.env[l].root = "Rooted"
    BY <1>1 DEF RootOf, BOT
  <2>2. f.env[l] \in ProperEntry
    BY <2>1, FlowFields
  <2>3. e \in ProperEntry
    BY <2>2, ProperEntryFields, ProperConstants DEF Roots
  <2>4. g = SetEntry(f, l, [f.env[l] EXCEPT !.root = "NotRooted"])
    BY <1>1 DEF ExecUnregisterRoot
  <2>5. [f.env[l] EXCEPT !.root = "NotRooted"] = e
    BY <2>2 DEF ProperEntry, Bind
  <2> HIDE DEF g, e
  <2>6. Sets(f, g, l, e)
    BY <2>3, <2>4, <2>5, SetEntrySets
  <2> USE DEF g, e
  <2> QED BY <2>1, <2>3, <2>6 DEF Sets
<1>2. CASE RootOf(f, l) # "Rooted"
  <2>1. "not_rooted" \in Alarm /\ "not_rooted" \in ErrorAlarm
    BY DEF Alarm, ErrorAlarm
  <2>2. g = RaiseAlarm(f, "not_rooted")
    BY <1>2 DEF ExecUnregisterRoot
  <2> HIDE DEF g
  <2>3. Checked(f, g) /\ ~g.reach
    BY <2>1, <2>2, RaiseAlarmChecked
  <2> USE DEF g
  <2> QED BY <2>3 DEF Checked
<1> QED BY <1>1, <1>2

\* A collection keeps roots and shapes, and makes stale every active entry
\* that is not surely rooted and may hold a pointer.
LEMMA CollectEntryFacts ==
  ASSUME NEW e \in ProperEntry
  PROVE  /\ CollectEntry(e) \in ProperEntry
         /\ CollectEntry(e).root = e.root
         /\ CollectEntry(e).shape = e.shape
         /\ CollectEntry(e).status \in {e.status, "Stale"}
         /\ CollectEntry(e).status = "Active" =>
              e.root = "Rooted" \/ IsGuaranteedImmediate(e.shape)
<1>1. /\ [e EXCEPT !.status = "Stale"] = Bind("Stale", e.root, e.shape)
      /\ Bind("Stale", e.root, e.shape) \in ProperEntry
  BY ProperEntryFields, ProperConstants DEF ProperEntry, Bind, Status
<1>2. CASE CollectEntry(e) = e
  BY <1>2, ProperEntryFields DEF CollectEntry, ProperEntry
<1>3. CASE CollectEntry(e) = [e EXCEPT !.status = "Stale"]
  <2>1. CollectEntry(e) = Bind("Stale", e.root, e.shape)
    BY <1>1, <1>3
  <2> QED BY <1>1, <2>1 DEF Bind
<1> QED BY <1>2, <1>3 DEF CollectEntry

\* A collection acts on every entry and on nothing else
\* (eval_garbage_collect).
LEMMA EvalGarbageCollectFlow ==
  ASSUME NEW f \in Flow
  PROVE  LET g == EvalGarbageCollect(f)
         IN  /\ g \in Flow
             /\ g.report = f.report /\ g.lock = f.lock /\ g.reach = f.reach
             /\ g.reach =>
                  \A l \in Loc :
                    g.env[l] = IF f.env[l] = Absent THEN Absent
                               ELSE CollectEntry(f.env[l])
<1> DEFINE env == [l \in Loc |-> IF f.env[l] = Absent THEN Absent
                                 ELSE CollectEntry(f.env[l])]
<1>1. env \in ProperEnv
  <2>1. ASSUME NEW l \in Loc PROVE env[l] \in ProperEntry \union {Absent}
    BY FlowFields, CollectEntryFacts
  <2> QED BY <2>1 DEF ProperEnv
<1>2. f.reach => EvalGarbageCollect(f) = [f EXCEPT !.env = env]
  BY DEF EvalGarbageCollect, Flow
<1>3. f.reach => /\ [f EXCEPT !.env = env] \in Flow
                 /\ [f EXCEPT !.env = env].env = env
                 /\ [f EXCEPT !.env = env].reach = f.reach
                 /\ [f EXCEPT !.env = env].lock = f.lock
                 /\ [f EXCEPT !.env = env].report = f.report
  BY <1>1 DEF Flow
<1>4. ~f.reach => EvalGarbageCollect(f) = f
  BY DEF EvalGarbageCollect
<1>5. \A l \in Loc : env[l] = IF f.env[l] = Absent THEN Absent
                             ELSE CollectEntry(f.env[l])
  OBVIOUS
<1> HIDE DEF env
<1>6. CASE f.reach
  BY <1>2, <1>3, <1>5, <1>6
<1>7. CASE ~f.reach
  BY <1>4, <1>7
<1> QED BY <1>6, <1>7

\* The lock is set and nothing else (eval_update_runtime_lock).
LEMMA EvalUpdateRuntimeLockFlow ==
  ASSUME NEW f \in Flow, NEW state \in RuntimeLock
  PROVE  LET g == EvalUpdateRuntimeLock(f, state)
         IN  /\ g \in Flow
             /\ g.report = f.report /\ g.reach = f.reach
             /\ g.reach => g.env = f.env /\ g.lock = state
  BY DEF EvalUpdateRuntimeLock, Flow, Flat

\* An unsupported function ends the point with a diagnostic
\* (eval_unimplemented).
LEMMA EvalUnimplementedFlow ==
  ASSUME NEW f \in Flow
  PROVE  LET g == EvalUnimplemented(f)
         IN  /\ g \in Flow
             /\ ~g.reach
             /\ f.report \subseteq g.report
             /\ f.reach => "unimplemented" \in g.report
<1> DEFINE u == [f EXCEPT !.report = @ \union {"unimplemented"}]
<1>1. /\ u.report = f.report \union {"unimplemented"}
      /\ u.report \in SUBSET (Alarm \union Diagnostic)
  BY DEF Flow, Diagnostic
<1>2. CASE f.reach
  <2>1. EvalUnimplemented(f) = Unreachable(u)
    BY <1>2 DEF EvalUnimplemented
  <2> HIDE DEF u
  <2> QED BY <1>1, <2>1, UnreachableFlow
<1>3. CASE ~f.reach
  BY <1>3, FlowFields DEF EvalUnimplemented
<1> QED BY <1>2, <1>3

\* The flow in which a value is or is not an immediate.
LEMMA EvalIsImmediateFlow ==
  ASSUME NEW f \in Flow, NEW l \in Loc, NEW imm \in BOOLEAN
  PROVE  LET g == EvalIsImmediate(f, l, imm)
         IN  /\ g \in Flow
             /\ f.report \subseteq g.report
             /\ g.reach => f.reach /\ g.lock = f.lock
<1> DEFINE kinds == (IF imm THEN {Imm} ELSE Kind \ {Imm}) \intersect ShapesVar(f, l)
           h == IF NonValue \in ShapesVar(f, l)
                  THEN [f EXCEPT !.report = @ \union {"bad_shape"}] ELSE f
           g == EvalIsImmediate(f, l, imm)
<1>1. /\ h \in Flow /\ f.report \subseteq h.report
      /\ h.reach = f.reach /\ h.lock = f.lock /\ h.env = f.env
  BY DEF Flow, Alarm, ErrorAlarm
<1>2. CASE ~f.reach
  <2>1. g = f
    BY <1>2 DEF EvalIsImmediate
  <2> QED BY <1>2, <2>1
<1>3. CASE f.reach /\ kinds = {}
  <2>1. g = Unreachable(h)
    BY <1>3 DEF EvalIsImmediate
  <2> HIDE DEF g, h
  <2>2. g \in Flow /\ ~g.reach /\ g.report = h.report
    BY <1>1, <2>1, FlowFields, UnreachableFlow
  <2> USE DEF g, h
  <2> QED BY <1>1, <2>2
<1>4. CASE f.reach /\ kinds # {}
  <2>1. g = SetEntry(h, l, [h.env[l] EXCEPT !.shape = kinds])
    BY <1>4 DEF EvalIsImmediate
  <2>2. kinds \in SUBSET Kind
    BY KindAssumption
  <2>3. f.env[l] # Absent
    <3>1. kinds \intersect NonOCamlValue = {}
      BY KindAssumption DEF NonOCamlValue
    <3> QED BY <1>4, <3>1 DEF ShapesVar
  <2> HIDE DEF g, h, kinds
  <2>4. h.env[l] \in ProperEntry
    BY <1>1, <2>3, FlowFields
  <2>5. kinds \in ProperShape
    BY <2>2, <1>4, ProperConstants
  <2>6. [h.env[l] EXCEPT !.shape = kinds] \in ProperEntry
    BY <2>4, <2>5 DEF ProperEntry, ProperShape
  <2>7. Sets(h, g, l, [h.env[l] EXCEPT !.shape = kinds])
    BY <1>1, <2>1, <2>6, SetEntrySets
  <2>8. g \in Flow /\ g.report = h.report /\ g.lock = h.lock /\ g.reach = h.reach
    BY <2>7 DEF Sets
  <2> USE DEF g, h, kinds
  <2> QED BY <1>1, <1>4, <2>8
<1> QED BY <1>2, <1>3, <1>4

\* The end of a conditional keeps every message and every reachable branch.
LEMMA JoinFlowFlow ==
  ASSUME NEW f \in Flow, NEW g \in Flow
  PROVE  LET j == JoinFlow(f, g)
         IN  /\ j \in Flow
             /\ j.report = f.report \union g.report
             /\ ~f.reach => j.reach = g.reach /\ j.env = g.env /\ j.lock = g.lock
             /\ f.reach /\ ~g.reach => j.reach /\ j.env = f.env /\ j.lock = f.lock
             /\ f.reach /\ g.reach =>
                  /\ j.reach
                  /\ j.env = EnvJoin(f.env, g.env)
                  /\ j.lock = ConstJoin(f.lock, g.lock)
<1> DEFINE report == f.report \union g.report
<1>1. report \in SUBSET (Alarm \union Diagnostic)
  BY FlowFields
<1>2. CASE ~f.reach
  <2>1. JoinFlow(f, g) = [g EXCEPT !.report = report]
    BY <1>2 DEF JoinFlow
  <2> HIDE DEF report
  <2>2. /\ [g EXCEPT !.report = report] \in Flow
        /\ [g EXCEPT !.report = report].report = report
        /\ [g EXCEPT !.report = report].reach = g.reach
        /\ [g EXCEPT !.report = report].env = g.env
        /\ [g EXCEPT !.report = report].lock = g.lock
    BY <1>1 DEF Flow
  <2> USE DEF report
  <2> QED BY <1>2, <2>1, <2>2
<1>3. CASE f.reach /\ ~g.reach
  <2>1. JoinFlow(f, g) = [f EXCEPT !.report = report]
    BY <1>3 DEF JoinFlow
  <2> HIDE DEF report
  <2>2. /\ [f EXCEPT !.report = report] \in Flow
        /\ [f EXCEPT !.report = report].report = report
        /\ [f EXCEPT !.report = report].reach = f.reach
        /\ [f EXCEPT !.report = report].env = f.env
        /\ [f EXCEPT !.report = report].lock = f.lock
    BY <1>1 DEF Flow
  <2> USE DEF report
  <2> QED BY <1>3, <2>1, <2>2
<1>4. CASE f.reach /\ g.reach
  <2>1. JoinFlow(f, g) = [reach |-> TRUE, env |-> EnvJoin(f.env, g.env),
                          lock |-> ConstJoin(f.lock, g.lock), report |-> report]
    BY <1>4 DEF JoinFlow
  <2>2. EnvJoin(f.env, g.env) \in ProperEnv
    BY EnvJoinProper, FlowFields
  <2>3. ConstJoin(f.lock, g.lock) \in Flat(RuntimeLock)
    BY FlowFields, FlatConstants, ConstJoinUpper
  <2> HIDE DEF report
  <2>4. JoinFlow(f, g) \in Flow
    BY <1>1, <2>1, <2>2, <2>3 DEF Flow
  <2>5. /\ JoinFlow(f, g).reach
        /\ JoinFlow(f, g).env = EnvJoin(f.env, g.env)
        /\ JoinFlow(f, g).lock = ConstJoin(f.lock, g.lock)
        /\ JoinFlow(f, g).report = report
    BY <2>1
  <2> USE DEF report
  <2> QED BY <1>4, <2>4, <2>5
<1> QED BY <1>2, <1>3, <1>4

-----------------------------------------------------------------------------
(* The functions of the interface.                                         *)

\* From f to g messages are only added, and a point that was reachable is
\* given up with an error only.
Progress(f, g) ==
  /\ g \in Flow
  /\ f.report \subseteq g.report
  /\ f.reach /\ ~g.reach => g.report \intersect ErrorAlarm # {}

\* g is f after checks and an update of the entry at l.
Updates(f, g, l, e) ==
  /\ Progress(f, g)
  /\ g.reach => /\ f.reach
                /\ g.lock = f.lock
                /\ e \in ProperEntry
                /\ g.env = [f.env EXCEPT ![l] = e]

\* Checks are progress.
LEMMA CheckedProgress ==
  ASSUME NEW f, NEW g, Checked(f, g)
  PROVE  Progress(f, g)
  BY DEF Checked, Progress

\* Progress after progress.
LEMMA ProgressTrans ==
  ASSUME NEW f, NEW g, NEW h, Progress(f, g), Progress(g, h)
  PROVE  Progress(f, h)
  BY DEF Progress

\* Where variables and cells are, and that they are apart.
LEMMA LocFacts ==
  /\ \A x \in Vals : x \in Loc
  /\ \A s \in CharPtrs : s \in Loc /\ s \notin Vals /\ s \notin Ptrs
  /\ \A p \in Ptrs : /\ p \in Loc /\ CellOf[p] \in Loc
                     /\ CellOf[p] \notin Vals \union Ptrs \union CharPtrs
                     /\ CellOf[p] # p /\ p \notin Vals
  /\ Str \in Kind /\ {Str} \in ProperShape
  BY LocAssumption, ProperConstants

\* Checks, then one update.
LEMMA UpdateAfterChecks ==
  ASSUME NEW f \in Flow, NEW c \in Flow, NEW g, NEW l, NEW e,
         Checked(f, c), Sets(c, g, l, e), e \in ProperEntry
  PROVE  Updates(f, g, l, e)
  BY DEF Checked, Sets, Updates, Progress

\* The update is an assignment.
LEMMA AssignAfterChecks ==
  ASSUME NEW f \in Flow, NEW c \in Flow, Checked(f, c), NEW l \in Loc,
         NEW status \in ProperStatus, NEW shape \in ProperShape
  PROVE  /\ RootAfter(f, l) \in ProperRoot
         /\ Updates(f, ExecUpdate(c, l, status, shape), l,
                    Bind(status, RootAfter(f, l), shape))
<1> DEFINE g == ExecUpdate(c, l, status, shape)
           e == Bind(status, RootAfter(c, l), shape)
<1>1. Sets(c, g, l, e) /\ e \in ProperEntry
  BY ExecUpdateSets
<1>2. RootAfter(f, l) \in ProperRoot
  BY ExecUpdateSets
<1> HIDE DEF g
<1>3. Updates(f, g, l, e)
  BY <1>1, UpdateAfterChecks
<1>4. g.reach => RootAfter(c, l) = RootAfter(f, l)
  BY <1>1 DEF Checked, Sets, RootAfter
<1>5. Updates(f, g, l, Bind(status, RootAfter(f, l), shape))
  BY <1>3, <1>4 DEF Updates
<1> QED BY <1>2, <1>5 DEF g

-----------------------------------------------------------------------------
(* Plain statements.                                                       *)

\* x = y copies status and shape.
LEMMA CopyValUpdates ==
  ASSUME NEW f \in Flow, NEW x \in Loc, NEW y \in Loc
  PROVE  Updates(f, CopyVal(f, x, y), x,
                 Bind(StatusVar(f, y), RootAfter(f, x), ShapesVar(f, y)))
  BY AssignAfterChecks, CheckedRefl, Lookups DEF CopyVal

\* x = constant makes x untracked C data.
LEMMA AssignConstUpdates ==
  ASSUME NEW f \in Flow, NEW x \in Loc
  PROVE  Updates(f, AssignConst(f, x), x,
                 Bind("Untracked", RootAfter(f, x), NonOCamlValue))
<1>1. "Untracked" \in ProperStatus
  BY ProperConstants DEF Status
<1> QED BY <1>1, AssignAfterChecks, CheckedRefl, ProperConstants DEF AssignConst

\* x = y op z joins the statuses of the operands.
LEMMA AssignBinopUpdates ==
  ASSUME NEW f \in Flow, NEW x \in Loc, NEW y \in Loc, NEW z \in Loc
  PROVE  Updates(f, AssignBinop(f, x, y, z), x,
                 Bind(StatusBinop(StatusVar(f, y), StatusVar(f, z)),
                      RootAfter(f, x), NonOCamlValue))
<1>1. StatusBinop(StatusVar(f, y), StatusVar(f, z)) \in ProperStatus
  BY Lookups, StatusBinopProper
<1> QED BY <1>1, AssignAfterChecks, CheckedRefl, ProperConstants DEF AssignBinop

\* A copy after checks reads what was there before them.
LEMMA CopyAfterChecks ==
  ASSUME NEW f \in Flow, NEW c \in Flow, Checked(f, c),
         NEW x \in Loc, NEW y \in Loc
  PROVE  /\ Updates(f, CopyVal(c, x, y), x,
                    Bind(StatusVar(f, y), RootAfter(f, x), ShapesVar(f, y)))
         /\ CopyVal(c, x, y).reach => c.reach
<1> DEFINE g == CopyVal(c, x, y)
           e == Bind(StatusVar(c, y), RootAfter(f, x), ShapesVar(c, y))
<1>1. Updates(f, g, x, e)
  BY AssignAfterChecks, Lookups DEF CopyVal
<1>2. g.reach => c.reach
  BY CopyValUpdates DEF Updates
<1>3. c.reach => StatusVar(c, y) = StatusVar(f, y) /\ ShapesVar(c, y) = ShapesVar(f, y)
  BY DEF Checked, StatusVar, ShapesVar
<1> HIDE DEF g
<1>4. Updates(f, g, x, Bind(StatusVar(f, y), RootAfter(f, x), ShapesVar(f, y)))
  BY <1>1, <1>2, <1>3 DEF Updates
<1> QED BY <1>2, <1>4 DEF g

\* What the dereference check leaves reachable.
Followable(f, p) == f.env[p] # Absent /\ f.env[p].status \in {"Untracked", "Active"}

\* x = *p copies the cell, if p may be followed.
LEMMA LoadPtrUpdates ==
  ASSUME NEW f \in Flow, NEW x \in Vals, NEW p \in Ptrs
  PROVE  /\ Updates(f, LoadPtr(f, x, p), x,
                    Bind(StatusVar(f, CellOf[p]), RootAfter(f, x),
                         ShapesVar(f, CellOf[p])))
         /\ LoadPtr(f, x, p).reach => Followable(f, p)
<1> DEFINE c == CheckVarAccess(f, p)
<1>1. Checked(f, c) /\ (c.reach => Followable(f, p))
  BY CheckVarAccessChecked, LocFacts DEF Followable
<1>2. c \in Flow
  BY <1>1 DEF Checked
<1> HIDE DEF c
<1>3. x \in Loc /\ CellOf[p] \in Loc
  BY LocFacts
<1>4. LoadPtr(f, x, p) = CopyVal(c, x, CellOf[p])
  BY DEF LoadPtr, c
<1> QED BY <1>1, <1>2, <1>3, <1>4, CopyAfterChecks

\* *p = w sets the cell, if p may be followed.
LEMMA StorePtrUpdates ==
  ASSUME NEW f \in Flow, NEW p \in Ptrs, NEW w \in Vals
  PROVE  /\ Updates(f, StorePtr(f, p, w), CellOf[p],
                    Bind(StatusVar(f, w), RootAfter(f, CellOf[p]), ShapesVar(f, w)))
         /\ StorePtr(f, p, w).reach => Followable(f, p)
<1> DEFINE c == CheckVarAccess(f, p)
<1>1. Checked(f, c) /\ (c.reach => Followable(f, p))
  BY CheckVarAccessChecked, LocFacts DEF Followable
<1>2. c \in Flow
  BY <1>1 DEF Checked
<1> HIDE DEF c
<1>3. w \in Loc /\ CellOf[p] \in Loc
  BY LocFacts
<1>4. StorePtr(f, p, w) = CopyVal(c, CellOf[p], w)
  BY DEF StorePtr, c
<1> QED BY <1>1, <1>2, <1>3, <1>4, CopyAfterChecks

\* A read behind s changes nothing.
LEMMA LoadCharChecked ==
  ASSUME NEW f \in Flow, NEW s \in CharPtrs
  PROVE  /\ Checked(f, LoadChar(f, s))
         /\ LoadChar(f, s).reach => Followable(f, s)
  BY CheckVarAccessChecked, LocFacts DEF LoadChar, Followable

-----------------------------------------------------------------------------
(* Values.                                                                 *)

\* The result of a runtime function is active.
LEMMA ReturnValueUpdates ==
  ASSUME NEW f \in Flow, NEW c \in Flow, Checked(f, c), NEW x \in Loc,
         NEW shape \in ProperShape
  PROVE  Updates(f, ReturnValue(c, x, shape), x,
                 Bind("Active", RootAfter(f, x), shape))
<1>1. "Active" \in ProperStatus
  BY ProperConstants DEF Status
<1> QED BY <1>1, AssignAfterChecks DEF ReturnValue

\* What the checks of a function that looks inside v leave reachable.
Inspected(f, v) ==
  /\ f.lock = "Locked"
  /\ StatusVar(f, v) \in {"Active", TOP}
  /\ HasOCamlShape(f, v)

\* A value that may be stale is let through with a warning.
Warned(f, g, v) == f.reach /\ StatusVar(f, v) = TOP =>
                     \/ "maybe_non_active_value" \in g.report
                     \/ g.report \intersect ErrorAlarm # {} /\ ~g.reach

\* The liveness check lets active values through, and with a warning those
\* that may be.
LEMMA AssertValidAfter ==
  ASSUME NEW f \in Flow, NEW c \in Flow, Checked(f, c), NEW v \in Loc
  PROVE  LET g == EvalAssertValid(c, v)
         IN  /\ Checked(f, g)
             /\ g \in Flow
             /\ g.reach => c.reach /\ StatusVar(f, v) \in {"Active", TOP}
             /\ Warned(f, g, v)
<1> DEFINE g == EvalAssertValid(c, v)
<1>1. Checked(c, g) /\ (g.reach => StatusVar(c, v) \in {"Active", TOP})
  BY EvalAssertValidChecked
<1>2. c.reach => StatusVar(c, v) = StatusVar(f, v)
  BY DEF Checked, StatusVar
<1>3. c.reach /\ StatusVar(c, v) = TOP => "maybe_non_active_value" \in g.report
  <2>1. "maybe_non_active_value" \in Alarm
    BY DEF Alarm, WarningAlarm
  <2> QED BY <2>1, RaiseAlarmChecked DEF EvalAssertValid, TOP
<1> HIDE DEF g
<1>4. g \in Flow /\ (g.reach => c.reach)
  BY <1>1 DEF Checked
<1>5. Checked(f, g)
  BY <1>1, <1>4, CheckedTrans
<1>6. Warned(f, g, v)
  <2>1. CASE c.reach
    BY <1>2, <1>3, <2>1 DEF Warned
  <2>2. CASE ~c.reach
    BY <1>4, <1>5, <2>2 DEF Warned, Checked
  <2> QED BY <2>1, <2>2
<1> QED BY <1>1, <1>2, <1>4, <1>5, <1>6 DEF g

\* A warning survives later checks.
LEMMA WarnedAfter ==
  ASSUME NEW f \in Flow, NEW c \in Flow, NEW g \in Flow, NEW v,
         Warned(f, c, v), Checked(c, g)
  PROVE  Warned(f, g, v)
  BY DEF Warned, Checked

\* A shape check after other checks.
LEMMA AssertShapeAfter ==
  ASSUME NEW f \in Flow, NEW c \in Flow, Checked(f, c), NEW v \in Loc, NEW shape
  PROVE  LET g == EvalAssertShape(c, v, shape)
         IN  /\ Checked(f, g) /\ Checked(c, g)
             /\ g \in Flow
             /\ g.reach => c.reach /\ HasOCamlShape(f, v)
<1> DEFINE g == EvalAssertShape(c, v, shape)
<1>1. Checked(c, g) /\ (g.reach => HasOCamlShape(c, v))
  BY EvalAssertShapeChecked
<1> HIDE DEF g
<1>2. g \in Flow /\ (g.reach => c.reach)
  BY <1>1 DEF Checked
<1>3. Checked(f, g)
  BY <1>1, <1>2, CheckedTrans
<1>4. g.reach => HasOCamlShape(f, v)
  BY <1>1, <1>2 DEF Checked, HasOCamlShape
<1> QED BY <1>1, <1>2, <1>3, <1>4 DEF g

\* A look into a value passes only under the lock, on an active OCaml value
\* or with a warning.
LEMMA AssertBlockOfChecked ==
  ASSUME NEW f \in Flow, NEW v \in Loc, NEW shape
  PROVE  LET g == AssertBlockOf(f, v, shape)
         IN  /\ Checked(f, g)
             /\ g \in Flow
             /\ g.reach => Inspected(f, v)
             /\ Warned(f, g, v)
<1> DEFINE a == EvalAssertRuntimeLock(f)
           b == EvalAssertValid(a, v)
           g == EvalAssertShape(b, v, shape)
<1>1. Checked(f, a) /\ (a.reach => f.lock = "Locked")
  BY EvalAssertRuntimeLockChecked
<1>2. a \in Flow
  BY <1>1 DEF Checked
<1> HIDE DEF a
<1>3. /\ Checked(f, b) /\ b \in Flow /\ Warned(f, b, v)
      /\ b.reach => a.reach /\ StatusVar(f, v) \in {"Active", TOP}
  BY <1>1, <1>2, AssertValidAfter
<1> HIDE DEF b
<1>4. /\ Checked(f, g) /\ Checked(b, g) /\ g \in Flow
      /\ g.reach => b.reach /\ HasOCamlShape(f, v)
  BY <1>3, AssertShapeAfter
<1> HIDE DEF g
<1>5. Warned(f, g, v)
  BY <1>3, <1>4, WarnedAfter
<1>6. g = AssertBlockOf(f, v, shape)
  BY DEF AssertBlockOf, a, b, g
<1> QED BY <1>1, <1>3, <1>4, <1>5, <1>6 DEF Inspected

\* Kinds of a field: within the lattice, and all those a block may have there.
LEMMA ShapeAtProper ==
  ASSUME NEW f \in Flow, NEW v \in Loc, NEW index \in BOOLEAN
  PROVE  /\ ShapeAt(f, v, index) \in ProperShape
         /\ \A k \in ShapesVar(f, v) \intersect StdBlock :
              FieldOf[k] \subseteq ShapeAt(f, v, index)
<1>1. ShapesVar(f, v) \in Shape
  BY Lookups DEF ProperShape
<1>2. \A k \in StdBlock : FieldOf[k] \subseteq Kind
  BY KindAssumption
<1> QED BY <1>1, <1>2, FieldShapeProper, ProperConstants DEF ShapeAt

\* Field(v, i) gives an active value with the shape of a field of v.
LEMMA ReadFieldUpdates ==
  ASSUME NEW f \in Flow, NEW x \in Loc, NEW v \in Loc, NEW index \in BOOLEAN
  PROVE  LET g == ReadField(f, x, v, index)
         IN  /\ Updates(f, g, x, Bind("Active", RootAfter(f, x), ShapeAt(f, v, index)))
             /\ g.reach => Inspected(f, v)
<1> DEFINE c == AssertBlockOf(f, v, StdBlock)
           g == ReturnValue(c, x, ShapeAt(c, v, index))
<1>1. Checked(f, c) /\ c \in Flow /\ (c.reach => Inspected(f, v))
  BY AssertBlockOfChecked
<1> HIDE DEF c
<1>2. Updates(f, g, x, Bind("Active", RootAfter(f, x), ShapeAt(c, v, index)))
  BY <1>1, ShapeAtProper, ReturnValueUpdates
<1>3. Sets(c, g, x, Bind("Active", RootAfter(c, x), ShapeAt(c, v, index)))
  BY <1>1, ShapeAtProper, ExecUpdateSets, ProperConstants DEF ReturnValue, Status
<1> HIDE DEF g
<1>4. g.reach => c.reach
  BY <1>3 DEF Sets
<1>5. c.reach => ShapeAt(c, v, index) = ShapeAt(f, v, index)
  BY <1>1 DEF Checked, ShapeAt, ShapesVar
<1>6. Updates(f, g, x, Bind("Active", RootAfter(f, x), ShapeAt(f, v, index)))
  BY <1>2, <1>4, <1>5 DEF Updates
<1>7. g = ReadField(f, x, v, index)
  BY DEF g, c, ReadField
<1> QED BY <1>1, <1>4, <1>6, <1>7

\* Two updates of one entry.
LEMMA UpdateTwice ==
  ASSUME NEW f \in Flow, NEW g \in Flow, NEW h \in Flow, NEW l \in Loc, NEW e, NEW e2,
         Updates(f, g, l, e), Updates(g, h, l, e2)
  PROVE  Updates(f, h, l, e2)
<1>1. f.env \in ProperEnv
  BY FlowFields
<1>2. [[f.env EXCEPT ![l] = e] EXCEPT ![l] = e2] = [f.env EXCEPT ![l] = e2]
  BY <1>1 DEF ProperEnv
<1>3. Progress(f, h)
  BY ProgressTrans DEF Updates
<1> QED BY <1>2, <1>3 DEF Updates

\* Setting a proper entry is an update.
LEMMA SetsUpdates ==
  ASSUME NEW f \in Flow, NEW g, NEW l, NEW e \in ProperEntry, Sets(f, g, l, e)
  PROVE  Updates(f, g, l, e)
  BY DEF Sets, Updates, Progress

\* An update is visible at its location.
LEMMA UpdateSeen ==
  ASSUME NEW f \in Flow, NEW g \in Flow, NEW l \in Loc, NEW e \in ProperEntry,
         Updates(f, g, l, e), g.reach
  PROVE  /\ g.env[l] = e
         /\ g.env[l] # Absent
         /\ \A k \in Loc : k # l => g.env[k] = f.env[k]
<1>1. f.env \in ProperEnv
  BY FlowFields
<1>2. e # Absent
  BY ProperEntryIsEntry, AbsentAssumption
<1> QED BY <1>1, <1>2 DEF Updates, ProperEnv

\* A new variable is not rooted.
LEMMA FreshUpdates ==
  ASSUME NEW f \in Flow, NEW l \in Loc, NEW status \in ProperStatus,
         NEW shape \in ProperShape
  PROVE  /\ ExecUpdate(ExecAdd(f, l), l, status, shape) \in Flow
         /\ Bind(status, "NotRooted", shape) \in ProperEntry
         /\ Updates(f, ExecUpdate(ExecAdd(f, l), l, status, shape), l,
                    Bind(status, "NotRooted", shape))
<1> DEFINE a == ExecAdd(f, l)
           b == ExecUpdate(a, l, status, shape)
           e == Bind("Untracked", "NotRooted", NonOCamlValue)
<1>1. e \in ProperEntry /\ Sets(f, a, l, e)
  BY ExecAddSets
<1>2. a \in Flow /\ Updates(f, a, l, e)
  BY <1>1, SetsUpdates DEF Sets
<1>3. "NotRooted" \in ProperRoot
  BY ProperConstants DEF Roots
<1>4. Bind(status, "NotRooted", shape) \in ProperEntry
  BY <1>3, ProperEntryFields
<1> HIDE DEF a
<1>5. Sets(a, b, l, Bind(status, RootAfter(a, l), shape))
  BY <1>2, ExecUpdateSets
<1> HIDE DEF b, e
<1>6. CASE a.reach
  <2>1. a.env[l] = e /\ a.env[l] # Absent
    BY <1>1, <1>2, <1>6, UpdateSeen
  <2>2. RootAfter(a, l) = "NotRooted"
    BY <2>1 DEF RootAfter, e, Bind
  <2>3. Updates(a, b, l, Bind(status, "NotRooted", shape))
    BY <1>2, <1>4, <1>5, <2>2, SetsUpdates
  <2>4. b \in Flow
    BY <1>5 DEF Sets
  <2>5. Updates(f, b, l, Bind(status, "NotRooted", shape))
    BY <1>2, <2>3, <2>4, UpdateTwice
  <2> QED BY <1>4, <2>4, <2>5 DEF a, b
<1>7. CASE ~a.reach
  <2>1. b \in Flow /\ b.report = a.report /\ ~b.reach
    BY <1>5, <1>7 DEF Sets
  <2>2. Updates(f, b, l, Bind(status, "NotRooted", shape))
    BY <2>1, <1>2, <1>7 DEF Updates, Progress
  <2> QED BY <1>4, <2>1, <2>2 DEF a, b
<1> QED BY <1>6, <1>7

\* A fresh cell holds an active value of any shape and is no root.
LEMMA FreshValuePtrUpdates ==
  ASSUME NEW f \in Flow, NEW p \in Ptrs
  PROVE  /\ FreshValuePtr(f, p) \in Flow
         /\ Bind("Active", "NotRooted", Kind) \in ProperEntry
         /\ Updates(f, FreshValuePtr(f, p), CellOf[p], Bind("Active", "NotRooted", Kind))
<1>1. "Active" \in ProperStatus /\ Kind \in ProperShape /\ CellOf[p] \in Loc
  BY ProperConstants, LocFacts DEF Status
<1> QED BY <1>1, FreshUpdates DEF FreshValuePtr, ReturnValue

\* Checks, then any update.
LEMMA CheckedThenUpdates ==
  ASSUME NEW f \in Flow, NEW c \in Flow, NEW g, NEW l, NEW e,
         Checked(f, c), Updates(c, g, l, e)
  PROVE  /\ Updates(f, g, l, e)
         /\ g.reach => c.reach
<1>1. Progress(f, g)
  BY CheckedProgress, ProgressTrans DEF Updates
<1> QED BY <1>1 DEF Updates, Checked

\* The shape of a fresh cell is narrowed to what the field may hold.
LEMMA PassOnUpdates ==
  ASSUME NEW f \in Flow, NEW a \in Flow, NEW v \in Loc, NEW l \in Loc, v # l,
         NEW index \in BOOLEAN,
         Bind("Active", "NotRooted", Kind) \in ProperEntry,
         Updates(f, a, l, Bind("Active", "NotRooted", Kind))
  PROVE  /\ EvalPassOnShape(a, v, l, index) \in Flow
         /\ EvalPassOnShape(a, v, l, index).reach => a.reach
         /\ Updates(f, EvalPassOnShape(a, v, l, index), l,
                    Bind("Active", "NotRooted", ShapeAt(f, v, index)))
<1> DEFINE b == EvalPassOnShape(a, v, l, index)
           e == Bind("Active", "NotRooted", Kind)
           e2 == Bind("Active", "NotRooted", ShapeAt(f, v, index))
<1>1. CASE ~a.reach
  <2>1. b = a
    BY <1>1 DEF EvalPassOnShape, EvalSetShape, SetEntry, RaiseAlarm
  <2> QED BY <1>1, <2>1 DEF Updates
<1>2. CASE a.reach /\ ~index
  <2>1. b = a /\ e = e2
    BY <1>2 DEF EvalPassOnShape, ShapeAt
  <2> QED BY <1>2, <2>1
<1>3. CASE a.reach /\ index
  <2>1. /\ a.env[l] = e /\ a.env[l] # Absent
        /\ \A k \in Loc : k # l => a.env[k] = f.env[k]
    BY <1>3, UpdateSeen
  <2>2. a.env[l].status = "Active" /\ a.env[l].root = "NotRooted"
    BY <2>1 DEF Bind
  <2>3. a.env[v] = f.env[v]
    BY <2>1
  <2>4. f.env[v] # Absent => ShapeAt(f, v, index) = FieldShape(a.env[v].shape)
    BY <1>3, <2>3 DEF ShapeAt, ShapesVar
  <2> DEFINE sh == FieldShape(a.env[v].shape)
             e3 == Bind(a.env[l].status, a.env[l].root, sh)
  <2>5. /\ b \in Flow /\ a.report \subseteq b.report
        /\ a.reach /\ ~b.reach => b.report \intersect ErrorAlarm # {}
        /\ b.reach => /\ f.env[v] # Absent
                      /\ e3 \in ProperEntry
                      /\ Sets(a, b, l, e3)
    BY <1>3, <2>1, <2>3, EvalPassOnShapeCases
  <2>6. Progress(a, b)
    BY <2>5 DEF Progress
  <2>7. f.env[v] # Absent => e3 = e2
    BY <2>2, <2>4
  <2> HIDE DEF b, e, e2, e3
  <2>8. Progress(f, b)
    BY <2>6, ProgressTrans DEF Updates, e
  <2>9. Updates(a, b, l, e2)
    BY <2>5, <2>6, <2>7 DEF Updates, Sets
  <2>10. Updates(f, b, l, e2)
    BY <2>5, <2>9, UpdateTwice DEF e
  <2> QED BY <1>3, <2>5, <2>10 DEF b, e2
<1> QED BY <1>1, <1>2, <1>3

\* &Field(v, i) makes a fresh cell with the shape of the field, and an active
\* pointer to it.
LEMMA CamlFieldUpdates ==
  ASSUME NEW f \in Flow, NEW p \in Ptrs, NEW v \in Vals, NEW index \in BOOLEAN
  PROVE  LET g == CamlField(f, p, v, index)
         IN  /\ \E b \in Flow :
                  /\ Updates(f, b, CellOf[p],
                             Bind("Active", "NotRooted", ShapeAt(f, v, index)))
                  /\ Updates(b, g, p, Bind("Active", RootAfter(b, p), NonOCamlValue))
             /\ g.reach => Inspected(f, v)
<1> DEFINE c == AssertBlockOf(f, v, StdBlock)
           a == FreshValuePtr(c, p)
           b == EvalPassOnShape(a, v, CellOf[p], index)
           g == ExecUpdate(b, p, "Active", NonOCamlValue)
           e == Bind("Active", "NotRooted", Kind)
<1>0. v \in Loc /\ p \in Loc /\ CellOf[p] \in Loc /\ v # CellOf[p]
  BY LocFacts
<1>1. Checked(f, c) /\ c \in Flow /\ (c.reach => Inspected(f, v))
  BY <1>0, AssertBlockOfChecked
<1> HIDE DEF c
<1>2. a \in Flow /\ e \in ProperEntry /\ Updates(c, a, CellOf[p], e)
  BY <1>1, FreshValuePtrUpdates
<1> HIDE DEF a
<1>3. Updates(f, a, CellOf[p], e) /\ (a.reach => c.reach)
  BY <1>1, <1>2, CheckedThenUpdates
<1>4. /\ b \in Flow /\ (b.reach => a.reach)
      /\ Updates(f, b, CellOf[p], Bind("Active", "NotRooted", ShapeAt(f, v, index)))
  BY <1>0, <1>2, <1>3, PassOnUpdates
<1> HIDE DEF b
<1>5. "Active" \in ProperStatus /\ NonOCamlValue \in ProperShape
  BY ProperConstants DEF Status
<1>6. Updates(b, g, p, Bind("Active", RootAfter(b, p), NonOCamlValue))
  BY <1>0, <1>4, <1>5, AssignAfterChecks, CheckedRefl
<1>7. g.reach => b.reach
  BY <1>6 DEF Updates
<1> HIDE DEF g
<1>8. g = CamlField(f, p, v, index)
  BY DEF CamlField, g, b, a, c
<1> QED BY <1>1, <1>3, <1>4, <1>6, <1>7, <1>8

\* Both the block and the stored value are looked at.
LEMMA CamlSetFieldChecked ==
  ASSUME NEW f \in Flow, NEW v \in Loc, NEW w \in Loc, NEW index \in BOOLEAN
  PROVE  LET g == CamlSetField(f, v, w, index)
         IN  /\ Checked(f, g)
             /\ g.reach => Inspected(f, v) /\ Inspected(f, w)
             /\ Warned(f, g, v) /\ Warned(f, g, w)
<1> DEFINE a == EvalAssertRuntimeLock(f)
           b == EvalAssertValid(a, v)
           c == EvalAssertValid(b, w)
           d == EvalAssertShape(c, v, StdBlock)
           g == EvalAssertShape(d, w, ShapeAt(d, v, index))
<1>1. Checked(f, a) /\ a \in Flow /\ (a.reach => f.lock = "Locked")
  BY EvalAssertRuntimeLockChecked DEF Checked
<1> HIDE DEF a
<1>2. /\ Checked(f, b) /\ b \in Flow /\ Warned(f, b, v)
      /\ b.reach => a.reach /\ StatusVar(f, v) \in {"Active", TOP}
  BY <1>1, AssertValidAfter
<1> HIDE DEF b
<1>3. /\ Checked(f, c) /\ c \in Flow /\ Warned(f, c, w)
      /\ c.reach => b.reach /\ StatusVar(f, w) \in {"Active", TOP}
  BY <1>2, AssertValidAfter
<1>4. Checked(b, c)
  BY <1>2, EvalAssertValidChecked
<1> HIDE DEF c
<1>5. /\ Checked(f, d) /\ Checked(c, d) /\ d \in Flow
      /\ d.reach => c.reach /\ HasOCamlShape(f, v)
  BY <1>3, AssertShapeAfter
<1> HIDE DEF d
<1>6. /\ Checked(f, g) /\ Checked(d, g) /\ g \in Flow
      /\ g.reach => d.reach /\ HasOCamlShape(f, w)
  BY <1>5, AssertShapeAfter
<1> HIDE DEF g
<1>7. Warned(f, g, v)
  <2>1. Warned(f, c, v)
    BY <1>2, <1>3, <1>4, WarnedAfter
  <2>2. Warned(f, d, v)
    BY <2>1, <1>3, <1>5, WarnedAfter
  <2> QED BY <2>2, <1>5, <1>6, WarnedAfter
<1>8. Warned(f, g, w)
  <2>1. Warned(f, d, w)
    BY <1>3, <1>5, WarnedAfter
  <2> QED BY <2>1, <1>5, <1>6, WarnedAfter
<1>9. g = CamlSetField(f, v, w, index)
  BY DEF CamlSetField, a, b, c, d, g
<1> QED BY <1>1, <1>2, <1>3, <1>5, <1>6, <1>7, <1>8, <1>9 DEF Inspected

\* The pointer and the value behind it are looked at; the stored one is not.
LEMMA CamlModifyChecked ==
  ASSUME NEW f \in Flow, NEW p \in Ptrs, NEW w \in Vals
  PROVE  LET g == CamlModify(f, p, w)
         IN  /\ Checked(f, g)
             /\ g.reach => Followable(f, p) /\ Inspected(f, CellOf[p])
             /\ Warned(f, g, CellOf[p])
<1> DEFINE a == EvalAssertRuntimeLock(f)
           b == EvalAssertValid(a, p)
           c == CheckVarAccess(b, p)
           d == EvalAssertValid(c, CellOf[p])
           e == EvalAssertShape(d, CellOf[p], StdBlock)
           g == EvalAssertShapeCompat(e, w, CellOf[p])
<1>0. w \in Loc /\ p \in Loc /\ CellOf[p] \in Loc
  BY LocFacts
<1>1. Checked(f, a) /\ a \in Flow /\ (a.reach => f.lock = "Locked")
  BY EvalAssertRuntimeLockChecked DEF Checked
<1> HIDE DEF a
<1>2. Checked(f, b) /\ b \in Flow /\ (b.reach => a.reach)
  BY <1>0, <1>1, AssertValidAfter
<1> HIDE DEF b
<1>3. /\ Checked(b, c) /\ c \in Flow
      /\ c.reach => b.reach /\ b.env = f.env /\ Followable(b, p)
  BY <1>0, <1>2, CheckVarAccessChecked DEF Checked, Followable
<1> HIDE DEF c
<1>4. Checked(f, c) /\ (c.reach => Followable(f, p))
  BY <1>2, <1>3, CheckedTrans DEF Followable
<1>5. /\ Checked(f, d) /\ d \in Flow /\ Warned(f, d, CellOf[p])
      /\ d.reach => c.reach /\ StatusVar(f, CellOf[p]) \in {"Active", TOP}
  BY <1>0, <1>3, <1>4, AssertValidAfter
<1> HIDE DEF d
<1>6. /\ Checked(f, e) /\ Checked(d, e) /\ e \in Flow
      /\ e.reach => d.reach /\ HasOCamlShape(f, CellOf[p])
  BY <1>0, <1>5, AssertShapeAfter
<1> HIDE DEF e
<1>7. Checked(e, g) /\ g \in Flow /\ (g.reach => e.reach)
  BY <1>0, <1>6, EvalAssertShapeCompatChecked DEF Checked
<1> HIDE DEF g
<1>8. Checked(f, g)
  BY <1>6, <1>7, CheckedTrans
<1>9. Warned(f, g, CellOf[p])
  <2>1. Warned(f, e, CellOf[p])
    BY <1>5, <1>6, WarnedAfter
  <2> QED BY <2>1, <1>6, <1>7, WarnedAfter
<1>10. g = CamlModify(f, p, w)
  BY DEF CamlModify, a, b, c, d, e, g
<1> QED
  BY <1>1, <1>2, <1>3, <1>4, <1>5, <1>6, <1>7, <1>8, <1>9, <1>10 DEF Inspected

\* The test leaves the entries and the lock alone whatever the answer.
LEMMA CamlIsBlockFlow ==
  ASSUME NEW f \in Flow, NEW v \in Loc, NEW answer \in BOOLEAN
  PROVE  LET g == CamlIsBlock(f, v, answer)
         IN  /\ g \in Flow
             /\ f.report \subseteq g.report
             /\ g.reach => f.reach /\ g.env = f.env /\ g.lock = f.lock
<1> DEFINE h == EvalIsImmediate(f, v, ~answer)
<1>1. /\ h \in Flow /\ f.report \subseteq h.report
      /\ h.reach => f.reach /\ h.lock = f.lock
  BY EvalIsImmediateFlow
<1>2. CamlIsBlock(f, v, answer) = IF h.reach THEN [h EXCEPT !.env = f.env] ELSE h
  BY DEF CamlIsBlock
<1> HIDE DEF h
<1>3. /\ [h EXCEPT !.env = f.env] \in Flow
      /\ [h EXCEPT !.env = f.env].env = f.env
      /\ [h EXCEPT !.env = f.env].lock = h.lock
      /\ [h EXCEPT !.env = f.env].report = h.report
      /\ [h EXCEPT !.env = f.env].reach = h.reach
  BY <1>1 DEF Flow
<1>4. CASE h.reach
  BY <1>1, <1>2, <1>3, <1>4
<1>5. CASE ~h.reach
  BY <1>1, <1>2, <1>5
<1> QED BY <1>4, <1>5

\* String_val(v) gives an active pointer.
LEMMA ValAsStringUpdates ==
  ASSUME NEW f \in Flow, NEW s \in CharPtrs, NEW v \in Vals
  PROVE  LET g == ValAsString(f, s, v)
         IN  /\ Updates(f, g, s, Bind("Active", RootAfter(f, s), NonOCamlValue))
             /\ g.reach => Inspected(f, v)
<1> DEFINE c == AssertBlockOf(f, v, {Str})
           g == ExecUpdate(c, s, "Active", NonOCamlValue)
<1>0. v \in Loc /\ s \in Loc /\ "Active" \in ProperStatus
      /\ NonOCamlValue \in ProperShape
  BY LocFacts, ProperConstants DEF Status
<1>1. Checked(f, c) /\ c \in Flow /\ (c.reach => Inspected(f, v))
  BY <1>0, AssertBlockOfChecked
<1> HIDE DEF c
<1>2. Updates(f, g, s, Bind("Active", RootAfter(f, s), NonOCamlValue))
  BY <1>0, <1>1, AssignAfterChecks
<1>3. Sets(c, g, s, Bind("Active", RootAfter(c, s), NonOCamlValue))
  BY <1>0, <1>1, ExecUpdateSets
<1> HIDE DEF g
<1>4. g.reach => c.reach
  BY <1>3 DEF Sets
<1>5. g = ValAsString(f, s, v)
  BY DEF ValAsString, c, g
<1> QED BY <1>1, <1>2, <1>4, <1>5

-----------------------------------------------------------------------------
(* Allocation, roots, lock.                                                *)

\* d is f after a collection.
Collects(f, d) ==
  /\ Progress(f, d)
  /\ d.reach =>
       /\ f.reach
       /\ d.lock = f.lock
       /\ \A l \in Loc : d.env[l] = IF f.env[l] = Absent THEN Absent
                                    ELSE CollectEntry(f.env[l])

\* A collection after checks.
LEMMA CollectAfterChecks ==
  ASSUME NEW f \in Flow, NEW c \in Flow, Checked(f, c)
  PROVE  LET d == EvalGarbageCollect(c)
         IN  /\ d \in Flow
             /\ Collects(f, d)
             /\ d.reach => c.reach
<1> DEFINE d == EvalGarbageCollect(c)
<1>1. /\ d \in Flow
      /\ d.report = c.report /\ d.lock = c.lock /\ d.reach = c.reach
      /\ d.reach => \A l \in Loc : d.env[l] = IF c.env[l] = Absent THEN Absent
                                              ELSE CollectEntry(c.env[l])
  BY EvalGarbageCollectFlow
<1> HIDE DEF d
<1>2. Collects(f, d)
  BY <1>1 DEF Checked, Collects, Progress
<1> QED BY <1>1, <1>2 DEF d

\* What is known of g, the result of an allocation of a block of shape in x.
Allocates(f, g, x, shape) ==
  /\ \E d \in Flow : /\ Collects(f, d)
                     /\ Updates(d, g, x, Bind("Active", RootAfter(d, x), shape))
  /\ g.reach => f.lock = "Locked"

\* An allocation after checks.
LEMMA AllocAfterChecks ==
  ASSUME NEW f \in Flow, NEW c \in Flow, Checked(f, c), NEW x \in Loc,
         NEW shape \in ProperShape
  PROVE  Allocates(f, CamlAlloc(c, x, shape), x, shape)
<1> DEFINE a == EvalAssertRuntimeLock(c)
           d == EvalGarbageCollect(a)
           g == ReturnValue(d, x, shape)
<1>1. Checked(c, a) /\ a \in Flow /\ (a.reach => c.reach /\ c.lock = "Locked")
  BY EvalAssertRuntimeLockChecked DEF Checked
<1> HIDE DEF a
<1>2. Checked(f, a)
  BY <1>1, CheckedTrans
<1>3. d \in Flow /\ Collects(f, d) /\ (d.reach => a.reach)
  BY <1>1, <1>2, CollectAfterChecks
<1> HIDE DEF d
<1>4. Updates(d, g, x, Bind("Active", RootAfter(d, x), shape))
  BY <1>3, CheckedRefl, ReturnValueUpdates
<1>5. g.reach => f.lock = "Locked"
  BY <1>1, <1>3, <1>4 DEF Checked, Updates
<1> HIDE DEF g
<1>6. g = CamlAlloc(c, x, shape)
  BY DEF CamlAlloc, a, d, g
<1> QED BY <1>3, <1>4, <1>5, <1>6 DEF Allocates

\* caml_alloc_* collects, then returns an active block.
LEMMA CamlAllocAllocates ==
  ASSUME NEW f \in Flow, NEW x \in Loc, NEW shape \in ProperShape
  PROVE  Allocates(f, CamlAlloc(f, x, shape), x, shape)
  BY CheckedRefl, AllocAfterChecks

\* caml_alloc_some collects, then returns an active block.
LEMMA CamlAllocSomeAllocates ==
  ASSUME NEW f \in Flow, NEW x \in Loc, NEW v \in Loc
  PROVE  Allocates(f, CamlAllocSome(f, x, v), x, StdBlock)
<1>1. "non_variable_root" \in ErrorAlarm
  BY DEF ErrorAlarm
<1>2. (StatusVar(f, v) \in Status) \in BOOLEAN
  OBVIOUS
<1>3. Checked(f, Check(f, StatusVar(f, v) \in Status, "non_variable_root"))
  BY <1>1, <1>2, CheckChecked
<1>4. Check(f, StatusVar(f, v) \in Status, "non_variable_root") \in Flow
  BY <1>3 DEF Checked
<1>5. StdBlock \in ProperShape
  BY ProperConstants
<1> QED BY <1>3, <1>4, <1>5, AllocAfterChecks DEF CamlAllocSome

\* Registration, on a flow whose entry at l is known to be bound: the entry
\* is rooted afterwards, and it was surely rooted or surely not before.
Registers(f, g, l) ==
  /\ g \in Flow
  /\ Progress(f, g)
  /\ g.reach =>
       /\ f.reach /\ g.lock = f.lock
       /\ f.env[l] # Absent /\ f.env[l].root \in Roots
       /\ \A k \in Loc : k # l => g.env[k] = f.env[k]
       /\ g.env[l] = Bind(f.env[l].status, "Rooted", f.env[l].shape)
       /\ g.env[l] # Absent

\* CAMLparam roots its variable or gives up.
LEMMA CamlParamRegisters ==
  ASSUME NEW f \in Flow, NEW l \in Loc
  PROVE  Registers(f, ExecRegisterRoot(f, l), l)
<1> DEFINE g == ExecRegisterRoot(f, l)
           e == Bind(f.env[l].status, "Rooted", f.env[l].shape)
<1>1. /\ g \in Flow
      /\ f.report \subseteq g.report
      /\ f.reach /\ ~g.reach => g.report \intersect ErrorAlarm # {}
      /\ g.reach =>
           \/ Checked(f, g) /\ f.env[l] # Absent /\ f.env[l].root = "Rooted"
           \/ /\ f.env[l] # Absent /\ f.env[l].root = "NotRooted"
              /\ e \in ProperEntry /\ Sets(f, g, l, e)
  BY ExecRegisterRootCases
<1> HIDE DEF g
<1>2. Progress(f, g)
  BY <1>1 DEF Progress
<1>3. CASE ~g.reach
  BY <1>1, <1>2, <1>3 DEF Registers, g
<1>4. CASE g.reach /\ Checked(f, g) /\ f.env[l] # Absent /\ f.env[l].root = "Rooted"
  <2>1. f.env[l] \in ProperEntry
    BY <1>4, FlowFields
  <2>2. e = f.env[l]
    BY <1>4, <2>1 DEF ProperEntry, Bind
  <2> HIDE DEF e
  <2>3. Registers(f, g, l)
    BY <1>1, <1>2, <1>4, <2>2 DEF Registers, Checked, Roots, e
  <2> QED BY <2>3 DEF g
<1>5. CASE /\ g.reach /\ f.env[l] # Absent /\ f.env[l].root = "NotRooted"
           /\ e \in ProperEntry /\ Sets(f, g, l, e)
  <2> HIDE DEF e
  <2>1. /\ g.env[l] = e /\ g.env[l] # Absent
        /\ \A k \in Loc : k # l => g.env[k] = f.env[k]
    BY <1>1, <1>5, SetsUpdates, UpdateSeen
  <2>2. Registers(f, g, l)
    BY <1>1, <1>2, <1>5, <2>1 DEF Registers, Sets, Roots, e
  <2> QED BY <2>2 DEF g
<1> QED BY <1>1, <1>3, <1>4, <1>5

\* A local root starts as an immediate.
LEMMA CamlLocalRegisters ==
  ASSUME NEW f \in Flow, NEW x \in Loc
  PROVE  \E b \in Flow : /\ Updates(f, b, x, Bind("Active", RootAfter(f, x), {Imm}))
                        /\ Registers(b, CamlLocal(f, x), x)
<1> DEFINE b == ValOfLong(f, x)
<1>1. {Imm} \in ProperShape
  BY ProperConstants
<1>2. Updates(f, b, x, Bind("Active", RootAfter(f, x), {Imm}))
  BY <1>1, CheckedRefl, ReturnValueUpdates DEF ValOfLong
<1>3. b \in Flow
  BY <1>2 DEF Updates, Progress
<1> HIDE DEF b
<1>4. Registers(b, ExecRegisterRoot(b, x), x)
  BY <1>3, CamlParamRegisters
<1> QED BY <1>2, <1>3, <1>4 DEF CamlLocal, b

\* A variable that is declared again is fresh.
LEMMA RedeclareUpdates ==
  ASSUME NEW f \in Flow, NEW x \in Loc
  PROVE  Updates(f, Redeclare(f, x), x,
                 Bind("Untracked", "NotRooted", NonOCamlValue))
<1> DEFINE a == ExecRemove(f, x)
           g == ExecAdd(a, x)
           e == Bind("Untracked", "NotRooted", NonOCamlValue)
<1>1. a \in Flow /\ Sets(f, a, x, Absent)
  BY ExecRemoveSets DEF Sets
<1> HIDE DEF a
<1>2. e \in ProperEntry /\ Sets(a, g, x, e)
  BY <1>1, ExecAddSets
<1> HIDE DEF g, e
<1>3. [[f.env EXCEPT ![x] = Absent] EXCEPT ![x] = e] = [f.env EXCEPT ![x] = e]
  BY FlowFields DEF ProperEnv
<1>4. Updates(f, g, x, e)
  BY <1>1, <1>2, <1>3 DEF Sets, Updates, Progress
<1> QED BY <1>4 DEF Redeclare, a, g, e

\* The cell of a named value is a root, the pointer is C data.
LEMMA CamlNamedValueRegisters ==
  ASSUME NEW f \in Flow, NEW p \in Ptrs
  PROVE  \E a \in Flow, b \in Flow :
           /\ Updates(f, a, CellOf[p], Bind("Active", "NotRooted", Kind))
           /\ Registers(a, b, CellOf[p])
           /\ Updates(b, CamlNamedValue(f, p), p,
                      Bind("Untracked", RootAfter(b, p), NonOCamlValue))
<1> DEFINE a == FreshValuePtr(f, p)
           b == ExecRegisterRoot(a, CellOf[p])
           g == ExecUpdate(b, p, "Untracked", NonOCamlValue)
<1>0. /\ p \in Loc /\ CellOf[p] \in Loc
      /\ "Untracked" \in ProperStatus /\ NonOCamlValue \in ProperShape
  BY LocFacts, ProperConstants DEF Status
<1>1. a \in Flow /\ Updates(f, a, CellOf[p], Bind("Active", "NotRooted", Kind))
  BY FreshValuePtrUpdates
<1> HIDE DEF a
<1>2. b \in Flow /\ Registers(a, b, CellOf[p])
  BY <1>0, <1>1, CamlParamRegisters DEF Registers
<1> HIDE DEF b
<1>3. Updates(b, g, p, Bind("Untracked", RootAfter(b, p), NonOCamlValue))
  BY <1>0, <1>2, CheckedRefl, AssignAfterChecks
<1> HIDE DEF g
<1>4. g = CamlNamedValue(f, p)
  BY DEF CamlNamedValue, a, b, g
<1> QED BY <1>1, <1>2, <1>3, <1>4

\* The lock is released after a collection.
LEMMA CamlEnterBlockingSectionCollects ==
  ASSUME NEW f \in Flow
  PROVE  LET g == CamlEnterBlockingSection(f)
         IN  /\ g \in Flow
             /\ Progress(f, g)
             /\ g.reach => f.lock = "Locked" /\ g.lock = "Unlocked"
             /\ g.reach => \E d \in Flow : Collects(f, d) /\ d.reach /\ g.env = d.env
<1> DEFINE a == EvalAssertRuntimeLock(f)
           d == EvalGarbageCollect(a)
           g == EvalUpdateRuntimeLock(d, "Unlocked")
<1>1. Checked(f, a) /\ a \in Flow /\ (a.reach => f.lock = "Locked")
  BY EvalAssertRuntimeLockChecked DEF Checked
<1> HIDE DEF a
<1>2. d \in Flow /\ Collects(f, d) /\ (d.reach => a.reach)
  BY <1>1, CollectAfterChecks
<1> HIDE DEF d
<1>3. "Unlocked" \in RuntimeLock
  BY DEF RuntimeLock
<1>4. /\ g \in Flow /\ g.report = d.report /\ g.reach = d.reach
      /\ g.reach => g.env = d.env /\ g.lock = "Unlocked"
  BY <1>2, <1>3, EvalUpdateRuntimeLockFlow
<1> HIDE DEF g
<1>5. Progress(f, g)
  BY <1>2, <1>4 DEF Collects, Progress
<1>6. g = CamlEnterBlockingSection(f)
  BY DEF CamlEnterBlockingSection, a, d, g
<1> QED BY <1>1, <1>2, <1>4, <1>5, <1>6

\* The lock is taken back and nothing else changes.
LEMMA CamlLeaveBlockingSectionFlow ==
  ASSUME NEW f \in Flow
  PROVE  LET g == CamlLeaveBlockingSection(f)
         IN  /\ g \in Flow
             /\ g.report = f.report /\ g.reach = f.reach
             /\ g.reach => g.env = f.env /\ g.lock = "Locked"
<1>1. "Locked" \in RuntimeLock
  BY DEF RuntimeLock
<1> QED BY <1>1, EvalUpdateRuntimeLockFlow DEF CamlLeaveBlockingSection

\* Nothing is reachable after an exception; what the checks before it found
\* is in the report.
NeverReturns(f, g) ==
  /\ g \in Flow
  /\ ~g.reach
  /\ f.report \subseteq g.report

\* A call that does not return, after checks.
LEMMA NoReturnAfterChecks ==
  ASSUME NEW f \in Flow, NEW c \in Flow, Checked(f, c)
  PROVE  /\ NeverReturns(f, NoReturn(c))
         /\ NoReturn(c).report = c.report
  BY FlowFields, UnreachableFlow DEF NoReturn, NeverReturns, Checked

\* The functions that raise an exception do not return.
LEMMA RaiseNeverReturns ==
  ASSUME NEW f \in Flow, NEW v \in Loc
  PROVE  /\ NeverReturns(f, CamlRaise(f))
         /\ NeverReturns(f, CamlRaiseWithArg(f, v))
         /\ NeverReturns(f, CamlFailwithValue(f, v))
<1> DEFINE a == EvalAssertRuntimeLock(f)
           b == EvalAssertValid(a, v)
           c == AssertBlockOf(f, v, {Str})
<1>1. Checked(f, a) /\ a \in Flow
  BY EvalAssertRuntimeLockChecked DEF Checked
<1>2. Checked(f, c) /\ c \in Flow
  BY AssertBlockOfChecked
<1> HIDE DEF a, c
<1>3. Checked(f, b) /\ b \in Flow
  BY <1>1, AssertValidAfter
<1> HIDE DEF b
<1>4. NeverReturns(f, NoReturn(a)) /\ NeverReturns(f, NoReturn(b))
      /\ NeverReturns(f, NoReturn(c))
  BY <1>1, <1>2, <1>3, NoReturnAfterChecks
<1> QED
  BY <1>4 DEF CamlRaise, CamlRaiseWithArg, CamlFailwithValue, a, b, c

\* Long_val(v) looks at the shape of v only.
LEMMA ValAsLongChecked ==
  ASSUME NEW f \in Flow, NEW v \in Loc
  PROVE  /\ Checked(f, ValAsLong(f, v))
         /\ ValAsLong(f, v).reach => HasOCamlShape(f, v)
  BY EvalAssertShapeChecked DEF ValAsLong

-----------------------------------------------------------------------------
(* Data.                                                                   *)

\* What a location is given is a datum.
LEMMA DataFacts ==
  /\ \A k \in Kind : /\ ValueOf(k) \in Data
                     /\ ValueOf(k).kind = k /\ ~ValueOf(k).moved
                     /\ ValueOf(k).heap <=> k # Imm
  /\ CDatum \in Data /\ CDatum.kind = NonValue /\ ~CDatum.heap /\ ~CDatum.moved
  /\ HeapPointer \in Data /\ HeapPointer.kind = NonValue /\ ~HeapPointer.moved
  /\ Absent \notin Data
  BY KindAssumption, AbsentDatumAssumption
     DEF Data, Datum, WellFormed, ValueOf, CDatum, HeapPointer, Fresh

\* The parts of a datum.
LEMMA DatumFields ==
  ASSUME NEW d \in Data
  PROVE  /\ d.kind \in Kind \union {NonValue}
         /\ d.heap \in BOOLEAN /\ d.moved \in BOOLEAN /\ d.exposed \in BOOLEAN
         /\ d.kind \in Kind => (d.heap <=> d.kind # Imm)
         /\ d.moved => d.heap /\ d.exposed
  BY DEF Data, Datum, WellFormed

\* Arithmetic gives C data, as fragile as its operands.
LEMMA ArithmeticFacts ==
  ASSUME NEW d \in Data, NEW e \in Data
  PROVE  /\ Arithmetic(d, e) \in Data
         /\ Arithmetic(d, e).kind = NonValue
         /\ Arithmetic(d, e).heap = (d.heap \/ e.heap)
         /\ Arithmetic(d, e).moved = (d.moved \/ e.moved)
  BY DatumFields, KindAssumption DEF Arithmetic, Data, Datum, WellFormed

\* What a location holds is a datum.
LEMMA MemoryHolds ==
  ASSUME NEW m \in Memory, NEW l \in Loc, Holds(m, l)
  PROVE  m[l] \in Data
  BY DEF Memory, Holds

\* A location is given a datum.
LEMMA StoreMemory ==
  ASSUME NEW m \in Memory, NEW l \in Loc, NEW d \in Data
  PROVE  /\ [m EXCEPT ![l] = d] \in Memory
         /\ [m EXCEPT ![l] = d][l] = d
         /\ Holds([m EXCEPT ![l] = d], l)
         /\ \A k \in Loc : k # l => [m EXCEPT ![l] = d][k] = m[k]
         /\ \A k \in Loc : Holds(m, k) => Holds([m EXCEPT ![l] = d], k)
  BY DataFacts DEF Memory, Holds

\* A collection changes no kind and invalidates nothing that a root protects.
LEMMA CollectedMemory ==
  ASSUME NEW m \in Memory, NEW r \in SUBSET Loc, NEW S \in SUBSET Unprotected(m, r)
  PROVE  LET c == Collected(m, r, S)
         IN  /\ c \in Memory
             /\ \A l \in Loc :
                  /\ Holds(c, l) <=> Holds(m, l)
                  /\ Holds(m, l) => /\ c[l].kind = m[l].kind
                                    /\ c[l].heap = m[l].heap
                                    /\ c[l].moved /\ ~m[l].moved => l \notin r /\ m[l].heap
<1> DEFINE c == Collected(m, r, S)
<1>1. ASSUME NEW l \in Loc
      PROVE  /\ c[l] \in Data \union {Absent}
             /\ Holds(c, l) <=> Holds(m, l)
             /\ Holds(m, l) => /\ c[l].kind = m[l].kind
                               /\ c[l].heap = m[l].heap
                               /\ c[l].moved /\ ~m[l].moved => l \notin r /\ m[l].heap
  <2>1. CASE l \in r \/ ~Holds(m, l)
    BY <2>1 DEF Collected, Memory, Holds
  <2>2. CASE l \notin r /\ Holds(m, l)
    <3>1. m[l] \in Data /\ m[l].moved \in BOOLEAN
      BY <2>2, MemoryHolds, DatumFields
    <3> DEFINE b == m[l].moved \/ l \in S
    <3>2. c[l] = [m[l] EXCEPT !.exposed = TRUE, !.moved = b]
      BY <2>2 DEF Collected
    <3>3. l \in S => m[l].heap
      BY DEF Unprotected
    <3>4. b \in BOOLEAN /\ (b => m[l].heap) /\ (b /\ ~m[l].moved => m[l].heap)
      BY <3>1, <3>3, DatumFields
    <3> HIDE DEF b, c
    <3>5. /\ c[l] \in Data
          /\ c[l].kind = m[l].kind /\ c[l].heap = m[l].heap /\ c[l].moved = b
      BY <3>1, <3>2, <3>4 DEF Data, Datum, WellFormed
    <3>6. c[l] # Absent
      BY <3>5, DataFacts
    <3> QED BY <2>2, <3>4, <3>5, <3>6 DEF Holds
  <2> QED BY <2>1, <2>2
<1>2. c \in [Loc -> Data \union {Absent}]
  BY <1>1 DEF Collected
<1> QED BY <1>1, <1>2 DEF Memory

-----------------------------------------------------------------------------
(* How steps keep Sim.                                                     *)

\* An entry set by the analysis agrees with a datum.
LEMMA AgreesBind ==
  ASSUME NEW status, NEW root, NEW shape, NEW d, NEW isRooted, NEW h,
         d.kind \in shape,
         root = "Rooted" => isRooted, root = "NotRooted" => ~isRooted,
         status = "Active" => ~d.moved, status = "Untracked" => ~d.heap,
         h \/ ~d.heap \/ isRooted
  PROVE  Agrees(Bind(status, root, shape), d, isRooted, h)
  BY DEF Agrees, Bind

\* Checks keep Sim.
LEMMA SimChecked ==
  ASSUME NEW f, NEW g, NEW m, NEW r, NEW h, Sim(f, m, r, h), Checked(f, g), g.reach
  PROVE  Sim(g, m, r, h)
  BY DEF Sim, Checked

\* One entry and one location change.
LEMMA SimUpdate ==
  ASSUME NEW f \in Flow, NEW g, NEW m \in Memory, NEW r, NEW h,
         NEW l \in Loc, NEW e, NEW d \in Data, NEW r2,
         Sim(f, m, r, h), Updates(f, g, l, e), g.reach,
         \A k \in Loc : k # l => (k \in r2 <=> k \in r),
         Agrees(e, d, l \in r2, h)
  PROVE  Sim(g, [m EXCEPT ![l] = d], r2, h)
<1> DEFINE m2 == [m EXCEPT ![l] = d]
<1>1. g \in Flow /\ e \in ProperEntry
  BY DEF Updates, Progress
<1>2. /\ g.env[l] = e /\ g.env[l] # Absent
      /\ \A k \in Loc : k # l => g.env[k] = f.env[k]
  BY <1>1, UpdateSeen
<1>3. m2[l] = d /\ \A k \in Loc : k # l => m2[k] = m[k]
  BY DEF Memory
<1> HIDE DEF m2
<1>4. Describes(g.env, m2, r2, h)
  <2> SUFFICES ASSUME NEW k \in Loc, Holds(m2, k)
               PROVE  g.env[k] # Absent /\ Agrees(g.env[k], m2[k], k \in r2, h)
    BY DEF Describes
  <2>1. CASE k = l
    BY <1>2, <1>3, <2>1
  <2>2. CASE k # l
    <3>1. Holds(m, k) /\ m2[k] = m[k] /\ g.env[k] = f.env[k]
      BY <1>2, <1>3, <2>2 DEF Holds
    <3>2. f.env[k] # Absent /\ Agrees(f.env[k], m[k], k \in r, h)
      BY <3>1 DEF Sim, Describes
    <3>3. Agrees(f.env[k], m[k], k \in r2, h)
      BY <2>2, <3>2 DEF Agrees
    <3> QED BY <3>1, <3>2, <3>3
  <2> QED BY <2>1, <2>2
<1> QED BY <1>4 DEF Sim, Updates, m2

\* What Sim says of the entry of a location that holds a datum.
LEMMA SimEntry ==
  ASSUME NEW f \in Flow, NEW m, NEW r, NEW h, NEW l \in Loc,
         Sim(f, m, r, h), Holds(m, l)
  PROVE  /\ f.env[l] # Absent
         /\ f.env[l] \in ProperEntry
         /\ Agrees(f.env[l], m[l], l \in r, h)
         /\ RootAfter(f, l) = f.env[l].root
         /\ RootAfter(f, l) = "Rooted" => l \in r
         /\ RootAfter(f, l) = "NotRooted" => l \notin r
         /\ m[l].kind \in ShapesVar(f, l)
         /\ StatusVar(f, l) = "Active" => ~m[l].moved
         /\ StatusVar(f, l) = "Untracked" => ~m[l].heap
  BY FlowFields DEF Sim, Describes, Agrees, RootAfter, ShapesVar, StatusVar

\* An assignment keeps the root of its location.
LEMMA SimAssign ==
  ASSUME NEW f \in Flow, NEW g, NEW m \in Memory, NEW r, NEW h,
         NEW l \in Loc, NEW status, NEW shape, NEW d \in Data,
         Sim(f, m, r, h), Holds(m, l),
         Updates(f, g, l, Bind(status, RootAfter(f, l), shape)), g.reach,
         d.kind \in shape, h \/ ~d.heap,
         status = "Active" => ~d.moved, status = "Untracked" => ~d.heap
  PROVE  Sim(g, [m EXCEPT ![l] = d], r, h)
<1>1. /\ RootAfter(f, l) = "Rooted" => l \in r
      /\ RootAfter(f, l) = "NotRooted" => l \notin r
  BY SimEntry
<1>2. Agrees(Bind(status, RootAfter(f, l), shape), d, l \in r, h)
  BY <1>1, AgreesBind
<1> QED BY <1>2, SimUpdate

\* A fresh variable is not rooted.
LEMMA SimFresh ==
  ASSUME NEW f \in Flow, NEW g, NEW m \in Memory, NEW r \in SUBSET Loc, NEW h,
         NEW l \in Loc, NEW status, NEW shape, NEW d \in Data,
         Sim(f, m, r, h),
         Updates(f, g, l, Bind(status, "NotRooted", shape)), g.reach,
         d.kind \in shape, h \/ ~d.heap,
         status = "Active" => ~d.moved, status = "Untracked" => ~d.heap
  PROVE  Sim(g, [m EXCEPT ![l] = d], r \ {l}, h)
<1>1. Agrees(Bind(status, "NotRooted", shape), d, l \in r \ {l}, h)
  BY AgreesBind
<1> QED BY <1>1, SimUpdate

\* A registration.
LEMMA SimRegister ==
  ASSUME NEW f \in Flow, NEW g, NEW m \in Memory, NEW r \in SUBSET Loc, NEW h,
         NEW l \in Loc,
         Sim(f, m, r, h), Registers(f, g, l), g.reach
  PROVE  Sim(g, m, r \union {l}, h)
<1>1. /\ g \in Flow /\ g.lock = f.lock
      /\ f.env[l] # Absent
      /\ \A k \in Loc : k # l => g.env[k] = f.env[k]
      /\ g.env[l] = Bind(f.env[l].status, "Rooted", f.env[l].shape)
      /\ g.env[l] # Absent
  BY DEF Registers
<1>2. ASSUME NEW k \in Loc, Holds(m, k)
      PROVE  g.env[k] # Absent /\ Agrees(g.env[k], m[k], k \in r \union {l}, h)
  <2>1. f.env[k] # Absent /\ Agrees(f.env[k], m[k], k \in r, h)
    BY <1>2 DEF Sim, Describes
  <2>2. CASE k = l
    BY <1>1, <2>1, <2>2 DEF Agrees, Bind
  <2>3. CASE k # l
    BY <1>1, <2>1, <2>3 DEF Agrees
  <2> QED BY <2>2, <2>3
<1> QED BY <1>1, <1>2 DEF Sim, Describes

\* A collection, in the code that waits for it (h) or that releases the lock
\* after it (~h2).
LEMMA CollectDescribes ==
  ASSUME NEW f \in Flow, NEW d \in Flow, NEW m \in Memory, NEW r \in SUBSET Loc,
         NEW h, NEW h2, NEW S \in SUBSET Unprotected(m, r),
         Sim(f, m, r, h), Collects(f, d), d.reach
  PROVE  Describes(d.env, Collected(m, r, S), r, h2)
<1> DEFINE c == Collected(m, r, S)
<1>1. \A l \in Loc :
        /\ Holds(c, l) <=> Holds(m, l)
        /\ Holds(m, l) => /\ c[l].kind = m[l].kind
                          /\ c[l].heap = m[l].heap
                          /\ c[l].moved /\ ~m[l].moved => l \notin r /\ m[l].heap
  BY CollectedMemory
<1> HIDE DEF c
<1> SUFFICES ASSUME NEW l \in Loc, Holds(c, l)
             PROVE  d.env[l] # Absent /\ Agrees(d.env[l], c[l], l \in r, h2)
  BY DEF Describes, c
<1>2. /\ Holds(m, l) /\ m[l] \in Data
      /\ c[l].kind = m[l].kind /\ c[l].heap = m[l].heap
      /\ c[l].moved /\ ~m[l].moved => l \notin r /\ m[l].heap
  BY <1>1, MemoryHolds
<1> DEFINE e == f.env[l]
           e2 == CollectEntry(f.env[l])
<1>3. e # Absent /\ e \in ProperEntry /\ Agrees(e, m[l], l \in r, h)
  BY <1>2, SimEntry
<1>4. d.env[l] = e2
  BY <1>3 DEF Collects
<1>5. /\ e2 \in ProperEntry /\ e2.root = e.root /\ e2.shape = e.shape
      /\ e2.status \in {e.status, "Stale"}
      /\ e2.status = "Active" => e.root = "Rooted" \/ IsGuaranteedImmediate(e.shape)
  BY <1>3, CollectEntryFacts
<1> HIDE DEF e, e2
<1>6. e2 # Absent
  BY <1>5, ProperEntryIsEntry, AbsentAssumption
<1>7. e2.status = "Active" => l \in r \/ ~m[l].heap
  <2>1. e.root = "Rooted" => l \in r
    BY <1>3 DEF Agrees
  <2>2. IsGuaranteedImmediate(e.shape) => ~m[l].heap
    BY <1>2, <1>3, DatumFields, KindAssumption DEF Agrees, IsGuaranteedImmediate
  <2> QED BY <1>5, <2>1, <2>2
<1>8. e2.status = "Active" => ~c[l].moved
  <2>1. e2.status = "Active" => ~m[l].moved
    BY <1>3, <1>5 DEF Agrees
  <2> QED BY <1>2, <1>7, <2>1
<1>9. e2.status = "Untracked" => ~m[l].heap
  BY <1>3, <1>5 DEF Agrees
<1>10. e2.status \in {"Untracked", "Active", "Stale", TOP}
  BY <1>5 DEF ProperEntry, Status
<1>11. Agrees(e2, c[l], l \in r, h2)
  BY <1>2, <1>3, <1>5, <1>7, <1>8, <1>9, <1>10 DEF Agrees
<1> QED BY <1>4, <1>6, <1>11 DEF e2, e

\* A join with the flow of another branch describes whatever either did.
LEMMA JoinDescribes ==
  ASSUME NEW m \in ProperEnv, NEW n \in ProperEnv, NEW x, NEW r, NEW h,
         Describes(m, x, r, h) \/ Describes(n, x, r, h)
  PROVE  Describes(EnvJoin(m, n), x, r, h)
<1> SUFFICES ASSUME NEW l \in Loc, Holds(x, l)
             PROVE  /\ EnvJoin(m, n)[l] # Absent
                    /\ Agrees(EnvJoin(m, n)[l], x[l], l \in r, h)
  BY DEF Describes
<1>1. m[l] \in ProperEntry \union {Absent} /\ n[l] \in ProperEntry \union {Absent}
  BY DEF ProperEnv
<1>2. \/ m[l] # Absent /\ Agrees(m[l], x[l], l \in r, h)
      \/ n[l] # Absent /\ Agrees(n[l], x[l], l \in r, h)
  BY DEF Describes
<1>3. CASE m[l] = Absent \/ n[l] = Absent
  BY <1>2, <1>3 DEF EnvJoin
<1>4. CASE m[l] # Absent /\ n[l] # Absent
  <2> DEFINE e == m[l]
             f == n[l]
             j == EntryJoin(e, f)
  <2>1. e \in ProperEntry /\ f \in ProperEntry
    BY <1>1, <1>4
  <2>2. EnvJoin(m, n)[l] = j
    BY <1>4 DEF EnvJoin
  <2> HIDE DEF e, f
  <2>3. j \in ProperEntry
    BY <2>1, EntryJoinProper
  <2>4. j # Absent
    BY <2>3, ProperEntryIsEntry, AbsentAssumption
  <2>5. /\ e.status \in Status \union {TOP} /\ f.status \in Status \union {TOP}
        /\ e.root \in Roots \union {TOP} /\ f.root \in Roots \union {TOP}
        /\ e.shape \in Shape /\ f.shape \in Shape
    BY <2>1 DEF ProperEntry
  <2>6. /\ j.status = ConstJoin(e.status, f.status)
        /\ j.root = ConstJoin(e.root, f.root)
        /\ j.shape = ShapeJoin(e.shape, f.shape)
    BY DEF EntryJoin, Bind
  <2> HIDE DEF j
  <2>7. /\ j.status \in Status \union {TOP}
        /\ \A c \in Status : j.status = c => e.status = c /\ f.status = c
    BY <2>5, <2>6, FlatConstants, ConstJoinProper
  <2>8. \A c \in Roots : j.root = c => e.root = c /\ f.root = c
    BY <2>5, <2>6 DEF ConstJoin, Roots, BOT, TOP
  <2>9. e.shape \subseteq j.shape /\ f.shape \subseteq j.shape
    BY <2>5, <2>6, ShapeJoinUpper
  <2>10. Agrees(e, x[l], l \in r, h) \/ Agrees(f, x[l], l \in r, h)
    BY <1>2 DEF e, f
  <2>11. Agrees(j, x[l], l \in r, h)
    BY <2>5, <2>7, <2>8, <2>9, <2>10 DEF Agrees, Status, Roots, TOP
  <2> QED BY <2>2, <2>4, <2>11 DEF j
<1> QED BY <1>3, <1>4

\* The join of two flows describes what either of them does.
LEMMA JoinSim ==
  ASSUME NEW f \in Flow, NEW g \in Flow, NEW m, NEW r, NEW h \in BOOLEAN,
         Sim(f, m, r, h) \/ Sim(g, m, r, h)
  PROVE  Sim(JoinFlow(f, g), m, r, h)
<1> DEFINE j == JoinFlow(f, g)
<1>1. /\ ~f.reach => j.reach = g.reach /\ j.env = g.env /\ j.lock = g.lock
      /\ f.reach /\ ~g.reach => j.reach /\ j.env = f.env /\ j.lock = f.lock
      /\ f.reach /\ g.reach => /\ j.reach
                              /\ j.env = EnvJoin(f.env, g.env)
                              /\ j.lock = ConstJoin(f.lock, g.lock)
  BY JoinFlowFlow
<1> HIDE DEF j
<1>2. CASE ~f.reach \/ ~g.reach
  <2>1. CASE ~f.reach
    <3>1. Sim(g, m, r, h)
      BY <2>1 DEF Sim
    <3>2. Sim(j, m, r, h)
      BY <1>1, <2>1, <3>1 DEF Sim
    <3> QED BY <3>2 DEF j
  <2>2. CASE f.reach /\ ~g.reach
    <3>1. Sim(f, m, r, h)
      BY <2>2 DEF Sim
    <3>2. Sim(j, m, r, h)
      BY <1>1, <2>2, <3>1 DEF Sim
    <3> QED BY <3>2 DEF j
  <2> QED BY <1>2, <2>1, <2>2
<1>3. CASE f.reach /\ g.reach
  <2>1. j.reach /\ j.env = EnvJoin(f.env, g.env) /\ j.lock = ConstJoin(f.lock, g.lock)
    BY <1>1, <1>3
  <2>2. Describes(j.env, m, r, h)
    BY <2>1, FlowFields, JoinDescribes DEF Sim
  <2>3. f.lock \in {"Locked", "Unlocked", BOT, TOP} /\ g.lock \in {"Locked", "Unlocked", BOT, TOP}
    BY FlowFields DEF Flat, RuntimeLock
  <2>4. j.lock \in {TOP, IF h THEN "Locked" ELSE "Unlocked"}
    BY <2>1, <2>3 DEF Sim, ConstJoin, TOP, BOT
  <2>5. Sim(j, m, r, h)
    BY <2>1, <2>2, <2>4 DEF Sim
  <2> QED BY <2>5 DEF j
<1> QED BY <1>2, <1>3

=============================================================================
