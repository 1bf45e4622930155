------------------------- MODULE FfiSoundness_proofs -------------------------
(***************************************************************************)
(* Every state of FfiSoundness is well typed, and a stub that leaves its   *)
(* roots alone while it is unlocked and stays away from End_roots is       *)
(* described by the flow of its analysis, whatever its variables, kinds of *)
(* values and conditionals.  TypeOK and Described are inductive together.  *)
(*                                                                         *)
(* Then what the report of an analysis is worth: the step in which a run   *)
(* breaks a rule of the interface is the one the analysis reports, the     *)
(* analysis of a stub implements FfiContract, a double-root warning is     *)
(* never wrong, and without conditionals a value is only called stale      *)
(* after it was exposed.                                                   *)
(***************************************************************************)
EXTENDS FfiSoundness, FfiApi_proofs

Disciplined == ForbidUnlockedReads /\ ForbidEndRoots

IInv == TypeOK /\ (Disciplined => Described)

-----------------------------------------------------------------------------
(* The shape of a step.                                                    *)

\* Attempts are outcomes, and go well when each of their parts does.
LEMMA Attempts ==
  /\ NeedLock \in Run /\ (NeedLock = "ok" => held)
  /\ \A l : NeedUsable(l) \in Run /\ (NeedUsable(l) = "ok" => Usable(mem[l]))
  /\ \A l : NeedFollow(l) \in Run
  /\ \A ok \in BOOLEAN : Legal(ok) \in Run /\ (Legal(ok) = "ok" => ok)
  /\ \A a, b \in Run : /\ Then(a, b) \in Run
                       /\ Then(a, b) = "ok" => a = "ok" /\ b = "ok"
                       /\ Then(a, "done") \in Run /\ Then(a, "done") # "ok"
  BY DEF NeedLock, NeedUsable, NeedFollow, Legal, Then, Run, Breaking

\* A look into v goes well under the lock, on a usable value of these kinds.
LEMMA BlockAttempts ==
  ASSUME NEW v, NEW kinds
  PROVE  /\ NeedBlockOf(v, kinds) \in Run
         /\ NeedBlockOf(v, kinds) = "ok" =>
              held /\ Usable(mem[v]) /\ mem[v].kind \in kinds
<1>1. (mem[v].kind \in kinds) \in BOOLEAN
  OBVIOUS
<1> QED BY <1>1, Attempts DEF NeedBlockOf

\* A disciplined stub reads no heap pointer without the lock.
LEMMA ReadAttempts ==
  ASSUME NEW d
  PROVE  /\ MayRead(d) \in Run
         /\ MayRead(d) = "ok" /\ Disciplined => held \/ ~d.heap
<1>1. (ForbidUnlockedReads => (held \/ ~d.heap)) \in BOOLEAN
  OBVIOUS
<1> QED BY <1>1, Attempts DEF MayRead, Disciplined

\* What the memory must be like after the effect of a step.
After(g) ==
  /\ mem' \in Memory
  /\ rooted' \in SUBSET Loc
  /\ held' \in BOOLEAN
  /\ \A l \in Declared : Holds(mem', l)
  /\ Disciplined => Sim(g, mem', rooted', held')

StepTo(g, attempt) == Step(g, attempt, After(g))

\* While the run is here the flow describes it.
LEMMA HereFacts ==
  ASSUME IInv, Running
  PROVE  /\ flow \in Flow
         /\ mem \in Memory /\ rooted \in SUBSET Loc /\ held \in BOOLEAN
         /\ \A l \in Declared : l \in Loc /\ Holds(mem, l) /\ mem[l] \in Data
         /\ Disciplined => Sim(flow, mem, rooted, held)
<1>1. Point = flow
  BY DEF Running, Point
<1>2. Declared \subseteq Loc
  BY LocFacts DEF Declared
<1>3. \A l \in Declared : Holds(mem, l)
  BY DEF IInv, TypeOK, Running
<1>4. mem \in Memory
  BY DEF IInv, TypeOK
<1>5. \A l \in Declared : mem[l] \in Data
  BY <1>2, <1>3, <1>4, MemoryHolds
<1> QED BY <1>1, <1>2, <1>3, <1>4, <1>5 DEF IInv, TypeOK, Described, Running

\* A run that is over is described by anything.
LEMMA EndRunPreserves ==
  ASSUME IInv, NEW how \in Run \ {"ok"}, EndRun(how),
         flow' \in Flow, aside' \in Flow,
         phase' \in {"seq", "then", "else"}, side' \in {"then", "else"},
         left' \in 0 .. Conditionals
  PROVE  IInv'
<1>1. mem' \in Memory /\ rooted' \subseteq Loc /\ held' \in BOOLEAN
  BY DEF EndRun, Memory
<1>2. run' \in Run /\ run' # "ok"
  BY DEF EndRun
<1> QED BY <1>1, <1>2 DEF IInv, TypeOK, Described

\* The analysis is not where the run is, or the run is over.
LEMMA ElsewherePreserves ==
  ASSUME IInv, ~Running, flow' \in Flow, UNCHANGED <<aside, phase, side, left>>,
         UNCHANGED <<memory, run>>
  PROVE  IInv'
<1>1. TypeOK'
  BY DEF IInv, TypeOK, memory, Holds, Declared
<1>2. run' = "ok" => Point' = Point
  BY DEF Running, Point, Here
<1>3. mem' = mem /\ rooted' = rooted /\ held' = held /\ run' = run
  BY DEF memory
<1> QED BY <1>1, <1>2, <1>3 DEF IInv, Described

\* It is enough to look at the effect of a step that goes well.
LEMMA StepToPreserves ==
  ASSUME IInv, NEW g \in Flow, NEW attempt \in Run, StepTo(g, attempt)
  PROVE  IInv'
<1>1. /\ flow' = g
      /\ aside' = aside /\ phase' = phase /\ side' = side /\ left' = left
  BY DEF StepTo, Step
<1>2. /\ flow' \in Flow /\ aside' \in Flow
      /\ phase' \in {"seq", "then", "else"} /\ side' \in {"then", "else"}
      /\ left' \in 0 .. Conditionals
  BY <1>1 DEF IInv, TypeOK
<1>3. CASE ~Running
  BY <1>1, <1>2, <1>3, ElsewherePreserves DEF StepTo, Step
<1>4. CASE Running /\ (attempt # "ok" \/ ~g.reach)
  <2>1. \E how \in Run \ {"ok"} : EndRun(how)
    BY <1>4 DEF StepTo, Step, Run
  <2> QED BY <2>1, <1>2, EndRunPreserves
<1>5. CASE Running /\ attempt = "ok" /\ g.reach
  <2>1. After(g) /\ run' = "ok"
    BY <1>5 DEF StepTo, Step
  <2>2. TypeOK'
    BY <1>2, <2>1 DEF TypeOK, After, Run, Declared
  <2>3. Point' = flow'
    BY <1>1, <1>5 DEF Running, Point, Here
  <2> QED BY <1>1, <2>1, <2>2, <2>3 DEF IInv, Described, After
<1> QED BY <1>3, <1>4, <1>5

\* A step that leaves the memory alone.
LEMMA KeepAfter ==
  ASSUME IInv, Running, Keep, NEW g, Checked(flow, g), g.reach
  PROVE  After(g)
<1>1. mem' = mem /\ rooted' = rooted /\ held' = held
  BY DEF Keep, memory
<1> QED BY <1>1, HereFacts, SimChecked DEF After

\* A store.
LEMMA StoreAfter ==
  ASSUME IInv, Running, NEW g, NEW l \in Loc, NEW d \in Data, Store(l, d),
         Disciplined => Sim(g, [mem EXCEPT ![l] = d], rooted, held)
  PROVE  After(g)
<1>1. mem' = [mem EXCEPT ![l] = d] /\ rooted' = rooted /\ held' = held
  BY DEF Store
<1>2. \A k \in Declared : Holds(mem', k)
  BY <1>1, HereFacts, StoreMemory
<1> QED BY <1>1, <1>2, HereFacts, StoreMemory DEF After

-----------------------------------------------------------------------------
(* Plain C statements.                                                     *)

\* An assignment of the analysis beside a store to the same variable.
LEMMA AssignAfter ==
  ASSUME IInv, Running, NEW g, NEW l \in Loc, NEW d \in Data, NEW status, NEW shape,
         Store(l, d), Holds(mem, l), g.reach,
         Updates(flow, g, l, Bind(status, RootAfter(flow, l), shape)),
         Disciplined => /\ d.kind \in shape /\ (held \/ ~d.heap)
                        /\ status = "Active" => ~d.moved
                        /\ status = "Untracked" => ~d.heap
  PROVE  After(g)
<1>1. Disciplined => Sim(g, [mem EXCEPT ![l] = d], rooted, held)
  BY HereFacts, SimAssign
<1> QED BY <1>1, StoreAfter

\* x = y.
LEMMA CopyPreserves ==
  ASSUME IInv, NEW x \in Vals, NEW y \in Vals, Copy(x, y)
  PROVE  IInv'
<1> DEFINE g == CopyVal(flow, x, y)
           t == MayRead(mem[y])
           status == StatusVar(flow, y)
           shape == ShapesVar(flow, y)
<1>0. flow \in Flow /\ x \in Loc /\ y \in Loc /\ x \in Declared /\ y \in Declared
  BY LocFacts DEF IInv, TypeOK, Declared
<1>1. Updates(flow, g, x, Bind(status, RootAfter(flow, x), shape))
  BY <1>0, CopyValUpdates
<1>2. g \in Flow /\ t \in Run /\ (t = "ok" /\ Disciplined => held \/ ~mem[y].heap)
  BY <1>1, ReadAttempts DEF Updates, Progress
<1>3. Step(g, t, Store(x, mem[y]))
  BY DEF Copy
<1> HIDE DEF g, t
<1>4. ASSUME Running, t = "ok", g.reach, Store(x, mem[y])
      PROVE  After(g)
  <2>1. mem[y] \in Data /\ Holds(mem, x) /\ Holds(mem, y)
    BY <1>0, <1>4, HereFacts
  <2>2. Disciplined => /\ mem[y].kind \in shape
                       /\ status = "Active" => ~mem[y].moved
                       /\ status = "Untracked" => ~mem[y].heap
    BY <1>0, <1>4, <2>1, HereFacts, SimEntry
  <2> HIDE DEF status, shape
  <2> QED BY <1>0, <1>1, <1>2, <1>4, <2>1, <2>2, AssignAfter
<1>5. StepTo(g, t)
  BY <1>3, <1>4 DEF Step, StepTo
<1> QED BY <1>2, <1>5, StepToPreserves

\* x = constant.
LEMMA ConstantPreserves ==
  ASSUME IInv, NEW x \in Vals, Constant(x)
  PROVE  IInv'
<1> DEFINE g == AssignConst(flow, x)
<1>0. flow \in Flow /\ x \in Loc /\ x \in Declared /\ "ok" \in Run
  BY LocFacts DEF IInv, TypeOK, Declared, Run
<1>1. Updates(flow, g, x, Bind("Untracked", RootAfter(flow, x), NonOCamlValue))
  BY <1>0, AssignConstUpdates
<1>2. g \in Flow
  BY <1>1 DEF Updates, Progress
<1>3. Step(g, "ok", Store(x, CDatum))
  BY DEF Constant
<1> HIDE DEF g
<1>4. ASSUME Running, g.reach, Store(x, CDatum)
      PROVE  After(g)
  <2>1. Holds(mem, x) /\ NonValue \in NonOCamlValue
    BY <1>0, <1>4, HereFacts DEF NonOCamlValue
  <2> QED BY <1>0, <1>1, <1>4, <2>1, DataFacts, AssignAfter
<1>5. StepTo(g, "ok")
  BY <1>3, <1>4 DEF Step, StepTo
<1> QED BY <1>0, <1>2, <1>5, StepToPreserves

\* x = y op z.
LEMMA BinopPreserves ==
  ASSUME IInv, NEW x \in Vals, NEW y \in Vals, NEW z \in Vals, Binop(x, y, z)
  PROVE  IInv'
<1> DEFINE g == AssignBinop(flow, x, y, z)
           t == Then(MayRead(mem[y]), MayRead(mem[z]))
           d == Arithmetic(mem[y], mem[z])
           status == StatusBinop(StatusVar(flow, y), StatusVar(flow, z))
<1>0. /\ flow \in Flow /\ x \in Loc /\ y \in Loc /\ z \in Loc
      /\ x \in Declared /\ y \in Declared /\ z \in Declared
  BY LocFacts DEF IInv, TypeOK, Declared
<1>1. Updates(flow, g, x, Bind(status, RootAfter(flow, x), NonOCamlValue))
  BY <1>0, AssignBinopUpdates
<1>2. /\ g \in Flow /\ t \in Run
      /\ t = "ok" /\ Disciplined => (held \/ ~mem[y].heap) /\ (held \/ ~mem[z].heap)
  BY <1>1, ReadAttempts, Attempts DEF Updates, Progress
<1>3. Step(g, t, Store(x, d))
  BY DEF Binop
<1> HIDE DEF g, t, status
<1>4. ASSUME Running, t = "ok", g.reach, Store(x, d)
      PROVE  After(g)
  <2>1. /\ mem[y] \in Data /\ mem[z] \in Data
        /\ Holds(mem, x) /\ Holds(mem, y) /\ Holds(mem, z)
    BY <1>0, <1>4, HereFacts
  <2>2. /\ d \in Data /\ d.kind = NonValue
        /\ d.heap = (mem[y].heap \/ mem[z].heap)
        /\ d.moved = (mem[y].moved \/ mem[z].moved)
    BY <2>1, ArithmeticFacts
  <2> HIDE DEF d
  <2>3. /\ mem[y].moved => mem[y].heap
        /\ mem[z].moved => mem[z].heap
    BY <2>1, DatumFields
  <2>4. ASSUME Disciplined
        PROVE  /\ status = "Active" => ~d.moved
               /\ status = "Untracked" => ~d.heap
    <3>1. /\ StatusVar(flow, y) = "Active" => ~mem[y].moved
          /\ StatusVar(flow, y) = "Untracked" => ~mem[y].heap
          /\ StatusVar(flow, z) = "Active" => ~mem[z].moved
          /\ StatusVar(flow, z) = "Untracked" => ~mem[z].heap
      BY <1>0, <1>4, <2>1, <2>4, HereFacts, SimEntry
    <3>2. /\ status = "Untracked" => /\ StatusVar(flow, y) = "Untracked"
                                    /\ StatusVar(flow, z) = "Untracked"
          /\ status = "Active" => /\ StatusVar(flow, y) \in {"Untracked", "Active"}
                                 /\ StatusVar(flow, z) \in {"Untracked", "Active"}
      BY <1>0, Lookups, StatusBinopProper DEF status
    <3> QED BY <2>2, <2>3, <3>1, <3>2
  <2>5. NonValue \in NonOCamlValue
    BY DEF NonOCamlValue
  <2> QED BY <1>0, <1>1, <1>2, <1>4, <2>1, <2>2, <2>4, <2>5, AssignAfter
<1>5. StepTo(g, t)
  BY <1>3, <1>4 DEF Step, StepTo
<1> QED BY <1>2, <1>5, StepToPreserves

\* x = *p.
LEMMA LoadPreserves ==
  ASSUME IInv, NEW x \in Vals, NEW p \in Ptrs, Load(x, p)
  PROVE  IInv'
<1> DEFINE c == CellOf[p]
           g == LoadPtr(flow, x, p)
           holds == Holds(mem, c)
           t == Then(NeedFollow(p), Then(Legal(holds), MayRead(mem[c])))
           status == StatusVar(flow, c)
           shape == ShapesVar(flow, c)
<1>0. flow \in Flow /\ x \in Loc /\ c \in Loc /\ x \in Declared
  BY LocFacts DEF IInv, TypeOK, Declared
<1>1. Updates(flow, g, x, Bind(status, RootAfter(flow, x), shape))
  BY LoadPtrUpdates, <1>0
<1>2. /\ g \in Flow /\ t \in Run
      /\ t = "ok" => Holds(mem, c) /\ (Disciplined => held \/ ~mem[c].heap)
  <2>1. holds \in BOOLEAN
    BY DEF Holds
  <2> HIDE DEF holds
  <2>2. t \in Run /\ (t = "ok" => holds /\ (Disciplined => held \/ ~mem[c].heap))
    BY <2>1, ReadAttempts, Attempts
  <2> QED BY <1>1, <2>2 DEF Updates, Progress, holds
<1>3. Step(g, t, Store(x, mem[c]))
  BY DEF Load
<1> HIDE DEF g, t, c
<1>4. ASSUME Running, t = "ok", g.reach, Store(x, mem[c])
      PROVE  After(g)
  <2>1. mem[c] \in Data /\ Holds(mem, x) /\ Holds(mem, c)
    BY <1>0, <1>2, <1>4, HereFacts, MemoryHolds
  <2>2. Disciplined => /\ mem[c].kind \in shape
                       /\ status = "Active" => ~mem[c].moved
                       /\ status = "Untracked" => ~mem[c].heap
    BY <1>0, <1>4, <2>1, HereFacts, SimEntry
  <2> HIDE DEF status, shape
  <2> QED BY <1>0, <1>1, <1>2, <1>4, <2>1, <2>2, AssignAfter
<1>5. StepTo(g, t)
  BY <1>3, <1>4 DEF Step, StepTo
<1> QED BY <1>2, <1>5, StepToPreserves

\* *p = w.
LEMMA AssignPreserves ==
  ASSUME IInv, NEW p \in Ptrs, NEW w \in Vals, Assign(p, w)
  PROVE  IInv'
<1> DEFINE c == CellOf[p]
           g == StorePtr(flow, p, w)
           same == Holds(mem, c) /\ mem[c].kind = mem[w].kind
           t == Then(NeedFollow(p), Then(Legal(same), MayRead(mem[w])))
           status == StatusVar(flow, w)
           shape == ShapesVar(flow, w)
<1>0. flow \in Flow /\ w \in Loc /\ c \in Loc /\ w \in Declared
  BY LocFacts DEF IInv, TypeOK, Declared
<1>1. Updates(flow, g, c, Bind(status, RootAfter(flow, c), shape))
  BY StorePtrUpdates, <1>0
<1>2. /\ g \in Flow /\ t \in Run
      /\ t = "ok" => Holds(mem, c) /\ (Disciplined => held \/ ~mem[w].heap)
  <2>1. same \in BOOLEAN /\ (same => Holds(mem, c))
    BY DEF Holds
  <2> HIDE DEF same
  <2>2. t \in Run /\ (t = "ok" => same /\ (Disciplined => held \/ ~mem[w].heap))
    BY <2>1, ReadAttempts, Attempts
  <2> QED BY <1>1, <2>1, <2>2 DEF Updates, Progress
<1>3. Step(g, t, Store(c, mem[w]))
  BY DEF Assign, SameKind
<1> HIDE DEF g, t, c
<1>4. ASSUME Running, t = "ok", g.reach, Store(c, mem[w])
      PROVE  After(g)
  <2>1. mem[w] \in Data /\ Holds(mem, w) /\ Holds(mem, c)
    BY <1>0, <1>2, <1>4, HereFacts
  <2>2. Disciplined => /\ mem[w].kind \in shape
                       /\ status = "Active" => ~mem[w].moved
                       /\ status = "Untracked" => ~mem[w].heap
    BY <1>0, <1>4, <2>1, HereFacts, SimEntry
  <2> HIDE DEF status, shape
  <2> QED BY <1>0, <1>1, <1>2, <1>4, <2>1, <2>2, AssignAfter
<1>5. StepTo(g, t)
  BY <1>3, <1>4 DEF Step, StepTo
<1> QED BY <1>2, <1>5, StepToPreserves

\* A step that only looks.
LEMMA LookPreserves ==
  ASSUME IInv, NEW g, NEW attempt \in Run, Checked(flow, g), Step(g, attempt, Keep)
  PROVE  IInv'
<1>1. g \in Flow
  BY DEF Checked
<1>2. StepTo(g, attempt)
  BY KeepAfter DEF Step, StepTo
<1> QED BY <1>1, <1>2, StepToPreserves

\* Reads behind a pointer, external calls, Long_val and inspections.
LEMMA LooksPreserve ==
  ASSUME IInv
  PROVE  /\ \A s \in CharPtrs : ReadChar(s) => IInv'
         /\ \A x \in Vals : ExtCall(x) => IInv'
         /\ \A v \in Vals : LongVal(v) => IInv'
         /\ \A v \in Vals, kinds \in AllocShapes : Inspect(v, kinds) => IInv'
<1>0. flow \in Flow
  BY DEF IInv, TypeOK
<1>1. ASSUME NEW s \in CharPtrs, ReadChar(s) PROVE IInv'
  <2>1. Checked(flow, LoadChar(flow, s))
    BY <1>0, LoadCharChecked
  <2>2. NeedFollow(s) \in Run
    BY Attempts
  <2> QED BY <1>1, <2>1, <2>2, LookPreserves DEF ReadChar
<1>2. ASSUME NEW x \in Vals, ExtCall(x) PROVE IInv'
  <2>1. Checked(flow, ExecExtCallArg(flow, x))
    BY <1>0, LocFacts, ExecExtCallArgChecked
  <2>2. NeedFollow(x) \in Run
    BY Attempts
  <2> QED BY <1>2, <2>1, <2>2, LookPreserves DEF ExtCall
<1>3. ASSUME NEW v \in Vals, LongVal(v) PROVE IInv'
  <2>1. Checked(flow, ValAsLong(flow, v))
    BY <1>0, LocFacts, ValAsLongChecked
  <2>2. (mem[v].kind = Imm) \in BOOLEAN
    OBVIOUS
  <2>3. Legal(mem[v].kind = Imm) \in Run
    BY <2>2, Attempts
  <2> QED BY <1>3, <2>1, <2>3, LookPreserves DEF LongVal
<1>4. ASSUME NEW v \in Vals, NEW kinds \in AllocShapes, Inspect(v, kinds) PROVE IInv'
  <2>1. Checked(flow, CamlInspect(flow, v, kinds))
    BY <1>0, LocFacts, AssertBlockOfChecked DEF CamlInspect
  <2>2. NeedBlockOf(v, kinds) \in Run
    BY BlockAttempts
  <2> QED BY <1>4, <2>1, <2>2, LookPreserves DEF Inspect
<1> QED BY <1>1, <1>2, <1>3, <1>4

-----------------------------------------------------------------------------
(* Values.                                                                 *)

\* x = Val_long(n).
LEMMA ValLongPreserves ==
  ASSUME IInv, NEW x \in Vals, ValLong(x)
  PROVE  IInv'
<1> DEFINE g == ValOfLong(flow, x)
<1>0. flow \in Flow /\ x \in Loc /\ x \in Declared /\ "ok" \in Run
  BY LocFacts DEF IInv, TypeOK, Declared, Run
<1>1. Updates(flow, g, x, Bind("Active", RootAfter(flow, x), {Imm}))
  BY <1>0, CheckedRefl, ProperConstants, ReturnValueUpdates DEF ValOfLong
<1>2. g \in Flow
  BY <1>1 DEF Updates, Progress
<1>3. Step(g, "ok", Store(x, ValueOf(Imm)))
  BY DEF ValLong
<1> HIDE DEF g
<1>4. ASSUME Running, g.reach, Store(x, ValueOf(Imm))
      PROVE  After(g)
  <2>1. /\ ValueOf(Imm) \in Data /\ ValueOf(Imm).kind = Imm
        /\ ~ValueOf(Imm).moved /\ ~ValueOf(Imm).heap
    BY DataFacts, KindAssumption
  <2>2. Holds(mem, x)
    BY <1>0, <1>4, HereFacts
  <2>3. Imm \in {Imm} /\ "Active" # "Untracked"
    OBVIOUS
  <2> QED BY <1>0, <1>1, <1>4, <2>1, <2>2, <2>3, AssignAfter
<1>5. StepTo(g, "ok")
  BY <1>3, <1>4 DEF Step, StepTo
<1> QED BY <1>0, <1>2, <1>5, StepToPreserves

\* The fields of a usable block of the right kind.
LEMMA FieldKinds ==
  ASSUME IInv, Running, NEW v \in Vals, NEW index \in BOOLEAN,
         mem[v].kind \in StdBlock, NEW k \in FieldOf[mem[v].kind]
  PROVE  /\ k \in Kind
         /\ Disciplined => k \in ShapeAt(flow, v, index)
<1>0. v \in Loc /\ v \in Declared
  BY LocFacts DEF Declared
<1>1. k \in Kind
  BY KindAssumption
<1>2. ASSUME Disciplined PROVE k \in ShapeAt(flow, v, index)
  <2>1. mem[v].kind \in ShapesVar(flow, v)
    BY <1>0, <1>2, HereFacts, SimEntry
  <2> QED BY <1>0, <2>1, HereFacts, ShapeAtProper
<1> QED BY <1>1, <1>2

\* x = Field(v, i).
LEMMA FieldPreserves ==
  ASSUME IInv, NEW x \in Vals, NEW v \in Vals, NEW index \in BOOLEAN,
         Field(x, v, index)
  PROVE  IInv'
<1> DEFINE g == ReadField(flow, x, v, index)
           t == NeedBlockOf(v, StdBlock)
           shape == ShapeAt(flow, v, index)
<1>0. flow \in Flow /\ x \in Loc /\ v \in Loc /\ x \in Declared
  BY LocFacts DEF IInv, TypeOK, Declared
<1>1. Updates(flow, g, x, Bind("Active", RootAfter(flow, x), shape))
  BY <1>0, ReadFieldUpdates
<1>2. g \in Flow /\ t \in Run /\ (t = "ok" => held /\ mem[v].kind \in StdBlock)
  BY <1>1, BlockAttempts DEF Updates, Progress
<1>3. Step(g, t, \E k \in FieldOf[mem[v].kind] : Store(x, ValueOf(k)))
  BY DEF Field
<1> HIDE DEF g, t, shape
<1>4. ASSUME Running, t = "ok", g.reach,
             NEW k \in FieldOf[mem[v].kind], Store(x, ValueOf(k))
      PROVE  After(g)
  <2>1. k \in Kind /\ (Disciplined => k \in shape)
    BY <1>2, <1>4, FieldKinds DEF shape
  <2>2. /\ ValueOf(k) \in Data /\ ValueOf(k).kind = k /\ ~ValueOf(k).moved
        /\ Holds(mem, x)
    BY <1>0, <1>4, <2>1, DataFacts, HereFacts
  <2>3. "Active" # "Untracked"
    OBVIOUS
  <2> QED BY <1>0, <1>1, <1>2, <1>4, <2>1, <2>2, <2>3, AssignAfter
<1>5. StepTo(g, t)
  BY <1>3, <1>4 DEF Step, StepTo
<1> QED BY <1>2, <1>5, StepToPreserves

\* s = String_val(v).
LEMMA StringValPreserves ==
  ASSUME IInv, NEW s \in CharPtrs, NEW v \in Vals, StringVal(s, v)
  PROVE  IInv'
<1> DEFINE g == ValAsString(flow, s, v)
           t == NeedBlockOf(v, {Str})
<1>0. flow \in Flow /\ s \in Loc /\ s \in Declared
  BY LocFacts DEF IInv, TypeOK, Declared
<1>1. Updates(flow, g, s, Bind("Active", RootAfter(flow, s), NonOCamlValue))
  BY <1>0, ValAsStringUpdates
<1>2. g \in Flow /\ t \in Run /\ (t = "ok" => held)
  BY <1>1, BlockAttempts DEF Updates, Progress
<1>3. Step(g, t, Store(s, HeapPointer))
  BY DEF StringVal
<1> HIDE DEF g, t
<1>4. ASSUME Running, t = "ok", g.reach, Store(s, HeapPointer)
      PROVE  After(g)
  <2>1. Holds(mem, s) /\ NonValue \in NonOCamlValue /\ "Active" # "Untracked"
    BY <1>0, <1>4, HereFacts DEF NonOCamlValue
  <2> QED BY <1>0, <1>1, <1>2, <1>4, <2>1, DataFacts, AssignAfter
<1>5. StepTo(g, t)
  BY <1>3, <1>4 DEF Step, StepTo
<1> QED BY <1>2, <1>5, StepToPreserves

\* caml_set_field(v, i, w).
LEMMA SetFieldPreserves ==
  ASSUME IInv, NEW v \in Vals, NEW w \in Vals, NEW index \in BOOLEAN,
         SetField(v, w, index)
  PROVE  IInv'
<1> DEFINE g == CamlSetField(flow, v, w, index)
           block == mem[v].kind \in StdBlock
           typed == mem[w].kind \in FieldOf[mem[v].kind]
           t == Then(NeedLock, Then(NeedUsable(v), Then(NeedUsable(w),
                Then(Legal(block), Legal(typed)))))
<1>0. flow \in Flow /\ v \in Loc /\ w \in Loc
  BY LocFacts DEF IInv, TypeOK
<1>1. Checked(flow, g)
  BY <1>0, CamlSetFieldChecked
<1>2. t \in Run
  <2>1. block \in BOOLEAN /\ typed \in BOOLEAN
    OBVIOUS
  <2> HIDE DEF block, typed
  <2> QED BY <2>1, Attempts
<1>3. Step(g, t, Keep)
  BY DEF SetField
<1> QED BY <1>1, <1>2, <1>3, LookPreserves

\* The value behind the pointer is replaced by one of its kind.
LEMMA ModifyPreserves ==
  ASSUME IInv, NEW p \in Ptrs, NEW w \in Vals, Modify(p, w)
  PROVE  IInv'
<1> DEFINE c == CellOf[p]
           g == CamlModify(flow, p, w)
           holds == Holds(mem, c)
           same == Holds(mem, c) /\ mem[c].kind = mem[w].kind
           usable == Usable(mem[w])
           t == Then(NeedLock, Then(NeedFollow(p), Then(Legal(holds),
                Then(NeedUsable(c), Then(Legal(same), Legal(usable))))))
<1>0. flow \in Flow /\ w \in Loc /\ w \in Declared /\ c \in Loc
  BY LocFacts DEF IInv, TypeOK, Declared
<1>1. Checked(flow, g) /\ g \in Flow
  BY CamlModifyChecked, <1>0 DEF Checked
<1>2. /\ t \in Run
      /\ t = "ok" => /\ held /\ Holds(mem, c) /\ Usable(mem[c]) /\ Usable(mem[w])
                     /\ mem[c].kind = mem[w].kind
  <2>1. /\ holds \in BOOLEAN /\ same \in BOOLEAN /\ usable \in BOOLEAN
        /\ (same => Holds(mem, c) /\ mem[c].kind = mem[w].kind)
    BY DEF Holds, Usable
  <2> HIDE DEF holds, same, usable
  <2>2. /\ t \in Run
        /\ t = "ok" => held /\ same /\ Usable(mem[c]) /\ usable
    BY <2>1, Attempts
  <2> QED BY <2>1, <2>2 DEF usable
<1>3. Step(g, t, Store(c, mem[w]))
  BY DEF Modify, SameKind
<1> HIDE DEF g, t, c
<1>4. ASSUME Running, t = "ok", g.reach, Store(c, mem[w])
      PROVE  After(g)
  <2>1. mem[w] \in Data /\ mem[c] \in Data /\ mem \in Memory
    BY <1>0, <1>2, <1>4, HereFacts, MemoryHolds
  <2>2. mem[w].heap = mem[c].heap /\ ~mem[w].moved
    BY <1>2, <1>4, <2>1, DatumFields DEF Usable
  <2>3. ASSUME Disciplined
        PROVE  Sim(g, [mem EXCEPT ![c] = mem[w]], rooted, held)
    <3> DEFINE m2 == [mem EXCEPT ![c] = mem[w]]
    <3>1. Sim(flow, mem, rooted, held)
      BY <1>4, <2>3, HereFacts
    <3>2. \A k \in Loc : k # c => m2[k] = mem[k]
      BY <2>1 DEF Memory
    <3>3. m2[c] = mem[w]
      BY <1>0, <2>1 DEF Memory
    <3> HIDE DEF m2
    <3>4. Describes(flow.env, m2, rooted, held)
      <4> SUFFICES ASSUME NEW k \in Loc, Holds(m2, k)
                   PROVE  /\ flow.env[k] # Absent
                          /\ Agrees(flow.env[k], m2[k], k \in rooted, held)
        BY DEF Describes
      <4>1. CASE k = c
        <5>1. /\ flow.env[c] # Absent
              /\ Agrees(flow.env[c], mem[c], c \in rooted, held)
          BY <1>0, <1>2, <1>4, <3>1 DEF Sim, Describes
        <5> QED BY <4>1, <5>1, <3>3, <2>2, <1>2, <1>4 DEF Agrees
      <4>2. CASE k # c
        BY <3>1, <3>2, <4>2 DEF Sim, Describes, Holds
      <4> QED BY <4>1, <4>2
    <3>5. Sim(flow, m2, rooted, held)
      BY <3>1, <3>4 DEF Sim
    <3>6. Sim(g, m2, rooted, held)
      BY <3>5, <1>1, <1>4, SimChecked
    <3> QED BY <3>6 DEF m2
  <2> QED BY <1>0, <1>4, <2>1, <2>3, StoreAfter
<1>5. StepTo(g, t)
  BY <1>3, <1>4 DEF Step, StepTo
<1> QED BY <1>1, <1>2, <1>5, StepToPreserves

\* A cell, then the pointer to it.
LEMMA AddrFieldPreserves ==
  ASSUME IInv, NEW p \in Ptrs, NEW v \in Vals, NEW index \in BOOLEAN,
         AddrField(p, v, index)
  PROVE  IInv'
<1> DEFINE c == CellOf[p]
           g == CamlField(flow, p, v, index)
           t == NeedBlockOf(v, StdBlock)
           shape == ShapeAt(flow, v, index)
<1>0. /\ flow \in Flow /\ p \in Loc /\ c \in Loc /\ p # c /\ p \in Declared
      /\ c \notin Declared
  BY LocFacts DEF IInv, TypeOK, Declared
<1>1. PICK b \in Flow :
        /\ Updates(flow, b, c, Bind("Active", "NotRooted", shape))
        /\ Updates(b, g, p, Bind("Active", RootAfter(b, p), NonOCamlValue))
  BY <1>0, CamlFieldUpdates
<1>2. g \in Flow /\ t \in Run /\ (t = "ok" => held /\ mem[v].kind \in StdBlock)
  BY <1>1, BlockAttempts DEF Updates, Progress
<1>3. Step(g, t, /\ \E k \in FieldOf[mem[v].kind] :
                      mem' = [mem EXCEPT ![c] = ValueOf(k), ![p] = HeapPointer]
                 /\ rooted' = rooted \ {c}
                 /\ UNCHANGED held)
  BY DEF AddrField
<1> HIDE DEF g, t, c, shape
<1>4. ASSUME Running, t = "ok", g.reach,
             NEW k \in FieldOf[mem[v].kind],
             mem' = [mem EXCEPT ![c] = ValueOf(k), ![p] = HeapPointer],
             rooted' = rooted \ {c}, held' = held
      PROVE  After(g)
  <2> DEFINE m1 == [mem EXCEPT ![c] = ValueOf(k)]
             m2 == [m1 EXCEPT ![p] = HeapPointer]
  <2>0. k \in Kind /\ (Disciplined => k \in shape)
    BY <1>2, <1>4, FieldKinds DEF shape
  <2>1. /\ mem \in Memory /\ rooted \in SUBSET Loc /\ held \in BOOLEAN
        /\ ValueOf(k) \in Data /\ ValueOf(k).kind = k /\ ~ValueOf(k).moved
        /\ HeapPointer \in Data /\ HeapPointer.kind = NonValue /\ ~HeapPointer.moved
    BY <1>4, <2>0, HereFacts, DataFacts
  <2>2. m1 \in Memory /\ \A l \in Loc : Holds(mem, l) => Holds(m1, l)
    BY <1>0, <2>1, StoreMemory
  <2>3. m2 \in Memory /\ \A l \in Loc : Holds(m1, l) => Holds(m2, l)
    BY <1>0, <2>1, <2>2, StoreMemory
  <2>4. mem' = m2
    BY <1>4
  <2>5. \A l \in Declared : Holds(m1, l) /\ Holds(m2, l)
    BY <1>4, <2>2, <2>3, HereFacts
  <2>6. ASSUME Disciplined PROVE Sim(g, m2, rooted \ {c}, held)
    <3>1. Sim(flow, mem, rooted, held) /\ b.reach
      BY <1>1, <1>4, <2>6, HereFacts DEF Updates
    <3>2. "Active" # "Untracked" /\ NonValue \in NonOCamlValue
      BY DEF NonOCamlValue
    <3>3. held /\ ValueOf(k).kind \in shape
      BY <1>2, <1>4, <2>0, <2>1, <2>6
    <3>4. Sim(b, m1, rooted \ {c}, held)
      BY <1>0, <1>1, <2>1, <3>1, <3>2, <3>3, SimFresh
    <3> HIDE DEF m1
    <3>5. Holds(m1, p) /\ g.reach
      BY <1>0, <1>4, <2>5
    <3> QED BY <1>0, <1>1, <2>1, <2>2, <3>2, <3>3, <3>4, <3>5, SimAssign
  <2> HIDE DEF m1, m2
  <2> QED BY <1>4, <2>1, <2>3, <2>4, <2>5, <2>6 DEF After
<1>5. StepTo(g, t)
  BY <1>3, <1>4 DEF Step, StepTo
<1> QED BY <1>2, <1>5, StepToPreserves

-----------------------------------------------------------------------------
(* Allocation, roots, lock.                                                *)

\* A collection, then a fresh value.
LEMMA AllocatePreserves ==
  ASSUME IInv, NEW x \in Vals, NEW shape, NEW kinds \in SUBSET Kind,
         kinds \subseteq shape, NEW g, NEW t \in Run, t = "ok" => held,
         Allocates(flow, g, x, shape), Step(g, t, \E k \in kinds : CollectAndStore(x, k))
  PROVE  IInv'
<1>0. flow \in Flow /\ x \in Loc /\ x \in Declared
  BY LocFacts DEF IInv, TypeOK, Declared
<1>1. PICK d \in Flow : /\ Collects(flow, d)
                        /\ Updates(d, g, x, Bind("Active", RootAfter(d, x), shape))
  BY DEF Allocates
<1>2. g \in Flow
  BY <1>1 DEF Updates, Progress
<1>3. ASSUME Running, t = "ok", g.reach, NEW k \in kinds, CollectAndStore(x, k)
      PROVE  After(g)
  <2>1. PICK S \in SUBSET Unprotected(mem, rooted) :
          mem' = [Collected(mem, rooted, S) EXCEPT ![x] = ValueOf(k)]
    BY <1>3 DEF CollectAndStore
  <2>2. rooted' = rooted /\ held' = held /\ held
    BY <1>3 DEF CollectAndStore
  <2> DEFINE c == Collected(mem, rooted, S)
             m2 == [c EXCEPT ![x] = ValueOf(k)]
  <2>3. /\ mem \in Memory /\ rooted \in SUBSET Loc /\ held \in BOOLEAN
        /\ \A l \in Declared : l \in Loc /\ Holds(mem, l)
        /\ ValueOf(k) \in Data /\ ValueOf(k).kind = k /\ ~ValueOf(k).moved
    BY <1>3, HereFacts, DataFacts
  <2>4. c \in Memory /\ \A l \in Loc : Holds(c, l) <=> Holds(mem, l)
    BY <2>3, CollectedMemory
  <2>5. ASSUME Disciplined PROVE Sim(g, m2, rooted, held)
    <3>1. Sim(flow, mem, rooted, held) /\ d.reach
      BY <1>1, <1>3, <2>5, HereFacts DEF Updates
    <3>2. Describes(d.env, c, rooted, held)
      BY <1>0, <2>3, <3>1, <1>1, CollectDescribes
    <3> HIDE DEF c
    <3>3. Sim(d, c, rooted, held)
      BY <1>1, <3>1, <3>2 DEF Sim, Collects
    <3>4. Holds(c, x) /\ k \in shape /\ "Active" # "Untracked"
      BY <1>0, <1>3, <2>3, <2>4
    <3> QED BY <1>0, <1>1, <1>3, <2>2, <2>3, <2>4, <3>3, <3>4, SimAssign
  <2> HIDE DEF c
  <2>6. m2 \in Memory /\ \A l \in Declared : Holds(m2, l)
    BY <1>0, <2>3, <2>4, StoreMemory
  <2>7. mem' = m2
    BY <2>1 DEF c
  <2> HIDE DEF m2
  <2> QED BY <2>2, <2>3, <2>5, <2>6, <2>7 DEF After
<1>4. StepTo(g, t)
  BY <1>3 DEF Step, StepTo
<1> QED BY <1>2, <1>4, StepToPreserves

\* x = caml_alloc(...).
LEMMA AllocPreserves ==
  ASSUME IInv, NEW x \in Vals, NEW shape \in AllocShapes, Alloc(x, shape)
  PROVE  IInv'
<1>0. flow \in Flow /\ x \in Loc
  BY LocFacts DEF IInv, TypeOK
<1>1. shape \in SUBSET Kind /\ shape # {}
  BY ShapesAssumption
<1>2. shape \in ProperShape
  BY <1>1, ProperConstants
<1>3. Allocates(flow, CamlAlloc(flow, x, shape), x, shape)
  BY <1>0, <1>2, CamlAllocAllocates
<1>4. NeedLock \in Run /\ (NeedLock = "ok" => held)
  BY Attempts
<1>5. Step(CamlAlloc(flow, x, shape), NeedLock, \E k \in shape : CollectAndStore(x, k))
  BY DEF Alloc
<1> QED BY <1>1, <1>3, <1>4, <1>5, AllocatePreserves

\* x = caml_alloc_some(v).
LEMMA AllocSomePreserves ==
  ASSUME IInv, NEW x \in Vals, NEW v \in Vals, AllocSome(x, v)
  PROVE  IInv'
<1> DEFINE g == CamlAllocSome(flow, x, v)
           fits == Usable(mem[v]) /\ SomeOf(v) # {}
           t == Then(NeedLock, Legal(fits))
           kinds == SomeOf(v)
<1>0. flow \in Flow /\ x \in Loc /\ v \in Loc
  BY LocFacts DEF IInv, TypeOK
<1>1. kinds \in SUBSET Kind /\ kinds \subseteq StdBlock
  BY KindAssumption DEF SomeOf
<1>2. Allocates(flow, g, x, StdBlock)
  BY <1>0, CamlAllocSomeAllocates
<1>3. t \in Run /\ (t = "ok" => held)
  <2>1. fits \in BOOLEAN
    BY DEF Usable
  <2> HIDE DEF fits
  <2> QED BY <2>1, Attempts
<1>4. Step(g, t, \E k \in kinds : CollectAndStore(x, k))
  BY DEF AllocSome
<1> HIDE DEF g, t, kinds
<1> QED BY <1>1, <1>2, <1>3, <1>4, AllocatePreserves

\* CAMLparam1(x).
LEMMA ParamPreserves ==
  ASSUME IInv, NEW x \in Vals, Param(x)
  PROVE  IInv'
<1> DEFINE g == CamlParam(flow, x)
<1>0. flow \in Flow /\ x \in Loc /\ "ok" \in Run
  BY LocFacts DEF IInv, TypeOK, Run
<1>1. g \in Flow /\ Registers(flow, g, x)
  BY <1>0, CamlParamRegisters DEF CamlParam, Registers
<1>2. Step(g, "ok", rooted' = rooted \union {x} /\ UNCHANGED <<mem, held>>)
  BY DEF Param
<1> HIDE DEF g
<1>3. ASSUME Running, g.reach, rooted' = rooted \union {x}, mem' = mem, held' = held
      PROVE  After(g)
  <2>1. Disciplined => Sim(g, mem, rooted \union {x}, held)
    BY <1>0, <1>1, <1>3, HereFacts, SimRegister
  <2> QED BY <1>0, <1>3, <2>1, HereFacts DEF After
<1>4. StepTo(g, "ok")
  BY <1>2, <1>3 DEF Step, StepTo
<1> QED BY <1>0, <1>1, <1>4, StepToPreserves

\* CAMLlocal1(x).
LEMMA LocalPreserves ==
  ASSUME IInv, NEW x \in Vals, Local(x)
  PROVE  IInv'
<1> DEFINE g == CamlLocal(flow, x)
           m2 == [mem EXCEPT ![x] = ValueOf(Imm)]
<1>0. flow \in Flow /\ x \in Loc /\ x \in Declared /\ "ok" \in Run
  BY LocFacts DEF IInv, TypeOK, Declared, Run
<1>1. PICK b \in Flow : /\ Updates(flow, b, x, Bind("Active", RootAfter(flow, x), {Imm}))
                        /\ Registers(b, g, x)
  BY <1>0, CamlLocalRegisters
<1>2. g \in Flow
  BY <1>1 DEF Registers
<1>3. Step(g, "ok", mem' = m2 /\ rooted' = rooted \union {x} /\ UNCHANGED held)
  BY DEF Local
<1> HIDE DEF g
<1>4. ASSUME Running, g.reach, mem' = m2, rooted' = rooted \union {x}, held' = held
      PROVE  After(g)
  <2>1. /\ ValueOf(Imm) \in Data /\ ValueOf(Imm).kind \in {Imm}
        /\ ~ValueOf(Imm).moved /\ ~ValueOf(Imm).heap
    BY DataFacts, KindAssumption
  <2>2. /\ mem \in Memory /\ rooted \in SUBSET Loc /\ held \in BOOLEAN
        /\ \A l \in Declared : l \in Loc /\ Holds(mem, l)
    BY <1>4, HereFacts
  <2>3. m2 \in Memory /\ \A l \in Declared : Holds(m2, l)
    BY <1>0, <2>1, <2>2, StoreMemory
  <2>4. ASSUME Disciplined PROVE Sim(g, m2, rooted \union {x}, held)
    <3>1. Sim(flow, mem, rooted, held) /\ b.reach /\ Holds(mem, x)
      BY <1>0, <1>1, <1>4, <2>2, <2>4, HereFacts DEF Registers
    <3>2. "Active" # "Untracked"
      OBVIOUS
    <3>3. Sim(b, m2, rooted, held)
      BY <1>0, <1>1, <2>1, <2>2, <3>1, <3>2, SimAssign
    <3> HIDE DEF m2
    <3> QED BY <1>0, <1>1, <1>4, <2>2, <2>3, <3>3, SimRegister
  <2> HIDE DEF m2
  <2> QED BY <1>0, <1>4, <2>2, <2>3, <2>4 DEF After
<1> HIDE DEF m2
<1>5. StepTo(g, "ok")
  BY <1>3, <1>4 DEF Step, StepTo
<1> QED BY <1>0, <1>2, <1>5, StepToPreserves

\* x leaves its scope and is declared again.
LEMMA DeclarePreserves ==
  ASSUME IInv, NEW x \in Vals, Declare(x)
  PROVE  IInv'
<1> DEFINE g == Redeclare(flow, x)
           m2 == [mem EXCEPT ![x] = CDatum]
<1>0. flow \in Flow /\ x \in Loc /\ x \in Declared /\ "ok" \in Run
  BY LocFacts DEF IInv, TypeOK, Declared, Run
<1>1. Updates(flow, g, x, Bind("Untracked", "NotRooted", NonOCamlValue))
  BY <1>0, RedeclareUpdates
<1>2. g \in Flow
  BY <1>1 DEF Updates, Progress
<1>3. Step(g, "ok", mem' = m2 /\ rooted' = rooted \ {x} /\ UNCHANGED held)
  BY DEF Declare
<1> HIDE DEF g
<1>4. ASSUME Running, g.reach, mem' = m2, rooted' = rooted \ {x}, held' = held
      PROVE  After(g)
  <2>1. /\ CDatum \in Data /\ CDatum.kind \in NonOCamlValue
        /\ ~CDatum.moved /\ ~CDatum.heap
    BY DataFacts DEF NonOCamlValue
  <2>2. /\ mem \in Memory /\ rooted \in SUBSET Loc /\ held \in BOOLEAN
        /\ \A l \in Declared : l \in Loc /\ Holds(mem, l)
    BY <1>4, HereFacts
  <2>3. m2 \in Memory /\ \A l \in Declared : Holds(m2, l)
    BY <1>0, <2>1, <2>2, StoreMemory
  <2>4. ASSUME Disciplined PROVE Sim(g, m2, rooted \ {x}, held)
    <3>1. Sim(flow, mem, rooted, held)
      BY <1>4, <2>4, HereFacts
    <3> QED BY <1>0, <1>1, <1>4, <2>1, <2>2, <3>1, SimFresh
  <2> HIDE DEF m2
  <2> QED BY <1>0, <1>4, <2>2, <2>3, <2>4 DEF After
<1> HIDE DEF m2
<1>5. StepTo(g, "ok")
  BY <1>3, <1>4 DEF Step, StepTo
<1> QED BY <1>0, <1>2, <1>5, StepToPreserves

\* End_roots is harmless to a stub that never calls it.
LEMMA EndRootsPreserves ==
  ASSUME IInv, NEW x \in Vals, EndRootsOf(x)
  PROVE  IInv'
<1> DEFINE allowed == held /\ ~ForbidEndRoots
<1>1. flow \in Flow /\ allowed \in BOOLEAN
  BY DEF IInv, TypeOK
<1>2. EndRoots(flow) = flow
  BY DEF EndRoots
<1>3. Step(flow, Legal(allowed), rooted' = rooted \ {x} /\ UNCHANGED <<mem, held>>)
  BY <1>2 DEF EndRootsOf
<1>4. Legal(allowed) = "ok" => ~Disciplined
  BY DEF Legal, Disciplined
<1>5. Legal(allowed) \in Run
  BY <1>1, Attempts
<1> HIDE DEF allowed
<1>6. ASSUME Running, Legal(allowed) = "ok", rooted' = rooted \ {x}, mem' = mem, held' = held
      PROVE  After(flow)
  BY <1>4, <1>6, HereFacts DEF After
<1>7. StepTo(flow, Legal(allowed))
  BY <1>3, <1>6 DEF Step, StepTo
<1> QED BY <1>1, <1>5, <1>7, StepToPreserves

\* A root is given back under the lock.
LEMMA UnregisterPreserves ==
  ASSUME IInv, NEW x \in Vals, Unregister(x)
  PROVE  IInv'
<1> DEFINE g == ExecUnregisterRoot(flow, x)
           e == Bind(flow.env[x].status, "NotRooted", flow.env[x].shape)
<1>0. flow \in Flow /\ x \in Loc /\ x \in Declared /\ held \in BOOLEAN
  BY LocFacts DEF IInv, TypeOK, Declared
<1>1. g \in Flow /\ (g.reach => e \in ProperEntry /\ Sets(flow, g, x, e))
  BY <1>0, ExecUnregisterRootCases
<1>2. Legal(held) \in Run /\ (Legal(held) = "ok" => held)
  BY <1>0, Attempts
<1>3. Step(g, Legal(held), rooted' = rooted \ {x} /\ UNCHANGED <<mem, held>>)
  BY DEF Unregister
<1> HIDE DEF g
<1>4. ASSUME Running, Legal(held) = "ok", g.reach,
             rooted' = rooted \ {x}, mem' = mem, held' = held
      PROVE  After(g)
  <2>1. /\ mem \in Memory /\ rooted \in SUBSET Loc
        /\ \A l \in Declared : Holds(mem, l)
        /\ Holds(mem, x) /\ mem[x] \in Data
    BY <1>0, <1>4, HereFacts
  <2>2. ASSUME Disciplined PROVE Sim(g, mem, rooted \ {x}, held)
    <3>1. Sim(flow, mem, rooted, held)
      BY <1>4, <2>2, HereFacts
    <3>2. Agrees(flow.env[x], mem[x], x \in rooted, held)
      BY <1>0, <2>1, <3>1, SimEntry
    <3>3. Agrees(e, mem[x], x \in rooted \ {x}, held)
      BY <1>2, <1>4, <3>2 DEF Agrees, Bind
    <3> HIDE DEF e
    <3>4. Updates(flow, g, x, e)
      BY <1>0, <1>1, <1>4, SetsUpdates
    <3>5. \A k \in Loc : k # x => (k \in rooted \ {x} <=> k \in rooted)
      OBVIOUS
    <3>6. Sim(g, [mem EXCEPT ![x] = mem[x]], rooted \ {x}, held)
      BY <1>0, <1>4, <2>1, <3>1, <3>3, <3>4, <3>5, SimUpdate
    <3>7. [mem EXCEPT ![x] = mem[x]] = mem
      BY <2>1 DEF Memory
    <3> QED BY <3>6, <3>7
  <2> QED BY <1>0, <1>4, <2>1, <2>2 DEF After
<1>5. StepTo(g, Legal(held))
  BY <1>3, <1>4 DEF Step, StepTo
<1> QED BY <1>1, <1>2, <1>5, StepToPreserves

\* A rooted cell, then the pointer to it.
LEMMA NamedValuePreserves ==
  ASSUME IInv, NEW p \in Named, NamedValue(p)
  PROVE  IInv'
<1> DEFINE c == CellOf[p]
           g == CamlNamedValue(flow, p)
<1>0. /\ flow \in Flow /\ p \in Ptrs /\ p \in Loc /\ c \in Loc /\ p # c
      /\ p \in Declared /\ "ok" \in Run
  BY LocFacts, LocAssumption DEF IInv, TypeOK, Declared, Run
<1>1. PICK a \in Flow, b \in Flow :
        /\ Updates(flow, a, c, Bind("Active", "NotRooted", Kind))
        /\ Registers(a, b, c)
        /\ Updates(b, g, p, Bind("Untracked", RootAfter(b, p), NonOCamlValue))
  BY <1>0, CamlNamedValueRegisters
<1>2. g \in Flow
  BY <1>1 DEF Updates, Progress
<1>3. Step(g, "ok", /\ \E k \in Kind :
                         mem' = [mem EXCEPT ![c] = ValueOf(k), ![p] = CDatum]
                    /\ rooted' = rooted \union {c}
                    /\ UNCHANGED held)
  BY DEF NamedValue
<1> HIDE DEF g, c
<1>4. ASSUME Running, g.reach, NEW k \in Kind,
             mem' = [mem EXCEPT ![c] = ValueOf(k), ![p] = CDatum],
             rooted' = rooted \union {c}, held' = held
      PROVE  After(g)
  <2> DEFINE m1 == [mem EXCEPT ![c] = ValueOf(k)]
             m2 == [m1 EXCEPT ![p] = CDatum]
  <2>1. /\ mem \in Memory /\ rooted \in SUBSET Loc /\ held \in BOOLEAN
        /\ ValueOf(k) \in Data /\ ValueOf(k).kind = k /\ ~ValueOf(k).moved
        /\ CDatum \in Data /\ CDatum.kind \in NonOCamlValue
        /\ ~CDatum.moved /\ ~CDatum.heap
    BY <1>4, HereFacts, DataFacts DEF NonOCamlValue
  <2>2. m1 \in Memory /\ \A l \in Loc : Holds(mem, l) => Holds(m1, l)
    BY <1>0, <2>1, StoreMemory
  <2>3. m2 \in Memory /\ \A l \in Loc : Holds(m1, l) => Holds(m2, l)
    BY <1>0, <2>1, <2>2, StoreMemory
  <2>4. mem' = m2
    BY <1>4
  <2>5. \A l \in Declared : Holds(m1, l) /\ Holds(m2, l)
    BY <1>4, <2>2, <2>3, HereFacts
  <2>6. ASSUME Disciplined PROVE Sim(g, m2, rooted \union {c}, held)
    <3>1. Sim(flow, mem, rooted, held) /\ a.reach /\ b.reach
      BY <1>1, <1>4, <2>6, HereFacts DEF Updates, Registers
    <3>2. Sim(b, m1, rooted \union {c}, held)
      \* The value is rooted as soon as it is there.
      <4>1. /\ a.env[c] = Bind("Active", "NotRooted", Kind)
            /\ \A l \in Loc : l # c => a.env[l] = flow.env[l]
        <5>1. Bind("Active", "NotRooted", Kind) \in ProperEntry
          BY <1>1, <3>1 DEF Updates
        <5> QED BY <1>0, <1>1, <3>1, <5>1, UpdateSeen
      <4>2. /\ b.env[c] = Bind("Active", "Rooted", Kind) /\ b.env[c] # Absent
            /\ \A l \in Loc : l # c => b.env[l] = flow.env[l]
            /\ b.lock = flow.lock
        BY <1>1, <3>1, <4>1 DEF Registers, Updates, Bind
      <4>3. m1[c] = ValueOf(k) /\ \A l \in Loc : l # c => m1[l] = mem[l]
        BY <1>0, <2>1 DEF Memory
      <4> HIDE DEF m1
      <4>4. ASSUME NEW l \in Loc, Holds(m1, l)
            PROVE  /\ b.env[l] # Absent
                   /\ Agrees(b.env[l], m1[l], l \in rooted \union {c}, held)
        <5>1. CASE l = c
          <6>1. Agrees(Bind("Active", "Rooted", Kind), ValueOf(k), TRUE, held)
            BY <2>1 DEF Agrees, Bind
          <6> QED BY <4>2, <4>3, <5>1, <6>1
        <5>2. CASE l # c
          <6>1. b.env[l] = flow.env[l] /\ m1[l] = mem[l] /\ Holds(mem, l)
            BY <4>2, <4>3, <4>4, <5>2 DEF Holds
          <6>2. flow.env[l] # Absent /\ Agrees(flow.env[l], mem[l], l \in rooted, held)
            BY <3>1, <6>1 DEF Sim, Describes
          <6> QED BY <5>2, <6>1, <6>2 DEF Agrees
        <5> QED BY <5>1, <5>2
      <4> QED BY <3>1, <4>2, <4>4 DEF Sim, Describes
    <3>3. Holds(m1, p)
      BY <1>0, <2>5
    <3> HIDE DEF m1
    <3>4. "Untracked" # "Active"
      OBVIOUS
    <3> QED BY <1>0, <1>1, <1>4, <2>1, <2>2, <3>2, <3>3, <3>4, SimAssign
  <2> HIDE DEF m1, m2
  <2> QED BY <1>0, <1>4, <2>1, <2>3, <2>4, <2>5, <2>6 DEF After
<1>5. StepTo(g, "ok")
  BY <1>3, <1>4 DEF Step, StepTo
<1> QED BY <1>0, <1>2, <1>5, StepToPreserves

\* caml_enter_blocking_section(): the collection has made stale what the
\* other threads may move.
LEMMA EnterBlockingPreserves ==
  ASSUME IInv, EnterBlocking
  PROVE  IInv'
<1> DEFINE g == CamlEnterBlockingSection(flow)
<1>0. flow \in Flow /\ NeedLock \in Run
  BY Attempts DEF IInv, TypeOK
<1>1. /\ g \in Flow
      /\ g.reach => g.lock = "Unlocked"
      /\ g.reach => \E d \in Flow : Collects(flow, d) /\ d.reach /\ g.env = d.env
  BY <1>0, CamlEnterBlockingSectionCollects
<1>2. Step(g, NeedLock, /\ \E S \in SUBSET Unprotected(mem, rooted) :
                             mem' = Collected(mem, rooted, S)
                        /\ held' = FALSE
                        /\ UNCHANGED rooted)
  BY DEF EnterBlocking
<1> HIDE DEF g
<1>3. ASSUME Running, g.reach, NEW S \in SUBSET Unprotected(mem, rooted),
             mem' = Collected(mem, rooted, S), held' = FALSE, rooted' = rooted
      PROVE  After(g)
  <2> DEFINE c == Collected(mem, rooted, S)
  <2>1. /\ mem \in Memory /\ rooted \in SUBSET Loc
        /\ \A l \in Declared : l \in Loc /\ Holds(mem, l)
    BY <1>3, HereFacts
  <2>2. c \in Memory /\ \A l \in Loc : Holds(c, l) <=> Holds(mem, l)
    BY <2>1, CollectedMemory
  <2>3. ASSUME Disciplined PROVE Sim(g, c, rooted, FALSE)
    <3>1. PICK d \in Flow : Collects(flow, d) /\ d.reach /\ g.env = d.env
      BY <1>1, <1>3
    <3>2. Sim(flow, mem, rooted, held)
      BY <1>3, <2>3, HereFacts
    <3>3. Describes(d.env, c, rooted, FALSE)
      BY <1>0, <2>1, <3>1, <3>2, CollectDescribes
    <3> HIDE DEF c
    <3> QED BY <1>1, <1>3, <3>1, <3>3 DEF Sim
  <2>4. mem' = c /\ held' = FALSE /\ rooted' = rooted
    BY <1>3
  <2> HIDE DEF c
  <2> QED BY <2>1, <2>2, <2>3, <2>4 DEF After
<1>4. StepTo(g, NeedLock)
  BY <1>2, <1>3 DEF Step, StepTo
<1> QED BY <1>0, <1>1, <1>4, StepToPreserves

\* caml_leave_blocking_section().
LEMMA LeaveBlockingPreserves ==
  ASSUME IInv, LeaveBlocking
  PROVE  IInv'
<1> DEFINE g == CamlLeaveBlockingSection(flow)
           free == ~held
<1>0. flow \in Flow /\ free \in BOOLEAN
  BY DEF IInv, TypeOK
<1>1. g \in Flow /\ (g.reach => g.env = flow.env /\ g.lock = "Locked")
  BY <1>0, CamlLeaveBlockingSectionFlow
<1>2. Legal(free) \in Run
  BY <1>0, Attempts
<1>3. Step(g, Legal(free), held' = TRUE /\ UNCHANGED <<mem, rooted>>)
  BY DEF LeaveBlocking
<1> HIDE DEF g, free
<1>4. ASSUME Running, g.reach, held' = TRUE, mem' = mem, rooted' = rooted
      PROVE  After(g)
  <2>1. ASSUME Disciplined PROVE Sim(g, mem, rooted, TRUE)
    <3>1. Sim(flow, mem, rooted, held)
      BY <1>4, <2>1, HereFacts
    <3>2. Describes(flow.env, mem, rooted, TRUE)
      BY <3>1 DEF Sim, Describes, Agrees
    <3> QED BY <1>1, <1>4, <3>2 DEF Sim
  <2> QED BY <1>4, <2>1, HereFacts DEF After
<1>5. StepTo(g, Legal(free))
  BY <1>3, <1>4 DEF Step, StepTo
<1> QED BY <1>1, <1>2, <1>5, StepToPreserves

\* The other threads only move what the flow already calls stale.
LEMMA ConcurrentGCPreserves ==
  ASSUME IInv, ConcurrentGC
  PROVE  IInv'
<1>1. PICK S \in SUBSET Unprotected(mem, rooted) : mem' = Collected(mem, rooted, S)
  BY DEF ConcurrentGC
<1>2. /\ run = "ok" /\ run' = run /\ ~held /\ held' = held /\ rooted' = rooted
      /\ flow' = flow /\ aside' = aside /\ phase' = phase /\ side' = side
      /\ left' = left
  BY DEF ConcurrentGC, analysis
<1> DEFINE c == Collected(mem, rooted, S)
<1>3. mem \in Memory /\ rooted \in SUBSET Loc /\ Declared \subseteq Loc
  BY LocFacts DEF IInv, TypeOK, Declared
<1>4. /\ c \in Memory
      /\ \A l \in Loc :
           /\ Holds(c, l) <=> Holds(mem, l)
           /\ Holds(mem, l) =>
                /\ c[l].kind = mem[l].kind
                /\ c[l].heap = mem[l].heap
                /\ c[l].moved /\ ~mem[l].moved => l \notin rooted /\ mem[l].heap
  BY <1>3, CollectedMemory
<1> HIDE DEF c
<1>5. TypeOK'
  BY <1>1, <1>2, <1>3, <1>4 DEF IInv, TypeOK, Declared, c
<1>6. Point' = Point
  BY <1>2 DEF Point, Here
<1>7. ASSUME Sim(Point, mem, rooted, held) PROVE Sim(Point, c, rooted, held)
  <2>1. ASSUME NEW l \in Loc, Holds(c, l)
        PROVE  /\ Point.env[l] # Absent
               /\ Agrees(Point.env[l], c[l], l \in rooted, held)
    <3>1. /\ Point.env[l] # Absent
          /\ Agrees(Point.env[l], mem[l], l \in rooted, held)
      BY <1>4, <1>7, <2>1 DEF Sim, Describes
    <3>2. /\ c[l].kind = mem[l].kind /\ c[l].heap = mem[l].heap
          /\ c[l].moved /\ ~mem[l].moved => l \notin rooted /\ mem[l].heap
      BY <1>4, <2>1
    <3>3. "Active" \notin {"Stale", TOP}
      BY DEF TOP
    <3> QED BY <1>2, <3>1, <3>2, <3>3 DEF Agrees
  <2> QED BY <1>7, <2>1 DEF Sim, Describes
<1> QED BY <1>1, <1>2, <1>5, <1>6, <1>7 DEF IInv, Described, c

-----------------------------------------------------------------------------
(* Ends.                                                                   *)

\* An exception ends the run.
LEMMA LeavePreserves ==
  ASSUME IInv, NEW g \in Flow, NEW attempt \in Run, Leave(g, attempt)
  PROVE  IInv'
<1>1. /\ flow' \in Flow /\ aside' = aside /\ phase' = phase /\ side' = side
      /\ left' = left
  BY DEF Leave
<1>2. /\ flow' \in Flow /\ aside' \in Flow
      /\ phase' \in {"seq", "then", "else"} /\ side' \in {"then", "else"}
      /\ left' \in 0 .. Conditionals
  BY <1>1 DEF IInv, TypeOK
<1>3. CASE Running
  <2>1. Then(attempt, "done") \in Run \ {"ok"}
    BY DEF Then, Run
  <2>2. EndRun(Then(attempt, "done"))
    BY <1>3 DEF Leave
  <2> QED BY <2>1, <2>2, <1>2, EndRunPreserves
<1>4. CASE ~Running
  BY <1>1, <1>4, ElsewherePreserves DEF Leave
<1> QED BY <1>3, <1>4

\* The three ways to raise.
LEMMA RaisesPreserve ==
  ASSUME IInv
  PROVE  /\ Raise => IInv'
         /\ \A v \in Vals : RaiseWithArg(v) \/ FailwithValue(v) => IInv'
<1>0. flow \in Flow /\ NeedLock \in Run
  BY Attempts DEF IInv, TypeOK
<1>1. ASSUME Raise PROVE IInv'
  <2>1. CamlRaise(flow) \in Flow
    <3>1. Checked(flow, EvalAssertRuntimeLock(flow))
      BY <1>0, EvalAssertRuntimeLockChecked
    <3>2. EvalAssertRuntimeLock(flow) \in Flow
      BY <3>1 DEF Checked
    <3> QED BY <1>0, <3>1, <3>2, NoReturnAfterChecks DEF CamlRaise, NeverReturns
  <2> QED BY <1>0, <1>1, <2>1, LeavePreserves DEF Raise
<1>2. ASSUME NEW v \in Vals, RaiseWithArg(v) PROVE IInv'
  <2>1. CamlRaiseWithArg(flow, v) \in Flow
    BY <1>0, LocFacts, RaiseNeverReturns DEF NeverReturns
  <2>2. Then(NeedLock, NeedFollow(v)) \in Run
    BY Attempts
  <2> QED BY <1>2, <2>1, <2>2, LeavePreserves DEF RaiseWithArg
<1>3. ASSUME NEW v \in Vals, FailwithValue(v) PROVE IInv'
  <2>1. CamlFailwithValue(flow, v) \in Flow
    BY <1>0, LocFacts, RaiseNeverReturns DEF NeverReturns
  <2>2. NeedBlockOf(v, {Str}) \in Run
    BY BlockAttempts
  <2> QED BY <1>3, <2>1, <2>2, LeavePreserves DEF FailwithValue
<1> QED BY <1>1, <1>2, <1>3

\* The analysis gives the run up.
LEMMA UnimplementedPreserves ==
  ASSUME IInv, Unimplemented
  PROVE  IInv'
<1> DEFINE g == EvalUnimplemented(flow)
<1>0. flow \in Flow /\ "ok" \in Run
  BY DEF IInv, TypeOK, Run
<1>1. g \in Flow /\ ~g.reach
  BY <1>0, EvalUnimplementedFlow
<1>2. Step(g, "ok", Keep)
  BY DEF Unimplemented
<1> HIDE DEF g
<1>3. StepTo(g, "ok")
  BY <1>1, <1>2 DEF Step, StepTo
<1> QED BY <1>0, <1>1, <1>3, StepToPreserves

-----------------------------------------------------------------------------
(* Conditionals.                                                           *)

\* The branches of a conditional start from the entries and the lock before it.
LEMMA OpenPreserves ==
  ASSUME IInv, NEW yes \in Flow, NEW no \in Flow, NEW attempt \in Run,
         NEW taken \in SUBSET {"then", "else"}, Open(yes, no, attempt, taken),
         \A g \in {yes, no} : g.reach => g.env = flow.env /\ g.lock = flow.lock
  PROVE  IInv'
<1>1. /\ flow' = yes /\ aside' = no /\ phase' = "then" /\ left > 0 /\ left' = left - 1
      /\ phase = "seq" /\ flow.reach /\ side' \in {"then", "else"}
  BY DEF Open
<1>2. /\ flow' \in Flow /\ aside' \in Flow
      /\ phase' \in {"seq", "then", "else"} /\ side' \in {"then", "else"}
      /\ left' \in 0 .. Conditionals
  BY <1>1, ShapesAssumption DEF IInv, TypeOK
<1>3. CASE \E how \in Run \ {"ok"} : EndRun(how)
  BY <1>2, <1>3, EndRunPreserves
<1>4. CASE run # "ok" /\ UNCHANGED <<memory, run>>
  <2>1. mem' = mem /\ rooted' = rooted /\ held' = held /\ run' = run
    BY <1>4 DEF memory
  <2> QED BY <1>2, <1>4, <2>1 DEF IInv, TypeOK, Described, Declared
<1>5. CASE /\ run = "ok" /\ UNCHANGED <<memory, run>>
           /\ (IF side' = "then" THEN yes ELSE no).reach
  <2>1. mem' = mem /\ rooted' = rooted /\ held' = held /\ run' = run
    BY <1>5 DEF memory
  <2>2. TypeOK'
    BY <1>2, <2>1 DEF IInv, TypeOK, Declared
  <2> DEFINE g == IF side' = "then" THEN yes ELSE no
  <2>3. Point' = g /\ Point = flow
    BY <1>1 DEF Point, Here
  <2>4. g \in {yes, no} /\ g.reach
    BY <1>5
  <2> HIDE DEF g
  <2>5. g.env = flow.env /\ g.lock = flow.lock
    BY <2>4
  <2>6. Disciplined => Sim(g, mem, rooted, held)
    BY <1>5, <2>3, <2>4, <2>5 DEF IInv, Described, Sim
  <2> QED BY <2>1, <2>2, <2>3, <2>6 DEF IInv, Described
<1>6. QED
  <2>1. attempt # "ok" => attempt \in Run \ {"ok"}
    OBVIOUS
  <2>2. "abandoned" \in Run \ {"ok"}
    BY DEF Run
  <2> QED BY <1>3, <1>4, <1>5, <2>1, <2>2 DEF Open

\* A test on C data.
LEMMA IfPreserves ==
  ASSUME IInv, If
  PROVE  IInv'
<1>1. flow \in Flow /\ "ok" \in Run
  BY DEF IInv, TypeOK, Run
<1>2. Open(flow, flow, "ok", {"then", "else"})
  BY DEF If
<1> QED BY <1>1, <1>2, OpenPreserves

\* if (Is_block(v)).
LEMMA IfIsBlockPreserves ==
  ASSUME IInv, NEW v \in Vals, IfIsBlock(v)
  PROVE  IInv'
<1> DEFINE yes == CamlIsBlock(flow, v, TRUE)
           no == CamlIsBlock(flow, v, FALSE)
           isValue == mem[v].kind # NonValue
           taken == {IF mem[v].kind = Imm THEN "else" ELSE "then"}
<1>1. flow \in Flow /\ v \in Loc
  BY LocFacts DEF IInv, TypeOK
<1>2. /\ yes \in Flow /\ (yes.reach => yes.env = flow.env /\ yes.lock = flow.lock)
      /\ no \in Flow /\ (no.reach => no.env = flow.env /\ no.lock = flow.lock)
  BY <1>1, CamlIsBlockFlow
<1>3. Legal(isValue) \in Run
  <2>1. isValue \in BOOLEAN
    OBVIOUS
  <2> QED BY <2>1, Attempts
<1>4. taken \in SUBSET {"then", "else"}
  OBVIOUS
<1>5. Open(yes, no, Legal(isValue), taken)
  BY DEF IfIsBlock
<1> HIDE DEF yes, no, isValue, taken
<1>6. \A g \in {yes, no} : g.reach => g.env = flow.env /\ g.lock = flow.lock
  BY <1>2
<1> QED BY <1>2, <1>3, <1>4, <1>5, <1>6, OpenPreserves

\* The analysis turns to the other branch: the flows change places and so
\* does the run.
LEMMA ElsePreserves ==
  ASSUME IInv, Else
  PROVE  IInv'
<1>1. /\ phase = "then" /\ phase' = "else" /\ flow' = aside /\ aside' = flow
      /\ side' = side /\ left' = left
      /\ mem' = mem /\ rooted' = rooted /\ held' = held /\ run' = run
  BY DEF Else, memory
<1>2. TypeOK'
  BY <1>1 DEF IInv, TypeOK, Declared
<1>3. Point' = Point
  BY <1>1 DEF IInv, TypeOK, Point, Here
<1> QED BY <1>1, <1>2, <1>3 DEF IInv, Described

\* The branches are joined, and the run goes on in the result.
LEMMA EndIfPreserves ==
  ASSUME IInv, EndIf
  PROVE  IInv'
<1>1. /\ phase = "else" /\ phase' = "seq" /\ flow' = JoinFlow(aside, flow)
      /\ aside' = NoFlow /\ side' = "then" /\ left' = left
      /\ mem' = mem /\ rooted' = rooted /\ held' = held /\ run' = run
  BY DEF EndIf, memory
<1>2. flow \in Flow /\ aside \in Flow /\ side \in {"then", "else"} /\ held \in BOOLEAN
  BY DEF IInv, TypeOK
<1>3. NoFlow \in Flow
  <2> DEFINE f == [report |-> {}]
  <2>1. f.report \in SUBSET (Alarm \union Diagnostic)
    OBVIOUS
  <2> HIDE DEF f
  <2>2. Unreachable(f) \in Flow
    BY <2>1, UnreachableFlow
  <2> QED BY <2>2 DEF NoFlow, f
<1>4. JoinFlow(aside, flow) \in Flow
  BY <1>2, JoinFlowFlow
<1>5. TypeOK'
  BY <1>1, <1>3, <1>4 DEF IInv, TypeOK, Declared
<1>6. Point' = flow' /\ Point \in {flow, aside}
  BY <1>1 DEF Point, Here
<1>7. ASSUME Disciplined, run = "ok"
      PROVE  Sim(JoinFlow(aside, flow), mem, rooted, held)
  <2>1. Sim(flow, mem, rooted, held) \/ Sim(aside, mem, rooted, held)
    BY <1>6, <1>7 DEF IInv, Described
  <2> QED BY <1>2, <2>1, JoinSim
<1> QED BY <1>1, <1>5, <1>6, <1>7 DEF IInv, Described

-----------------------------------------------------------------------------
(* The theorems.                                                           *)

\* The entries of a stub that is entered: arguments are active, the rest of
\* its variables are C data.
LEMMA InitEntries ==
  ASSUME NEW args \in SUBSET Vals, NEW sh \in ArgShapes
  PROVE  /\ StartFlow \in Flow
         /\ Bind("Active", "NotRooted", sh) \in ProperEntry
         /\ Bind("Untracked", "NotRooted", NonOCamlValue) \in ProperEntry
         /\ \A l \in Loc :
              InitEnv(args, sh)[l] =
                IF l \in args THEN Bind("Active", "NotRooted", sh)
                ELSE IF l \in Declared THEN Bind("Untracked", "NotRooted", NonOCamlValue)
                ELSE Absent
<1> DEFINE fresh == Bind("Untracked", "NotRooted", NonOCamlValue)
           arg == Bind("Active", "NotRooted", sh)
<1>4. sh \in ProperShape
  BY ShapesAssumption, ProperConstants
<1>5. arg \in ProperEntry /\ fresh \in ProperEntry /\ arg # Absent /\ fresh # Absent
  <2>1. /\ "Active" \in ProperStatus /\ "Untracked" \in ProperStatus
        /\ "NotRooted" \in ProperRoot /\ NonOCamlValue \in ProperShape
    BY ProperConstants DEF Status, Roots
  <2> QED BY <1>4, <2>1, ProperEntryFields, ProperEntryIsEntry, AbsentAssumption
<1>6. StartFlow \in Flow
  BY DEF StartFlow, Flow, ProperEnv, Flat, RuntimeLock
<1>7. ASSUME NEW l \in Loc
      PROVE  /\ ExecAdd(StartFlow, l).env[l] = fresh
             /\ ExecInitWithShape(ExecAdd(StartFlow, l), l, sh).env[l] = arg
  <2> DEFINE a == ExecAdd(StartFlow, l)
             b == MarkVarActive(a, l)
             c == EvalSetShape(b, l, sh)
  <2>1. a \in Flow /\ Updates(StartFlow, a, l, fresh) /\ a.reach
    <3>1. fresh \in ProperEntry /\ Sets(StartFlow, a, l, fresh)
      BY <1>6, ExecAddSets
    <3>2. StartFlow.reach
      BY DEF StartFlow
    <3> HIDE DEF a, fresh
    <3>3. Updates(StartFlow, a, l, fresh)
      BY <1>6, <3>1, SetsUpdates
    <3> QED BY <3>1, <3>2, <3>3 DEF Sets
  <2>2. a.env[l] = fresh /\ a.env[l] # Absent
    BY <1>5, <1>6, <2>1, UpdateSeen
  <2>3. RootAfter(a, l) = "NotRooted" /\ ShapesVar(a, l) = NonOCamlValue
    BY <2>2 DEF RootAfter, ShapesVar, Bind
  <2> HIDE DEF a
  <2>4. "Active" \in ProperStatus /\ NonOCamlValue \in ProperShape
    BY ProperConstants DEF Status
  <2>5. /\ Bind("Active", "NotRooted", NonOCamlValue) \in ProperEntry
        /\ Sets(a, b, l, Bind("Active", "NotRooted", NonOCamlValue))
    BY <2>1, <2>3, <2>4, ExecUpdateSets DEF MarkVarActive
  <2>6. b \in Flow /\ b.reach /\ Updates(a, b, l, Bind("Active", "NotRooted", NonOCamlValue))
    BY <2>1, <2>5, SetsUpdates DEF Sets
  <2> HIDE DEF b
  <2>7. b.env[l] = Bind("Active", "NotRooted", NonOCamlValue) /\ b.env[l] # Absent
    BY <2>1, <2>5, <2>6, UpdateSeen
  <2>8. b.env[l].status = "Active" /\ b.env[l].root = "NotRooted"
    BY <2>7 DEF Bind
  <2>9. Sets(b, c, l, arg)
    BY <1>4, <2>6, <2>7, <2>8, EvalSetShapeSets
  <2>10. c \in Flow /\ c.reach /\ Updates(b, c, l, arg)
    BY <1>5, <2>6, <2>9, SetsUpdates DEF Sets
  <2> HIDE DEF c, arg
  <2>11. c.env[l] = arg
    BY <1>5, <2>6, <2>10, UpdateSeen
  <2> QED BY <2>2, <2>11 DEF a, b, c, ExecInitWithShape
<1> HIDE DEF fresh, arg
<1>8. ASSUME NEW l \in Loc
      PROVE  InitEnv(args, sh)[l] = IF l \in args THEN arg
                                    ELSE IF l \in Declared THEN fresh ELSE Absent
  BY <1>7 DEF InitEnv
<1> QED BY <1>5, <1>6, <1>8 DEF fresh, arg

\* A stub starts with a flow that describes its arguments.
LEMMA InitIInv == Init => IInv
<1> SUFFICES ASSUME Init PROVE IInv
  OBVIOUS
<1>1. PICK args \in SUBSET Vals, sh \in ArgShapes :
        /\ flow = [StartFlow EXCEPT !.env = InitEnv(args, sh)]
        /\ \E kind \in [args -> sh] :
             mem = [l \in Loc |->
                      CASE l \in args            -> ValueOf(kind[l])
                        [] l \in Declared \ args -> CDatum
                        [] OTHER                 -> Absent]
  BY DEF Init
<1>2. PICK kind \in [args -> sh] :
        mem = [l \in Loc |->
                 CASE l \in args            -> ValueOf(kind[l])
                   [] l \in Declared \ args -> CDatum
                   [] OTHER                 -> Absent]
  BY <1>1
<1>3. /\ phase = "seq" /\ side = "then" /\ left = Conditionals /\ rooted = {}
      /\ held = TRUE /\ run = "ok" /\ aside = NoFlow
  BY DEF Init
<1> DEFINE fresh == Bind("Untracked", "NotRooted", NonOCamlValue)
           arg == Bind("Active", "NotRooted", sh)
<1>4. sh \in SUBSET Kind /\ args \subseteq Declared
      /\ args \subseteq Loc /\ Declared \subseteq Loc
  BY ShapesAssumption, LocFacts DEF Declared
<1>5. arg \in ProperEntry /\ fresh \in ProperEntry /\ arg # Absent /\ fresh # Absent
  BY InitEntries, ProperEntryIsEntry, AbsentAssumption
<1>6. StartFlow \in Flow
  BY InitEntries
<1>8. ASSUME NEW l \in Loc
      PROVE  InitEnv(args, sh)[l] = IF l \in args THEN arg
                                    ELSE IF l \in Declared THEN fresh ELSE Absent
  BY InitEntries
<1> HIDE DEF fresh, arg
<1>9. InitEnv(args, sh) \in ProperEnv
  <2>1. \A l \in Loc : InitEnv(args, sh)[l] \in ProperEntry \union {Absent}
    BY <1>5, <1>8
  <2> QED BY <2>1 DEF InitEnv, ProperEnv
<1>10. /\ flow \in Flow /\ flow.reach /\ flow.lock = "Locked"
       /\ flow.env = InitEnv(args, sh)
  BY <1>1, <1>6, <1>9 DEF Flow, StartFlow
<1>11. ASSUME NEW l \in Loc
       PROVE  /\ l \in args => mem[l] = ValueOf(kind[l]) /\ kind[l] \in sh
              /\ l \in Declared /\ l \notin args => mem[l] = CDatum
              /\ l \notin Declared => mem[l] = Absent
  BY <1>2, <1>4
<1>12. mem \in Memory
  <2>1. \A l \in Loc : mem[l] \in Data \union {Absent}
    BY <1>4, <1>11, DataFacts
  <2> QED BY <1>2, <2>1 DEF Memory
<1>13. aside \in Flow
  <2> DEFINE f == [report |-> {}]
  <2>1. f.report \in SUBSET (Alarm \union Diagnostic)
    OBVIOUS
  <2> HIDE DEF f
  <2> QED BY <1>3, <2>1, UnreachableFlow DEF NoFlow, f
<1>14. ASSUME NEW l \in Declared PROVE Holds(mem, l)
  <2>1. CASE l \in args
    <3>1. mem[l] = ValueOf(kind[l]) /\ kind[l] \in Kind
      BY <1>4, <1>11, <2>1
    <3> QED BY <3>1, DataFacts DEF Holds
  <2>2. CASE l \notin args
    <3>1. mem[l] = CDatum
      BY <1>4, <1>11, <2>2
    <3> QED BY <3>1, DataFacts DEF Holds
  <2> QED BY <2>1, <2>2
<1>15. TypeOK
  BY <1>3, <1>10, <1>12, <1>13, <1>14, ShapesAssumption DEF TypeOK, Run
<1>16. Sim(flow, mem, rooted, held)
  <2>1. ASSUME NEW l \in Loc, Holds(mem, l)
        PROVE  flow.env[l] # Absent /\ Agrees(flow.env[l], mem[l], l \in rooted, held)
    <3>1. l \in Declared
      BY <1>11, <2>1 DEF Holds
    <3>2. CASE l \in args
      <4>1. mem[l] = ValueOf(kind[l]) /\ kind[l] \in sh /\ kind[l] \in Kind
        BY <1>4, <1>11, <3>2
      <4>2. mem[l].kind \in sh /\ ~mem[l].moved
        BY <4>1, DataFacts
      <4>3. flow.env[l] = arg
        BY <1>8, <1>10, <3>2
      <4> QED BY <1>3, <1>5, <4>2, <4>3 DEF Agrees, Bind, arg
    <3>3. CASE l \notin args
      <4>1. mem[l].kind \in NonOCamlValue /\ ~mem[l].moved /\ ~mem[l].heap
        BY <1>11, <3>1, <3>3, DataFacts DEF NonOCamlValue
      <4>2. flow.env[l] = fresh
        BY <1>8, <1>10, <3>1, <3>3
      <4> QED BY <1>3, <1>5, <4>1, <4>2 DEF Agrees, Bind, fresh
    <3> QED BY <3>2, <3>3
  <2> QED BY <1>3, <1>10, <2>1 DEF Sim, Describes
<1> QED BY <1>3, <1>15, <1>16 DEF IInv, Described, Point, Here

\* Every step keeps the invariant.
LEMMA NextIInv == IInv /\ [Next]_vars => IInv'
<1> SUFFICES ASSUME IInv, [Next]_vars PROVE IInv'
  OBVIOUS
<1>1. CASE UNCHANGED vars
  BY <1>1 DEF vars, analysis, memory, IInv, TypeOK, Described, Point, Here, Declared
<1>2. CASE Statement
  <2>1. ASSUME NEW x \in Vals, NEW y \in Vals, Copy(x, y) PROVE IInv'
    BY <2>1, CopyPreserves
  <2>2. ASSUME NEW x \in Vals, Constant(x) PROVE IInv'
    BY <2>2, ConstantPreserves
  <2>3. ASSUME NEW x \in Vals, NEW y \in Vals, NEW z \in Vals, Binop(x, y, z) PROVE IInv'
    BY <2>3, BinopPreserves
  <2>4. ASSUME NEW x \in Vals, NEW p \in Ptrs, Load(x, p) PROVE IInv'
    BY <2>4, LoadPreserves
  <2>5. ASSUME NEW x \in Vals, NEW p \in Ptrs, Assign(p, x) PROVE IInv'
    BY <2>5, AssignPreserves
  <2>6. ASSUME NEW s \in CharPtrs, ReadChar(s) PROVE IInv'
    BY <2>6, LooksPreserve
  <2>7. ASSUME NEW x \in Vals, ExtCall(x) PROVE IInv'
    BY <2>7, LooksPreserve
  <2> QED BY <1>2, <2>1, <2>2, <2>3, <2>4, <2>5, <2>6, <2>7 DEF Statement
<1>3. CASE ValueCall
  <2>1. ASSUME NEW x \in Vals, ValLong(x) PROVE IInv'
    BY <2>1, ValLongPreserves
  <2>2. ASSUME NEW x \in Vals, LongVal(x) PROVE IInv'
    BY <2>2, LooksPreserve
  <2>3. ASSUME NEW v \in Vals, NEW kinds \in AllocShapes, Inspect(v, kinds) PROVE IInv'
    BY <2>3, LooksPreserve
  <2>4. ASSUME NEW x \in Vals, NEW v \in Vals, NEW index \in BOOLEAN, Field(x, v, index)
        PROVE  IInv'
    BY <2>4, FieldPreserves
  <2>5. ASSUME NEW x \in Vals, NEW v \in Vals, NEW index \in BOOLEAN, SetField(v, x, index)
        PROVE  IInv'
    BY <2>5, SetFieldPreserves
  <2>6. ASSUME NEW p \in Ptrs \ Named, NEW v \in Vals, NEW index \in BOOLEAN,
               AddrField(p, v, index)
        PROVE  IInv'
    BY <2>6, AddrFieldPreserves
  <2>7. ASSUME NEW p \in Ptrs, NEW v \in Vals, Modify(p, v) PROVE IInv'
    BY <2>7, ModifyPreserves
  <2>8. ASSUME NEW s \in CharPtrs, NEW v \in Vals, StringVal(s, v) PROVE IInv'
    BY <2>8, StringValPreserves
  <2> QED
    BY <1>3, <2>1, <2>2, <2>3, <2>4, <2>5, <2>6, <2>7, <2>8 DEF ValueCall
<1>4. CASE RuntimeCall
  <2>1. ASSUME NEW x \in Vals, NEW shape \in AllocShapes, Alloc(x, shape) PROVE IInv'
    BY <2>1, AllocPreserves
  <2>2. ASSUME NEW x \in Vals, NEW v \in Vals, AllocSome(x, v) PROVE IInv'
    BY <2>2, AllocSomePreserves
  <2>3. ASSUME NEW x \in Vals, Param(x) PROVE IInv'
    BY <2>3, ParamPreserves
  <2>4. ASSUME NEW x \in Vals, Local(x) PROVE IInv'
    BY <2>4, LocalPreserves
  <2>5. ASSUME NEW x \in Vals, Declare(x) PROVE IInv'
    BY <2>5, DeclarePreserves
  <2>6. ASSUME NEW x \in Vals, Unregister(x) PROVE IInv'
    BY <2>6, UnregisterPreserves
  <2>7. ASSUME NEW x \in Vals, EndRootsOf(x) PROVE IInv'
    BY <2>7, EndRootsPreserves
  <2>8. ASSUME NEW p \in Named, NamedValue(p) PROVE IInv'
    BY <2>8, NamedValuePreserves
  <2>9. CASE EnterBlocking
    BY <2>9, EnterBlockingPreserves
  <2>10. CASE LeaveBlocking
    BY <2>10, LeaveBlockingPreserves
  <2>11. CASE Raise
    BY <2>11, RaisesPreserve
  <2>12. ASSUME NEW v \in Vals, RaiseWithArg(v) \/ FailwithValue(v) PROVE IInv'
    BY <2>12, RaisesPreserve
  <2>13. CASE Unimplemented
    BY <2>13, UnimplementedPreserves
  <2> QED
    BY <1>4, <2>1, <2>2, <2>3, <2>4, <2>5, <2>6, <2>7, <2>8, <2>9, <2>10, <2>11,
       <2>12, <2>13 DEF RuntimeCall
<1>5. CASE Conditional
  <2>1. ASSUME NEW v \in Vals, IfIsBlock(v) PROVE IInv'
    BY <2>1, IfIsBlockPreserves
  <2> QED
    BY <1>5, <2>1, IfPreserves, ElsePreserves, EndIfPreserves DEF Conditional
<1>6. CASE ConcurrentGC
  BY <1>6, ConcurrentGCPreserves
<1> QED BY <1>1, <1>2, <1>3, <1>4, <1>5, <1>6 DEF Next

\* The invariant holds in every state.
LEMMA InductiveInvariant == Spec => []IInv
  BY InitIInv, NextIInv, PTL DEF Spec

\* Every state of the analysis and of the run is well typed: flows hold only
\* proper entries, declared variables hold data, and no immediate or C datum
\* is ever moved by the collector.
THEOREM TypeCorrect == Spec => []TypeOK
<1>1. IInv => TypeOK
  BY DEF IInv
<1> QED BY <1>1, InductiveInvariant, PTL

\* As long as a run keeps to the rules of the interface, the flow of the
\* analysis describes it: what the analysis calls active was not moved, what
\* it calls a root is one, and shapes and lock are those of the run.  Two
\* uses are excluded: reads of a root without the lock, and Begin_roots.
THEOREM RunDescribed ==
  ASSUME ForbidUnlockedReads, ForbidEndRoots
  PROVE  Spec => []Described
<1>1. IInv => Described
  BY DEF IInv, Disciplined
<1> QED BY <1>1, InductiveInvariant, PTL

-----------------------------------------------------------------------------
(* Reports.                                                                *)

\* The alarm that goes with a broken rule.
Explained(g, how) ==
  \/ ~g.reach /\ g.report \intersect ErrorAlarm # {}
  \/ how = "inactive" /\ "maybe_non_active_value" \in g.report

\* How the attempt of a statement may go.
Verdict == {"ok", "misuse"} \union Breaking

\* g keeps the report of the flow before it, and leaves the point behind with
\* a message.
Grows(g) ==
  /\ g \in Flow
  /\ flow.report \subseteq g.report
  /\ flow.reach /\ ~g.reach => g.report \intersect Final # {}

\* A transfer function does justice to an attempt.
Obeys(g, t) ==
  /\ t \in Verdict
  /\ Grows(g)
  /\ Running /\ t \in Breaking => Explained(g, t)

-----------------------------------------------------------------------------
(* Attempts that break a rule.                                             *)

\* How each part of an attempt may go.
LEMMA Verdicts ==
  /\ NeedLock \in {"ok", "unlocked"} /\ (NeedLock # "ok" => ~held)
  /\ \A l : /\ NeedUsable(l) \in {"ok", "inactive"}
            /\ NeedUsable(l) # "ok" => ~Usable(mem[l])
  /\ \A l : NeedFollow(l) \in {"ok", "inactive"} /\ (NeedFollow(l) # "ok" => mem[l].moved)
  /\ \A ok \in BOOLEAN : Legal(ok) \in {"ok", "misuse"}
  /\ \A d : MayRead(d) \in {"ok", "misuse"}
<1>1. \A ok \in BOOLEAN : Legal(ok) \in {"ok", "misuse"}
  BY DEF Legal
<1>2. ASSUME NEW d PROVE (ForbidUnlockedReads => (held \/ ~d.heap)) \in BOOLEAN
  OBVIOUS
<1>3. \A d : MayRead(d) \in {"ok", "misuse"}
  BY <1>1, <1>2 DEF MayRead
<1> QED BY <1>1, <1>3 DEF NeedLock, NeedUsable, NeedFollow

\* Checks that fail are reported.
LEMMA FailedChecks ==
  ASSUME IInv, Disciplined, Running, NEW g, Progress(flow, g), ~g.reach, NEW how
  PROVE  Explained(g, how)
<1>1. flow.reach
  BY HereFacts DEF Sim
<1> QED BY <1>1 DEF Progress, Explained

\* A call without the lock is reported by a function that checks it.
LEMMA UnlockedReported ==
  ASSUME IInv, Disciplined, Running, ~held,
         NEW g, Progress(flow, g), g.reach => flow.lock = "Locked", NEW how
  PROVE  Explained(g, how)
<1>1. flow.lock # "Locked"
  BY HereFacts DEF Sim, TOP
<1> QED BY <1>1, FailedChecks

\* So is a pointer that is followed after it has moved.
LEMMA MovedReported ==
  ASSUME IInv, Disciplined, Running, NEW p \in Loc, Holds(mem, p), mem[p].moved,
         NEW g, Progress(flow, g),
         g.reach => StatusVar(flow, p) \in {"Untracked", "Active"}, NEW how
  PROVE  Explained(g, how)
<1>1. mem[p] \in Data /\ flow \in Flow /\ Sim(flow, mem, rooted, held)
  BY HereFacts, MemoryHolds
<1>2. mem[p].heap
  BY <1>1, DatumFields
<1>3. StatusVar(flow, p) \notin {"Untracked", "Active"}
  BY <1>1, <1>2, SimEntry
<1> QED BY <1>3, FailedChecks

\* And a value that is looked into although it is none or has moved.
LEMMA UnusableReported ==
  ASSUME IInv, Disciplined, Running, NEW v \in Loc, Holds(mem, v), ~Usable(mem[v]),
         NEW g, Progress(flow, g),
         g.reach => StatusVar(flow, v) \in {"Active", TOP} /\ HasOCamlShape(flow, v),
         Warned(flow, g, v)
  PROVE  Explained(g, "inactive")
<1>1. /\ flow \in Flow /\ Sim(flow, mem, rooted, held) /\ flow.reach
      /\ mem[v].kind \in ShapesVar(flow, v)
      /\ StatusVar(flow, v) = "Active" => ~mem[v].moved
  BY HereFacts, SimEntry DEF Sim
<1>2. CASE StatusVar(flow, v) = TOP
  BY <1>1, <1>2 DEF Warned, Explained
<1>3. CASE StatusVar(flow, v) # TOP /\ mem[v].moved
  BY <1>1, <1>3, FailedChecks
<1>4. CASE mem[v].kind = NonValue
  <2>1. ~HasOCamlShape(flow, v)
    BY <1>1, <1>4, KindAssumption DEF HasOCamlShape, OCamlShape, ShapesVar
  <2> QED BY <2>1, FailedChecks
<1> QED BY <1>2, <1>3, <1>4 DEF Usable

-----------------------------------------------------------------------------
(* The transfer functions.                                                 *)

\* Progress keeps the report.
LEMMA ProgressGrows ==
  ASSUME NEW g, Progress(flow, g)
  PROVE  Grows(g)
  BY DEF Progress, Grows, Final

\* Functions that can break no rule.
LEMMA HarmlessObeys ==
  ASSUME NEW g, Progress(flow, g), NEW t \in {"ok", "misuse"}
  PROVE  Obeys(g, t)
<1>1. t \in Verdict /\ t \notin Breaking
  BY DEF Verdict, Breaking
<1> QED BY <1>1, ProgressGrows DEF Obeys

\* Functions that follow a pointer.
LEMMA FollowObeys ==
  ASSUME IInv, Disciplined, NEW p \in Declared, NEW g, Progress(flow, g),
         g.reach => StatusVar(flow, p) \in {"Untracked", "Active"},
         NEW t \in {"ok", "misuse"}
  PROVE  Obeys(g, Then(NeedFollow(p), t))
<1> DEFINE a == Then(NeedFollow(p), t)
<1>1. a \in {"ok", "misuse", "inactive"} /\ (a = "inactive" => mem[p].moved)
  BY Verdicts DEF Then
<1> HIDE DEF a
<1>2. a \in Verdict
  BY <1>1 DEF Verdict, Breaking
<1>3. ASSUME Running, a \in Breaking PROVE Explained(g, a)
  <2>1. mem[p].moved
    BY <1>1, <1>3 DEF Breaking
  <2>2. p \in Loc /\ Holds(mem, p)
    BY <1>3, HereFacts
  <2> QED BY <1>3, <2>1, <2>2, MovedReported
<1>4. Obeys(g, a)
  BY <1>2, <1>3, ProgressGrows DEF Obeys
<1> QED BY <1>4 DEF a

\* Functions that only need the lock.
LEMMA LockObeys ==
  ASSUME IInv, Disciplined, NEW g, Progress(flow, g), g.reach => flow.lock = "Locked",
         NEW t \in {"ok", "misuse"}
  PROVE  Obeys(g, Then(NeedLock, t))
<1> DEFINE a == Then(NeedLock, t)
<1>1. a \in {"ok", "misuse", "unlocked"} /\ (a = "unlocked" => ~held)
  BY Verdicts DEF Then
<1> HIDE DEF a
<1>2. a \in Verdict
  BY <1>1 DEF Verdict, Breaking
<1>3. ASSUME Running, a \in Breaking PROVE Explained(g, a)
  <2>1. ~held
    BY <1>1, <1>3 DEF Breaking
  <2> QED BY <1>3, <2>1, UnlockedReported
<1>4. Obeys(g, a)
  BY <1>2, <1>3, ProgressGrows DEF Obeys
<1> QED BY <1>4 DEF a

\* Functions that look into a value.
LEMMA LookObeys ==
  ASSUME IInv, Disciplined, NEW v \in Declared, NEW g, Progress(flow, g),
         g.reach => Inspected(flow, v), Warned(flow, g, v), NEW kinds
  PROVE  Obeys(g, NeedBlockOf(v, kinds))
<1> DEFINE b == mem[v].kind \in kinds
           a == Then(NeedLock, Then(NeedUsable(v), Legal(b)))
<1>1. /\ a \in {"ok", "misuse", "unlocked", "inactive"}
      /\ a = "unlocked" => ~held
      /\ a = "inactive" => ~Usable(mem[v])
  <2>1. b \in BOOLEAN
    OBVIOUS
  <2> HIDE DEF b
  <2> QED BY <2>1, Verdicts DEF Then
<1>2. a = NeedBlockOf(v, kinds)
  BY DEF NeedBlockOf
<1> HIDE DEF a
<1>3. a \in Verdict
  BY <1>1 DEF Verdict, Breaking
<1>4. ASSUME Running, a \in Breaking PROVE Explained(g, a)
  <2>1. CASE a = "unlocked"
    BY <1>1, <1>4, <2>1, UnlockedReported DEF Inspected
  <2>2. CASE a = "inactive"
    <3>1. v \in Loc /\ Holds(mem, v) /\ ~Usable(mem[v])
      BY <1>1, <1>4, <2>2, HereFacts
    <3>2. g.reach => StatusVar(flow, v) \in {"Active", TOP} /\ HasOCamlShape(flow, v)
      BY DEF Inspected
    <3>3. Explained(g, "inactive")
      BY <1>4, <3>1, <3>2, UnusableReported
    <3> QED BY <2>2, <3>3
  <2> QED BY <1>4, <2>1, <2>2 DEF Breaking
<1>5. Obeys(g, a)
  BY <1>3, <1>4, ProgressGrows DEF Obeys
<1> QED BY <1>2, <1>5

-----------------------------------------------------------------------------
(* Each statement and call.                                                *)

\* Attempts that are a follow, or a lock, and nothing more.
LEMMA ThenOk == \A a : Then(a, "ok") = a
  BY DEF Then

\* What may be followed.
LEMMA FollowableStatus ==
  ASSUME NEW f, NEW p, Followable(f, p)
  PROVE  StatusVar(f, p) \in {"Untracked", "Active"}
  BY DEF Followable, StatusVar

\* A warning stays in the report.
LEMMA WarnedGrows ==
  ASSUME NEW f, NEW c, NEW g, NEW v, Warned(f, c, v),
         c.report \subseteq g.report, g.reach => c.reach
  PROVE  Warned(f, g, v)
  BY DEF Warned

\* Field(v, i), String_val(v) and &Field(v, i) warn like their checks.
LEMMA LooksWarn ==
  ASSUME NEW f \in Flow, NEW v \in Vals
  PROVE  /\ \A x \in Vals, index \in BOOLEAN : Warned(f, ReadField(f, x, v, index), v)
         /\ \A s \in CharPtrs : Warned(f, ValAsString(f, s, v), v)
         /\ \A p \in Ptrs, index \in BOOLEAN : Warned(f, CamlField(f, p, v, index), v)
<1>0. v \in Loc
  BY LocFacts
<1>1. "Active" \in ProperStatus /\ NonOCamlValue \in ProperShape
  BY ProperConstants DEF Status
<1>2. ASSUME NEW kinds
      PROVE  LET c == AssertBlockOf(f, v, kinds) IN c \in Flow /\ Warned(f, c, v)
  BY <1>0, AssertBlockOfChecked
<1>3. ASSUME NEW c \in Flow, NEW l \in Loc, NEW shape \in ProperShape, Warned(f, c, v)
      PROVE  Warned(f, ExecUpdate(c, l, "Active", shape), v)
  <2> DEFINE g == ExecUpdate(c, l, "Active", shape)
  <2>0. Sets(c, g, l, Bind("Active", RootAfter(c, l), shape))
    BY <1>1, <1>3, ExecUpdateSets
  <2> HIDE DEF g
  <2>1. g.report = c.report /\ g.reach = c.reach
    BY <2>0 DEF Sets
  <2>2. Warned(f, g, v)
    BY <1>3, <2>1, WarnedGrows
  <2> QED BY <2>2 DEF g
<1>4. ASSUME NEW x \in Vals, NEW index \in BOOLEAN
      PROVE  Warned(f, ReadField(f, x, v, index), v)
  <2> DEFINE c == AssertBlockOf(f, v, StdBlock)
  <2>1. c \in Flow /\ Warned(f, c, v)
    BY <1>2
  <2> HIDE DEF c
  <2>2. ShapeAt(c, v, index) \in ProperShape
    BY <1>0, <2>1, ShapeAtProper
  <2>3. x \in Loc
    BY LocFacts
  <2>4. Warned(f, ExecUpdate(c, x, "Active", ShapeAt(c, v, index)), v)
    BY <1>3, <2>1, <2>2, <2>3
  <2> QED BY <2>4 DEF c, ReadField, ReturnValue
<1>5. ASSUME NEW s \in CharPtrs PROVE Warned(f, ValAsString(f, s, v), v)
  BY <1>1, <1>2, <1>3, LocFacts DEF ValAsString
<1>6. ASSUME NEW p \in Ptrs, NEW index \in BOOLEAN
      PROVE  Warned(f, CamlField(f, p, v, index), v)
  <2> DEFINE c == AssertBlockOf(f, v, StdBlock)
             a == FreshValuePtr(c, p)
             b == EvalPassOnShape(a, v, CellOf[p], index)
             e == Bind("Active", "NotRooted", Kind)
  <2>0. p \in Loc /\ CellOf[p] \in Loc /\ v # CellOf[p]
    BY LocFacts
  <2>1. c \in Flow /\ Warned(f, c, v)
    BY <1>2
  <2> HIDE DEF c
  <2>2. a \in Flow /\ e \in ProperEntry /\ Updates(c, a, CellOf[p], e)
    BY <2>1, FreshValuePtrUpdates
  <2> HIDE DEF a
  <2>3. /\ b \in Flow /\ (b.reach => a.reach)
        /\ Updates(c, b, CellOf[p], Bind("Active", "NotRooted", ShapeAt(c, v, index)))
    BY <1>0, <2>0, <2>1, <2>2, PassOnUpdates
  <2> HIDE DEF b
  <2>4. Warned(f, b, v)
    BY <2>1, <2>3, WarnedGrows DEF Updates, Progress
  <2>5. Warned(f, ExecUpdate(b, p, "Active", NonOCamlValue), v)
    BY <1>1, <1>3, <2>0, <2>3, <2>4
  <2> QED BY <2>5 DEF b, a, c, CamlField
<1> QED BY <1>4, <1>5, <1>6

\* Plain C statements.
LEMMA StatementsObey ==
  ASSUME IInv, Disciplined
  PROVE  /\ \A x, y \in Vals : Obeys(CopyVal(flow, x, y), MayRead(mem[y]))
         /\ \A x \in Vals : Obeys(AssignConst(flow, x), "ok")
         /\ \A x, y, z \in Vals :
              Obeys(AssignBinop(flow, x, y, z), Then(MayRead(mem[y]), MayRead(mem[z])))
         /\ \A x \in Vals, p \in Ptrs :
              Obeys(LoadPtr(flow, x, p),
                    Then(NeedFollow(p),
                    Then(Legal(Holds(mem, CellOf[p])), MayRead(mem[CellOf[p]]))))
         /\ \A w \in Vals, p \in Ptrs :
              Obeys(StorePtr(flow, p, w),
                    Then(NeedFollow(p), Then(SameKind(p, w), MayRead(mem[w]))))
         /\ \A s \in CharPtrs : Obeys(LoadChar(flow, s), NeedFollow(s))
         /\ \A x \in Vals : Obeys(ExecExtCallArg(flow, x), NeedFollow(x))
<1>0. flow \in Flow /\ "ok" \in {"ok", "misuse"}
  BY DEF IInv, TypeOK
<1>1. ASSUME NEW x \in Vals, NEW y \in Vals
      PROVE  Obeys(CopyVal(flow, x, y), MayRead(mem[y]))
  <2>1. Progress(flow, CopyVal(flow, x, y))
    BY <1>0, LocFacts, CopyValUpdates DEF Updates
  <2>2. MayRead(mem[y]) \in {"ok", "misuse"}
    BY Verdicts
  <2> QED BY <2>1, <2>2, HarmlessObeys
<1>2. ASSUME NEW x \in Vals PROVE Obeys(AssignConst(flow, x), "ok")
  BY <1>0, LocFacts, AssignConstUpdates, HarmlessObeys DEF Updates
<1>3. ASSUME NEW x \in Vals, NEW y \in Vals, NEW z \in Vals
      PROVE  Obeys(AssignBinop(flow, x, y, z), Then(MayRead(mem[y]), MayRead(mem[z])))
  <2>1. Then(MayRead(mem[y]), MayRead(mem[z])) \in {"ok", "misuse"}
    BY Verdicts DEF Then
  <2>2. Progress(flow, AssignBinop(flow, x, y, z))
    BY <1>0, LocFacts, AssignBinopUpdates DEF Updates
  <2> QED BY <2>1, <2>2, HarmlessObeys
<1>4. ASSUME NEW x \in Vals, NEW p \in Ptrs
      PROVE  Obeys(LoadPtr(flow, x, p),
                   Then(NeedFollow(p),
                   Then(Legal(Holds(mem, CellOf[p])), MayRead(mem[CellOf[p]]))))
  <2>1. /\ Progress(flow, LoadPtr(flow, x, p))
        /\ LoadPtr(flow, x, p).reach => StatusVar(flow, p) \in {"Untracked", "Active"}
    BY <1>0, LoadPtrUpdates, FollowableStatus DEF Updates
  <2>2. Holds(mem, CellOf[p]) \in BOOLEAN
    BY DEF Holds
  <2>3. Then(Legal(Holds(mem, CellOf[p])), MayRead(mem[CellOf[p]])) \in {"ok", "misuse"}
    BY <2>2, Verdicts DEF Then
  <2>4. p \in Declared
    BY DEF Declared
  <2> QED BY <2>1, <2>3, <2>4, FollowObeys
<1>5. ASSUME NEW w \in Vals, NEW p \in Ptrs
      PROVE  Obeys(StorePtr(flow, p, w),
                   Then(NeedFollow(p), Then(SameKind(p, w), MayRead(mem[w]))))
  <2>1. /\ Progress(flow, StorePtr(flow, p, w))
        /\ StorePtr(flow, p, w).reach => StatusVar(flow, p) \in {"Untracked", "Active"}
    BY <1>0, StorePtrUpdates, FollowableStatus DEF Updates
  <2>2. (Holds(mem, CellOf[p]) /\ mem[CellOf[p]].kind = mem[w].kind) \in BOOLEAN
    BY DEF Holds
  <2>3. Then(SameKind(p, w), MayRead(mem[w])) \in {"ok", "misuse"}
    BY <2>2, Verdicts DEF Then, SameKind
  <2>4. p \in Declared
    BY DEF Declared
  <2> QED BY <2>1, <2>3, <2>4, FollowObeys
<1>6. ASSUME NEW s \in CharPtrs PROVE Obeys(LoadChar(flow, s), NeedFollow(s))
  <2>1. /\ Progress(flow, LoadChar(flow, s))
        /\ LoadChar(flow, s).reach => StatusVar(flow, s) \in {"Untracked", "Active"}
    BY <1>0, LoadCharChecked, CheckedProgress, FollowableStatus
  <2>2. s \in Declared
    BY DEF Declared
  <2>3. Obeys(LoadChar(flow, s), Then(NeedFollow(s), "ok"))
    BY <1>0, <2>1, <2>2, FollowObeys
  <2> QED BY <2>3, ThenOk
<1>7. ASSUME NEW x \in Vals PROVE Obeys(ExecExtCallArg(flow, x), NeedFollow(x))
  <2>1. /\ Progress(flow, ExecExtCallArg(flow, x))
        /\ ExecExtCallArg(flow, x).reach => StatusVar(flow, x) \in {"Untracked", "Active"}
    BY <1>0, LocFacts, ExecExtCallArgChecked, CheckedProgress
  <2>2. x \in Declared
    BY DEF Declared
  <2>3. Obeys(ExecExtCallArg(flow, x), Then(NeedFollow(x), "ok"))
    BY <1>0, <2>1, <2>2, FollowObeys
  <2> QED BY <2>3, ThenOk
<1> QED BY <1>1, <1>2, <1>3, <1>4, <1>5, <1>6, <1>7

\* Calls that look at a value without changing the heap.
LEMMA ValueCallsObey ==
  ASSUME IInv, Disciplined
  PROVE  /\ \A x \in Vals : Obeys(ValOfLong(flow, x), "ok")
         /\ \A v \in Vals : Obeys(ValAsLong(flow, v), Legal(mem[v].kind = Imm))
         /\ \A v \in Vals, kinds \in AllocShapes :
              Obeys(CamlInspect(flow, v, kinds), NeedBlockOf(v, kinds))
         /\ \A x, v \in Vals, index \in BOOLEAN :
              Obeys(ReadField(flow, x, v, index), NeedBlockOf(v, StdBlock))
         /\ \A p \in Ptrs, v \in Vals, index \in BOOLEAN :
              Obeys(CamlField(flow, p, v, index), NeedBlockOf(v, StdBlock))
         /\ \A s \in CharPtrs, v \in Vals :
              Obeys(ValAsString(flow, s, v), NeedBlockOf(v, {Str}))
<1>0. flow \in Flow /\ "ok" \in {"ok", "misuse"}
  BY DEF IInv, TypeOK
<1>1. ASSUME NEW x \in Vals PROVE Obeys(ValOfLong(flow, x), "ok")
  <2>1. Updates(flow, ValOfLong(flow, x), x, Bind("Active", RootAfter(flow, x), {Imm}))
    BY <1>0, LocFacts, CheckedRefl, ProperConstants, ReturnValueUpdates DEF ValOfLong
  <2> QED BY <1>0, <2>1, HarmlessObeys DEF Updates
<1>2. ASSUME NEW v \in Vals PROVE Obeys(ValAsLong(flow, v), Legal(mem[v].kind = Imm))
  <2>1. (mem[v].kind = Imm) \in BOOLEAN
    OBVIOUS
  <2>2. Legal(mem[v].kind = Imm) \in {"ok", "misuse"}
    BY <2>1, Verdicts
  <2>3. Progress(flow, ValAsLong(flow, v))
    BY <1>0, LocFacts, ValAsLongChecked, CheckedProgress
  <2> QED BY <2>2, <2>3, HarmlessObeys
<1>3. ASSUME NEW v \in Vals PROVE v \in Loc /\ v \in Declared
  BY LocFacts DEF Declared
<1>4. ASSUME NEW v \in Vals, NEW kinds \in AllocShapes
      PROVE  Obeys(CamlInspect(flow, v, kinds), NeedBlockOf(v, kinds))
  <2> DEFINE g == CamlInspect(flow, v, kinds)
  <2>1. Checked(flow, g) /\ (g.reach => Inspected(flow, v)) /\ Warned(flow, g, v)
    BY <1>0, <1>3, AssertBlockOfChecked DEF CamlInspect
  <2> HIDE DEF g
  <2>2. Progress(flow, g)
    BY <2>1, CheckedProgress
  <2>3. Obeys(g, NeedBlockOf(v, kinds))
    BY <1>3, <2>1, <2>2, LookObeys
  <2> QED BY <2>3 DEF g
<1>5. ASSUME NEW x \in Vals, NEW v \in Vals, NEW index \in BOOLEAN
      PROVE  Obeys(ReadField(flow, x, v, index), NeedBlockOf(v, StdBlock))
  <2> DEFINE g == ReadField(flow, x, v, index)
  <2>1. /\ Progress(flow, g) /\ (g.reach => Inspected(flow, v))
        /\ Warned(flow, g, v)
    BY <1>0, <1>3, ReadFieldUpdates, LooksWarn DEF Updates
  <2> HIDE DEF g
  <2>2. Obeys(g, NeedBlockOf(v, StdBlock))
    BY <1>3, <2>1, LookObeys
  <2> QED BY <2>2 DEF g
<1>6. ASSUME NEW p \in Ptrs, NEW v \in Vals, NEW index \in BOOLEAN
      PROVE  Obeys(CamlField(flow, p, v, index), NeedBlockOf(v, StdBlock))
  <2> DEFINE g == CamlField(flow, p, v, index)
  <2>1. /\ \E b \in Flow :
             /\ Updates(flow, b, CellOf[p],
                        Bind("Active", "NotRooted", ShapeAt(flow, v, index)))
             /\ Updates(b, g, p, Bind("Active", RootAfter(b, p), NonOCamlValue))
        /\ g.reach => Inspected(flow, v)
    BY <1>0, CamlFieldUpdates
  <2>2. Warned(flow, g, v)
    BY <1>0, LooksWarn
  <2> HIDE DEF g
  <2>3. Progress(flow, g)
    BY <2>1, ProgressTrans DEF Updates
  <2>4. Obeys(g, NeedBlockOf(v, StdBlock))
    BY <1>3, <2>1, <2>2, <2>3, LookObeys
  <2> QED BY <2>4 DEF g
<1>7. ASSUME NEW s \in CharPtrs, NEW v \in Vals
      PROVE  Obeys(ValAsString(flow, s, v), NeedBlockOf(v, {Str}))
  <2> DEFINE g == ValAsString(flow, s, v)
  <2>1. /\ Progress(flow, g) /\ (g.reach => Inspected(flow, v))
        /\ Warned(flow, g, v)
    BY <1>0, ValAsStringUpdates, LooksWarn DEF Updates
  <2> HIDE DEF g
  <2>2. Obeys(g, NeedBlockOf(v, {Str}))
    BY <1>3, <2>1, LookObeys
  <2> QED BY <2>2 DEF g
<1> QED BY <1>1, <1>2, <1>4, <1>5, <1>6, <1>7

\* A named argument of caml_set_field that has moved, or is no value, is
\* reported like the block.
LEMMA SetFieldObeys ==
  ASSUME IInv, Disciplined, NEW v \in Vals, NEW w \in Vals, NEW index \in BOOLEAN
  PROVE  Obeys(CamlSetField(flow, v, w, index),
               Then(NeedLock, Then(NeedUsable(v), Then(NeedUsable(w),
               Then(Legal(mem[v].kind \in StdBlock),
                    Legal(mem[w].kind \in FieldOf[mem[v].kind]))))))
<1> DEFINE g == CamlSetField(flow, v, w, index)
           block == mem[v].kind \in StdBlock
           typed == mem[w].kind \in FieldOf[mem[v].kind]
           a == Then(NeedLock, Then(NeedUsable(v), Then(NeedUsable(w),
                Then(Legal(block), Legal(typed)))))
<1>0. flow \in Flow /\ v \in Loc /\ w \in Loc /\ v \in Declared /\ w \in Declared
  BY LocFacts DEF IInv, TypeOK, Declared
<1>1. /\ Checked(flow, g)
      /\ g.reach => Inspected(flow, v) /\ Inspected(flow, w)
      /\ Warned(flow, g, v) /\ Warned(flow, g, w)
  BY <1>0, CamlSetFieldChecked
<1>2. /\ a \in {"ok", "misuse", "unlocked", "inactive"}
      /\ a = "unlocked" => ~held
      /\ a = "inactive" => ~Usable(mem[v]) \/ ~Usable(mem[w])
  <2>1. block \in BOOLEAN /\ typed \in BOOLEAN
    OBVIOUS
  <2> HIDE DEF block, typed
  <2> QED BY <2>1, Verdicts DEF Then
<1> HIDE DEF a, g
<1>3. Progress(flow, g) /\ a \in Verdict
  BY <1>1, <1>2, CheckedProgress DEF Verdict, Breaking
<1>4. ASSUME Running, a \in Breaking PROVE Explained(g, a)
  <2>1. CASE a = "unlocked"
    BY <1>1, <1>2, <1>3, <1>4, <2>1, UnlockedReported DEF Inspected
  <2>2. CASE a = "inactive"
    <3>1. PICK u \in {v, w} : ~Usable(mem[u])
      BY <1>2, <2>2
    <3>2. u \in Loc /\ Holds(mem, u) /\ Warned(flow, g, u)
      BY <1>0, <1>1, <1>4, HereFacts
    <3>3. g.reach => StatusVar(flow, u) \in {"Active", TOP} /\ HasOCamlShape(flow, u)
      BY <1>1 DEF Inspected
    <3>4. Explained(g, "inactive")
      BY <1>3, <1>4, <3>1, <3>2, <3>3, UnusableReported
    <3> QED BY <2>2, <3>4
  <2> QED BY <1>4, <2>1, <2>2 DEF Breaking
<1>5. Obeys(g, a)
  BY <1>3, <1>4, ProgressGrows DEF Obeys
<1> QED BY <1>5 DEF a, g

\* caml_modify checks its pointer, and the value behind it.
LEMMA ModifyObeys ==
  ASSUME IInv, Disciplined, NEW p \in Ptrs, NEW w \in Vals
  PROVE  Obeys(CamlModify(flow, p, w),
               Then(NeedLock, Then(NeedFollow(p), Then(Legal(Holds(mem, CellOf[p])),
               Then(NeedUsable(CellOf[p]),
               Then(SameKind(p, w), Legal(Usable(mem[w]))))))))
<1> DEFINE c == CellOf[p]
           g == CamlModify(flow, p, w)
           holds == Holds(mem, c)
           same == Holds(mem, c) /\ mem[c].kind = mem[w].kind
           usable == Usable(mem[w])
           a == Then(NeedLock, Then(NeedFollow(p), Then(Legal(holds),
                Then(NeedUsable(c), Then(Legal(same), Legal(usable))))))
<1>0. flow \in Flow /\ p \in Loc /\ p \in Declared /\ c \in Loc
  BY LocFacts DEF IInv, TypeOK, Declared
<1>1. /\ Checked(flow, g)
      /\ g.reach => Followable(flow, p) /\ Inspected(flow, c)
      /\ Warned(flow, g, c)
  BY CamlModifyChecked, <1>0
<1>2. /\ a \in {"ok", "misuse", "unlocked", "inactive"}
      /\ a = "unlocked" => ~held
      /\ a = "inactive" => mem[p].moved \/ (holds /\ ~Usable(mem[c]))
  <2>1. holds \in BOOLEAN /\ same \in BOOLEAN /\ usable \in BOOLEAN
    BY DEF Holds, Usable
  <2> HIDE DEF holds, same, usable
  <2>2. Legal(holds) = "ok" <=> holds
    BY <2>1 DEF Legal
  <2> QED BY <2>1, <2>2, Verdicts DEF Then
<1>3. a = Then(NeedLock, Then(NeedFollow(p), Then(Legal(Holds(mem, c)),
          Then(NeedUsable(c), Then(SameKind(p, w), Legal(Usable(mem[w])))))))
  BY DEF SameKind
<1> HIDE DEF a, g
<1>4. Progress(flow, g) /\ a \in Verdict
  BY <1>1, <1>2, CheckedProgress DEF Verdict, Breaking
<1>5. ASSUME Running, a \in Breaking PROVE Explained(g, a)
  <2>1. CASE a = "unlocked"
    BY <1>1, <1>2, <1>4, <1>5, <2>1, UnlockedReported DEF Inspected
  <2>2. CASE a = "inactive" /\ mem[p].moved
    <3>1. Holds(mem, p)
      BY <1>0, <1>5, HereFacts
    <3>2. g.reach => StatusVar(flow, p) \in {"Untracked", "Active"}
      BY <1>1, FollowableStatus
    <3> QED BY <1>0, <1>4, <1>5, <2>2, <3>1, <3>2, MovedReported
  <2>3. CASE a = "inactive" /\ Holds(mem, c) /\ ~Usable(mem[c])
    <3>1. g.reach => StatusVar(flow, c) \in {"Active", TOP} /\ HasOCamlShape(flow, c)
      BY <1>1 DEF Inspected
    <3> HIDE DEF c
    <3>2. Explained(g, "inactive")
      BY <1>0, <1>1, <1>4, <1>5, <2>3, <3>1, UnusableReported
    <3> QED BY <2>3, <3>2
  <2> QED BY <1>2, <1>5, <2>1, <2>2, <2>3 DEF Breaking
<1>6. Obeys(g, a)
  BY <1>4, <1>5, ProgressGrows DEF Obeys
<1> QED BY <1>3, <1>6 DEF g

\* Calls of the runtime.
LEMMA RuntimeCallsObey ==
  ASSUME IInv, Disciplined
  PROVE  /\ \A x \in Vals, shape \in AllocShapes : Obeys(CamlAlloc(flow, x, shape), NeedLock)
         /\ \A x, v \in Vals :
              Obeys(CamlAllocSome(flow, x, v),
                    Then(NeedLock, Legal(Usable(mem[v]) /\ SomeOf(v) # {})))
         /\ \A x \in Vals : Obeys(CamlParam(flow, x), "ok")
         /\ \A x \in Vals : Obeys(CamlLocal(flow, x), "ok")
         /\ \A x \in Vals : Obeys(Redeclare(flow, x), "ok")
         /\ Obeys(EndRoots(flow), Legal(held /\ ~ForbidEndRoots))
         /\ \A x \in Vals : Obeys(ExecUnregisterRoot(flow, x), Legal(held))
         /\ \A p \in Named : Obeys(CamlNamedValue(flow, p), "ok")
         /\ Obeys(CamlEnterBlockingSection(flow), NeedLock)
         /\ Obeys(CamlLeaveBlockingSection(flow), Legal(~held))
         /\ Obeys(EvalUnimplemented(flow), "ok")
<1>0. flow \in Flow /\ held \in BOOLEAN /\ "ok" \in {"ok", "misuse"}
  BY DEF IInv, TypeOK
<1>1. ASSUME NEW g, NEW x, NEW shape, Allocates(flow, g, x, shape)
      PROVE  Progress(flow, g) /\ (g.reach => flow.lock = "Locked")
  BY <1>1, ProgressTrans DEF Allocates, Collects, Updates
<1>2. ASSUME NEW x \in Vals, NEW shape \in AllocShapes
      PROVE  Obeys(CamlAlloc(flow, x, shape), NeedLock)
  <2> DEFINE g == CamlAlloc(flow, x, shape)
  <2>1. shape \in ProperShape
    BY ShapesAssumption, ProperConstants
  <2>2. Allocates(flow, g, x, shape)
    BY <1>0, <2>1, LocFacts, CamlAllocAllocates
  <2> HIDE DEF g
  <2>3. Progress(flow, g) /\ (g.reach => flow.lock = "Locked")
    BY <1>1, <2>2
  <2>4. Obeys(g, Then(NeedLock, "ok"))
    BY <1>0, <2>3, LockObeys
  <2> QED BY <2>4, ThenOk DEF g
<1>3. ASSUME NEW x \in Vals, NEW v \in Vals
      PROVE  Obeys(CamlAllocSome(flow, x, v),
                   Then(NeedLock, Legal(Usable(mem[v]) /\ SomeOf(v) # {})))
  <2> DEFINE g == CamlAllocSome(flow, x, v)
             fits == Usable(mem[v]) /\ SomeOf(v) # {}
  <2>1. Allocates(flow, g, x, StdBlock)
    BY <1>0, LocFacts, CamlAllocSomeAllocates
  <2> HIDE DEF g
  <2>2. Progress(flow, g) /\ (g.reach => flow.lock = "Locked")
    BY <1>1, <2>1
  <2>3. fits \in BOOLEAN
    BY DEF Usable
  <2> HIDE DEF fits
  <2>4. Obeys(g, Then(NeedLock, Legal(fits)))
    BY <2>2, <2>3, Verdicts, LockObeys
  <2> QED BY <2>4 DEF g, fits
<1>4. ASSUME NEW x \in Vals PROVE Obeys(CamlParam(flow, x), "ok")
  BY <1>0, LocFacts, CamlParamRegisters, HarmlessObeys DEF Registers, CamlParam
<1>5. ASSUME NEW x \in Vals PROVE Obeys(CamlLocal(flow, x), "ok")
  <2>1. Progress(flow, CamlLocal(flow, x))
    BY <1>0, LocFacts, CamlLocalRegisters, ProgressTrans DEF Registers, Updates
  <2> QED BY <1>0, <2>1, HarmlessObeys
<1>6. ASSUME NEW x \in Vals PROVE Obeys(Redeclare(flow, x), "ok")
  BY <1>0, LocFacts, RedeclareUpdates, HarmlessObeys DEF Updates
<1>7. Obeys(EndRoots(flow), Legal(held /\ ~ForbidEndRoots))
  <2>1. (held /\ ~ForbidEndRoots) \in BOOLEAN /\ Progress(flow, EndRoots(flow))
    BY <1>0, CheckedRefl, CheckedProgress DEF EndRoots
  <2>2. Legal(held /\ ~ForbidEndRoots) \in {"ok", "misuse"}
    BY <2>1, Verdicts
  <2> QED BY <2>1, <2>2, HarmlessObeys
<1>8. ASSUME NEW x \in Vals PROVE Obeys(ExecUnregisterRoot(flow, x), Legal(held))
  <2>1. Progress(flow, ExecUnregisterRoot(flow, x))
    BY <1>0, LocFacts, ExecUnregisterRootCases DEF Progress
  <2>2. Legal(held) \in {"ok", "misuse"}
    BY <1>0, Verdicts
  <2> QED BY <2>1, <2>2, HarmlessObeys
<1>9. ASSUME NEW p \in Named PROVE Obeys(CamlNamedValue(flow, p), "ok")
  <2>1. p \in Ptrs
    BY LocAssumption
  <2>2. PICK a \in Flow, b \in Flow :
          /\ Progress(flow, a) /\ Progress(a, b)
          /\ Progress(b, CamlNamedValue(flow, p))
    BY <1>0, <2>1, CamlNamedValueRegisters DEF Updates, Registers
  <2>3. Progress(flow, CamlNamedValue(flow, p))
    BY <2>2, ProgressTrans
  <2> QED BY <1>0, <2>3, HarmlessObeys
<1>10. Obeys(CamlEnterBlockingSection(flow), NeedLock)
  <2> DEFINE g == CamlEnterBlockingSection(flow)
  <2>1. Progress(flow, g) /\ (g.reach => flow.lock = "Locked")
    BY <1>0, CamlEnterBlockingSectionCollects
  <2> HIDE DEF g
  <2>2. Obeys(g, Then(NeedLock, "ok"))
    BY <1>0, <2>1, LockObeys
  <2> QED BY <2>2, ThenOk DEF g
<1>11. Obeys(CamlLeaveBlockingSection(flow), Legal(~held))
  <2>1. Progress(flow, CamlLeaveBlockingSection(flow))
    BY <1>0, CamlLeaveBlockingSectionFlow DEF Progress
  <2>2. (~held) \in BOOLEAN
    BY <1>0
  <2>3. Legal(~held) \in {"ok", "misuse"}
    BY <2>2, Verdicts
  <2> QED BY <2>1, <2>3, HarmlessObeys
<1>12. Obeys(EvalUnimplemented(flow), "ok")
  <2>1. Grows(EvalUnimplemented(flow))
    BY <1>0, EvalUnimplementedFlow DEF Grows, Final, Diagnostic
  <2> QED BY <2>1 DEF Obeys, Verdict, Breaking
<1> QED
  BY <1>2, <1>3, <1>4, <1>5, <1>6, <1>7, <1>8, <1>9, <1>10, <1>11, <1>12

\* A function that raises does justice to its attempt, and ends.
Ends(g, t) ==
  /\ t \in Verdict
  /\ g \in Flow
  /\ flow.report \subseteq g.report
  /\ Running /\ t \in Breaking => Explained(g, t)

\* What the checks before an exception found outlives it.
LEMMA NoReturnEnds ==
  ASSUME IInv, NEW c \in Flow, Checked(flow, c), NEW t, Obeys(c, t)
  PROVE  Ends(NoReturn(c), t)
<1>1. flow \in Flow
  BY DEF IInv, TypeOK
<1>2. /\ NeverReturns(flow, NoReturn(c))
      /\ NoReturn(c).report = c.report
  BY <1>1, NoReturnAfterChecks
<1> QED BY <1>2 DEF Obeys, Ends, Explained, NeverReturns

\* The three ways to raise an exception.
LEMMA RaisesEnd ==
  ASSUME IInv, Disciplined
  PROVE  /\ Ends(CamlRaise(flow), NeedLock)
         /\ \A v \in Vals : Ends(CamlRaiseWithArg(flow, v), Then(NeedLock, NeedFollow(v)))
         /\ \A v \in Vals : Ends(CamlFailwithValue(flow, v), NeedBlockOf(v, {Str}))
<1> DEFINE a == EvalAssertRuntimeLock(flow)
<1>0. flow \in Flow /\ "ok" \in {"ok", "misuse"}
  BY DEF IInv, TypeOK
<1>1. Checked(flow, a) /\ a \in Flow /\ (a.reach => flow.lock = "Locked")
  BY <1>0, EvalAssertRuntimeLockChecked DEF Checked
<1> HIDE DEF a
<1>2. Ends(NoReturn(a), NeedLock)
  <2>1. Obeys(a, Then(NeedLock, "ok"))
    BY <1>0, <1>1, CheckedProgress, LockObeys
  <2> QED BY <1>1, <2>1, ThenOk, NoReturnEnds
<1>3. ASSUME NEW v \in Vals
      PROVE  Ends(NoReturn(EvalAssertValid(a, v)), Then(NeedLock, NeedFollow(v)))
  <2> DEFINE b == EvalAssertValid(a, v)
             t == Then(NeedLock, NeedFollow(v))
  <2>0. v \in Loc /\ v \in Declared
    BY LocFacts DEF Declared
  <2>1. /\ Checked(flow, b) /\ b \in Flow
        /\ b.reach => a.reach /\ StatusVar(flow, v) \in {"Active", TOP}
        /\ Warned(flow, b, v)
    BY <1>0, <1>1, <2>0, AssertValidAfter
  <2> HIDE DEF b
  <2>2. /\ t \in {"ok", "unlocked", "inactive"}
        /\ t = "unlocked" => ~held
        /\ t = "inactive" => mem[v].moved
    BY Verdicts DEF Then
  <2> HIDE DEF t
  <2>3. Progress(flow, b) /\ t \in Verdict
    BY <2>1, <2>2, CheckedProgress DEF Verdict, Breaking
  <2>4. ASSUME Running, t \in Breaking PROVE Explained(b, t)
    <3>1. CASE t = "unlocked"
      BY <1>1, <2>1, <2>2, <2>3, <2>4, <3>1, UnlockedReported
    <3>2. CASE t = "inactive" /\ StatusVar(flow, v) = TOP
      <4>1. flow.reach
        BY <2>4, HereFacts DEF Sim
      <4> QED BY <2>1, <3>2, <4>1 DEF Warned, Explained
    <3>3. CASE t = "inactive" /\ StatusVar(flow, v) # TOP
      BY <2>0, <2>1, <2>2, <2>3, <2>4, <3>3, HereFacts, MovedReported
    <3> QED BY <2>4, <3>1, <3>2, <3>3 DEF Breaking
  <2>5. Obeys(b, t)
    BY <2>3, <2>4, ProgressGrows DEF Obeys
  <2>6. Ends(NoReturn(b), t)
    BY <2>1, <2>5, NoReturnEnds
  <2> QED BY <2>6 DEF b, t
<1>4. ASSUME NEW v \in Vals
      PROVE  Ends(NoReturn(AssertBlockOf(flow, v, {Str})), NeedBlockOf(v, {Str}))
  <2> DEFINE c == AssertBlockOf(flow, v, {Str})
  <2>1. /\ Checked(flow, c) /\ c \in Flow
        /\ c.reach => Inspected(flow, v)
        /\ Warned(flow, c, v)
    BY <1>0, LocFacts, AssertBlockOfChecked
  <2> HIDE DEF c
  <2>2. v \in Declared
    BY DEF Declared
  <2>3. Obeys(c, NeedBlockOf(v, {Str}))
    BY <2>1, <2>2, CheckedProgress, LookObeys
  <2>4. Ends(NoReturn(c), NeedBlockOf(v, {Str}))
    BY <2>1, <2>3, NoReturnEnds
  <2> QED BY <2>4 DEF c
<1> QED BY <1>2, <1>3, <1>4 DEF CamlRaise, CamlRaiseWithArg, CamlFailwithValue, a

-----------------------------------------------------------------------------
(* Steps.                                                                  *)

\* What has been reported in either branch.
Reported == flow.report \union aside.report

\* Outside conditionals there is no other branch.
Folded == phase = "seq" => aside = NoFlow

\* A step is reported as it should, and keeps what was reported before.
Judged ==
  /\ run = "ok" /\ run' \in Breaking => Explained(flow', run')
  /\ Reported \subseteq Reported'
  /\ \/ run' = run
     \/ run = "ok" /\ run' \in Breaking \union {"misuse", "done"}
     \/ run = "ok" /\ run' = "abandoned" /\ Reported' \intersect Final # {}

\* An empty flow has an empty report.
LEMMA NoFlowSilent == NoFlow.report = {}
  BY DEF NoFlow, Unreachable

\* Statements and calls.
LEMMA StepJudged ==
  ASSUME NEW g, NEW t, Obeys(g, t), Step(g, t, TRUE)
  PROVE  Judged
<1>1. /\ flow.reach /\ flow' = g /\ aside' = aside
      /\ flow.report \subseteq g.report
      /\ ~g.reach => g.report \intersect Final # {}
  BY DEF Obeys, Grows, Step
<1>2. Reported \subseteq Reported' /\ g.report \subseteq Reported'
  BY <1>1 DEF Reported
<1>3. CASE ~Running
  BY <1>2, <1>3 DEF Judged, Step, Breaking
<1>4. CASE Running /\ t # "ok"
  <2>1. run = "ok" /\ run' = t /\ t \in {"misuse"} \union Breaking
    BY <1>4 DEF Step, EndRun, Obeys, Running, Verdict
  <2> QED BY <1>1, <1>2, <1>4, <2>1 DEF Judged, Obeys
<1>5. CASE Running /\ t = "ok" /\ g.reach
  <2>1. run = "ok" /\ run' = "ok"
    BY <1>5 DEF Step, Running
  <2> QED BY <1>2, <2>1 DEF Judged, Breaking
<1>6. CASE Running /\ t = "ok" /\ ~g.reach
  <2>1. run = "ok" /\ run' = "abandoned"
    BY <1>6 DEF Step, EndRun, Running
  <2> QED BY <1>1, <1>2, <1>6, <2>1 DEF Judged, Breaking
<1> QED BY <1>3, <1>4, <1>5, <1>6

\* Exceptions.
LEMMA LeaveJudged ==
  ASSUME NEW g, NEW t, Ends(g, t), Leave(g, t)
  PROVE  Judged
<1>1. /\ flow' = g /\ aside' = aside /\ flow.report \subseteq g.report
  BY DEF Ends, Leave
<1>2. Reported \subseteq Reported'
  BY <1>1 DEF Reported
<1>3. CASE Running
  <2>1. run = "ok" /\ run' = Then(t, "done")
    BY <1>3 DEF Leave, EndRun, Running
  <2>2. /\ run' \in {"misuse", "done"} \union Breaking
        /\ run' \in Breaking => run' = t
    BY <2>1 DEF Then, Ends, Verdict, Breaking
  <2> QED BY <1>1, <1>2, <1>3, <2>1, <2>2 DEF Judged, Ends
<1>4. CASE ~Running
  BY <1>2, <1>4 DEF Judged, Leave, Breaking
<1> QED BY <1>3, <1>4

\* A conditional: both branches start from the report before it, and the one
\* the run takes is reachable.
LEMMA OpenJudged ==
  ASSUME Folded, NEW yes, NEW no, NEW t \in {"ok", "misuse"}, NEW taken,
         Open(yes, no, t, taken),
         flow.report \subseteq yes.report, flow.report \subseteq no.report,
         run = "ok" /\ t = "ok" =>
           \A branch \in taken : (IF branch = "then" THEN yes ELSE no).reach
  PROVE  Judged
<1>1. flow' = yes /\ aside' = no /\ aside.report = {}
  BY NoFlowSilent DEF Open, Folded
<1>2. Reported \subseteq Reported'
  BY <1>1 DEF Reported
<1>3. CASE run # "ok"
  BY <1>2, <1>3 DEF Open, Judged, Breaking
<1>4. CASE run = "ok" /\ t # "ok"
  <2>1. run' = "misuse"
    BY <1>4 DEF Open, EndRun
  <2> QED BY <1>2, <1>4, <2>1 DEF Judged, Breaking
<1>5. CASE run = "ok" /\ t = "ok"
  <2>1. run' = run
    BY <1>5 DEF Open
  <2> QED BY <1>2, <1>5, <2>1 DEF Judged, Breaking
<1> QED BY <1>3, <1>4, <1>5

\* The branch of if (Is_block(v)) that the run takes is reachable.
LEMMA IsBlockReaches ==
  ASSUME NEW f \in Flow, NEW v \in Loc, f.reach, NEW k \in Kind, k \in ShapesVar(f, v)
  PROVE  CamlIsBlock(f, v, k # Imm).reach
<1> DEFINE answer == k # Imm
           kinds == (IF ~answer THEN {Imm} ELSE Kind \ {Imm}) \intersect ShapesVar(f, v)
           g == IF NonValue \in ShapesVar(f, v)
                  THEN [f EXCEPT !.report = @ \union {"bad_shape"}] ELSE f
<1>1. kinds # {}
  OBVIOUS
<1>2. g \in Flow /\ g.reach
  BY DEF Flow, Alarm, ErrorAlarm
<1> DEFINE h == SetEntry(g, v, [g.env[v] EXCEPT !.shape = kinds])
<1>3. EvalIsImmediate(f, v, ~answer) = h
  BY <1>1 DEF EvalIsImmediate
<1> HIDE DEF g, kinds
<1>4. h.reach /\ [h EXCEPT !.env = f.env].reach
  BY <1>2 DEF SetEntry, Flow
<1> QED BY <1>3, <1>4 DEF CamlIsBlock

\* Conditionals, join and collections by other threads.
LEMMA ConditionalsJudged ==
  ASSUME IInv, Disciplined, Folded, Conditional \/ ConcurrentGC
  PROVE  Judged
<1>0. flow \in Flow /\ aside \in Flow
  BY DEF IInv, TypeOK
<1>1. CASE If
  <2>1. Open(flow, flow, "ok", {"then", "else"}) /\ flow.reach
    BY <1>1 DEF If, Open
  <2>2. "ok" \in {"ok", "misuse"}
    OBVIOUS
  <2> QED BY <2>1, <2>2, OpenJudged
<1>2. ASSUME NEW v \in Vals, IfIsBlock(v) PROVE Judged
  <2> DEFINE yes == CamlIsBlock(flow, v, TRUE)
             no == CamlIsBlock(flow, v, FALSE)
             isValue == mem[v].kind # NonValue
             taken == {IF mem[v].kind = Imm THEN "else" ELSE "then"}
  <2>0. v \in Loc /\ v \in Declared
    BY LocFacts DEF Declared
  <2>1. flow.report \subseteq yes.report /\ flow.report \subseteq no.report
    BY <1>0, <2>0, CamlIsBlockFlow
  <2>2. Legal(isValue) \in {"ok", "misuse"} /\ (Legal(isValue) = "ok" => isValue)
    <3>1. isValue \in BOOLEAN
      OBVIOUS
    <3> HIDE DEF isValue
    <3> QED BY <3>1, Verdicts, Attempts
  <2>3. Open(yes, no, Legal(isValue), taken) /\ flow.reach /\ phase = "seq"
    BY <1>2 DEF IfIsBlock, Open
  <2>4. ASSUME run = "ok", isValue, NEW branch \in taken
        PROVE  (IF branch = "then" THEN yes ELSE no).reach
    <3>1. Running
      BY <2>3, <2>4 DEF Running, Here
    <3>2. /\ mem[v].kind \in ShapesVar(flow, v) /\ mem[v].kind \in Kind
          /\ mem[v].kind \in Kind \union {NonValue}
      BY <1>0, <2>0, <2>4, <3>1, HereFacts, SimEntry, DatumFields
    <3> QED BY <1>0, <2>0, <2>3, <2>4, <3>2, IsBlockReaches
  <2> HIDE DEF yes, no, isValue, taken
  <2> QED BY <2>1, <2>2, <2>3, <2>4, OpenJudged
<1>3. CASE Else
  <2>1. flow' = aside /\ aside' = flow /\ run' = run
    BY <1>3 DEF Else
  <2> QED BY <2>1 DEF Judged, Reported, Breaking
<1>4. CASE EndIf
  <2>1. flow' = JoinFlow(aside, flow) /\ run' = run
    BY <1>4 DEF EndIf
  <2>2. flow'.report = aside.report \union flow.report
    BY <1>0, <2>1, JoinFlowFlow
  <2> QED BY <2>1, <2>2 DEF Judged, Reported, Breaking
<1>5. CASE ConcurrentGC
  <2>1. flow' = flow /\ aside' = aside /\ run' = run
    BY <1>5 DEF ConcurrentGC, analysis
  <2> QED BY <2>1 DEF Judged, Reported, Breaking
<1> QED BY <1>1, <1>2, <1>3, <1>4, <1>5 DEF Conditional

\* The effect of a step is of no concern to the report.
LEMMA StatementsJudged ==
  ASSUME IInv, Disciplined, Statement
  PROVE  Judged
<1>1. ASSUME NEW x \in Vals, NEW y \in Vals, Copy(x, y) PROVE Judged
  <2>1. Step(CopyVal(flow, x, y), MayRead(mem[y]), TRUE)
    BY <1>1 DEF Copy, Step
  <2> QED BY <2>1, StatementsObey, StepJudged
<1>2. ASSUME NEW x \in Vals, Constant(x) PROVE Judged
  <2>1. Step(AssignConst(flow, x), "ok", TRUE)
    BY <1>2 DEF Constant, Step
  <2> QED BY <2>1, StatementsObey, StepJudged
<1>3. ASSUME NEW x \in Vals, NEW y \in Vals, NEW z \in Vals, Binop(x, y, z)
      PROVE  Judged
  <2>1. Step(AssignBinop(flow, x, y, z), Then(MayRead(mem[y]), MayRead(mem[z])), TRUE)
    BY <1>3 DEF Binop, Step
  <2> QED BY <2>1, StatementsObey, StepJudged
<1>4. ASSUME NEW x \in Vals, NEW p \in Ptrs, Load(x, p) PROVE Judged
  <2>1. Step(LoadPtr(flow, x, p),
             Then(NeedFollow(p),
             Then(Legal(Holds(mem, CellOf[p])), MayRead(mem[CellOf[p]]))), TRUE)
    BY <1>4 DEF Load, Step
  <2> QED BY <2>1, StatementsObey, StepJudged
<1>5. ASSUME NEW w \in Vals, NEW p \in Ptrs, Assign(p, w) PROVE Judged
  <2>1. Step(StorePtr(flow, p, w),
             Then(NeedFollow(p), Then(SameKind(p, w), MayRead(mem[w]))), TRUE)
    BY <1>5 DEF Assign, Step
  <2> QED BY <2>1, StatementsObey, StepJudged
<1>6. ASSUME NEW s \in CharPtrs, ReadChar(s) PROVE Judged
  <2>1. Step(LoadChar(flow, s), NeedFollow(s), TRUE)
    BY <1>6 DEF ReadChar, Step
  <2> QED BY <2>1, StatementsObey, StepJudged
<1>7. ASSUME NEW x \in Vals, ExtCall(x) PROVE Judged
  <2>1. Step(ExecExtCallArg(flow, x), NeedFollow(x), TRUE)
    BY <1>7 DEF ExtCall, Step
  <2> QED BY <2>1, StatementsObey, StepJudged
<1> QED BY <1>1, <1>2, <1>3, <1>4, <1>5, <1>6, <1>7 DEF Statement

\* Calls that look into values.
LEMMA ValueCallsJudged ==
  ASSUME IInv, Disciplined, ValueCall
  PROVE  Judged
<1>1. ASSUME NEW x \in Vals, ValLong(x) PROVE Judged
  <2>1. Step(ValOfLong(flow, x), "ok", TRUE)
    BY <1>1 DEF ValLong, Step
  <2> QED BY <2>1, ValueCallsObey, StepJudged
<1>2. ASSUME NEW v \in Vals, LongVal(v) PROVE Judged
  <2>1. Step(ValAsLong(flow, v), Legal(mem[v].kind = Imm), TRUE)
    BY <1>2 DEF LongVal, Step
  <2> QED BY <2>1, ValueCallsObey, StepJudged
<1>3. ASSUME NEW v \in Vals, NEW kinds \in AllocShapes, Inspect(v, kinds) PROVE Judged
  <2>1. Step(CamlInspect(flow, v, kinds), NeedBlockOf(v, kinds), TRUE)
    BY <1>3 DEF Inspect, Step
  <2> QED BY <2>1, ValueCallsObey, StepJudged
<1>4. ASSUME NEW x \in Vals, NEW v \in Vals, NEW index \in BOOLEAN, Field(x, v, index)
      PROVE  Judged
  <2>1. Step(ReadField(flow, x, v, index), NeedBlockOf(v, StdBlock), TRUE)
    BY <1>4 DEF Field, Step
  <2> QED BY <2>1, ValueCallsObey, StepJudged
<1>5. ASSUME NEW v \in Vals, NEW w \in Vals, NEW index \in BOOLEAN, SetField(v, w, index)
      PROVE  Judged
  <2>1. Step(CamlSetField(flow, v, w, index),
             Then(NeedLock, Then(NeedUsable(v), Then(NeedUsable(w),
             Then(Legal(mem[v].kind \in StdBlock),
                  Legal(mem[w].kind \in FieldOf[mem[v].kind]))))), TRUE)
    BY <1>5 DEF SetField, Step
  <2> QED BY <2>1, SetFieldObeys, StepJudged
<1>6. ASSUME NEW p \in Ptrs, NEW v \in Vals, NEW index \in BOOLEAN, AddrField(p, v, index)
      PROVE  Judged
  <2>1. Step(CamlField(flow, p, v, index), NeedBlockOf(v, StdBlock), TRUE)
    BY <1>6 DEF AddrField, Step
  <2> QED BY <2>1, ValueCallsObey, StepJudged
<1>7. ASSUME NEW p \in Ptrs, NEW w \in Vals, Modify(p, w) PROVE Judged
  <2>1. Step(CamlModify(flow, p, w),
             Then(NeedLock, Then(NeedFollow(p), Then(Legal(Holds(mem, CellOf[p])),
             Then(NeedUsable(CellOf[p]),
             Then(SameKind(p, w), Legal(Usable(mem[w]))))))), TRUE)
    BY <1>7 DEF Modify, Step
  <2> QED BY <2>1, ModifyObeys, StepJudged
<1>8. ASSUME NEW s \in CharPtrs, NEW v \in Vals, StringVal(s, v) PROVE Judged
  <2>1. Step(ValAsString(flow, s, v), NeedBlockOf(v, {Str}), TRUE)
    BY <1>8 DEF StringVal, Step
  <2> QED BY <2>1, ValueCallsObey, StepJudged
<1> QED BY <1>1, <1>2, <1>3, <1>4, <1>5, <1>6, <1>7, <1>8 DEF ValueCall

\* Calls of the runtime.
LEMMA RuntimeCallsJudged ==
  ASSUME IInv, Disciplined, RuntimeCall
  PROVE  Judged
<1>1. ASSUME NEW x \in Vals, NEW shape \in AllocShapes, Alloc(x, shape) PROVE Judged
  <2>1. Step(CamlAlloc(flow, x, shape), NeedLock, TRUE)
    BY <1>1 DEF Alloc, Step
  <2> QED BY <2>1, RuntimeCallsObey, StepJudged
<1>2. ASSUME NEW x \in Vals, NEW v \in Vals, AllocSome(x, v) PROVE Judged
  <2>1. Step(CamlAllocSome(flow, x, v),
             Then(NeedLock, Legal(Usable(mem[v]) /\ SomeOf(v) # {})), TRUE)
    BY <1>2 DEF AllocSome, Step
  <2> QED BY <2>1, RuntimeCallsObey, StepJudged
<1>3. ASSUME NEW x \in Vals, Param(x) PROVE Judged
  <2>1. Step(CamlParam(flow, x), "ok", TRUE)
    BY <1>3 DEF Param, Step
  <2> QED BY <2>1, RuntimeCallsObey, StepJudged
<1>4. ASSUME NEW x \in Vals, Local(x) PROVE Judged
  <2>1. Step(CamlLocal(flow, x), "ok", TRUE)
    BY <1>4 DEF Local, Step
  <2> QED BY <2>1, RuntimeCallsObey, StepJudged
<1>5. ASSUME NEW x \in Vals, Declare(x) PROVE Judged
  <2>1. Step(Redeclare(flow, x), "ok", TRUE)
    BY <1>5 DEF Declare, Step
  <2> QED BY <2>1, RuntimeCallsObey, StepJudged
<1>6. ASSUME NEW x \in Vals, Unregister(x) PROVE Judged
  <2>1. Step(ExecUnregisterRoot(flow, x), Legal(held), TRUE)
    BY <1>6 DEF Unregister, Step
  <2> QED BY <2>1, RuntimeCallsObey, StepJudged
<1>7. ASSUME NEW x \in Vals, EndRootsOf(x) PROVE Judged
  <2>1. Step(EndRoots(flow), Legal(held /\ ~ForbidEndRoots), TRUE)
    BY <1>7 DEF EndRootsOf, Step
  <2> QED BY <2>1, RuntimeCallsObey, StepJudged
<1>8. ASSUME NEW p \in Named, NamedValue(p) PROVE Judged
  <2>1. Step(CamlNamedValue(flow, p), "ok", TRUE)
    BY <1>8 DEF NamedValue, Step
  <2> QED BY <2>1, RuntimeCallsObey, StepJudged
<1>9. CASE EnterBlocking
  <2>1. Step(CamlEnterBlockingSection(flow), NeedLock, TRUE)
    BY <1>9 DEF EnterBlocking, Step
  <2> QED BY <2>1, RuntimeCallsObey, StepJudged
<1>10. CASE LeaveBlocking
  <2>1. Step(CamlLeaveBlockingSection(flow), Legal(~held), TRUE)
    BY <1>10 DEF LeaveBlocking, Step
  <2> QED BY <2>1, RuntimeCallsObey, StepJudged
<1>11. CASE Raise
  BY <1>11, RaisesEnd, LeaveJudged DEF Raise
<1>12. ASSUME NEW v \in Vals, RaiseWithArg(v) PROVE Judged
  BY <1>12, RaisesEnd, LeaveJudged DEF RaiseWithArg
<1>13. ASSUME NEW v \in Vals, FailwithValue(v) PROVE Judged
  BY <1>13, RaisesEnd, LeaveJudged DEF FailwithValue
<1>14. CASE Unimplemented
  <2>1. Step(EvalUnimplemented(flow), "ok", TRUE)
    BY <1>14 DEF Unimplemented, Step
  <2> QED BY <2>1, RuntimeCallsObey, StepJudged
<1> QED
  BY <1>1, <1>2, <1>3, <1>4, <1>5, <1>6, <1>7, <1>8, <1>9, <1>10, <1>11, <1>12,
     <1>13, <1>14 DEF RuntimeCall

\* Every step of a disciplined stub is reported as it should.
LEMMA NextJudged ==
  ASSUME IInv, Disciplined, Folded, [Next]_vars
  PROVE  Judged
<1>1. CASE UNCHANGED vars
  BY <1>1 DEF vars, analysis, Judged, Reported, Breaking
<1> QED
  BY <1>1, StatementsJudged, ValueCallsJudged, RuntimeCallsJudged, ConditionalsJudged
     DEF Next

\* Statements and calls leave the other branch alone.
LEMMA NextFolded ==
  ASSUME Folded, [Next]_vars
  PROVE  Folded'
<1> DEFINE Straight == UNCHANGED <<aside, phase>>
<1>1. Statement => Straight
  BY DEF Statement, Copy, Constant, Binop, Load, Assign, ReadChar, ExtCall, Step
<1>2. ValueCall => Straight
  BY DEF ValueCall, ValLong, LongVal, Inspect, Field, SetField, AddrField, Modify,
         StringVal, Step
<1>3. RuntimeCall => Straight
  BY DEF RuntimeCall, Alloc, AllocSome, Param, Local, Declare, Unregister, EndRootsOf,
         NamedValue, EnterBlocking, LeaveBlocking, Raise, RaiseWithArg, FailwithValue,
         Unimplemented, Step, Leave
<1>4. Conditional => phase' # "seq" \/ aside' = NoFlow
  BY DEF Conditional, If, IfIsBlock, Open, Else, EndIf
<1>5. ConcurrentGC \/ UNCHANGED vars => Straight
  BY DEF ConcurrentGC, vars, analysis
<1>6. Straight => Folded'
  BY DEF Folded, NoFlow, Unreachable
<1> HIDE DEF Straight
<1> QED BY <1>1, <1>2, <1>3, <1>4, <1>5, <1>6 DEF Next, Folded, NoFlow, Unreachable

\* Described, with no branch put aside outside conditionals.
LEMMA FoldedInvariant == Spec => [](IInv /\ Folded)
<1>1. Init => IInv /\ Folded
  BY InitIInv DEF Init, Folded
<1>2. IInv /\ Folded /\ [Next]_vars => (IInv /\ Folded)'
  BY NextIInv, NextFolded
<1> QED BY <1>1, <1>2, PTL DEF Spec

-----------------------------------------------------------------------------
(* The theorems.                                                           *)

\* The step in which a run breaks a rule of the interface is the one the
\* analysis reports: it stops there with an error, or warns that the value
\* may be inactive.
THEOREM BreaksAreReported ==
  ASSUME ForbidUnlockedReads, ForbidEndRoots
  PROVE  Spec => ReportedAtOnce
<1>1. IInv /\ Folded /\ [Next]_vars =>
        (run = "ok" /\ run' \in Breaking => Explained(flow', run'))
  BY NextJudged DEF Disciplined, Judged
<1>2. IInv /\ Folded /\ [Next]_vars =>
        [ (run = "ok" /\ run' \in Breaking) =>
            \/ ~flow'.reach /\ flow'.report \intersect ErrorAlarm # {}
            \/ run' = "inactive" /\ "maybe_non_active_value" \in flow'.report ]_vars
  BY <1>1 DEF Explained
<1> QED BY <1>2, FoldedInvariant, PTL DEF ReportedAtOnce, Spec

\* A variable reported as registered twice was a root.
THEOREM DoubleRootsAreReal ==
  ASSUME ForbidUnlockedReads, ForbidEndRoots
  PROVE  Spec => DoubleRootIsReal
<1>1. ASSUME IInv, NEW x \in Vals, Running, Param(x),
             "double_root" \in flow'.report \ flow.report
      PROVE  x \in rooted
  <2>1. /\ flow \in Flow /\ x \in Loc /\ Holds(mem, x)
        /\ Sim(flow, mem, rooted, held)
    BY <1>1, LocFacts, HereFacts DEF Declared, Disciplined
  <2>2. flow' = ExecRegisterRoot(flow, x)
    BY <1>1 DEF Param, Step, CamlParam
  <2>3. RootOf(flow, x) = "Rooted"
    <3>1. SUFFICES ASSUME RootOf(flow, x) # "Rooted" PROVE FALSE
      OBVIOUS
    <3>2. /\ \A e : SetEntry(flow, x, e).report = flow.report
          /\ RaiseAlarm(flow, "non_variable_root").report
               \subseteq flow.report \union {"non_variable_root"}
      BY <2>1 DEF SetEntry, RaiseAlarm, Unreachable, Flow
    <3> QED BY <1>1, <2>2, <3>1, <3>2 DEF ExecRegisterRoot
  <2>4. flow.env[x].root = "Rooted"
    BY <2>3 DEF RootOf, BOT
  <2> QED BY <2>1, <2>4, SimEntry DEF Agrees
<1>2. IInv /\ [Next]_vars =>
        [ \A x \in Vals :
            (/\ Running
             /\ Param(x)
             /\ "double_root" \in flow'.report \ flow.report) => x \in rooted ]_vars
  BY <1>1
<1> QED BY <1>2, InductiveInvariant, PTL DEF DoubleRootIsReal, Spec

\* The report and the outcome of a run are those of the contract.
LEMMA ContractInit == Init => Contract!Init
<1> SUFFICES ASSUME Init PROVE Contract!Init
  OBVIOUS
<1>1. flow.report = {} /\ aside.report = {} /\ run = "ok"
  BY NoFlowSilent DEF Init, StartFlow
<1> QED BY <1>1 DEF Contract!Init, Outcome

\* A step that is reported as it should is a step of the contract.
LEMMA ContractStep ==
  ASSUME IInv, IInv', Judged
  PROVE  Contract!Next
<1>1. Reported \subseteq Reported' /\ Reported' \subseteq Messages
  BY FlowFields DEF Judged, IInv, TypeOK, Reported, Messages
<1>2. Contract!Extend
  BY <1>1 DEF Contract!Extend, Reported
<1>3. CASE run' = run
  BY <1>2, <1>3 DEF Contract!Next, Contract!Analyse, Outcome
<1>4. CASE run = "ok" /\ run' \in Breaking
  <2>1. Outcome = "running" /\ Outcome' = run'
    BY <1>4 DEF Outcome, Breaking
  <2>2. Reported' \intersect Explains[run'] # {}
    <3>1. Explained(flow', run')
      BY <1>4 DEF Judged
    <3> QED BY <1>4, <3>1 DEF Explained, Reported, Explains, Final
  <2>3. Contract!Break(run')
    BY <1>2, <2>1, <2>2 DEF Contract!Break, Reported
  <2> QED BY <1>4, <2>3 DEF Contract!Next
<1>5. CASE run = "ok" /\ run' \in {"misuse", "done"}
  <2>1. Outcome = "running" /\ Outcome' = "over"
    BY <1>5 DEF Outcome
  <2> QED BY <1>2, <2>1 DEF Contract!Next, Contract!Finish
<1>6. CASE run = "ok" /\ run' = "abandoned" /\ Reported' \intersect Final # {}
  <2>1. Outcome = "running" /\ Outcome' = "abandoned"
    BY <1>6 DEF Outcome
  <2> QED BY <1>2, <1>6, <2>1 DEF Contract!Next, Contract!Abandon, Reported
<1> QED BY <1>3, <1>4, <1>5, <1>6 DEF Judged

\* The analysis of a disciplined stub implements the contract: alarms are
\* never withdrawn, a run breaks a rule only under an alarm that explains it,
\* and it is only left behind with a message.
THEOREM ContractKept ==
  ASSUME ForbidUnlockedReads, ForbidEndRoots
  PROVE  Spec => KeepsContract
<1>1. IInv /\ Folded /\ IInv' /\ [Next]_vars => [Contract!Next]_(Contract!vars)
  BY NextJudged, ContractStep DEF Disciplined
<1> QED
  BY <1>1, ContractInit, FoldedInvariant, PTL DEF KeepsContract, Contract!Spec, Spec

-----------------------------------------------------------------------------
(* Precision.  Before the first conditional no registration is in doubt,   *)
(* and the analysis follows the exposures of the run.                      *)

RootsKnown(f) == \A l \in Loc : f.env[l] # Absent => f.env[l].root \in Roots

Exposure(f, m) ==
  \A l \in Loc : Holds(m, l) /\ StatusVar(f, l) = "Stale" => m[l].exposed

Precise(f, m) == RootsKnown(f) /\ Exposure(f, m)

\* The analysis is still before the first conditional of the stub.
Straight == phase = "seq" /\ left = Conditionals

\* The strengthened precision invariant.
Exact == (Disciplined /\ Straight /\ run = "ok") => Precise(flow, mem)

Early == left = Conditionals => phase = "seq"

\* The root of a location keeps being known.
LEMMA RootAfterKnown ==
  ASSUME NEW f, NEW l \in Loc, RootsKnown(f)
  PROVE  RootAfter(f, l) \in Roots
  BY DEF RootsKnown, RootAfter, Roots

\* An update of one entry beside a store to its location.
LEMMA UpdatePrecise ==
  ASSUME NEW f \in Flow, NEW g \in Flow, NEW m \in Memory, NEW l \in Loc, NEW d \in Data,
         NEW status, NEW root \in Roots, NEW shape,
         Precise(f, m), Updates(f, g, l, Bind(status, root, shape)), g.reach,
         status = "Stale" => d.exposed
  PROVE  Precise(g, [m EXCEPT ![l] = d])
<1> DEFINE e == Bind(status, root, shape)
           m2 == [m EXCEPT ![l] = d]
<1>1. e.status = status /\ e.root = root
  BY DEF Bind
<1> HIDE DEF e
<1>2. e \in ProperEntry
  BY DEF Updates, e
<1>3. /\ g.env[l] = e /\ g.env[l] # Absent
      /\ \A k \in Loc : k # l => g.env[k] = f.env[k]
  BY <1>2, UpdateSeen DEF e
<1>4. m2[l] = d /\ \A k \in Loc : k # l => m2[k] = m[k]
  BY DEF Memory
<1> HIDE DEF m2
<1>5. RootsKnown(g)
  BY <1>1, <1>3 DEF Precise, RootsKnown
<1>6. Exposure(g, m2)
  <2> SUFFICES ASSUME NEW k \in Loc, Holds(m2, k), StatusVar(g, k) = "Stale"
               PROVE  m2[k].exposed
    BY DEF Exposure
  <2>1. CASE k = l
    BY <1>1, <1>3, <1>4, <2>1 DEF StatusVar
  <2>2. CASE k # l
    <3>1. Holds(m, k) /\ StatusVar(f, k) = "Stale" /\ m2[k] = m[k]
      BY <1>3, <1>4, <2>2 DEF Holds, StatusVar
    <3> QED BY <3>1 DEF Precise, Exposure
  <2> QED BY <2>1, <2>2
<1> QED BY <1>5, <1>6 DEF Precise, m2

\* Checks change no entry.
LEMMA CheckedPrecise ==
  ASSUME NEW f, NEW g, NEW m, Precise(f, m), Checked(f, g), g.reach
  PROVE  Precise(g, m)
  BY DEF Precise, RootsKnown, Exposure, Checked, StatusVar

\* A registration only changes a root.
LEMMA RegisterPrecise ==
  ASSUME NEW f, NEW g, NEW m, NEW l \in Loc, Precise(f, m), Registers(f, g, l), g.reach
  PROVE  Precise(g, m)
<1>1. /\ f.env[l] # Absent
      /\ \A k \in Loc : k # l => g.env[k] = f.env[k]
      /\ g.env[l].root = "Rooted" /\ g.env[l].status = f.env[l].status
      /\ g.env[l] # Absent
  BY DEF Registers, Bind
<1>2. "Rooted" \in Roots
  BY DEF Roots
<1>3. \A k \in Loc : StatusVar(g, k) = StatusVar(f, k)
  BY <1>1 DEF StatusVar
<1>4. RootsKnown(g)
  BY <1>1, <1>2 DEF Precise, RootsKnown
<1> QED BY <1>3, <1>4 DEF Precise, Exposure

\* A collection exposes what no root holds, and forgets no exposure.
LEMMA CollectedExposes ==
  ASSUME NEW m \in Memory, NEW r \in SUBSET Loc, NEW S \in SUBSET Unprotected(m, r),
         NEW l \in Loc, Holds(m, l), m[l].exposed \/ l \notin r
  PROVE  Collected(m, r, S)[l].exposed
<1>1. CASE l \in r
  BY <1>1 DEF Collected
<1>2. CASE l \notin r
  <2> DEFINE b == m[l].moved \/ l \in S
  <2>1. Collected(m, r, S)[l] = [m[l] EXCEPT !.exposed = TRUE, !.moved = b]
    BY <1>2 DEF Collected
  <2> HIDE DEF b
  <2>2. [m[l] EXCEPT !.exposed = TRUE, !.moved = b].exposed = TRUE
    BY MemoryHolds DEF Data, Datum
  <2> QED BY <2>1, <2>2
<1> QED BY <1>1, <1>2

\* The collection of the analysis makes stale what the one of the run exposes.
LEMMA CollectPrecise ==
  ASSUME NEW f \in Flow, NEW d \in Flow, NEW m \in Memory, NEW r \in SUBSET Loc,
         NEW h, NEW S \in SUBSET Unprotected(m, r),
         Sim(f, m, r, h), Precise(f, m), Collects(f, d), d.reach
  PROVE  Precise(d, Collected(m, r, S))
<1> DEFINE c == Collected(m, r, S)
<1>1. ASSUME NEW l \in Loc, d.env[l] # Absent
      PROVE  /\ f.env[l] # Absent
             /\ d.env[l].root = f.env[l].root
             /\ d.env[l].status = "Stale" =>
                  f.env[l].status = "Stale" \/ f.env[l].root # "Rooted"
  <2>1. f.env[l] # Absent /\ d.env[l] = CollectEntry(f.env[l])
    BY <1>1 DEF Collects
  <2>2. f.env[l] \in ProperEntry
    BY <2>1, FlowFields
  <2>3. CollectEntry(f.env[l]).root = f.env[l].root
    BY <2>2, CollectEntryFacts
  <2>4. CollectEntry(f.env[l]) # f.env[l] => f.env[l].root # "Rooted"
    BY DEF CollectEntry
  <2> QED BY <2>1, <2>3, <2>4
<1>2. RootsKnown(d)
  BY <1>1 DEF Precise, RootsKnown
<1>3. \A l \in Loc : Holds(c, l) <=> Holds(m, l)
  BY CollectedMemory
<1>4. ASSUME NEW l \in Loc, Holds(c, l), StatusVar(d, l) = "Stale"
      PROVE  c[l].exposed
  <2>1. Holds(m, l)
    BY <1>3, <1>4
  <2>2. d.env[l] # Absent /\ d.env[l].status = "Stale"
    BY <1>4 DEF StatusVar
  <2>3. m[l].exposed \/ l \notin r
    <3>1. CASE f.env[l].status = "Stale"
      BY <1>1, <2>1, <2>2, <3>1 DEF Precise, Exposure, StatusVar
    <3>2. CASE f.env[l].root # "Rooted"
      <4>1. f.env[l].root = "NotRooted"
        BY <1>1, <2>2, <3>2 DEF Precise, RootsKnown, Roots
      <4> QED BY <2>1, <4>1, SimEntry DEF Agrees
    <3> QED BY <1>1, <2>2, <3>1, <3>2
  <2> QED BY <2>1, <2>3, CollectedExposes
<1> QED BY <1>2, <1>4 DEF Precise, Exposure

\* A step whose effect leaves the flow precise.
PreciseStep(g, t) == Step(g, t, Precise(g, mem'))

\* Steps keep the precision invariant if their effects do.
LEMMA PreciseStepExact ==
  ASSUME Exact, Early, NEW g, NEW t, Step(g, t, TRUE),
         Disciplined /\ Straight => PreciseStep(g, t)
  PROVE  Exact' /\ Early'
<1>1. /\ flow' = g /\ phase' = phase /\ side' = side /\ left' = left
  BY DEF Step
<1>2. Early' /\ Straight' = Straight
  BY <1>1 DEF Early, Straight
<1>3. ASSUME Disciplined, Straight, run' = "ok" PROVE Precise(flow', mem')
  <2>1. PreciseStep(g, t)
    BY <1>3
  <2>2. CASE ~Running
    <3>1. run' = run /\ mem' = mem
      BY <2>2 DEF Step, memory
    <3> QED BY <2>2, <3>1, <1>3 DEF Straight, Running, Here
  <2>3. CASE Running
    <3>1. t = "ok" /\ g.reach
      BY <1>3, <2>1, <2>3 DEF PreciseStep, Step, EndRun
    <3> QED BY <1>1, <2>1, <2>3, <3>1 DEF PreciseStep, Step
  <2> QED BY <2>2, <2>3
<1> QED BY <1>2, <1>3 DEF Exact, Straight

\* What is known before the first conditional.
LEMMA PreciseFacts ==
  ASSUME IInv, Exact, Disciplined, Running, Straight
  PROVE  Precise(flow, mem)
  BY DEF Exact, Running

\* A store beside an assignment of the analysis.
LEMMA StorePrecise ==
  ASSUME IInv, Exact, Disciplined, Running, Straight,
         NEW g, NEW l \in Loc, NEW d \in Data, NEW status, NEW shape,
         Updates(flow, g, l, Bind(status, RootAfter(flow, l), shape)), g.reach,
         status = "Stale" => d.exposed, mem' = [mem EXCEPT ![l] = d]
  PROVE  Precise(g, mem')
<1>1. /\ flow \in Flow /\ g \in Flow /\ mem \in Memory /\ Precise(flow, mem)
      /\ RootAfter(flow, l) \in Roots
  BY HereFacts, PreciseFacts, RootAfterKnown DEF Updates, Progress, Precise
<1> QED BY <1>1, UpdatePrecise

\* A store to a fresh location beside the declaration of the analysis.
LEMMA FreshPrecise ==
  ASSUME NEW f \in Flow, NEW g, NEW m \in Memory, NEW l \in Loc, NEW d \in Data,
         NEW status, status # "Stale", NEW shape, Precise(f, m),
         Updates(f, g, l, Bind(status, "NotRooted", shape)), g.reach
  PROVE  Precise(g, [m EXCEPT ![l] = d])
<1>1. g \in Flow /\ "NotRooted" \in Roots
  BY DEF Updates, Progress, Roots
<1> QED BY <1>1, UpdatePrecise

\* What a variable that may be read holds.
LEMMA ReadExposed ==
  ASSUME IInv, Exact, Disciplined, Running, Straight, NEW y \in Loc, Holds(mem, y)
  PROVE  mem[y] \in Data /\ (StatusVar(flow, y) = "Stale" => mem[y].exposed)
<1>1. mem \in Memory /\ Precise(flow, mem)
  BY HereFacts, PreciseFacts
<1> QED BY <1>1, MemoryHolds DEF Precise, Exposure

\* A step that changes neither an entry nor the memory.
LEMMA LookExact ==
  ASSUME IInv, Exact, Early, NEW g, NEW t, Checked(flow, g), Step(g, t, Keep)
  PROVE  Exact' /\ Early'
<1>1. Step(g, t, TRUE)
  BY DEF Step
<1>2. ASSUME Disciplined, Straight, Running, g.reach, Keep PROVE Precise(g, mem')
  <2>1. mem' = mem /\ Precise(flow, mem)
    BY <1>2, PreciseFacts DEF Keep, memory
  <2> QED BY <1>2, <2>1, CheckedPrecise
<1>3. Disciplined /\ Straight => PreciseStep(g, t)
  BY <1>2 DEF PreciseStep, Step
<1> QED BY <1>1, <1>3, PreciseStepExact

\* Plain C statements.
LEMMA StatementsExact ==
  ASSUME IInv, Exact, Early, Statement
  PROVE  Exact' /\ Early'
<1>0. flow \in Flow
  BY DEF IInv, TypeOK
<1>1. ASSUME NEW x \in Vals, NEW y \in Vals, Copy(x, y) PROVE Exact' /\ Early'
  <2> DEFINE g == CopyVal(flow, x, y)
             t == MayRead(mem[y])
  <2>0. x \in Loc /\ y \in Loc /\ y \in Declared
    BY LocFacts DEF Declared
  <2>1. Step(g, t, Store(x, mem[y])) /\ Step(g, t, TRUE)
    BY <1>1 DEF Copy, Step
  <2>2. Updates(flow, g, x, Bind(StatusVar(flow, y), RootAfter(flow, x), ShapesVar(flow, y)))
    BY <1>0, <2>0, CopyValUpdates
  <2> HIDE DEF g, t
  <2>3. ASSUME Disciplined, Straight, Running, g.reach, Store(x, mem[y])
        PROVE  Precise(g, mem')
    <3>1. mem[y] \in Data /\ (StatusVar(flow, y) = "Stale" => mem[y].exposed)
      BY <2>0, <2>3, HereFacts, ReadExposed
    <3> QED BY <2>0, <2>2, <2>3, <3>1, StorePrecise DEF Store
  <2>4. Disciplined /\ Straight => PreciseStep(g, t)
    BY <2>1, <2>3 DEF PreciseStep, Step
  <2> QED BY <2>1, <2>4, PreciseStepExact
<1>2. ASSUME NEW x \in Vals, Constant(x) PROVE Exact' /\ Early'
  <2> DEFINE g == AssignConst(flow, x)
  <2>1. Step(g, "ok", Store(x, CDatum)) /\ Step(g, "ok", TRUE) /\ x \in Loc
    BY <1>2, LocFacts DEF Constant, Step
  <2>2. Updates(flow, g, x, Bind("Untracked", RootAfter(flow, x), NonOCamlValue))
    BY <1>0, <2>1, AssignConstUpdates
  <2> HIDE DEF g
  <2>3. ASSUME Disciplined, Straight, Running, g.reach, Store(x, CDatum)
        PROVE  Precise(g, mem')
    <3>1. CDatum \in Data /\ "Untracked" # "Stale"
      BY DataFacts
    <3> QED BY <2>1, <2>2, <2>3, <3>1, StorePrecise DEF Store
  <2>4. Disciplined /\ Straight => PreciseStep(g, "ok")
    BY <2>1, <2>3 DEF PreciseStep, Step
  <2> QED BY <2>1, <2>4, PreciseStepExact
<1>3. ASSUME NEW x \in Vals, NEW y \in Vals, NEW z \in Vals, Binop(x, y, z)
      PROVE  Exact' /\ Early'
  <2> DEFINE g == AssignBinop(flow, x, y, z)
             t == Then(MayRead(mem[y]), MayRead(mem[z]))
             d == Arithmetic(mem[y], mem[z])
             status == StatusBinop(StatusVar(flow, y), StatusVar(flow, z))
  <2>0. x \in Loc /\ y \in Loc /\ z \in Loc /\ y \in Declared /\ z \in Declared
    BY LocFacts DEF Declared
  <2>1. Step(g, t, Store(x, d)) /\ Step(g, t, TRUE)
    BY <1>3 DEF Binop, Step
  <2>2. Updates(flow, g, x, Bind(status, RootAfter(flow, x), NonOCamlValue))
    BY <1>0, <2>0, AssignBinopUpdates
  <2> HIDE DEF g, t
  <2>3. ASSUME Disciplined, Straight, Running, g.reach, Store(x, d)
        PROVE  Precise(g, mem')
    <3>1. /\ mem[y] \in Data /\ (StatusVar(flow, y) = "Stale" => mem[y].exposed)
          /\ mem[z] \in Data /\ (StatusVar(flow, z) = "Stale" => mem[z].exposed)
      BY <2>0, <2>3, HereFacts, ReadExposed
    <3>2. d \in Data
      BY <3>1, ArithmeticFacts
    <3>3. status = "Stale" => StatusVar(flow, y) = "Stale" \/ StatusVar(flow, z) = "Stale"
      BY DEF StatusBinop, BOT, TOP
    <3>4. d.exposed = (mem[y].exposed \/ mem[z].exposed)
      BY DEF Arithmetic
    <3> HIDE DEF d, status
    <3> QED BY <2>0, <2>2, <2>3, <3>1, <3>2, <3>3, <3>4, StorePrecise DEF Store
  <2>4. Disciplined /\ Straight => PreciseStep(g, t)
    BY <2>1, <2>3 DEF PreciseStep, Step
  <2> QED BY <2>1, <2>4, PreciseStepExact
<1>4. ASSUME NEW x \in Vals, NEW p \in Ptrs, Load(x, p) PROVE Exact' /\ Early'
  <2> DEFINE c == CellOf[p]
             g == LoadPtr(flow, x, p)
             t == Then(NeedFollow(p), Then(Legal(Holds(mem, c)), MayRead(mem[c])))
  <2>0. x \in Loc /\ c \in Loc
    BY LocFacts
  <2>1. Step(g, t, Store(x, mem[c])) /\ Step(g, t, TRUE)
    BY <1>4 DEF Load, Step
  <2>2. Updates(flow, g, x, Bind(StatusVar(flow, c), RootAfter(flow, x), ShapesVar(flow, c)))
    BY <1>0, LoadPtrUpdates
  <2>3. t = "ok" => Holds(mem, c)
    BY DEF Then, Legal
  <2> HIDE DEF g, t, c
  <2>4. ASSUME Disciplined, Straight, Running, t = "ok", g.reach, Store(x, mem[c])
        PROVE  Precise(g, mem')
    <3>1. mem[c] \in Data /\ (StatusVar(flow, c) = "Stale" => mem[c].exposed)
      BY <2>0, <2>3, <2>4, ReadExposed
    <3> QED BY <2>0, <2>2, <2>4, <3>1, StorePrecise DEF Store
  <2>5. Disciplined /\ Straight => PreciseStep(g, t)
    BY <2>1, <2>4 DEF PreciseStep, Step
  <2> QED BY <2>1, <2>5, PreciseStepExact
<1>5. ASSUME NEW w \in Vals, NEW p \in Ptrs, Assign(p, w) PROVE Exact' /\ Early'
  <2> DEFINE c == CellOf[p]
             g == StorePtr(flow, p, w)
             t == Then(NeedFollow(p), Then(SameKind(p, w), MayRead(mem[w])))
  <2>0. w \in Loc /\ w \in Declared /\ c \in Loc
    BY LocFacts DEF Declared
  <2>1. Step(g, t, Store(c, mem[w])) /\ Step(g, t, TRUE)
    BY <1>5 DEF Assign, Step
  <2>2. Updates(flow, g, c, Bind(StatusVar(flow, w), RootAfter(flow, c), ShapesVar(flow, w)))
    BY <1>0, StorePtrUpdates
  <2> HIDE DEF g, t, c
  <2>3. ASSUME Disciplined, Straight, Running, g.reach, Store(c, mem[w])
        PROVE  Precise(g, mem')
    <3>1. mem[w] \in Data /\ (StatusVar(flow, w) = "Stale" => mem[w].exposed)
      BY <2>0, <2>3, HereFacts, ReadExposed
    <3> QED BY <2>0, <2>2, <2>3, <3>1, StorePrecise DEF Store
  <2>4. Disciplined /\ Straight => PreciseStep(g, t)
    BY <2>1, <2>3 DEF PreciseStep, Step
  <2> QED BY <2>1, <2>4, PreciseStepExact
<1>6. ASSUME NEW s \in CharPtrs, ReadChar(s) PROVE Exact' /\ Early'
  BY <1>0, <1>6, LoadCharChecked, LookExact DEF ReadChar
<1>7. ASSUME NEW x \in Vals, ExtCall(x) PROVE Exact' /\ Early'
  BY <1>0, <1>7, LocFacts, ExecExtCallArgChecked, LookExact DEF ExtCall
<1> QED BY <1>1, <1>2, <1>3, <1>4, <1>5, <1>6, <1>7 DEF Statement

\* Calls that look into values.
LEMMA ValueCallsExact ==
  ASSUME IInv, Exact, Early, ValueCall
  PROVE  Exact' /\ Early'
<1>0. flow \in Flow /\ "Active" # "Stale" /\ "Untracked" # "Stale"
  BY DEF IInv, TypeOK
\* An active result.
<1>1. ASSUME NEW x \in Loc, NEW g, NEW t, NEW shape, NEW K \in SUBSET Data,
             Updates(flow, g, x, Bind("Active", RootAfter(flow, x), shape)),
             Step(g, t, \E d \in K : Store(x, d))
      PROVE  Exact' /\ Early'
  <2>1. Step(g, t, TRUE)
    BY <1>1 DEF Step
  <2>2. ASSUME Disciplined, Straight, Running, g.reach, NEW d \in K, Store(x, d)
        PROVE  Precise(g, mem')
    BY <1>0, <1>1, <2>2, StorePrecise DEF Store
  <2>3. Disciplined /\ Straight => PreciseStep(g, t)
    BY <1>1, <2>2 DEF PreciseStep, Step
  <2> QED BY <2>1, <2>3, PreciseStepExact
<1>2. ASSUME NEW x \in Vals, ValLong(x) PROVE Exact' /\ Early'
  <2> DEFINE g == ValOfLong(flow, x)
  <2>1. x \in Loc /\ {ValueOf(Imm)} \in SUBSET Data
    BY LocFacts, DataFacts, KindAssumption
  <2>2. Updates(flow, g, x, Bind("Active", RootAfter(flow, x), {Imm}))
    BY <1>0, <2>1, CheckedRefl, ProperConstants, ReturnValueUpdates DEF ValOfLong
  <2>3. Step(g, "ok", \E d \in {ValueOf(Imm)} : Store(x, d))
    BY <1>2 DEF ValLong, Step
  <2> HIDE DEF g
  <2> QED BY <1>1, <2>1, <2>2, <2>3
<1>3. ASSUME NEW v \in Vals, LongVal(v) PROVE Exact' /\ Early'
  BY <1>0, <1>3, LocFacts, ValAsLongChecked, LookExact DEF LongVal
<1>4. ASSUME NEW v \in Vals, NEW kinds \in AllocShapes, Inspect(v, kinds)
      PROVE  Exact' /\ Early'
  <2>1. Checked(flow, CamlInspect(flow, v, kinds))
    BY <1>0, LocFacts, AssertBlockOfChecked DEF CamlInspect
  <2> QED BY <1>4, <2>1, LookExact DEF Inspect
<1>5. ASSUME NEW x \in Vals, NEW v \in Vals, NEW index \in BOOLEAN, Field(x, v, index)
      PROVE  Exact' /\ Early'
  <2> DEFINE g == ReadField(flow, x, v, index)
             t == NeedBlockOf(v, StdBlock)
             K == {d \in Data : \E k \in FieldOf[mem[v].kind] : d = ValueOf(k)}
  <2>1. x \in Loc /\ v \in Loc
    BY LocFacts
  <2>2. Updates(flow, g, x, Bind("Active", RootAfter(flow, x), ShapeAt(flow, v, index)))
    BY <1>0, <2>1, ReadFieldUpdates
  <2>3. Step(g, t, \E k \in FieldOf[mem[v].kind] : Store(x, ValueOf(k)))
    BY <1>5 DEF Field
  <2>4. t = "ok" => mem[v].kind \in StdBlock
    BY BlockAttempts
  <2> HIDE DEF g, t
  <2>5. ASSUME t = "ok", NEW k \in FieldOf[mem[v].kind] PROVE ValueOf(k) \in K
    BY <2>4, <2>5, KindAssumption, DataFacts
  <2>6. Step(g, t, \E d \in K : Store(x, d))
    BY <2>3, <2>5 DEF Step
  <2>7. K \in SUBSET Data
    OBVIOUS
  <2> HIDE DEF K
  <2> QED BY <1>1, <2>1, <2>2, <2>6, <2>7
<1>6. ASSUME NEW v \in Vals, NEW w \in Vals, NEW index \in BOOLEAN, SetField(v, w, index)
      PROVE  Exact' /\ Early'
  <2>1. Checked(flow, CamlSetField(flow, v, w, index))
    BY <1>0, LocFacts, CamlSetFieldChecked
  <2> QED BY <1>6, <2>1, LookExact DEF SetField
<1>7. ASSUME NEW p \in Ptrs, NEW v \in Vals, NEW index \in BOOLEAN, AddrField(p, v, index)
      PROVE  Exact' /\ Early'
  <2> DEFINE c == CellOf[p]
             g == CamlField(flow, p, v, index)
             t == NeedBlockOf(v, StdBlock)
  <2>0. p \in Loc /\ c \in Loc
    BY LocFacts
  <2>1. PICK b \in Flow :
          /\ Updates(flow, b, c, Bind("Active", "NotRooted", ShapeAt(flow, v, index)))
          /\ Updates(b, g, p, Bind("Active", RootAfter(b, p), NonOCamlValue))
    BY <1>0, CamlFieldUpdates
  <2>2. Step(g, t, \E k \in FieldOf[mem[v].kind] :
                     mem' = [mem EXCEPT ![c] = ValueOf(k), ![p] = HeapPointer])
    BY <1>7 DEF AddrField, Step
  <2>3. Step(g, t, TRUE)
    BY <2>2 DEF Step
  <2>4. t = "ok" => mem[v].kind \in StdBlock
    BY BlockAttempts
  <2> HIDE DEF g, t, c
  <2>5. ASSUME Disciplined, Straight, Running, t = "ok", g.reach,
               NEW k \in FieldOf[mem[v].kind],
               mem' = [mem EXCEPT ![c] = ValueOf(k), ![p] = HeapPointer]
        PROVE  Precise(g, mem')
    <3> DEFINE m1 == [mem EXCEPT ![c] = ValueOf(k)]
    <3>1. /\ ValueOf(k) \in Data /\ HeapPointer \in Data /\ mem \in Memory
          /\ Precise(flow, mem) /\ b.reach /\ g \in Flow
      BY <2>1, <2>4, <2>5, KindAssumption, DataFacts, HereFacts, PreciseFacts
         DEF Updates, Progress
    <3>2. m1 \in Memory /\ mem' = [m1 EXCEPT ![p] = HeapPointer]
      BY <2>0, <2>5, <3>1, StoreMemory
    <3>3. Precise(b, m1)
      BY <1>0, <2>0, <2>1, <3>1, FreshPrecise
    <3> HIDE DEF m1
    <3>4. RootAfter(b, p) \in Roots
      BY <2>0, <3>3, RootAfterKnown DEF Precise
    <3>5. Precise(g, [m1 EXCEPT ![p] = HeapPointer])
      <4>1. g.reach /\ "Active" # "Stale" /\ p \in Loc
        BY <2>0, <2>5
      <4> QED BY <2>1, <3>1, <3>2, <3>3, <3>4, <4>1, UpdatePrecise
    <3> QED BY <3>2, <3>5
  <2>6. Disciplined /\ Straight => PreciseStep(g, t)
    BY <2>2, <2>5 DEF PreciseStep, Step
  <2> QED BY <2>3, <2>6, PreciseStepExact
<1>8. ASSUME NEW p \in Ptrs, NEW w \in Vals, Modify(p, w) PROVE Exact' /\ Early'
  <2> DEFINE c == CellOf[p]
             g == CamlModify(flow, p, w)
             t == Then(NeedLock, Then(NeedFollow(p), Then(Legal(Holds(mem, c)),
                  Then(NeedUsable(c),
                  Then(SameKind(p, w), Legal(Usable(mem[w])))))))
  <2>0. c \in Loc /\ w \in Loc
    BY LocFacts
  <2>1. Checked(flow, g) /\ (g.reach => Inspected(flow, c))
    BY <1>0, CamlModifyChecked
  <2>2. Step(g, t, mem' = [mem EXCEPT ![c] = mem[w]]) /\ Step(g, t, TRUE)
    BY <1>8 DEF Modify, Step, Store
  <2> HIDE DEF g, t, c
  <2>3. ASSUME Disciplined, Straight, Running, g.reach, mem' = [mem EXCEPT ![c] = mem[w]]
        PROVE  Precise(g, mem')
    <3>1. StatusVar(flow, c) # "Stale"
      BY <2>1, <2>3 DEF Inspected, TOP
    <3>2. Precise(flow, mem) /\ mem \in Memory
      BY <2>3, HereFacts, PreciseFacts
    <3>3. \A l \in Loc : l # c => mem'[l] = mem[l]
      BY <2>3, <3>2 DEF Memory
    <3>4. Precise(flow, mem')
      BY <3>1, <3>2, <3>3 DEF Precise, Exposure, Holds
    <3> QED BY <2>1, <2>3, <3>4, CheckedPrecise
  <2>4. Disciplined /\ Straight => PreciseStep(g, t)
    BY <2>2, <2>3 DEF PreciseStep, Step
  <2> QED BY <2>2, <2>4, PreciseStepExact
<1>9. ASSUME NEW s \in CharPtrs, NEW v \in Vals, StringVal(s, v) PROVE Exact' /\ Early'
  <2> DEFINE g == ValAsString(flow, s, v)
             t == NeedBlockOf(v, {Str})
  <2>1. s \in Loc /\ {HeapPointer} \in SUBSET Data
    BY LocFacts, DataFacts
  <2>2. Updates(flow, g, s, Bind("Active", RootAfter(flow, s), NonOCamlValue))
    BY <1>0, ValAsStringUpdates
  <2>3. Step(g, t, \E d \in {HeapPointer} : Store(s, d))
    BY <1>9 DEF StringVal, Step
  <2> HIDE DEF g, t
  <2> QED BY <1>1, <2>1, <2>2, <2>3
<1> QED BY <1>2, <1>3, <1>4, <1>5, <1>6, <1>7, <1>8, <1>9 DEF ValueCall

\* An allocation collects, then returns an active block.
LEMMA AllocateExact ==
  ASSUME IInv, Exact, Early, NEW x \in Vals, NEW shape, NEW kinds \in SUBSET Kind,
         NEW g, NEW t,
         Allocates(flow, g, x, shape), Step(g, t, \E k \in kinds : CollectAndStore(x, k))
  PROVE  Exact' /\ Early'
<1>0. flow \in Flow /\ x \in Loc
  BY LocFacts DEF IInv, TypeOK
<1>1. PICK d \in Flow : /\ Collects(flow, d)
                        /\ Updates(d, g, x, Bind("Active", RootAfter(d, x), shape))
  BY DEF Allocates
<1>2. ASSUME Disciplined, Straight, Running, g.reach, NEW k \in kinds, CollectAndStore(x, k)
      PROVE  Precise(g, mem')
  <2>1. PICK S \in SUBSET Unprotected(mem, rooted) :
          mem' = [Collected(mem, rooted, S) EXCEPT ![x] = ValueOf(k)]
    BY <1>2 DEF CollectAndStore
  <2> DEFINE c == Collected(mem, rooted, S)
  <2>2. /\ mem \in Memory /\ rooted \in SUBSET Loc /\ Sim(flow, mem, rooted, held)
        /\ Precise(flow, mem) /\ ValueOf(k) \in Data
    BY <1>2, HereFacts, PreciseFacts, DataFacts
  <2>3. d.reach /\ g \in Flow
    BY <1>1, <1>2 DEF Updates, Progress
  <2>4. Precise(d, c) /\ c \in Memory
    BY <1>0, <1>1, <2>2, <2>3, CollectPrecise, CollectedMemory
  <2>5. mem' = [c EXCEPT ![x] = ValueOf(k)]
    BY <2>1
  <2> HIDE DEF c
  <2>6. RootAfter(d, x) \in Roots /\ "Active" # "Stale"
    BY <1>0, <2>4, RootAfterKnown DEF Precise
  <2>7. Precise(g, [c EXCEPT ![x] = ValueOf(k)])
    BY <1>0, <1>1, <1>2, <2>2, <2>3, <2>4, <2>6, UpdatePrecise
  <2> QED BY <2>5, <2>7
<1>3. Step(g, t, TRUE)
  BY DEF Step
<1>4. Disciplined /\ Straight => PreciseStep(g, t)
  BY <1>2 DEF PreciseStep, Step
<1> QED BY <1>3, <1>4, PreciseStepExact

\* A step that changes no datum.
LEMMA RootsExact ==
  ASSUME IInv, Exact, Early, NEW g, NEW t, NEW effect \in BOOLEAN,
         Step(g, t, effect), effect => mem' = mem,
         Disciplined /\ Straight /\ Running /\ t = "ok" /\ g.reach => Precise(g, mem)
  PROVE  Exact' /\ Early'
<1>1. Step(g, t, TRUE)
  BY DEF Step
<1>2. Disciplined /\ Straight => PreciseStep(g, t)
  BY DEF PreciseStep, Step
<1> QED BY <1>1, <1>2, PreciseStepExact

\* Roots, cells and the runtime lock.
LEMMA RootCallsExact ==
  ASSUME IInv, Exact, Early, NEW x \in Vals
  PROVE  /\ Param(x) => Exact' /\ Early'
         /\ Local(x) => Exact' /\ Early'
         /\ Declare(x) => Exact' /\ Early'
         /\ Unregister(x) => Exact' /\ Early'
         /\ EndRootsOf(x) => Exact' /\ Early'
<1>0. flow \in Flow /\ x \in Loc /\ "Active" # "Stale" /\ "Untracked" # "Stale"
  BY LocFacts DEF IInv, TypeOK
<1>1. ASSUME Param(x) PROVE Exact' /\ Early'
  <2> DEFINE g == CamlParam(flow, x)
  <2>1. Registers(flow, g, x)
    BY <1>0, CamlParamRegisters DEF CamlParam
  <2>2. Step(g, "ok", mem' = mem)
    BY <1>1 DEF Param, Step
  <2> HIDE DEF g
  <2>3. Disciplined /\ Straight /\ Running /\ g.reach => Precise(g, mem)
    BY <1>0, <2>1, PreciseFacts, RegisterPrecise
  <2> QED BY <2>2, <2>3, RootsExact
<1>2. ASSUME Local(x) PROVE Exact' /\ Early'
  <2> DEFINE g == CamlLocal(flow, x)
             m2 == [mem EXCEPT ![x] = ValueOf(Imm)]
  <2>1. PICK b \in Flow : /\ Updates(flow, b, x, Bind("Active", RootAfter(flow, x), {Imm}))
                          /\ Registers(b, g, x)
    BY <1>0, CamlLocalRegisters
  <2>2. Step(g, "ok", mem' = m2)
    BY <1>2 DEF Local, Step
  <2> HIDE DEF g
  <2>3. ASSUME Disciplined, Straight, Running, g.reach PROVE Precise(g, m2)
    <3>1. Precise(flow, mem) /\ mem \in Memory /\ ValueOf(Imm) \in Data /\ b.reach
      BY <2>1, <2>3, HereFacts, PreciseFacts, DataFacts, KindAssumption DEF Registers
    <3>2. RootAfter(flow, x) \in Roots
      BY <1>0, <3>1, RootAfterKnown DEF Precise
    <3>3. Precise(b, m2)
      BY <1>0, <2>1, <3>1, <3>2, UpdatePrecise
    <3> HIDE DEF m2
    <3> QED BY <1>0, <2>1, <2>3, <3>3, RegisterPrecise
  <2> HIDE DEF m2
  <2>4. Step(g, "ok", TRUE)
    BY <2>2 DEF Step
  <2>5. Disciplined /\ Straight => PreciseStep(g, "ok")
    BY <2>2, <2>3 DEF PreciseStep, Step
  <2> QED BY <2>4, <2>5, PreciseStepExact
<1>3. ASSUME Declare(x) PROVE Exact' /\ Early'
  <2> DEFINE g == Redeclare(flow, x)
             m2 == [mem EXCEPT ![x] = CDatum]
  <2>1. Updates(flow, g, x, Bind("Untracked", "NotRooted", NonOCamlValue))
    BY <1>0, RedeclareUpdates
  <2>2. Step(g, "ok", mem' = m2)
    BY <1>3 DEF Declare, Step
  <2> HIDE DEF g
  <2>3. ASSUME Disciplined, Straight, Running, g.reach PROVE Precise(g, m2)
    <3>1. Precise(flow, mem) /\ mem \in Memory /\ CDatum \in Data
      BY <2>3, HereFacts, PreciseFacts, DataFacts
    <3> QED BY <1>0, <2>1, <2>3, <3>1, FreshPrecise
  <2> HIDE DEF m2
  <2>4. Step(g, "ok", TRUE)
    BY <2>2 DEF Step
  <2>5. Disciplined /\ Straight => PreciseStep(g, "ok")
    BY <2>2, <2>3 DEF PreciseStep, Step
  <2> QED BY <2>4, <2>5, PreciseStepExact
<1>4. ASSUME Unregister(x) PROVE Exact' /\ Early'
  <2> DEFINE g == ExecUnregisterRoot(flow, x)
             e == Bind(flow.env[x].status, "NotRooted", flow.env[x].shape)
             t == Legal(held)
  <2>1. g \in Flow /\ (g.reach => e \in ProperEntry /\ Sets(flow, g, x, e))
    BY <1>0, ExecUnregisterRootCases
  <2>2. Step(g, t, mem' = mem)
    BY <1>4 DEF Unregister, Step
  <2> HIDE DEF g, t
  <2>3. ASSUME Disciplined, Straight, Running, g.reach PROVE Precise(g, mem)
    <3>1. Precise(flow, mem) /\ mem \in Memory /\ Sim(flow, mem, rooted, held) /\ Holds(mem, x)
      BY <1>0, <2>3, HereFacts, PreciseFacts DEF Declared
    <3>2. flow.env[x] # Absent
      BY <1>0, <3>1, SimEntry
    <3>3. Updates(flow, g, x, e)
      BY <1>0, <2>1, <2>3, SetsUpdates
    <3>4. mem[x] \in Data /\ (flow.env[x].status = "Stale" => mem[x].exposed)
      BY <1>0, <3>1, <3>2, MemoryHolds DEF Precise, Exposure, StatusVar
    <3>5. "NotRooted" \in Roots
      BY DEF Roots
    <3>6. Precise(g, [mem EXCEPT ![x] = mem[x]])
      BY <1>0, <2>1, <2>3, <3>1, <3>3, <3>4, <3>5, UpdatePrecise
    <3>7. [mem EXCEPT ![x] = mem[x]] = mem
      BY <3>1 DEF Memory
    <3> QED BY <3>6, <3>7
  <2> QED BY <2>2, <2>3, RootsExact
<1>5. ASSUME EndRootsOf(x) PROVE Exact' /\ Early'
  <2> DEFINE t == Legal(held /\ ~ForbidEndRoots)
  <2>1. Step(flow, t, mem' = mem)
    BY <1>5 DEF EndRootsOf, EndRoots, Step
  <2>2. t = "ok" => ~Disciplined
    BY DEF Legal, Disciplined
  <2> HIDE DEF t
  <2> QED BY <2>1, <2>2, RootsExact
<1> QED BY <1>1, <1>2, <1>3, <1>4, <1>5

\* A rooted cell, then the pointer to it.
LEMMA NamedValueExact ==
  ASSUME IInv, Exact, Early, NEW p \in Named, NamedValue(p)
  PROVE  Exact' /\ Early'
<1> DEFINE c == CellOf[p]
           g == CamlNamedValue(flow, p)
<1>0. /\ flow \in Flow /\ p \in Ptrs /\ p \in Loc /\ c \in Loc
      /\ "Active" # "Stale" /\ "Untracked" # "Stale"
  BY LocFacts, LocAssumption DEF IInv, TypeOK
<1>1. PICK a \in Flow, b \in Flow :
        /\ Updates(flow, a, c, Bind("Active", "NotRooted", Kind))
        /\ Registers(a, b, c)
        /\ Updates(b, g, p, Bind("Untracked", RootAfter(b, p), NonOCamlValue))
  BY <1>0, CamlNamedValueRegisters
<1>2. Step(g, "ok", \E k \in Kind :
                      mem' = [mem EXCEPT ![c] = ValueOf(k), ![p] = CDatum])
  BY DEF NamedValue, Step
<1>3. Step(g, "ok", TRUE)
  BY <1>2 DEF Step
<1> HIDE DEF g, c
<1>4. ASSUME Disciplined, Straight, Running, g.reach, NEW k \in Kind,
             mem' = [mem EXCEPT ![c] = ValueOf(k), ![p] = CDatum]
      PROVE  Precise(g, mem')
  <2> DEFINE m1 == [mem EXCEPT ![c] = ValueOf(k)]
  <2>1. /\ ValueOf(k) \in Data /\ CDatum \in Data /\ mem \in Memory
        /\ Precise(flow, mem) /\ b.reach /\ a.reach /\ g \in Flow
    BY <1>1, <1>4, DataFacts, HereFacts, PreciseFacts DEF Updates, Progress, Registers
  <2>2. m1 \in Memory /\ mem' = [m1 EXCEPT ![p] = CDatum]
    BY <1>0, <1>4, <2>1, StoreMemory
  <2>3. Precise(a, m1)
    BY <1>0, <1>1, <2>1, FreshPrecise
  <2> HIDE DEF m1
  <2>4. Precise(b, m1)
    BY <1>0, <1>1, <2>1, <2>3, RegisterPrecise
  <2>5. RootAfter(b, p) \in Roots
    BY <1>0, <2>4, RootAfterKnown DEF Precise
  <2>6. Precise(g, [m1 EXCEPT ![p] = CDatum])
    BY <1>0, <1>1, <1>4, <2>1, <2>2, <2>4, <2>5, UpdatePrecise
  <2> QED BY <2>2, <2>6
<1>5. Disciplined /\ Straight => PreciseStep(g, "ok")
  BY <1>2, <1>4 DEF PreciseStep, Step
<1> QED BY <1>3, <1>5, PreciseStepExact

\* caml_enter_blocking_section() and caml_leave_blocking_section().
LEMMA LockCallsExact ==
  ASSUME IInv, Exact, Early, EnterBlocking \/ LeaveBlocking
  PROVE  Exact' /\ Early'
<1>0. flow \in Flow
  BY DEF IInv, TypeOK
<1>1. ASSUME EnterBlocking PROVE Exact' /\ Early'
  <2> DEFINE g == CamlEnterBlockingSection(flow)
  <2>1. g.reach => \E d \in Flow : Collects(flow, d) /\ d.reach /\ g.env = d.env
    BY <1>0, CamlEnterBlockingSectionCollects
  <2>2. Step(g, NeedLock, \E S \in SUBSET Unprotected(mem, rooted) :
                            mem' = Collected(mem, rooted, S))
    BY <1>1 DEF EnterBlocking, Step
  <2>3. Step(g, NeedLock, TRUE)
    BY <2>2 DEF Step
  <2> HIDE DEF g
  <2>4. ASSUME Disciplined, Straight, Running, g.reach,
               NEW S \in SUBSET Unprotected(mem, rooted), mem' = Collected(mem, rooted, S)
        PROVE  Precise(g, mem')
    <3>1. PICK d \in Flow : Collects(flow, d) /\ d.reach /\ g.env = d.env
      BY <2>1, <2>4
    <3>2. /\ mem \in Memory /\ rooted \in SUBSET Loc /\ Sim(flow, mem, rooted, held)
          /\ Precise(flow, mem)
      BY <2>4, HereFacts, PreciseFacts
    <3>3. Precise(d, Collected(mem, rooted, S))
      BY <1>0, <3>1, <3>2, CollectPrecise
    <3>4. Precise(d, mem')
      BY <2>4, <3>3
    <3> QED BY <3>1, <3>4 DEF Precise, RootsKnown, Exposure, StatusVar
  <2>5. Disciplined /\ Straight => PreciseStep(g, NeedLock)
    BY <2>2, <2>4 DEF PreciseStep, Step
  <2> QED BY <2>3, <2>5, PreciseStepExact
<1>2. ASSUME LeaveBlocking PROVE Exact' /\ Early'
  <2> DEFINE g == CamlLeaveBlockingSection(flow)
  <2>1. g.reach => g.env = flow.env
    BY <1>0, CamlLeaveBlockingSectionFlow
  <2>2. Step(g, Legal(~held), mem' = mem)
    BY <1>2 DEF LeaveBlocking, Step
  <2> HIDE DEF g
  <2>3. Disciplined /\ Straight /\ Running /\ g.reach => Precise(g, mem)
    BY <2>1, PreciseFacts DEF Precise, RootsKnown, Exposure, StatusVar
  <2> QED BY <2>2, <2>3, RootsExact
<1> QED BY <1>1, <1>2

\* Steps in which the run ends, or the analysis does.
LEMMA EndsExact ==
  ASSUME IInv, Exact, Early
  PROVE  /\ Unimplemented => Exact' /\ Early'
         /\ \A g, t : Leave(g, t) => Exact' /\ Early'
<1>1. ASSUME Unimplemented PROVE Exact' /\ Early'
  <2>1. ~EvalUnimplemented(flow).reach
    BY DEF EvalUnimplemented, RaiseAlarm, Unreachable
  <2>2. Step(EvalUnimplemented(flow), "ok", mem' = mem)
    BY <1>1 DEF Unimplemented, Step, Keep, memory
  <2> QED BY <2>1, <2>2, RootsExact
<1>2. ASSUME NEW g, NEW t, Leave(g, t) PROVE Exact' /\ Early'
  <2>1. phase' = phase /\ left' = left
    BY <1>2 DEF Leave
  <2>2. CASE Running
    <3>1. run' # "ok"
      BY <1>2, <2>2 DEF Leave, EndRun, Then
    <3> QED BY <2>1, <3>1 DEF Exact, Early
  <2>3. CASE ~Running
    <3>1. run' = run
      BY <1>2, <2>3 DEF Leave
    <3>2. Straight /\ run = "ok" => Running
      BY DEF Straight, Running, Here
    <3> QED BY <2>1, <2>3, <3>1, <3>2 DEF Exact, Early, Straight
  <2> QED BY <2>2, <2>3
<1> QED BY <1>1, <1>2

LEMMA RuntimeCallsExact ==
  ASSUME IInv, Exact, Early, RuntimeCall
  PROVE  Exact' /\ Early'
<1>0. flow \in Flow
  BY DEF IInv, TypeOK
<1>1. ASSUME NEW x \in Vals, NEW shape \in AllocShapes, Alloc(x, shape)
      PROVE  Exact' /\ Early'
  <2>1. shape \in SUBSET Kind /\ shape # {} /\ x \in Loc
    BY ShapesAssumption, LocFacts
  <2>2. Allocates(flow, CamlAlloc(flow, x, shape), x, shape)
    BY <1>0, <2>1, ProperConstants, CamlAllocAllocates
  <2>3. Step(CamlAlloc(flow, x, shape), NeedLock, \E k \in shape : CollectAndStore(x, k))
    BY <1>1 DEF Alloc
  <2> QED BY <2>1, <2>2, <2>3, AllocateExact
<1>2. ASSUME NEW x \in Vals, NEW v \in Vals, AllocSome(x, v) PROVE Exact' /\ Early'
  <2> DEFINE g == CamlAllocSome(flow, x, v)
             t == Then(NeedLock, Legal(Usable(mem[v]) /\ SomeOf(v) # {}))
             kinds == SomeOf(v)
  <2>1. kinds \in SUBSET Kind
    BY KindAssumption DEF SomeOf
  <2>2. Allocates(flow, g, x, StdBlock)
    BY <1>0, LocFacts, CamlAllocSomeAllocates
  <2>3. Step(g, t, \E k \in kinds : CollectAndStore(x, k))
    BY <1>2 DEF AllocSome
  <2> HIDE DEF g, t, kinds
  <2> QED BY <2>1, <2>2, <2>3, AllocateExact
<1>3. ASSUME NEW x \in Vals, Param(x) \/ Local(x) \/ Declare(x) \/ Unregister(x) \/ EndRootsOf(x)
      PROVE  Exact' /\ Early'
  BY <1>3, RootCallsExact
<1>4. ASSUME Raise \/ \E v \in Vals : RaiseWithArg(v) \/ FailwithValue(v)
      PROVE  Exact' /\ Early'
  BY <1>4, EndsExact DEF Raise, RaiseWithArg, FailwithValue
<1> QED BY <1>1, <1>2, <1>3, <1>4, NamedValueExact, LockCallsExact, EndsExact DEF RuntimeCall

\* A conditional ends the straight part of a stub.
LEMMA ConditionalsExact ==
  ASSUME IInv, Exact, Early, Conditional
  PROVE  Exact' /\ Early'
<1>1. left \in Nat /\ Conditionals \in Nat /\ left <= Conditionals
  BY ShapesAssumption DEF IInv, TypeOK
<1>2. ASSUME NEW yes, NEW no, NEW t, NEW taken, Open(yes, no, t, taken)
      PROVE  Exact' /\ Early'
  <2>1. left' = left - 1
    BY <1>2 DEF Open
  <2>2. left' # Conditionals
    BY <1>1, <2>1
  <2>3. Conditionals' = Conditionals
    OBVIOUS
  <2> QED BY <2>2 DEF Exact, Early, Straight
<1>3. ASSUME Else \/ EndIf PROVE Exact' /\ Early'
  <2>1. phase # "seq" /\ left' = left
    BY <1>3 DEF Else, EndIf
  <2>2. left' # Conditionals
    BY <2>1 DEF Early
  <2> QED BY <2>2 DEF Exact, Early, Straight
<1> QED BY <1>2, <1>3 DEF Conditional, If, IfIsBlock

\* The other threads only expose more.
LEMMA ConcurrentGCExact ==
  ASSUME IInv, Exact, Early, ConcurrentGC
  PROVE  Exact' /\ Early'
<1>1. /\ run' = run /\ run = "ok" /\ flow' = flow /\ phase' = phase /\ left' = left
  BY DEF ConcurrentGC, analysis
<1>2. PICK S \in SUBSET Unprotected(mem, rooted) : mem' = Collected(mem, rooted, S)
  BY DEF ConcurrentGC
<1>3. mem \in Memory /\ rooted \in SUBSET Loc
  BY DEF IInv, TypeOK
<1>4. ASSUME Disciplined, Straight PROVE Precise(flow, mem')
  <2>1. Precise(flow, mem)
    BY <1>1, <1>4 DEF Exact
  <2>2. ASSUME NEW l \in Loc, Holds(mem', l), StatusVar(flow, l) = "Stale"
        PROVE  mem'[l].exposed
    <3>1. Holds(mem, l)
      BY <1>2, <1>3, <2>2, CollectedMemory
    <3>2. mem[l].exposed
      BY <2>1, <2>2, <3>1 DEF Precise, Exposure
    <3>3. Collected(mem, rooted, S)[l].exposed
      BY <1>3, <3>1, <3>2, CollectedExposes
    <3> QED BY <1>2, <3>3
  <2> QED BY <2>1, <2>2 DEF Precise, Exposure
<1> QED BY <1>1, <1>4 DEF Exact, Early, Straight

LEMMA NextExact == IInv /\ Exact /\ Early /\ [Next]_vars => Exact' /\ Early'
<1> SUFFICES ASSUME IInv, Exact, Early, [Next]_vars PROVE Exact' /\ Early'
  OBVIOUS
<1>1. CASE Next
  BY <1>1, StatementsExact, ValueCallsExact, RuntimeCallsExact, ConditionalsExact,
     ConcurrentGCExact DEF Next
<1>2. CASE UNCHANGED vars
  <2>1. flow' = flow /\ phase' = phase /\ left' = left /\ mem' = mem /\ run' = run
    BY <1>2 DEF vars, analysis, memory
  <2> QED BY <2>1 DEF Exact, Early, Straight
<1> QED BY <1>1, <1>2

\* The arguments of a stub are active, and nothing is registered.
LEMMA InitExact == Init => Exact /\ Early
<1> SUFFICES ASSUME Init PROVE Exact /\ Early
  OBVIOUS
<1>1. PICK args \in SUBSET Vals, sh \in ArgShapes :
        flow = [StartFlow EXCEPT !.env = InitEnv(args, sh)]
  BY DEF Init
<1>2. phase = "seq" /\ left = Conditionals
  BY DEF Init
<1>3. flow.env = InitEnv(args, sh)
  BY <1>1, InitEntries DEF StartFlow
<1>4. ASSUME NEW l \in Loc, flow.env[l] # Absent
      PROVE  flow.env[l].root = "NotRooted" /\ flow.env[l].status # "Stale"
  <2>1. flow.env[l] \in {Bind("Active", "NotRooted", sh),
                         Bind("Untracked", "NotRooted", NonOCamlValue)}
    BY <1>3, <1>4, InitEntries
  <2> QED BY <2>1 DEF Bind
<1>5. \A l \in Loc : StatusVar(flow, l) # "Stale"
  BY <1>4 DEF StatusVar, BOT, TOP
<1> QED BY <1>2, <1>4, <1>5 DEF Exact, Early, Precise, RootsKnown, Exposure, Roots

\* What is called stale was exposed, as long as no conditional was analysed.
LEMMA ExactInvariant == Spec => [](IInv /\ Exact /\ Early)
<1>1. Init => IInv /\ Exact /\ Early
  BY InitIInv, InitExact
<1>2. IInv /\ Exact /\ Early /\ [Next]_vars => (IInv /\ Exact /\ Early)'
  BY NextIInv, NextExact
<1> QED BY <1>1, <1>2, PTL DEF Spec

\* The precision invariant says what StaleWasExposed says.
LEMMA ExactExposes ==
  ASSUME IInv, Exact, Disciplined, Straight
  PROVE  StaleWasExposed
<1> SUFFICES ASSUME run = "ok", NEW l \in Vals, Point.env[l].status = "Stale"
             PROVE  mem[l].exposed
  BY DEF StaleWasExposed
<1>1. Running /\ Point = flow
  BY DEF Straight, Running, Here, Point
<1>2. l \in Loc /\ Holds(mem, l) /\ Sim(flow, mem, rooted, held) /\ flow \in Flow
  BY <1>1, HereFacts, LocFacts DEF Declared
<1>3. flow.env[l] # Absent
  BY <1>2, SimEntry
<1> QED BY <1>1, <1>2, <1>3, PreciseFacts DEF Precise, Exposure, StatusVar

\* The domain is precise on the straight part of every stub: up to its first
\* conditional, a value is only called stale if a collection found it without
\* a root, or it was computed from such a value (domain.ml 508-519, 145-156).
THEOREM StaleIsExposed ==
  ASSUME ForbidUnlockedReads, ForbidEndRoots
  PROVE  Spec => [](left = Conditionals => StaleWasExposed)
<1>1. IInv /\ Exact /\ Early => (left = Conditionals => StaleWasExposed)
  BY ExactExposes DEF Disciplined, Early, Straight
<1> QED BY <1>1, ExactInvariant, PTL

\* The same for whole stubs without conditionals: what the runs check.
THEOREM StraightStubsExposed ==
  ASSUME ForbidUnlockedReads, ForbidEndRoots, Conditionals = 0
  PROVE  Spec => []StaleWasExposed
<1>1. IInv /\ Exact /\ Early => StaleWasExposed
  <2> SUFFICES ASSUME IInv, Exact, Early PROVE StaleWasExposed
    OBVIOUS
  <2>1. left = Conditionals
    BY DEF IInv, TypeOK
  <2> QED BY <2>1, ExactExposes DEF Disciplined, Early, Straight
<1> QED BY <1>1, ExactInvariant, PTL

=============================================================================
