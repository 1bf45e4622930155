------------------------ MODULE NestedShapes_proofs -------------------------
EXTENDS NestedShapes, TLAPS, FiniteSetTheorems, WellFoundedInduction

-----------------------------------------------------------------------------
(* Induction, on sets of numbers.                                          *)

LEMMA NatSetInduction ==
  ASSUME NEW T, 0 \in T, \A n \in Nat : n \in T => n + 1 \in T
  PROVE  Nat \subseteq T
<1> DEFINE R == OpToRel(<, Nat)
           U == Nat \ T
<1>1. SUFFICES ASSUME U # {} PROVE FALSE
  OBVIOUS
<1>2. IsWellFoundedOn(R, Nat)
  BY NatLessThanWellFounded
<1>3. U \subseteq Nat
  OBVIOUS
<1>4. \E n \in U : \A m \in U : ~(<<m, n>> \in R)
  <2> HIDE DEF R, U
  <2> QED BY <1>1, <1>2, <1>3, WFMin
<1>5. PICK n \in U : \A m \in U : ~(<<m, n>> \in R)
  BY <1>4
<1>6. n \in Nat /\ n # 0
  OBVIOUS
<1>7. PICK m \in Nat : n = m + 1
  <2>1. n - 1 \in Nat /\ n = (n - 1) + 1
    BY <1>6
  <2> QED BY <2>1
<1>8. m \in U
  BY <1>7
<1>9. <<m, n>> \in R
  BY <1>6, <1>7 DEF OpToRel
<1> QED BY <1>5, <1>8, <1>9

-----------------------------------------------------------------------------
(* Levels.                                                                 *)

LEMMA ShapesLevels ==
  /\ ShapesTo[0] = {}
  /\ \A n \in 0 .. Levels : n # 0 => ShapesTo[n] = ShapesOver(ShapesTo[n - 1])
<1> DEFINE T == {m \in Nat : \E f : \A n \in 0 .. m :
                   f[n] = IF n = 0 THEN {} ELSE ShapesOver(f[n - 1])}
<1>1. 0 \in T
  <2> DEFINE f == [n \in 0 .. 0 |-> {}]
  <2>1. \A n \in 0 .. 0 : f[n] = IF n = 0 THEN {} ELSE ShapesOver(f[n - 1])
    OBVIOUS
  <2> QED BY <2>1
<1>2. ASSUME NEW m \in Nat, m \in T
      PROVE  m + 1 \in T
  <2>1. PICK f : \A n \in 0 .. m : f[n] = IF n = 0 THEN {} ELSE ShapesOver(f[n - 1])
    BY <1>2
  <2> DEFINE g == [n \in 0 .. m + 1 |-> IF n = 0 THEN {} ELSE ShapesOver(f[n - 1])]
  <2>2. \A n \in 0 .. m : g[n] = f[n]
    BY <2>1
  <2>3. \A n \in 0 .. m + 1 : n # 0 => n - 1 \in 0 .. m
    OBVIOUS
  <2>4. \A n \in 0 .. m + 1 : g[n] = IF n = 0 THEN {} ELSE ShapesOver(g[n - 1])
    BY <2>2, <2>3
  <2> HIDE DEF g
  <2> QED BY <2>4
<1>3. Levels \in T
  <2> HIDE DEF T
  <2> QED BY <1>1, <1>2, NatSetInduction, ShapesAssumption
<1>4. PICK f : \A n \in 0 .. Levels : f[n] = IF n = 0 THEN {} ELSE ShapesOver(f[n - 1])
  BY <1>3
<1> DEFINE g == [n \in 0 .. Levels |-> f[n]]
<1>5. \A n \in 0 .. Levels : n # 0 => n - 1 \in 0 .. Levels
  BY ShapesAssumption
<1>6. g = [n \in 0 .. Levels |-> IF n = 0 THEN {} ELSE ShapesOver(g[n - 1])]
  BY <1>4, <1>5
<1> HIDE DEF g
<1>7. ShapesTo = [n \in 0 .. Levels |-> IF n = 0 THEN {} ELSE ShapesOver(ShapesTo[n - 1])]
  BY <1>6 DEF ShapesTo
<1>8. 0 \in 0 .. Levels
  BY ShapesAssumption
<1> QED BY <1>7, <1>8

LEMMA OverMonotone ==
  ASSUME NEW S, NEW U, S \subseteq U
  PROVE  ShapesOver(S) \subseteq ShapesOver(U)
<1>1. FieldsOver(S) \subseteq FieldsOver(U)
  BY DEF FieldsOver
<1>2. VariantsOver(S) \subseteq VariantsOver(U)
  BY <1>1 DEF VariantsOver
<1> QED BY <1>2 DEF ShapesOver

\* A shape of fewer levels is one of more.
LEMMA LevelsGrow ==
  \A n \in 0 .. Levels : /\ ShapesTo[n] \subseteq Shapes
                         /\ n # 0 => ShapesTo[n - 1] \subseteq ShapesTo[n]
<1> DEFINE T == {n \in Nat : n < Levels => ShapesTo[n] \subseteq ShapesTo[n + 1]}
           U == {n \in Nat : n <= Levels => ShapesTo[Levels - n] \subseteq Shapes}
<1> USE ShapesAssumption
<1>1. 0 \in T
  BY ShapesLevels
<1>2. ASSUME NEW n \in Nat, n \in T
      PROVE  n + 1 \in T
  <2>1. SUFFICES ASSUME n + 1 < Levels
                 PROVE  ShapesTo[n + 1] \subseteq ShapesTo[(n + 1) + 1]
    OBVIOUS
  <2>2. ShapesTo[n] \subseteq ShapesTo[n + 1]
    BY <1>2, <2>1
  <2>3. /\ ShapesTo[n + 1] = ShapesOver(ShapesTo[n])
        /\ ShapesTo[(n + 1) + 1] = ShapesOver(ShapesTo[n + 1])
    <3>1. /\ n + 1 \in 0 .. Levels /\ (n + 1) - 1 = n
          /\ (n + 1) + 1 \in 0 .. Levels /\ ((n + 1) + 1) - 1 = n + 1
          /\ n + 1 # 0 /\ (n + 1) + 1 # 0
      BY <2>1
    <3> QED BY <3>1, ShapesLevels
  <2> QED BY <2>2, <2>3, OverMonotone
<1>3. Nat \subseteq T
  <2> HIDE DEF T
  <2> QED BY <1>1, <1>2, NatSetInduction
<1>4. 0 \in U
  BY DEF Shapes
<1>5. ASSUME NEW n \in Nat, n \in U
      PROVE  n + 1 \in U
  <2>1. SUFFICES ASSUME n + 1 <= Levels
                 PROVE  ShapesTo[Levels - (n + 1)] \subseteq Shapes
    OBVIOUS
  <2>2. /\ Levels - (n + 1) \in Nat /\ Levels - (n + 1) < Levels
        /\ (Levels - (n + 1)) + 1 = Levels - n
    BY <2>1
  <2>3. ShapesTo[Levels - (n + 1)] \subseteq ShapesTo[Levels - n]
    BY <1>3, <2>2
  <2> QED BY <1>5, <2>1, <2>3
<1>6. Nat \subseteq U
  <2> HIDE DEF U
  <2> QED BY <1>4, <1>5, NatSetInduction
<1>7. ASSUME NEW n \in 0 .. Levels
      PROVE  ShapesTo[n] \subseteq Shapes
  <2>1. /\ Levels - n \in Nat /\ Levels - n <= Levels /\ Levels - (Levels - n) = n
    OBVIOUS
  <2> QED BY <1>6, <2>1
<1>8. ASSUME NEW n \in 0 .. Levels, n # 0
      PROVE  ShapesTo[n - 1] \subseteq ShapesTo[n]
  <2>1. n - 1 \in Nat /\ n - 1 < Levels /\ (n - 1) + 1 = n
    BY <1>8
  <2> QED BY <1>3, <2>1
<1> QED BY <1>7, <1>8

\* Induction on shapes: what holds of a shape if it holds of all those below.
LEMMA ShapeInduction ==
  ASSUME NEW P, \A S \in SUBSET Shapes :
                  S \subseteq P /\ ShapesOver(S) \subseteq Shapes => ShapesOver(S) \subseteq P
  PROVE  Shapes \subseteq P
<1> DEFINE T == {n \in Nat : n <= Levels => ShapesTo[n] \subseteq P}
<1> USE ShapesAssumption
<1>1. 0 \in T
  BY ShapesLevels
<1>2. ASSUME NEW n \in Nat, n \in T
      PROVE  n + 1 \in T
  <2>1. SUFFICES ASSUME n + 1 <= Levels
                 PROVE  ShapesTo[n + 1] \subseteq P
    OBVIOUS
  <2>2. n \in 0 .. Levels /\ n + 1 \in 0 .. Levels /\ n + 1 # 0 /\ (n + 1) - 1 = n
    BY <2>1
  <2>3. ShapesTo[n + 1] = ShapesOver(ShapesTo[n])
    BY <2>2, ShapesLevels
  <2>4. ShapesTo[n] \subseteq Shapes /\ ShapesTo[n + 1] \subseteq Shapes
    BY <2>2, LevelsGrow
  <2>5. ShapesTo[n] \subseteq P
    BY <1>2, <2>2
  <2> QED BY <2>3, <2>4, <2>5
<1>3. Levels \in T
  <2> HIDE DEF T
  <2> QED BY <1>1, <1>2, NatSetInduction
<1> QED BY <1>3 DEF Shapes

-----------------------------------------------------------------------------
(* Parts of shapes.                                                        *)

LEMMA MarksApart ==
  ASSUME NEW S \in SUBSET Shapes
  PROVE  /\ Top # None
         /\ Top \notin S /\ None \notin S
         /\ Top \notin FieldsOver(S) /\ None \notin FieldsOver(S)
         /\ Top \notin VariantsOver(S)
<1>1. FieldsOver(S) \subseteq FieldsOver(Shapes)
  BY DEF FieldsOver
<1>2. VariantsOver(S) \subseteq VariantsOver(Shapes)
  BY <1>1 DEF VariantsOver
<1> QED BY <1>1, <1>2, MarksAssumption

LEMMA ShapeMade ==
  ASSUME NEW S, NEW K \in SUBSET Kind, NEW v \in VariantsOver(S) \union {Top},
         NEW a \in S \union {Top, None},
         (v = NoVariants /\ a = None) \/ Std \in K
  PROVE  Shape(K, v, a) \in ShapesOver(S)
BY DEF Shape, ShapesOver

LEMMA ShapeFields ==
  ASSUME NEW K, NEW v, NEW a
  PROVE  /\ Shape(K, v, a).shape = K
         /\ Shape(K, v, a).variant_fields = v
         /\ Shape(K, v, a).array_fields = a
BY DEF Shape

LEMMA ShapeParts ==
  ASSUME NEW S, NEW s \in ShapesOver(S)
  PROVE  /\ s.shape \in SUBSET Kind
         /\ s.variant_fields \in VariantsOver(S) \union {Top}
         /\ s.array_fields \in S \union {Top, None}
         /\ (s.variant_fields = NoVariants /\ s.array_fields = None) \/ Std \in s.shape
         /\ s = Shape(s.shape, s.variant_fields, s.array_fields)
<1>1. s \in [shape : SUBSET Kind, variant_fields : VariantsOver(S) \union {Top},
             array_fields : S \union {Top, None}]
  BY DEF ShapesOver
<1>2. (s.variant_fields = NoVariants /\ s.array_fields = None) \/ Std \in s.shape
  BY DEF ShapesOver
<1> HIDE DEF ShapesOver
<1> QED BY <1>1, <1>2 DEF Shape

LEMMA VariantParts ==
  ASSUME NEW S, NEW m \in VariantsOver(S), NEW k \in Tag
  PROVE  m[k] \in FieldsOver(S) \union {Top, None}
BY DEF VariantsOver

LEMMA FieldParts ==
  ASSUME NEW S, NEW m \in FieldsOver(S), NEW i \in Index
  PROVE  m[i] \in S \union {None}
BY DEF FieldsOver

\* The level of a shape and the one below.
LEMMA ShapesBelow ==
  ASSUME NEW n \in Nat, n + 1 <= Levels
  PROVE  /\ ShapesTo[n + 1] = ShapesOver(ShapesTo[n])
         /\ ShapesTo[n] \subseteq ShapesTo[n + 1]
         /\ ShapesTo[n] \subseteq Shapes /\ ShapesTo[n + 1] \subseteq Shapes
<1>1. n \in 0 .. Levels /\ n + 1 \in 0 .. Levels /\ n + 1 # 0 /\ (n + 1) - 1 = n
  BY ShapesAssumption
<1> QED BY <1>1, ShapesLevels, LevelsGrow

-----------------------------------------------------------------------------
(* The recursive functions satisfy their equations, since a node depends   *)
(* on the nodes below only.                                                *)

LEMMA JoinLocal ==
  ASSUME NEW S \in SUBSET Shapes, NEW F, NEW G, \A p \in S \X S : F[p] = G[p],
         NEW s \in ShapesOver(S), NEW t \in ShapesOver(S)
  PROVE  JoinNode(F, s, t) = JoinNode(G, s, t)
<1> USE MarksApart
<1>1. \A a, b \in S \union {None} : JoinOpt(F, a, b) = JoinOpt(G, a, b)
  BY DEF JoinOpt
<1>2. ASSUME NEW a \in FieldsOver(S) \union {Top, None}, NEW b \in FieldsOver(S) \union {Top, None}
      PROVE  JoinVariant(F, a, b) = JoinVariant(G, a, b)
  <2>1. CASE a \in FieldsOver(S) /\ b \in FieldsOver(S)
    <3>1. \A i \in Index : JoinOpt(F, a[i], b[i]) = JoinOpt(G, a[i], b[i])
      BY <1>1, <2>1, FieldParts
    <3> QED BY <3>1 DEF JoinVariant
  <2> QED BY <1>2, <2>1 DEF JoinVariant
<1>3. ASSUME s.variant_fields # Top, t.variant_fields # Top, NEW k \in Tag
      PROVE  JoinVariant(F, s.variant_fields[k], t.variant_fields[k])
               = JoinVariant(G, s.variant_fields[k], t.variant_fields[k])
  BY <1>2, <1>3, ShapeParts, VariantParts
<1>4. ASSUME s.array_fields # Top, t.array_fields # Top
      PROVE  JoinOpt(F, s.array_fields, t.array_fields) = JoinOpt(G, s.array_fields, t.array_fields)
  BY <1>1, <1>4, ShapeParts
<1> QED BY <1>3, <1>4 DEF JoinNode

LEMMA JoinNodeType ==
  ASSUME NEW S \in SUBSET Shapes, NEW F, \A p \in S \X S : F[p] \in S,
         NEW s \in ShapesOver(S), NEW t \in ShapesOver(S)
  PROVE  JoinNode(F, s, t) \in ShapesOver(S)
<1> USE MarksApart
<1>1. \A a, b \in S \union {None} : JoinOpt(F, a, b) \in S \union {None}
  BY DEF JoinOpt
<1>2. ASSUME NEW a \in FieldsOver(S) \union {Top, None}, NEW b \in FieldsOver(S) \union {Top, None}
      PROVE  JoinVariant(F, a, b) \in FieldsOver(S) \union {Top, None}
  <2>1. CASE a \in FieldsOver(S) /\ b \in FieldsOver(S)
    <3>1. \A i \in Index : JoinOpt(F, a[i], b[i]) \in S \union {None}
      BY <1>1, <2>1, FieldParts
    <3>2. [i \in Index |-> JoinOpt(F, a[i], b[i])] \in FieldsOver(S)
      BY <3>1 DEF FieldsOver
    <3> QED BY <2>1, <3>2 DEF JoinVariant
  <2> QED BY <1>2, <2>1 DEF JoinVariant
<1> DEFINE v == IF Top \in {s.variant_fields, t.variant_fields} THEN Top
                ELSE [k \in Tag |-> JoinVariant(F, s.variant_fields[k], t.variant_fields[k])]
           a == IF Top \in {s.array_fields, t.array_fields} THEN Top
                ELSE JoinOpt(F, s.array_fields, t.array_fields)
<1>3. v \in VariantsOver(S) \union {Top}
  <2>1. ASSUME s.variant_fields # Top, t.variant_fields # Top, NEW k \in Tag
        PROVE  JoinVariant(F, s.variant_fields[k], t.variant_fields[k])
                 \in FieldsOver(S) \union {Top, None}
    BY <1>2, <2>1, ShapeParts, VariantParts
  <2> QED BY <2>1 DEF VariantsOver
<1>4. a \in S \union {Top, None}
  BY <1>1, ShapeParts
<1>5. (v = NoVariants /\ a = None) \/ Std \in s.shape \union t.shape
  <2>1. SUFFICES ASSUME Std \notin s.shape, Std \notin t.shape
                 PROVE  v = NoVariants /\ a = None
    OBVIOUS
  <2>2. /\ s.variant_fields = NoVariants /\ t.variant_fields = NoVariants
        /\ s.array_fields = None /\ t.array_fields = None
    BY <2>1, ShapeParts
  <2>3. NoVariants \in VariantsOver(S) /\ \A k \in Tag : NoVariants[k] = None
    BY DEF NoVariants, VariantsOver
  <2>4. JoinVariant(F, None, None) = None /\ JoinOpt(F, None, None) = None
    BY DEF JoinVariant, JoinOpt
  <2>5. v = [k \in Tag |-> None]
    BY <2>2, <2>3, <2>4
  <2> QED BY <2>2, <2>4, <2>5 DEF NoVariants
<1>6. s.shape \union t.shape \in SUBSET Kind
  BY ShapeParts
<1>7. JoinNode(F, s, t) = Shape(s.shape \union t.shape, v, a)
  BY DEF JoinNode
<1> HIDE DEF v, a
<1> QED BY <1>3, <1>4, <1>5, <1>6, <1>7, ShapeMade

LEMMA JoinRecursion == \A p \in Shapes \X Shapes : join[p] = JoinNode(join, p[1], p[2])
<1> DEFINE L(n) == ShapesTo[n] \X ShapesTo[n]
           Solves(f, n) == /\ f = [p \in L(n) |-> f[p]]
                           /\ \A p \in L(n) : f[p] = JoinNode(f, p[1], p[2])
           T == {n \in Nat : n <= Levels => \E f : Solves(f, n)}
<1>1. 0 \in T
  <2> DEFINE f == [p \in L(0) |-> Any]
  <2>1. L(0) = {}
    BY ShapesLevels
  <2>2. f = [p \in L(0) |-> f[p]]
    OBVIOUS
  <2>3. Solves(f, 0)
    BY <2>1, <2>2
  <2> HIDE DEF Solves
  <2> QED BY <2>3
<1>2. ASSUME NEW n \in Nat, n \in T
      PROVE  n + 1 \in T
  <2>1. SUFFICES ASSUME n + 1 <= Levels
                 PROVE  \E f : Solves(f, n + 1)
    <3> HIDE DEF Solves
    <3> QED OBVIOUS
  <2>2. PICK f : Solves(f, n)
    <3> HIDE DEF Solves
    <3> QED BY <1>2, <2>1, ShapesAssumption
  <2> DEFINE g == [p \in L(n + 1) |-> JoinNode(f, p[1], p[2])]
  <2>3. L(n) \subseteq L(n + 1) /\ \A p \in L(n) : f[p] = JoinNode(f, p[1], p[2])
    BY <2>1, <2>2, ShapesBelow
  <2>4. \A p \in L(n) : g[p] = f[p]
    BY <2>3
  <2>5. g = [p \in L(n + 1) |-> g[p]]
    OBVIOUS
  <2>6. \A p \in L(n + 1) : g[p] = JoinNode(f, p[1], p[2])
    OBVIOUS
  <2> HIDE DEF g
  <2>7. ASSUME NEW p \in L(n + 1)
        PROVE  JoinNode(f, p[1], p[2]) = JoinNode(g, p[1], p[2])
    <3>1. ShapesTo[n] \in SUBSET Shapes /\ ShapesTo[n + 1] = ShapesOver(ShapesTo[n])
      BY <2>1, ShapesBelow
    <3>2. \A q \in L(n) : f[q] = g[q]
      BY <2>4
    <3> QED BY <3>1, <3>2, JoinLocal
  <2>8. Solves(g, n + 1)
    BY <2>5, <2>6, <2>7
  <2> HIDE DEF Solves
  <2> QED BY <2>8
<1>3. Levels \in T
  <2> HIDE DEF T
  <2> QED BY <1>1, <1>2, NatSetInduction, ShapesAssumption
<1>4. PICK f : Solves(f, Levels)
  <2> HIDE DEF Solves
  <2> QED BY <1>3, ShapesAssumption
<1>5. f = [p \in Shapes \X Shapes |-> JoinNode(f, p[1], p[2])]
  BY <1>4 DEF Shapes
<1>6. join = [p \in Shapes \X Shapes |-> JoinNode(join, p[1], p[2])]
  BY <1>5 DEF join
<1> QED BY <1>6

LEMMA MeetLocal ==
  ASSUME NEW S \in SUBSET Shapes, NEW F, NEW G, \A p \in S \X S : F[p] = G[p],
         NEW s \in ShapesOver(S), NEW t \in ShapesOver(S)
  PROVE  MeetNode(F, s, t) = MeetNode(G, s, t)
<1> USE MarksApart
<1>1. ASSUME NEW a \in FieldsOver(S) \union {Top, None}, NEW b \in FieldsOver(S) \union {Top, None}
      PROVE  MeetVariant(F, a, b) = MeetVariant(G, a, b)
  <2>1. CASE a \in FieldsOver(S) /\ b \in FieldsOver(S)
    <3>1. \A i \in Index : MeetOpt(F, a[i], b[i]) = MeetOpt(G, a[i], b[i])
      BY <2>1, FieldParts DEF MeetOpt
    <3> QED BY <3>1 DEF MeetVariant
  <2> QED BY <1>1, <2>1 DEF MeetVariant
<1>2. ASSUME s.variant_fields # Top, t.variant_fields # Top, NEW k \in Tag
      PROVE  MeetVariant(F, s.variant_fields[k], t.variant_fields[k])
               = MeetVariant(G, s.variant_fields[k], t.variant_fields[k])
  BY <1>1, <1>2, ShapeParts, VariantParts
<1> QED BY <1>2 DEF MeetNode

LEMMA MeetRecursion == \A p \in Shapes \X Shapes : meet[p] = MeetNode(meet, p[1], p[2])
<1> DEFINE L(n) == ShapesTo[n] \X ShapesTo[n]
           Solves(f, n) == /\ f = [p \in L(n) |-> f[p]]
                           /\ \A p \in L(n) : f[p] = MeetNode(f, p[1], p[2])
           T == {n \in Nat : n <= Levels => \E f : Solves(f, n)}
<1>1. 0 \in T
  <2> DEFINE f == [p \in L(0) |-> Any]
  <2>1. L(0) = {}
    BY ShapesLevels
  <2>2. f = [p \in L(0) |-> f[p]]
    OBVIOUS
  <2>3. Solves(f, 0)
    BY <2>1, <2>2
  <2> HIDE DEF Solves
  <2> QED BY <2>3
<1>2. ASSUME NEW n \in Nat, n \in T
      PROVE  n + 1 \in T
  <2>1. SUFFICES ASSUME n + 1 <= Levels
                 PROVE  \E f : Solves(f, n + 1)
    <3> HIDE DEF Solves
    <3> QED OBVIOUS
  <2>2. PICK f : Solves(f, n)
    <3> HIDE DEF Solves
    <3> QED BY <1>2, <2>1, ShapesAssumption
  <2> DEFINE g == [p \in L(n + 1) |-> MeetNode(f, p[1], p[2])]
  <2>3. L(n) \subseteq L(n + 1) /\ \A p \in L(n) : f[p] = MeetNode(f, p[1], p[2])
    BY <2>1, <2>2, ShapesBelow
  <2>4. \A p \in L(n) : g[p] = f[p]
    BY <2>3
  <2>5. g = [p \in L(n + 1) |-> g[p]]
    OBVIOUS
  <2>6. \A p \in L(n + 1) : g[p] = MeetNode(f, p[1], p[2])
    OBVIOUS
  <2> HIDE DEF g
  <2>7. ASSUME NEW p \in L(n + 1)
        PROVE  MeetNode(f, p[1], p[2]) = MeetNode(g, p[1], p[2])
    <3>1. ShapesTo[n] \in SUBSET Shapes /\ ShapesTo[n + 1] = ShapesOver(ShapesTo[n])
      BY <2>1, ShapesBelow
    <3>2. \A q \in L(n) : f[q] = g[q]
      BY <2>4
    <3> QED BY <3>1, <3>2, MeetLocal
  <2>8. Solves(g, n + 1)
    BY <2>5, <2>6, <2>7
  <2> HIDE DEF Solves
  <2> QED BY <2>8
<1>3. Levels \in T
  <2> HIDE DEF T
  <2> QED BY <1>1, <1>2, NatSetInduction, ShapesAssumption
<1>4. PICK f : Solves(f, Levels)
  <2> HIDE DEF Solves
  <2> QED BY <1>3, ShapesAssumption
<1>5. f = [p \in Shapes \X Shapes |-> MeetNode(f, p[1], p[2])]
  BY <1>4 DEF Shapes
<1>6. meet = [p \in Shapes \X Shapes |-> MeetNode(meet, p[1], p[2])]
  BY <1>5 DEF meet
<1> QED BY <1>6

LEMMA SubsetLocal ==
  ASSUME NEW S \in SUBSET Shapes, NEW F, NEW G, \A p \in S \X S : F[p] = G[p],
         NEW s \in ShapesOver(S), NEW t \in ShapesOver(S)
  PROVE  SubsetNode(F, s, t) = SubsetNode(G, s, t)
<1> USE MarksApart
<1>1. \A a, b \in S \union {None} : SubsetOpt(F, a, b) <=> SubsetOpt(G, a, b)
  BY DEF SubsetOpt
<1>2. ASSUME NEW a \in FieldsOver(S) \union {Top, None}, NEW b \in FieldsOver(S) \union {Top, None}
      PROVE  SubsetVariant(F, a, b) <=> SubsetVariant(G, a, b)
  <2>1. CASE a \in FieldsOver(S) /\ b \in FieldsOver(S)
    <3>1. \A i \in Index : SubsetOpt(F, a[i], b[i]) <=> SubsetOpt(G, a[i], b[i])
      BY <1>1, <2>1, FieldParts
    <3> QED BY <3>1 DEF SubsetVariant
  <2> QED BY <1>2, <2>1 DEF SubsetVariant
<1>3. ASSUME s.variant_fields # Top, t.variant_fields # Top, NEW k \in Tag
      PROVE  SubsetVariant(F, s.variant_fields[k], t.variant_fields[k])
               <=> SubsetVariant(G, s.variant_fields[k], t.variant_fields[k])
  BY <1>2, <1>3, ShapeParts, VariantParts
<1>4. ASSUME s.array_fields # Top, t.array_fields # Top
      PROVE  SubsetOpt(F, s.array_fields, t.array_fields)
               <=> SubsetOpt(G, s.array_fields, t.array_fields)
  BY <1>1, <1>4, ShapeParts
<1> QED BY <1>3, <1>4 DEF SubsetNode

LEMMA SubsetRecursion == \A p \in Shapes \X Shapes : subset[p] = SubsetNode(subset, p[1], p[2])
<1> DEFINE L(n) == ShapesTo[n] \X ShapesTo[n]
           Solves(f, n) == /\ f = [p \in L(n) |-> f[p]]
                           /\ \A p \in L(n) : f[p] = SubsetNode(f, p[1], p[2])
           T == {n \in Nat : n <= Levels => \E f : Solves(f, n)}
<1>1. 0 \in T
  <2> DEFINE f == [p \in L(0) |-> Any]
  <2>1. L(0) = {}
    BY ShapesLevels
  <2>2. f = [p \in L(0) |-> f[p]]
    OBVIOUS
  <2>3. Solves(f, 0)
    BY <2>1, <2>2
  <2> HIDE DEF Solves
  <2> QED BY <2>3
<1>2. ASSUME NEW n \in Nat, n \in T
      PROVE  n + 1 \in T
  <2>1. SUFFICES ASSUME n + 1 <= Levels
                 PROVE  \E f : Solves(f, n + 1)
    <3> HIDE DEF Solves
    <3> QED OBVIOUS
  <2>2. PICK f : Solves(f, n)
    <3> HIDE DEF Solves
    <3> QED BY <1>2, <2>1, ShapesAssumption
  <2> DEFINE g == [p \in L(n + 1) |-> SubsetNode(f, p[1], p[2])]
  <2>3. L(n) \subseteq L(n + 1) /\ \A p \in L(n) : f[p] = SubsetNode(f, p[1], p[2])
    BY <2>1, <2>2, ShapesBelow
  <2>4. \A p \in L(n) : g[p] = f[p]
    BY <2>3
  <2>5. g = [p \in L(n + 1) |-> g[p]]
    OBVIOUS
  <2>6. \A p \in L(n + 1) : g[p] = SubsetNode(f, p[1], p[2])
    OBVIOUS
  <2> HIDE DEF g
  <2>7. ASSUME NEW p \in L(n + 1)
        PROVE  SubsetNode(f, p[1], p[2]) = SubsetNode(g, p[1], p[2])
    <3>1. ShapesTo[n] \in SUBSET Shapes /\ ShapesTo[n + 1] = ShapesOver(ShapesTo[n])
      BY <2>1, ShapesBelow
    <3>2. \A q \in L(n) : f[q] = g[q]
      BY <2>4
    <3> QED BY <3>1, <3>2, SubsetLocal
  <2>8. Solves(g, n + 1)
    BY <2>5, <2>6, <2>7
  <2> HIDE DEF Solves
  <2> QED BY <2>8
<1>3. Levels \in T
  <2> HIDE DEF T
  <2> QED BY <1>1, <1>2, NatSetInduction, ShapesAssumption
<1>4. PICK f : Solves(f, Levels)
  <2> HIDE DEF Solves
  <2> QED BY <1>3, ShapesAssumption
<1>5. f = [p \in Shapes \X Shapes |-> SubsetNode(f, p[1], p[2])]
  BY <1>4 DEF Shapes
<1>6. subset = [p \in Shapes \X Shapes |-> SubsetNode(subset, p[1], p[2])]
  BY <1>5 DEF subset
<1> QED BY <1>6

LEMMA TruncateLocal ==
  ASSUME NEW S \in SUBSET Shapes, NEW F, NEW G, \A p \in S \X Int : F[p] = G[p],
         NEW s \in ShapesOver(S), NEW d \in Int
  PROVE  TruncateNode(F, s, d) = TruncateNode(G, s, d)
<1> USE MarksApart
<1>1. ASSUME NEW m \in FieldsOver(S) \union {Top, None}
      PROVE  TruncateFields(F, d, m) = TruncateFields(G, d, m)
  <2>1. CASE m \in FieldsOver(S)
    <3>1. \A i \in Index : m[i] # None => F[<<m[i], d - 1>>] = G[<<m[i], d - 1>>]
      BY <2>1, FieldParts
    <3> QED BY <3>1 DEF TruncateFields
  <2> QED BY <1>1, <2>1 DEF TruncateFields
<1>2. ASSUME s.variant_fields # Top, NEW k \in Tag
      PROVE  TruncateFields(F, d, s.variant_fields[k]) = TruncateFields(G, d, s.variant_fields[k])
  BY <1>1, <1>2, ShapeParts, VariantParts
<1>3. ASSUME s.array_fields \notin {Top, None}
      PROVE  F[<<s.array_fields, d - 1>>] = G[<<s.array_fields, d - 1>>]
  BY <1>3, ShapeParts
<1> QED BY <1>2, <1>3 DEF TruncateNode

LEMMA TruncateRecursion == \A p \in Shapes \X Int : truncate[p] = TruncateNode(truncate, p[1], p[2])
<1> DEFINE L(n) == ShapesTo[n] \X Int
           Solves(f, n) == /\ f = [p \in L(n) |-> f[p]]
                           /\ \A p \in L(n) : f[p] = TruncateNode(f, p[1], p[2])
           T == {n \in Nat : n <= Levels => \E f : Solves(f, n)}
<1>1. 0 \in T
  <2> DEFINE f == [p \in L(0) |-> Any]
  <2>1. L(0) = {}
    BY ShapesLevels
  <2>2. f = [p \in L(0) |-> f[p]]
    OBVIOUS
  <2>3. Solves(f, 0)
    BY <2>1, <2>2
  <2> HIDE DEF Solves
  <2> QED BY <2>3
<1>2. ASSUME NEW n \in Nat, n \in T
      PROVE  n + 1 \in T
  <2>1. SUFFICES ASSUME n + 1 <= Levels
                 PROVE  \E f : Solves(f, n + 1)
    <3> HIDE DEF Solves
    <3> QED OBVIOUS
  <2>2. PICK f : Solves(f, n)
    <3> HIDE DEF Solves
    <3> QED BY <1>2, <2>1, ShapesAssumption
  <2> DEFINE g == [p \in L(n + 1) |-> TruncateNode(f, p[1], p[2])]
  <2>3. L(n) \subseteq L(n + 1) /\ \A p \in L(n) : f[p] = TruncateNode(f, p[1], p[2])
    BY <2>1, <2>2, ShapesBelow
  <2>4. \A p \in L(n) : g[p] = f[p]
    BY <2>3
  <2>5. g = [p \in L(n + 1) |-> g[p]]
    OBVIOUS
  <2>6. \A p \in L(n + 1) : g[p] = TruncateNode(f, p[1], p[2])
    OBVIOUS
  <2> HIDE DEF g
  <2>7. ASSUME NEW p \in L(n + 1)
        PROVE  TruncateNode(f, p[1], p[2]) = TruncateNode(g, p[1], p[2])
    <3>1. ShapesTo[n] \in SUBSET Shapes /\ ShapesTo[n + 1] = ShapesOver(ShapesTo[n])
      BY <2>1, ShapesBelow
    <3>2. \A q \in L(n) : f[q] = g[q]
      BY <2>4
    <3> QED BY <3>1, <3>2, TruncateLocal
  <2>8. Solves(g, n + 1)
    BY <2>5, <2>6, <2>7
  <2> HIDE DEF Solves
  <2> QED BY <2>8
<1>3. Levels \in T
  <2> HIDE DEF T
  <2> QED BY <1>1, <1>2, NatSetInduction, ShapesAssumption
<1>4. PICK f : Solves(f, Levels)
  <2> HIDE DEF Solves
  <2> QED BY <1>3, ShapesAssumption
<1>5. f = [p \in Shapes \X Int |-> TruncateNode(f, p[1], p[2])]
  BY <1>4 DEF Shapes
<1>6. truncate = [p \in Shapes \X Int |-> TruncateNode(truncate, p[1], p[2])]
  BY <1>5 DEF truncate
<1> QED BY <1>6

LEMMA ValueParts ==
  ASSUME NEW v \in Value
  PROVE  /\ v.kind \in Kind /\ v.tag \in Tag
         /\ v.fields \in FieldsOver(Value)
         /\ Bindings(v.fields) \subseteq Index
         /\ \A i \in Bindings(v.fields) : v.fields[i] \in Value
<1>1. v \in [kind : Kind, tag : Tag, fields : FieldsOver(Value)]
  BY ShapesAssumption
<1>2. v.kind \in Kind /\ v.tag \in Tag /\ v.fields \in FieldsOver(Value)
  BY <1>1
<1> QED BY <1>2 DEF FieldsOver, Bindings

LEMMA CoversLocal ==
  ASSUME NEW S \in SUBSET Shapes, NEW F, NEW G, \A p \in S \X Value : F[p] = G[p],
         NEW s \in ShapesOver(S), NEW v \in Value
  PROVE  CoversNode(F, s, v) = CoversNode(G, s, v)
<1> USE MarksApart
<1>1. ASSUME NEW m \in FieldsOver(S) \union {Top, None}
      PROVE  FieldsCover(F, m, v) <=> FieldsCover(G, m, v)
  <2>1. CASE m \in FieldsOver(S)
    <3>1. \A i \in Bindings(v.fields) :
            m[i] # None => F[<<m[i], v.fields[i]>>] = G[<<m[i], v.fields[i]>>]
      BY <2>1, FieldParts, ValueParts
    <3> QED BY <3>1 DEF FieldsCover
  <2> QED BY <1>1, <2>1 DEF FieldsCover
<1>2. ASSUME s.variant_fields # Top
      PROVE  FieldsCover(F, s.variant_fields[v.tag], v) <=> FieldsCover(G, s.variant_fields[v.tag], v)
  BY <1>1, <1>2, ShapeParts, VariantParts, ValueParts
<1>3. ASSUME s.array_fields # Top, s.array_fields # None, NEW i \in Bindings(v.fields)
      PROVE  F[<<s.array_fields, v.fields[i]>>] = G[<<s.array_fields, v.fields[i]>>]
  BY <1>3, ShapeParts, ValueParts
<1> QED BY <1>2, <1>3 DEF CoversNode

LEMMA CoversRecursion == \A p \in Shapes \X Value : covers[p] = CoversNode(covers, p[1], p[2])
<1> DEFINE L(n) == ShapesTo[n] \X Value
           Solves(f, n) == /\ f = [p \in L(n) |-> f[p]]
                           /\ \A p \in L(n) : f[p] = CoversNode(f, p[1], p[2])
           T == {n \in Nat : n <= Levels => \E f : Solves(f, n)}
<1>1. 0 \in T
  <2> DEFINE f == [p \in L(0) |-> Any]
  <2>1. L(0) = {}
    BY ShapesLevels
  <2>2. f = [p \in L(0) |-> f[p]]
    OBVIOUS
  <2>3. Solves(f, 0)
    BY <2>1, <2>2
  <2> HIDE DEF Solves
  <2> QED BY <2>3
<1>2. ASSUME NEW n \in Nat, n \in T
      PROVE  n + 1 \in T
  <2>1. SUFFICES ASSUME n + 1 <= Levels
                 PROVE  \E f : Solves(f, n + 1)
    <3> HIDE DEF Solves
    <3> QED OBVIOUS
  <2>2. PICK f : Solves(f, n)
    <3> HIDE DEF Solves
    <3> QED BY <1>2, <2>1, ShapesAssumption
  <2> DEFINE g == [p \in L(n + 1) |-> CoversNode(f, p[1], p[2])]
  <2>3. L(n) \subseteq L(n + 1) /\ \A p \in L(n) : f[p] = CoversNode(f, p[1], p[2])
    BY <2>1, <2>2, ShapesBelow
  <2>4. \A p \in L(n) : g[p] = f[p]
    BY <2>3
  <2>5. g = [p \in L(n + 1) |-> g[p]]
    OBVIOUS
  <2>6. \A p \in L(n + 1) : g[p] = CoversNode(f, p[1], p[2])
    OBVIOUS
  <2> HIDE DEF g
  <2>7. ASSUME NEW p \in L(n + 1)
        PROVE  CoversNode(f, p[1], p[2]) = CoversNode(g, p[1], p[2])
    <3>1. ShapesTo[n] \in SUBSET Shapes /\ ShapesTo[n + 1] = ShapesOver(ShapesTo[n])
      BY <2>1, ShapesBelow
    <3>2. \A q \in L(n) : f[q] = g[q]
      BY <2>4
    <3> QED BY <3>1, <3>2, CoversLocal
  <2>8. Solves(g, n + 1)
    BY <2>5, <2>6, <2>7
  <2> HIDE DEF Solves
  <2> QED BY <2>8
<1>3. Levels \in T
  <2> HIDE DEF T
  <2> QED BY <1>1, <1>2, NatSetInduction, ShapesAssumption
<1>4. PICK f : Solves(f, Levels)
  <2> HIDE DEF Solves
  <2> QED BY <1>3, ShapesAssumption
<1>5. f = [p \in Shapes \X Value |-> CoversNode(f, p[1], p[2])]
  BY <1>4 DEF Shapes
<1>6. covers = [p \in Shapes \X Value |-> CoversNode(covers, p[1], p[2])]
  BY <1>5 DEF covers
<1> QED BY <1>6


-----------------------------------------------------------------------------
(* The same for types.                                                     *)

LEMMA TypesLevels ==
  /\ TypesTo[0] = {}
  /\ \A n \in 0 .. Levels : n # 0 => TypesTo[n] = TypesOver(TypesTo[n - 1])
<1> DEFINE T == {m \in Nat : \E f : \A n \in 0 .. m :
                   f[n] = IF n = 0 THEN {} ELSE TypesOver(f[n - 1])}
<1>1. 0 \in T
  <2> DEFINE f == [n \in 0 .. 0 |-> {}]
  <2>1. \A n \in 0 .. 0 : f[n] = IF n = 0 THEN {} ELSE TypesOver(f[n - 1])
    OBVIOUS
  <2> QED BY <2>1
<1>2. ASSUME NEW m \in Nat, m \in T
      PROVE  m + 1 \in T
  <2>1. PICK f : \A n \in 0 .. m : f[n] = IF n = 0 THEN {} ELSE TypesOver(f[n - 1])
    BY <1>2
  <2> DEFINE g == [n \in 0 .. m + 1 |-> IF n = 0 THEN {} ELSE TypesOver(f[n - 1])]
  <2>2. \A n \in 0 .. m : g[n] = f[n]
    BY <2>1
  <2>3. \A n \in 0 .. m + 1 : n # 0 => n - 1 \in 0 .. m
    OBVIOUS
  <2>4. \A n \in 0 .. m + 1 : g[n] = IF n = 0 THEN {} ELSE TypesOver(g[n - 1])
    BY <2>2, <2>3
  <2> HIDE DEF g
  <2> QED BY <2>4
<1>3. Levels \in T
  <2> HIDE DEF T
  <2> QED BY <1>1, <1>2, NatSetInduction, ShapesAssumption
<1>4. PICK f : \A n \in 0 .. Levels : f[n] = IF n = 0 THEN {} ELSE TypesOver(f[n - 1])
  BY <1>3
<1> DEFINE g == [n \in 0 .. Levels |-> f[n]]
<1>5. \A n \in 0 .. Levels : n # 0 => n - 1 \in 0 .. Levels
  BY ShapesAssumption
<1>6. g = [n \in 0 .. Levels |-> IF n = 0 THEN {} ELSE TypesOver(g[n - 1])]
  BY <1>4, <1>5
<1> HIDE DEF g
<1>7. TypesTo = [n \in 0 .. Levels |-> IF n = 0 THEN {} ELSE TypesOver(TypesTo[n - 1])]
  BY <1>6 DEF TypesTo
<1>8. 0 \in 0 .. Levels
  BY ShapesAssumption
<1> QED BY <1>7, <1>8

LEMMA TypesMonotone ==
  ASSUME NEW S, NEW U, S \subseteq U
  PROVE  TypesOver(S) \subseteq TypesOver(U)
<1>1. FieldsOver(S) \subseteq FieldsOver(U)
  BY DEF FieldsOver
<1> QED BY <1>1 DEF TypesOver

\* A type of fewer levels is one of more.
LEMMA TypesGrow ==
  \A n \in 0 .. Levels : /\ TypesTo[n] \subseteq Types
                         /\ n # 0 => TypesTo[n - 1] \subseteq TypesTo[n]
<1> DEFINE T == {n \in Nat : n < Levels => TypesTo[n] \subseteq TypesTo[n + 1]}
           U == {n \in Nat : n <= Levels => TypesTo[Levels - n] \subseteq Types}
<1> USE ShapesAssumption
<1>1. 0 \in T
  BY TypesLevels
<1>2. ASSUME NEW n \in Nat, n \in T
      PROVE  n + 1 \in T
  <2>1. SUFFICES ASSUME n + 1 < Levels
                 PROVE  TypesTo[n + 1] \subseteq TypesTo[(n + 1) + 1]
    OBVIOUS
  <2>2. TypesTo[n] \subseteq TypesTo[n + 1]
    BY <1>2, <2>1
  <2>3. /\ TypesTo[n + 1] = TypesOver(TypesTo[n])
        /\ TypesTo[(n + 1) + 1] = TypesOver(TypesTo[n + 1])
    <3>1. /\ n + 1 \in 0 .. Levels /\ (n + 1) - 1 = n
          /\ (n + 1) + 1 \in 0 .. Levels /\ ((n + 1) + 1) - 1 = n + 1
          /\ n + 1 # 0 /\ (n + 1) + 1 # 0
      BY <2>1
    <3> QED BY <3>1, TypesLevels
  <2> QED BY <2>2, <2>3, TypesMonotone
<1>3. Nat \subseteq T
  <2> HIDE DEF T
  <2> QED BY <1>1, <1>2, NatSetInduction
<1>4. 0 \in U
  BY DEF Types
<1>5. ASSUME NEW n \in Nat, n \in U
      PROVE  n + 1 \in U
  <2>1. SUFFICES ASSUME n + 1 <= Levels
                 PROVE  TypesTo[Levels - (n + 1)] \subseteq Types
    OBVIOUS
  <2>2. /\ Levels - (n + 1) \in Nat /\ Levels - (n + 1) < Levels
        /\ (Levels - (n + 1)) + 1 = Levels - n
    BY <2>1
  <2>3. TypesTo[Levels - (n + 1)] \subseteq TypesTo[Levels - n]
    BY <1>3, <2>2
  <2> QED BY <1>5, <2>1, <2>3
<1>6. Nat \subseteq U
  <2> HIDE DEF U
  <2> QED BY <1>4, <1>5, NatSetInduction
<1>7. ASSUME NEW n \in 0 .. Levels
      PROVE  TypesTo[n] \subseteq Types
  <2>1. /\ Levels - n \in Nat /\ Levels - n <= Levels /\ Levels - (Levels - n) = n
    OBVIOUS
  <2> QED BY <1>6, <2>1
<1>8. ASSUME NEW n \in 0 .. Levels, n # 0
      PROVE  TypesTo[n - 1] \subseteq TypesTo[n]
  <2>1. n - 1 \in Nat /\ n - 1 < Levels /\ (n - 1) + 1 = n
    BY <1>8
  <2> QED BY <1>3, <2>1
<1> QED BY <1>7, <1>8

\* Induction on types: what holds of a shape if it holds of all those below.
LEMMA TypeInduction ==
  ASSUME NEW P, \A S \in SUBSET Types :
                  S \subseteq P /\ TypesOver(S) \subseteq Types => TypesOver(S) \subseteq P
  PROVE  Types \subseteq P
<1> DEFINE T == {n \in Nat : n <= Levels => TypesTo[n] \subseteq P}
<1> USE ShapesAssumption
<1>1. 0 \in T
  BY TypesLevels
<1>2. ASSUME NEW n \in Nat, n \in T
      PROVE  n + 1 \in T
  <2>1. SUFFICES ASSUME n + 1 <= Levels
                 PROVE  TypesTo[n + 1] \subseteq P
    OBVIOUS
  <2>2. n \in 0 .. Levels /\ n + 1 \in 0 .. Levels /\ n + 1 # 0 /\ (n + 1) - 1 = n
    BY <2>1
  <2>3. TypesTo[n + 1] = TypesOver(TypesTo[n])
    BY <2>2, TypesLevels
  <2>4. TypesTo[n] \subseteq Types /\ TypesTo[n + 1] \subseteq Types
    BY <2>2, TypesGrow
  <2>5. TypesTo[n] \subseteq P
    BY <1>2, <2>2
  <2> QED BY <2>3, <2>4, <2>5
<1>3. Levels \in T
  <2> HIDE DEF T
  <2> QED BY <1>1, <1>2, NatSetInduction
<1> QED BY <1>3 DEF Types

\* The level of a type and the one below.
LEMMA TypesBelow ==
  ASSUME NEW n \in Nat, n + 1 <= Levels
  PROVE  /\ TypesTo[n + 1] = TypesOver(TypesTo[n])
         /\ TypesTo[n] \subseteq TypesTo[n + 1]
         /\ TypesTo[n] \subseteq Types /\ TypesTo[n + 1] \subseteq Types
<1>1. n \in 0 .. Levels /\ n + 1 \in 0 .. Levels /\ n + 1 # 0 /\ (n + 1) - 1 = n
  BY ShapesAssumption
<1> QED BY <1>1, TypesLevels, TypesGrow

LEMMA TypeParts ==
  ASSUME NEW T, NEW ty \in TypesOver(T)
  PROVE  \/ ty[1] = "Value"
         \/ ty[1] = "Block"
         \/ ty[1] = "Flat" /\ ty[2] \in Kind \ {Std}
         \/ ty[1] = "BlockOf" /\ ty[2] \in Tag /\ ty[3] \in FieldsOver(T)
         \/ ty[1] = "Array" /\ ty[2] \in T
         \/ ty[1] = "Or" /\ ty[2] \in T /\ ty[3] \in T
BY DEF TypesOver

LEMMA TypeNodeLocal ==
  ASSUME NEW S \in SUBSET Types, NEW F, NEW G, \A p \in S : F[p] = G[p], NEW ty \in TypesOver(S)
  PROVE  TypeNode(F, ty) = TypeNode(G, ty)
<1>1. CASE ty[1] = "BlockOf"
  <2>1. \A i \in Index : ty[3][i] # None => F[ty[3][i]] = G[ty[3][i]]
    BY <1>1, TypeParts, FieldParts
  <2>2. [i \in Index |-> IF ty[3][i] = None THEN None ELSE F[ty[3][i]]]
          = [i \in Index |-> IF ty[3][i] = None THEN None ELSE G[ty[3][i]]]
    BY <2>1
  <2> QED BY <1>1, <2>2 DEF TypeNode
<1>2. CASE ty[1] \in {"Array", "Or"}
  BY <1>2, TypeParts DEF TypeNode
<1>3. CASE ty[1] \in {"Value", "Block", "Flat"}
  BY <1>3 DEF TypeNode
<1> QED BY <1>1, <1>2, <1>3, TypeParts

LEMMA TypeRecursion == \A p \in Types : ValueShapeToShapes[p] = TypeNode(ValueShapeToShapes, p)
<1> DEFINE L(n) == TypesTo[n]
           Solves(f, n) == /\ f = [p \in L(n) |-> f[p]]
                           /\ \A p \in L(n) : f[p] = TypeNode(f, p)
           T == {n \in Nat : n <= Levels => \E f : Solves(f, n)}
<1>1. 0 \in T
  <2> DEFINE f == [p \in L(0) |-> Any]
  <2>1. L(0) = {}
    BY TypesLevels
  <2>2. f = [p \in L(0) |-> f[p]]
    OBVIOUS
  <2>3. Solves(f, 0)
    BY <2>1, <2>2
  <2> HIDE DEF Solves
  <2> QED BY <2>3
<1>2. ASSUME NEW n \in Nat, n \in T
      PROVE  n + 1 \in T
  <2>1. SUFFICES ASSUME n + 1 <= Levels
                 PROVE  \E f : Solves(f, n + 1)
    <3> HIDE DEF Solves
    <3> QED OBVIOUS
  <2>2. PICK f : Solves(f, n)
    <3> HIDE DEF Solves
    <3> QED BY <1>2, <2>1, ShapesAssumption
  <2> DEFINE g == [p \in L(n + 1) |-> TypeNode(f, p)]
  <2>3. L(n) \subseteq L(n + 1) /\ \A p \in L(n) : f[p] = TypeNode(f, p)
    BY <2>1, <2>2, TypesBelow
  <2>4. \A p \in L(n) : g[p] = f[p]
    BY <2>3
  <2>5. g = [p \in L(n + 1) |-> g[p]]
    OBVIOUS
  <2>6. \A p \in L(n + 1) : g[p] = TypeNode(f, p)
    OBVIOUS
  <2> HIDE DEF g
  <2>7. ASSUME NEW p \in L(n + 1)
        PROVE  TypeNode(f, p) = TypeNode(g, p)
    <3>1. TypesTo[n] \in SUBSET Types /\ TypesTo[n + 1] = TypesOver(TypesTo[n])
      BY <2>1, TypesBelow
    <3>2. \A q \in L(n) : f[q] = g[q]
      BY <2>4
    <3> QED BY <3>1, <3>2, TypeNodeLocal
  <2>8. Solves(g, n + 1)
    BY <2>5, <2>6, <2>7
  <2> HIDE DEF Solves
  <2> QED BY <2>8
<1>3. Levels \in T
  <2> HIDE DEF T
  <2> QED BY <1>1, <1>2, NatSetInduction, ShapesAssumption
<1>4. PICK f : Solves(f, Levels)
  <2> HIDE DEF Solves
  <2> QED BY <1>3, ShapesAssumption
<1>5. f = [p \in Types |-> TypeNode(f, p)]
  BY <1>4 DEF Types
<1>6. ValueShapeToShapes = [p \in Types |-> TypeNode(ValueShapeToShapes, p)]
  BY <1>5 DEF ValueShapeToShapes
<1> QED BY <1>6

LEMMA HasTypeLocal ==
  ASSUME NEW S \in SUBSET Types, NEW F, NEW G, \A p \in Value \X S : F[p] = G[p],
         NEW v \in Value, NEW ty \in TypesOver(S)
  PROVE  HasTypeNode(F, v, ty) = HasTypeNode(G, v, ty)
<1>1. CASE ty[1] = "BlockOf"
  <2>1. ASSUME Bindings(v.fields) = Bindings(ty[3]), NEW i \in Bindings(ty[3])
        PROVE  F[<<v.fields[i], ty[3][i]>>] = G[<<v.fields[i], ty[3][i]>>]
    <3>1. ty[3] \in FieldsOver(S)
      BY <1>1, TypeParts
    <3>2. i \in Index /\ ty[3][i] \in S
      BY <2>1, <3>1, FieldParts DEF Bindings, FieldsOver
    <3> QED BY <2>1, <3>2, ValueParts
  <2> QED BY <1>1, <2>1 DEF HasTypeNode
<1>2. CASE ty[1] = "Array"
  <2>1. \A i \in Bindings(v.fields) : F[<<v.fields[i], ty[2]>>] = G[<<v.fields[i], ty[2]>>]
    BY <1>2, TypeParts, ValueParts
  <2> QED BY <1>2, <2>1 DEF HasTypeNode
<1>3. CASE ty[1] = "Or"
  BY <1>3, TypeParts DEF HasTypeNode
<1>4. CASE ty[1] \in {"Value", "Block", "Flat"}
  BY <1>4 DEF HasTypeNode
<1> QED BY <1>1, <1>2, <1>3, <1>4, TypeParts

LEMMA HasTypeRecursion == \A p \in Value \X Types : hasType[p] = HasTypeNode(hasType, p[1], p[2])
<1> DEFINE L(n) == Value \X TypesTo[n]
           Solves(f, n) == /\ f = [p \in L(n) |-> f[p]]
                           /\ \A p \in L(n) : f[p] = HasTypeNode(f, p[1], p[2])
           T == {n \in Nat : n <= Levels => \E f : Solves(f, n)}
<1>1. 0 \in T
  <2> DEFINE f == [p \in L(0) |-> Any]
  <2>1. L(0) = {}
    BY TypesLevels
  <2>2. f = [p \in L(0) |-> f[p]]
    OBVIOUS
  <2>3. Solves(f, 0)
    BY <2>1, <2>2
  <2> HIDE DEF Solves
  <2> QED BY <2>3
<1>2. ASSUME NEW n \in Nat, n \in T
      PROVE  n + 1 \in T
  <2>1. SUFFICES ASSUME n + 1 <= Levels
                 PROVE  \E f : Solves(f, n + 1)
    <3> HIDE DEF Solves
    <3> QED OBVIOUS
  <2>2. PICK f : Solves(f, n)
    <3> HIDE DEF Solves
    <3> QED BY <1>2, <2>1, ShapesAssumption
  <2> DEFINE g == [p \in L(n + 1) |-> HasTypeNode(f, p[1], p[2])]
  <2>3. L(n) \subseteq L(n + 1) /\ \A p \in L(n) : f[p] = HasTypeNode(f, p[1], p[2])
    BY <2>1, <2>2, TypesBelow
  <2>4. \A p \in L(n) : g[p] = f[p]
    BY <2>3
  <2>5. g = [p \in L(n + 1) |-> g[p]]
    OBVIOUS
  <2>6. \A p \in L(n + 1) : g[p] = HasTypeNode(f, p[1], p[2])
    OBVIOUS
  <2> HIDE DEF g
  <2>7. ASSUME NEW p \in L(n + 1)
        PROVE  HasTypeNode(f, p[1], p[2]) = HasTypeNode(g, p[1], p[2])
    <3>1. TypesTo[n] \in SUBSET Types /\ TypesTo[n + 1] = TypesOver(TypesTo[n])
      BY <2>1, TypesBelow
    <3>2. \A q \in L(n) : f[q] = g[q]
      BY <2>4
    <3> QED BY <3>1, <3>2, HasTypeLocal
  <2>8. Solves(g, n + 1)
    BY <2>5, <2>6, <2>7
  <2> HIDE DEF Solves
  <2> QED BY <2>8
<1>3. Levels \in T
  <2> HIDE DEF T
  <2> QED BY <1>1, <1>2, NatSetInduction, ShapesAssumption
<1>4. PICK f : Solves(f, Levels)
  <2> HIDE DEF Solves
  <2> QED BY <1>3, ShapesAssumption
<1>5. f = [p \in Value \X Types |-> HasTypeNode(f, p[1], p[2])]
  BY <1>4 DEF Types
<1>6. hasType = [p \in Value \X Types |-> HasTypeNode(hasType, p[1], p[2])]
  BY <1>5 DEF hasType
<1> QED BY <1>6


-----------------------------------------------------------------------------
(* The recursive operations, by what they do to one node.                  *)

LEMMA Equations ==
  /\ \A s, t \in Shapes : /\ Join(s, t) = JoinNode(join, s, t)
                          /\ Meet(s, t) = MeetNode(meet, s, t)
                          /\ Subset(s, t) = SubsetNode(subset, s, t)
  /\ \A s \in Shapes, d \in Int : Truncate(s, d) = TruncateNode(truncate, s, d)
  /\ \A s \in Shapes, v \in Value : Covers(s, v) = CoversNode(covers, s, v)
  /\ \A ty \in Types, v \in Value : HasType(v, ty) = HasTypeNode(hasType, v, ty)
<1>1. ASSUME NEW s \in Shapes, NEW t \in Shapes
      PROVE  /\ Join(s, t) = JoinNode(join, s, t)
             /\ Meet(s, t) = MeetNode(meet, s, t)
             /\ Subset(s, t) = SubsetNode(subset, s, t)
  <2>1. <<s, t>> \in Shapes \X Shapes /\ <<s, t>>[1] = s /\ <<s, t>>[2] = t
    OBVIOUS
  <2>2. join[<<s, t>>] = JoinNode(join, <<s, t>>[1], <<s, t>>[2])
    BY <2>1, JoinRecursion
  <2>3. meet[<<s, t>>] = MeetNode(meet, <<s, t>>[1], <<s, t>>[2])
    BY <2>1, MeetRecursion
  <2>4. subset[<<s, t>>] = SubsetNode(subset, <<s, t>>[1], <<s, t>>[2])
    BY <2>1, SubsetRecursion
  <2> QED BY <2>1, <2>2, <2>3, <2>4 DEF Join, Meet, Subset
<1>2. ASSUME NEW s \in Shapes, NEW d \in Int
      PROVE  Truncate(s, d) = TruncateNode(truncate, s, d)
  <2>1. <<s, d>> \in Shapes \X Int /\ <<s, d>>[1] = s /\ <<s, d>>[2] = d
    OBVIOUS
  <2>2. truncate[<<s, d>>] = TruncateNode(truncate, <<s, d>>[1], <<s, d>>[2])
    BY <2>1, TruncateRecursion
  <2> QED BY <2>1, <2>2 DEF Truncate
<1>3. ASSUME NEW s \in Shapes, NEW v \in Value
      PROVE  Covers(s, v) = CoversNode(covers, s, v)
  <2>1. <<s, v>> \in Shapes \X Value /\ <<s, v>>[1] = s /\ <<s, v>>[2] = v
    OBVIOUS
  <2>2. covers[<<s, v>>] = CoversNode(covers, <<s, v>>[1], <<s, v>>[2])
    BY <2>1, CoversRecursion
  <2> QED BY <2>1, <2>2 DEF Covers
<1>4. ASSUME NEW ty \in Types, NEW v \in Value
      PROVE  HasType(v, ty) = HasTypeNode(hasType, v, ty)
  <2>1. <<v, ty>> \in Value \X Types /\ <<v, ty>>[1] = v /\ <<v, ty>>[2] = ty
    OBVIOUS
  <2>2. hasType[<<v, ty>>] = HasTypeNode(hasType, <<v, ty>>[1], <<v, ty>>[2])
    BY <2>1, HasTypeRecursion
  <2> QED BY <2>1, <2>2 DEF HasType
<1> QED BY <1>1, <1>2, <1>3, <1>4

-----------------------------------------------------------------------------
(* Operations on shapes give shapes of no more levels.                     *)

\* What the parts of a shape are made of.
LEMMA ShapesUnfold == Shapes \subseteq ShapesOver(Shapes)
<1>1. Levels \in 0 .. Levels /\ Levels # 0 /\ Levels - 1 \in 0 .. Levels
  BY ShapesAssumption
<1>2. Shapes = ShapesOver(ShapesTo[Levels - 1])
  BY <1>1, ShapesLevels DEF Shapes
<1>3. ShapesTo[Levels - 1] \subseteq Shapes
  BY <1>1, LevelsGrow
<1> QED BY <1>2, <1>3, OverMonotone

LEMMA Constants ==
  ASSUME NEW S
  PROVE  /\ {Bottom, Any, AnyBlock, AnyStandardBlock, AnyNonArrayStandardBlock} \subseteq ShapesOver(S)
         /\ \A k \in Kind : Flat(k) \in ShapesOver(S)
         /\ NoVariants \in VariantsOver(S)
<1>1. NoVariants \in VariantsOver(S)
  BY DEF NoVariants, VariantsOver
<1>2. Std \in Kind /\ Std \in Kind \ {Imm} /\ Kind \ {Imm} \in SUBSET Kind
  BY ShapesAssumption
<1> QED BY <1>1, <1>2, ShapeMade
     DEF Bottom, Any, AnyBlock, AnyStandardBlock, AnyNonArrayStandardBlock, Flat

\* All of these have one level.
LEMMA ShapesOne == \A S : ShapesOver({}) \subseteq ShapesOver(S)
BY OverMonotone

LEMMA FirstLevel == ShapesOver({}) \subseteq Shapes
<1>1. 0 \in Nat /\ 0 + 1 = 1 /\ 0 + 1 <= Levels
  BY ShapesAssumption
<1> QED BY <1>1, ShapesBelow, ShapesLevels

LEMMA JoinLevel ==
  \A n \in Nat : n <= Levels => \A s, t \in ShapesTo[n] : Join(s, t) \in ShapesTo[n]
<1> DEFINE T == {n \in Nat : n <= Levels => \A s, t \in ShapesTo[n] : Join(s, t) \in ShapesTo[n]}
<1>1. 0 \in T
  BY ShapesLevels
<1>2. ASSUME NEW n \in Nat, n \in T
      PROVE  n + 1 \in T
  <2>1. SUFFICES ASSUME n + 1 <= Levels, NEW s \in ShapesTo[n + 1], NEW t \in ShapesTo[n + 1]
                 PROVE  Join(s, t) \in ShapesTo[n + 1]
    OBVIOUS
  <2>2. /\ ShapesTo[n + 1] = ShapesOver(ShapesTo[n])
        /\ ShapesTo[n] \in SUBSET Shapes /\ ShapesTo[n + 1] \subseteq Shapes
    BY <2>1, ShapesBelow
  <2>3. \A p \in ShapesTo[n] \X ShapesTo[n] : join[p] \in ShapesTo[n]
    <3>0. n <= Levels
      BY <2>1, ShapesAssumption
    <3>1. \A a, b \in ShapesTo[n] : Join(a, b) \in ShapesTo[n]
      BY <1>2, <3>0
    <3>2. \A p \in ShapesTo[n] \X ShapesTo[n] :
            p[1] \in ShapesTo[n] /\ p[2] \in ShapesTo[n] /\ p = <<p[1], p[2]>>
      OBVIOUS
    <3> HIDE DEF T
    <3> QED BY <3>1, <3>2 DEF Join
  <2>4. JoinNode(join, s, t) \in ShapesOver(ShapesTo[n])
    BY <2>1, <2>2, <2>3, JoinNodeType
  <2> QED BY <2>1, <2>2, <2>4, Equations
<1>3. Nat \subseteq T
  <2> HIDE DEF T
  <2> QED BY <1>1, <1>2, NatSetInduction
<1> QED BY <1>3

LEMMA JoinType == \A s, t \in Shapes : Join(s, t) \in Shapes
BY JoinLevel, ShapesAssumption DEF Shapes

LEMMA NotTooBroad == ~TooBroad(NoVariants)
<1>1. Bindings(NoVariants) = {}
  BY DEF Bindings, NoVariants
<1> QED BY <1>1, FS_EmptySet, ShapesAssumption DEF TooBroad

LEMMA TruncateNodeType ==
  ASSUME NEW S \in SUBSET Shapes, NEW F, \A p \in S \X Int : F[p] \in S,
         NEW s \in ShapesOver(S), NEW d \in Int
  PROVE  TruncateNode(F, s, d) \in ShapesOver(S)
<1> USE MarksApart
<1>1. ASSUME NEW m \in FieldsOver(S) \union {Top, None}
      PROVE  TruncateFields(F, d, m) \in FieldsOver(S) \union {Top, None}
  <2>1. CASE m \in FieldsOver(S)
    <3>1. \A i \in Index : m[i] # None => F[<<m[i], d - 1>>] \in S
      BY <2>1, FieldParts
    <3>2. [i \in Index |-> IF m[i] = None THEN None ELSE F[<<m[i], d - 1>>]] \in FieldsOver(S)
      BY <3>1 DEF FieldsOver
    <3> QED BY <3>2 DEF TruncateFields
  <2> QED BY <1>1, <2>1 DEF TruncateFields
<1> DEFINE m == s.variant_fields
           v == IF m = Top \/ TooBroad(m) THEN Top
                ELSE [k \in Tag |-> TruncateFields(F, d, m[k])]
           a == IF s.array_fields \in {Top, None} THEN s.array_fields
                ELSE F[<<s.array_fields, d - 1>>]
<1>2. v \in VariantsOver(S) \union {Top}
  <2>1. ASSUME m # Top, NEW k \in Tag
        PROVE  TruncateFields(F, d, m[k]) \in FieldsOver(S) \union {Top, None}
    BY <1>1, <2>1, ShapeParts, VariantParts
  <2> QED BY <2>1 DEF VariantsOver
<1>3. a \in S \union {Top, None}
  BY ShapeParts
<1>4. (v = NoVariants /\ a = None) \/ Std \in s.shape
  <2>1. SUFFICES ASSUME Std \notin s.shape
                 PROVE  v = NoVariants /\ a = None
    OBVIOUS
  <2>2. m = NoVariants /\ s.array_fields = None
    BY <2>1, ShapeParts
  <2>3. ~TooBroad(m) /\ m # Top
    BY <2>2, NotTooBroad, Constants
  <2>4. \A k \in Tag : TruncateFields(F, d, m[k]) = None
    BY <2>2 DEF NoVariants, TruncateFields
  <2>5. v = [k \in Tag |-> None]
    BY <2>3, <2>4
  <2> QED BY <2>2, <2>5 DEF NoVariants
<1>5. TruncateNode(F, s, d) = IF d < 0 THEN Any ELSE Shape(s.shape, v, a)
  BY DEF TruncateNode
<1> HIDE DEF v, a
<1>6. s.shape \in SUBSET Kind
  BY ShapeParts
<1> QED BY <1>2, <1>3, <1>4, <1>5, <1>6, ShapeMade, Constants

LEMMA TruncateType == \A s \in Shapes, d \in Int : Truncate(s, d) \in Shapes
<1> DEFINE T == {n \in Nat : n <= Levels => \A s \in ShapesTo[n], d \in Int : Truncate(s, d) \in ShapesTo[n]}
<1>1. 0 \in T
  BY ShapesLevels
<1>2. ASSUME NEW n \in Nat, n \in T
      PROVE  n + 1 \in T
  <2>1. SUFFICES ASSUME n + 1 <= Levels, NEW s \in ShapesTo[n + 1], NEW d \in Int
                 PROVE  Truncate(s, d) \in ShapesTo[n + 1]
    OBVIOUS
  <2>2. /\ ShapesTo[n + 1] = ShapesOver(ShapesTo[n])
        /\ ShapesTo[n] \in SUBSET Shapes /\ ShapesTo[n + 1] \subseteq Shapes
    BY <2>1, ShapesBelow
  <2>3. \A p \in ShapesTo[n] \X Int : truncate[p] \in ShapesTo[n]
    <3>0. n <= Levels
      BY <2>1, ShapesAssumption
    <3>1. \A a \in ShapesTo[n], b \in Int : Truncate(a, b) \in ShapesTo[n]
      BY <1>2, <3>0
    <3>2. \A p \in ShapesTo[n] \X Int :
            p[1] \in ShapesTo[n] /\ p[2] \in Int /\ p = <<p[1], p[2]>>
      OBVIOUS
    <3> HIDE DEF T
    <3> QED BY <3>1, <3>2 DEF Truncate
  <2>4. TruncateNode(truncate, s, d) \in ShapesOver(ShapesTo[n])
    BY <2>1, <2>2, <2>3, TruncateNodeType
  <2> QED BY <2>1, <2>2, <2>4, Equations
<1>3. Levels \in T
  <2> HIDE DEF T
  <2> QED BY <1>1, <1>2, NatSetInduction, ShapesAssumption
<1> QED BY <1>3, ShapesAssumption DEF Shapes

\* The shape of a type has no more levels than the type.
LEMMA TypeShapeLevel ==
  \A ty \in Types : ValueShapeToShapes[ty] \in Shapes
<1> DEFINE T == {n \in Nat : n <= Levels => \A ty \in TypesTo[n] : ValueShapeToShapes[ty] \in ShapesTo[n]}
<1>1. 0 \in T
  BY TypesLevels
<1>2. ASSUME NEW n \in Nat, n \in T
      PROVE  n + 1 \in T
  <2>1. SUFFICES ASSUME n + 1 <= Levels, NEW ty \in TypesTo[n + 1]
                 PROVE  ValueShapeToShapes[ty] \in ShapesTo[n + 1]
    OBVIOUS
  <2> DEFINE S == ShapesTo[n]
             F == ValueShapeToShapes
  <2>2. ShapesTo[n + 1] = ShapesOver(S) /\ S \in SUBSET Shapes /\ S \subseteq ShapesOver(S)
    BY <2>1, ShapesBelow
  <2>3. ty \in TypesOver(TypesTo[n]) /\ ty \in Types
    BY <2>1, TypesBelow
  <2>4. F[ty] = TypeNode(F, ty)
    BY <2>3, TypeRecursion
  <2>5. \A x \in TypesTo[n] : F[x] \in S
    <3>1. n <= Levels
      BY <2>1, ShapesAssumption
    <3> QED BY <1>2, <3>1
  <2>6. Std \in Kind
    BY ShapesAssumption
  <2>7. ASSUME ty[1] \in {"Value", "Block", "Flat"}
        PROVE  TypeNode(F, ty) \in ShapesOver(S)
    <3>1. TypeNode(F, ty) \in {Any, AnyNonArrayStandardBlock, Flat(ty[2])}
      BY <2>7 DEF TypeNode
    <3>2. ty[1] = "Flat" => ty[2] \in Kind
      BY <2>3, TypeParts
    <3>3. ty[1] # "Flat" => TypeNode(F, ty) \in {Any, AnyNonArrayStandardBlock}
      BY <2>7 DEF TypeNode
    <3> HIDE DEF F, S
    <3> QED BY <3>1, <3>2, <3>3, Constants
  <2>8. ASSUME ty[1] = "BlockOf"
        PROVE  TypeNode(F, ty) \in ShapesOver(S)
    <3> DEFINE fields == [i \in Index |-> IF ty[3][i] = None THEN None ELSE F[ty[3][i]]]
               variants == [NoVariants EXCEPT ![ty[2]] = fields]
    <3>1. ty[2] \in Tag /\ ty[3] \in FieldsOver(TypesTo[n])
      BY <2>3, <2>8, TypeParts
    <3>2. fields \in FieldsOver(S)
      <4>1. \A i \in Index : ty[3][i] # None => F[ty[3][i]] \in S
        BY <2>5, <3>1, FieldParts
      <4> QED BY <4>1 DEF FieldsOver
    <3>3. TypeNode(F, ty) = Shape({Std}, variants, None)
      BY <2>8 DEF TypeNode, FixedSizeStandardBlock
    <3> HIDE DEF fields
    <3>4. variants \in VariantsOver(S)
      BY <3>2 DEF VariantsOver, NoVariants
    <3> HIDE DEF variants, S
    <3> QED BY <2>6, <3>3, <3>4, ShapeMade
  <2>9. ASSUME ty[1] = "Array"
        PROVE  TypeNode(F, ty) \in ShapesOver(S)
    <3>1. TypeNode(F, ty) = Shape({Std}, NoVariants, F[ty[2]]) 
      BY <2>9 DEF TypeNode, ArrayOf
    <3>2. ty[2] \in TypesTo[n]
      BY <2>3, <2>9, TypeParts
    <3>3. F[ty[2]] \in S
      BY <2>5, <3>2
    <3> HIDE DEF F, S
    <3> QED BY <2>6, <3>1, <3>3, ShapeMade, Constants
  <2>10. ASSUME ty[1] = "Or"
         PROVE  TypeNode(F, ty) \in ShapesOver(S)
    <3>1. TypeNode(F, ty) = Join(F[ty[2]], F[ty[3]])
      BY <2>10 DEF TypeNode
    <3>2. ty[2] \in TypesTo[n] /\ ty[3] \in TypesTo[n]
      BY <2>3, <2>10, TypeParts
    <3>3. F[ty[2]] \in S /\ F[ty[3]] \in S
      BY <2>5, <3>2
    <3>4. Join(F[ty[2]], F[ty[3]]) \in S
      BY <2>1, <3>3, JoinLevel, ShapesAssumption
    <3> QED BY <2>2, <3>1, <3>4
  <2>11. ty[1] \in {"Value", "Block", "Flat", "BlockOf", "Array", "Or"}
    BY <2>3, TypeParts
  <2> HIDE DEF S, F
  <2>12. TypeNode(F, ty) \in ShapesOver(S)
    BY <2>7, <2>8, <2>9, <2>10, <2>11
  <2> QED BY <2>2, <2>4, <2>12 DEF F
<1>3. Levels \in T
  <2> HIDE DEF T
  <2> QED BY <1>1, <1>2, NatSetInduction, ShapesAssumption
<1> QED BY <1>3, ShapesAssumption DEF Shapes, Types

LEMMA RuntimeShapeType == \A e \in RuntimeShapes : RuntimeShapeToShapes(e) \in Shapes
<1>1. /\ {Any, AnyStandardBlock} \subseteq Shapes
      /\ \A k \in Kind : Flat(k) \in Shapes
  BY FirstLevel, Constants
<1>2. Join(AnyStandardBlock, Flat(Imm)) \in Shapes
  BY <1>1, JoinType, ShapesAssumption
<1> QED BY <1>1, <1>2 DEF RuntimeShapes, RuntimeShapeToShapes

-----------------------------------------------------------------------------
(* Order: a join is above what is joined, a truncation above the shape.    *)

LEMMA SubsetRefl == \A s \in Shapes : Subset(s, s)
<1> DEFINE P == {s \in Shapes : Subset(s, s)}
<1>1. ASSUME NEW S \in SUBSET Shapes, S \subseteq P, ShapesOver(S) \subseteq Shapes,
             NEW s \in ShapesOver(S)
      PROVE  s \in P
  <2>1. \A a \in S \union {None} : SubsetOpt(subset, a, a)
    BY <1>1 DEF SubsetOpt, Subset
  <2>2. ASSUME NEW a \in FieldsOver(S) \union {Top, None}
        PROVE  SubsetVariant(subset, a, a)
    <3>1. CASE a \in FieldsOver(S)
      <4>1. a # None /\ a # Top
        BY <3>1, MarksApart
      <4>2. \A i \in Index : SubsetOpt(subset, a[i], a[i])
        BY <2>1, <3>1, FieldParts
      <4> QED BY <4>1, <4>2 DEF SubsetVariant
    <3> QED BY <2>2, <3>1 DEF SubsetVariant
  <2>3. s.variant_fields # Top =>
          \A k \in Tag : SubsetVariant(subset, s.variant_fields[k], s.variant_fields[k])
    <3>1. SUFFICES ASSUME s.variant_fields # Top, NEW k \in Tag
                   PROVE  SubsetVariant(subset, s.variant_fields[k], s.variant_fields[k])
      OBVIOUS
    <3>2. s.variant_fields[k] \in FieldsOver(S) \union {Top, None}
      BY <3>1, ShapeParts, VariantParts
    <3> QED BY <2>2, <3>2
  <2>4. s.array_fields # Top => SubsetOpt(subset, s.array_fields, s.array_fields)
    BY <2>1, ShapeParts
  <2>5. SubsetNode(subset, s, s)
    BY <2>3, <2>4 DEF SubsetNode
  <2> QED BY <1>1, <2>5, Equations
<1>2. Shapes \subseteq P
  <2> HIDE DEF P
  <2> QED BY <1>1, ShapeInduction
<1> QED BY <1>2

LEMMA JoinUpper ==
  \A s, t \in Shapes : Subset(s, Join(s, t)) /\ Subset(t, Join(s, t))
<1> DEFINE P == {s \in Shapes : \A t \in Shapes : Subset(s, Join(s, t)) /\ Subset(t, Join(s, t))}
<1>1. ASSUME NEW S \in SUBSET Shapes, S \subseteq P, ShapesOver(S) \subseteq Shapes,
             NEW s \in ShapesOver(S), NEW t \in Shapes
      PROVE  Subset(s, Join(s, t)) /\ Subset(t, Join(s, t))
  <2>1. ASSUME NEW a \in S \union {None}, NEW b \in Shapes \union {None}
        PROVE  SubsetOpt(subset, a, JoinOpt(join, a, b)) /\ SubsetOpt(subset, b, JoinOpt(join, a, b))
    <3>1. None \notin Shapes
      BY MarksApart
    <3>2. CASE a = None
      BY <3>1, <3>2, SubsetRefl DEF SubsetOpt, JoinOpt, Subset
    <3>3. CASE a # None /\ b = None
      BY <3>1, <3>3, SubsetRefl DEF SubsetOpt, JoinOpt, Subset
    <3>4. CASE a # None /\ b # None
      <4>1. a \in S /\ b \in Shapes
        BY <3>4
      <4>2. Subset(a, Join(a, b)) /\ Subset(b, Join(a, b)) /\ Join(a, b) # None
        BY <1>1, <3>1, <4>1, JoinType
      <4> QED BY <3>4, <4>2 DEF SubsetOpt, JoinOpt, Subset, Join
    <3> QED BY <3>2, <3>3, <3>4
  <2>2. ASSUME NEW a \in FieldsOver(S) \union {Top, None}, NEW b \in FieldsOver(Shapes) \union {Top, None}
        PROVE  /\ SubsetVariant(subset, a, JoinVariant(join, a, b))
               /\ SubsetVariant(subset, b, JoinVariant(join, a, b))
    <3>1. /\ Top \notin FieldsOver(S) /\ None \notin FieldsOver(S)
          /\ Top \notin FieldsOver(Shapes) /\ None \notin FieldsOver(Shapes) /\ Top # None
      BY MarksApart
    <3>2. \A x \in S \union {None} : SubsetOpt(subset, x, x)
      BY SubsetRefl DEF SubsetOpt, Subset
    <3>3. \A x \in Shapes \union {None} : SubsetOpt(subset, x, x)
      BY SubsetRefl DEF SubsetOpt, Subset
    <3>4. CASE a = None
      <4>1. JoinVariant(join, a, b) = b
        BY <3>4 DEF JoinVariant
      <4>2. b \in FieldsOver(Shapes) => \A i \in Index : SubsetOpt(subset, b[i], b[i])
        BY <3>3, FieldParts
      <4> QED BY <3>1, <3>4, <4>1, <4>2 DEF SubsetVariant
    <3>5. CASE a # None /\ b = None
      <4>1. JoinVariant(join, a, b) = a
        BY <3>5 DEF JoinVariant
      <4>2. a \in FieldsOver(S) => \A i \in Index : SubsetOpt(subset, a[i], a[i])
        BY <3>2, FieldParts
      <4> QED BY <3>1, <3>5, <4>1, <4>2 DEF SubsetVariant
    <3>6. CASE a # None /\ b # None /\ Top \in {a, b}
      BY <3>6 DEF SubsetVariant, JoinVariant
    <3>7. CASE a # None /\ b # None /\ Top \notin {a, b}
      <4>1. a \in FieldsOver(S) /\ b \in FieldsOver(Shapes)
        BY <3>7
      <4> DEFINE j == [i \in Index |-> JoinOpt(join, a[i], b[i])]
      <4>2. JoinVariant(join, a, b) = j
        BY <3>7 DEF JoinVariant
      <4>3. j # None
        <5>1. \A i \in Index : JoinOpt(join, a[i], b[i]) \in Shapes \union {None}
          <6>1. SUFFICES ASSUME NEW i \in Index
                         PROVE  JoinOpt(join, a[i], b[i]) \in Shapes \union {None}
            OBVIOUS
          <6>2. a[i] \in S \union {None} /\ b[i] \in Shapes \union {None}
            BY <4>1, FieldParts
          <6> QED BY <6>2, JoinType DEF JoinOpt, Join
        <5>2. j \in FieldsOver(Shapes)
          BY <5>1 DEF FieldsOver
        <5> HIDE DEF j
        <5> QED BY <3>1, <5>2
      <4>4. \A i \in Index : SubsetOpt(subset, a[i], j[i]) /\ SubsetOpt(subset, b[i], j[i])
        <5>1. SUFFICES ASSUME NEW i \in Index
                       PROVE  SubsetOpt(subset, a[i], j[i]) /\ SubsetOpt(subset, b[i], j[i])
          OBVIOUS
        <5>2. a[i] \in S \union {None} /\ b[i] \in Shapes \union {None}
          BY <4>1, FieldParts
        <5>3. j[i] = JoinOpt(join, a[i], b[i])
          OBVIOUS
        <5> HIDE DEF j
        <5> QED BY <2>1, <5>2, <5>3
      <4> HIDE DEF j
      <4> QED BY <3>7, <4>2, <4>3, <4>4 DEF SubsetVariant
    <3> QED BY <3>4, <3>5, <3>6, <3>7
  <2> DEFINE j == Join(s, t)
  <2>3. s \in Shapes /\ t \in ShapesOver(Shapes) /\ j \in Shapes
    BY <1>1, ShapesUnfold, JoinType
  <2>4. j = JoinNode(join, s, t)
    BY <2>3, Equations
  <2>5. /\ j.shape = s.shape \union t.shape
        /\ j.variant_fields =
             IF Top \in {s.variant_fields, t.variant_fields} THEN Top
             ELSE [k \in Tag |-> JoinVariant(join, s.variant_fields[k], t.variant_fields[k])]
        /\ j.array_fields = IF Top \in {s.array_fields, t.array_fields} THEN Top
                            ELSE JoinOpt(join, s.array_fields, t.array_fields)
    BY <2>4, ShapeFields DEF JoinNode
  <2> HIDE DEF j
  <2>6. \/ j.variant_fields = Top
        \/ /\ s.variant_fields # Top /\ t.variant_fields # Top
           /\ \A k \in Tag : /\ SubsetVariant(subset, s.variant_fields[k], j.variant_fields[k])
                             /\ SubsetVariant(subset, t.variant_fields[k], j.variant_fields[k])
    <3>1. SUFFICES ASSUME s.variant_fields # Top, t.variant_fields # Top, NEW k \in Tag
                   PROVE  /\ SubsetVariant(subset, s.variant_fields[k], j.variant_fields[k])
                          /\ SubsetVariant(subset, t.variant_fields[k], j.variant_fields[k])
      BY <2>5
    <3>2. /\ s.variant_fields[k] \in FieldsOver(S) \union {Top, None}
          /\ t.variant_fields[k] \in FieldsOver(Shapes) \union {Top, None}
      BY <2>3, <3>1, ShapeParts, VariantParts
    <3>3. j.variant_fields[k] = JoinVariant(join, s.variant_fields[k], t.variant_fields[k])
      BY <2>5, <3>1
    <3> QED BY <2>2, <3>2, <3>3
  <2>7. \/ j.array_fields = Top
        \/ /\ s.array_fields # Top /\ t.array_fields # Top
           /\ SubsetOpt(subset, s.array_fields, j.array_fields)
           /\ SubsetOpt(subset, t.array_fields, j.array_fields)
    <3>1. SUFFICES ASSUME s.array_fields # Top, t.array_fields # Top
                   PROVE  /\ SubsetOpt(subset, s.array_fields, j.array_fields)
                          /\ SubsetOpt(subset, t.array_fields, j.array_fields)
      BY <2>5
    <3>2. s.array_fields \in S \union {None} /\ t.array_fields \in Shapes \union {None}
      BY <2>3, <3>1, ShapeParts
    <3> QED BY <2>1, <2>5, <3>1, <3>2
  <2>8. SubsetNode(subset, s, j) /\ SubsetNode(subset, t, j)
    BY <2>5, <2>6, <2>7 DEF SubsetNode
  <2>9. Subset(s, j) /\ Subset(t, j)
    BY <2>3, <2>8, Equations
  <2> QED BY <2>9 DEF j
<1>2. Shapes \subseteq P
  <2>1. \A S \in SUBSET Shapes :
          S \subseteq P /\ ShapesOver(S) \subseteq Shapes => ShapesOver(S) \subseteq P
    BY <1>1
  <2> HIDE DEF P
  <2> QED BY <2>1, ShapeInduction
<1> QED BY <1>2

LEMMA TruncateAbove == \A s \in Shapes, d \in Int : Subset(s, Truncate(s, d))
<1> DEFINE P == {s \in Shapes : \A d \in Int : Subset(s, Truncate(s, d))}
<1>1. ASSUME NEW S \in SUBSET Shapes, S \subseteq P, ShapesOver(S) \subseteq Shapes,
             NEW s \in ShapesOver(S), NEW d \in Int
      PROVE  Subset(s, Truncate(s, d))
  <2> DEFINE t == Truncate(s, d)
  <2>1. s \in Shapes /\ t \in Shapes
    BY <1>1, TruncateType
  <2>2. t = TruncateNode(truncate, s, d)
    BY <2>1, Equations
  <2>3. ASSUME NEW a \in S
        PROVE  subset[<<a, truncate[<<a, d - 1>>]>>] /\ truncate[<<a, d - 1>>] # None
    <3>1. a \in Shapes /\ d - 1 \in Int
      BY <2>3
    <3>2. Subset(a, Truncate(a, d - 1)) /\ Truncate(a, d - 1) \in Shapes
      BY <1>1, <2>3, <3>1, TruncateType
    <3> QED BY <3>2, MarksApart DEF Subset, Truncate
  <2>4. ASSUME NEW a \in FieldsOver(S) \union {Top, None}
        PROVE  SubsetVariant(subset, a, TruncateFields(truncate, d, a))
    <3>1. CASE a \in {Top, None}
      BY <3>1 DEF SubsetVariant, TruncateFields
    <3>2. CASE a \notin {Top, None}
      <4> DEFINE m == [i \in Index |-> IF a[i] = None THEN None ELSE truncate[<<a[i], d - 1>>]]
      <4>1. a \in FieldsOver(S)
        BY <3>2
      <4>2. TruncateFields(truncate, d, a) \in {Top, m}
        BY <3>2 DEF TruncateFields
      <4>3. \A i \in Index : SubsetOpt(subset, a[i], m[i]) /\ m[i] \in Shapes \union {None}
        <5>1. SUFFICES ASSUME NEW i \in Index
                       PROVE  SubsetOpt(subset, a[i], m[i]) /\ m[i] \in Shapes \union {None}
          OBVIOUS
        <5>2. a[i] \in S \union {None}
          BY <4>1, FieldParts
        <5>3. a[i] # None => truncate[<<a[i], d - 1>>] \in Shapes
          BY <5>2, TruncateType DEF Truncate
        <5> QED BY <2>3, <5>2, <5>3 DEF SubsetOpt
      <4>4. m \in FieldsOver(Shapes)
        BY <4>3 DEF FieldsOver
      <4> HIDE DEF m
      <4>5. m # None
        BY <4>4, MarksApart
      <4> QED BY <3>2, <4>2, <4>3, <4>5 DEF SubsetVariant
    <3> QED BY <3>1, <3>2
  <2>5. CASE d < 0
    <3>1. t = Any
      BY <2>2, <2>5 DEF TruncateNode
    <3>2. s.shape \subseteq Kind
      BY ShapeParts
    <3>3. SubsetNode(subset, s, Any)
      BY <3>2, ShapeFields DEF SubsetNode, Any
    <3> QED BY <2>1, <3>1, <3>3, Equations
  <2>6. CASE ~(d < 0)
    <3>1. /\ t.shape = s.shape
          /\ t.variant_fields =
               IF s.variant_fields = Top \/ TooBroad(s.variant_fields) THEN Top
               ELSE [k \in Tag |-> TruncateFields(truncate, d, s.variant_fields[k])]
          /\ t.array_fields = IF s.array_fields \in {Top, None} THEN s.array_fields
                              ELSE truncate[<<s.array_fields, d - 1>>]
      BY <2>2, <2>6, ShapeFields DEF TruncateNode
    <3> HIDE DEF t
    <3>2. \/ t.variant_fields = Top
          \/ /\ s.variant_fields # Top
             /\ \A k \in Tag : SubsetVariant(subset, s.variant_fields[k], t.variant_fields[k])
      <4>1. SUFFICES ASSUME s.variant_fields # Top, t.variant_fields # Top, NEW k \in Tag
                     PROVE  SubsetVariant(subset, s.variant_fields[k], t.variant_fields[k])
        BY <3>1
      <4>2. s.variant_fields[k] \in FieldsOver(S) \union {Top, None}
        BY <4>1, ShapeParts, VariantParts
      <4>3. t.variant_fields[k] = TruncateFields(truncate, d, s.variant_fields[k])
        BY <3>1, <4>1
      <4> QED BY <2>4, <4>2, <4>3
    <3>3. \/ t.array_fields = Top
          \/ s.array_fields # Top /\ SubsetOpt(subset, s.array_fields, t.array_fields)
      <4>1. s.array_fields \in S \union {Top, None}
        BY ShapeParts
      <4> QED BY <2>3, <3>1, <4>1 DEF SubsetOpt
    <3>4. SubsetNode(subset, s, t)
      BY <3>1, <3>2, <3>3 DEF SubsetNode
    <3>5. Subset(s, t)
      BY <2>1, <3>4, Equations DEF t
    <3> QED BY <3>5 DEF t
  <2> QED BY <2>5, <2>6
<1>2. Shapes \subseteq P
  <2>1. \A S \in SUBSET Shapes :
          S \subseteq P /\ ShapesOver(S) \subseteq Shapes => ShapesOver(S) \subseteq P
    BY <1>1
  <2> HIDE DEF P
  <2> QED BY <2>1, ShapeInduction
<1> QED BY <1>2

\* Inclusion of shapes is inclusion of the values they describe.
LEMMA SubsetCovers ==
  \A s, t \in Shapes, v \in Value : Subset(s, t) /\ Covers(s, v) => Covers(t, v)
<1> DEFINE P == {s \in Shapes : \A t \in Shapes, v \in Value :
                                  Subset(s, t) /\ Covers(s, v) => Covers(t, v)}
<1>1. ASSUME NEW S \in SUBSET Shapes, S \subseteq P, ShapesOver(S) \subseteq Shapes,
             NEW s \in ShapesOver(S), NEW t \in Shapes, NEW v \in Value,
             Subset(s, t), Covers(s, v)
      PROVE  Covers(t, v)
  <2>1. s \in Shapes /\ t \in ShapesOver(Shapes)
    BY <1>1, ShapesUnfold
  <2>2. SubsetNode(subset, s, t) /\ CoversNode(covers, s, v)
    BY <1>1, <2>1, Equations
  <2>3. ASSUME NEW a \in S, NEW b \in Shapes, subset[<<a, b>>],
               NEW w \in Value, covers[<<a, w>>]
        PROVE  covers[<<b, w>>]
    BY <1>1, <2>3 DEF Subset, Covers
  <2>4. v.kind \in t.shape
    BY <2>2 DEF SubsetNode, CoversNode
  <2>5. Bindings(v.fields) \subseteq Index /\ v.tag \in Tag
        /\ \A i \in Bindings(v.fields) : v.fields[i] \in Value
    BY ValueParts
  <2>6. /\ s.array_fields \in S \union {Top, None}
        /\ t.array_fields \in Shapes \union {Top, None}
        /\ s.variant_fields \in VariantsOver(S) \union {Top}
        /\ t.variant_fields \in VariantsOver(Shapes) \union {Top}
    BY <2>1, ShapeParts
  <2>7. Top \notin S /\ None \notin S /\ Top # None /\ None \notin Shapes
        /\ Top \notin FieldsOver(S) /\ None \notin FieldsOver(S)
    BY MarksApart
  <2>8. SUFFICES ASSUME v.kind = Std
                 PROVE  CoversNode(covers, t, v)
    BY <1>1, <2>1, <2>4, Equations DEF CoversNode
  <2>9. CASE s.array_fields = Top
    BY <2>2, <2>4, <2>9 DEF SubsetNode, CoversNode
  <2>10. CASE /\ s.array_fields \notin {Top, None}
              /\ \A i \in Bindings(v.fields) : covers[<<s.array_fields, v.fields[i]>>]
    <3>1. CASE t.array_fields = Top
      BY <2>4, <3>1 DEF CoversNode
    <3>2. CASE t.array_fields # Top
      <4>1. SubsetOpt(subset, s.array_fields, t.array_fields)
        BY <2>2, <3>2 DEF SubsetNode
      <4>2. t.array_fields # None /\ subset[<<s.array_fields, t.array_fields>>]
        BY <2>10, <4>1 DEF SubsetOpt
      <4>3. s.array_fields \in S /\ t.array_fields \in Shapes
        BY <2>6, <2>10, <3>2, <4>2
      <4>4. \A i \in Bindings(v.fields) : covers[<<t.array_fields, v.fields[i]>>]
        BY <2>3, <2>5, <2>10, <4>2, <4>3
      <4> QED BY <2>4, <4>2, <4>4 DEF CoversNode
    <3> QED BY <3>1, <3>2
  <2>11. CASE s.variant_fields = Top
    BY <2>2, <2>4, <2>11 DEF SubsetNode, CoversNode
  <2>12. CASE s.variant_fields # Top /\ FieldsCover(covers, s.variant_fields[v.tag], v)
    <3>1. CASE t.variant_fields = Top
      BY <2>4, <3>1 DEF CoversNode
    <3>2. CASE t.variant_fields # Top
      <4> DEFINE a == s.variant_fields[v.tag]
                 b == t.variant_fields[v.tag]
      <4>1. SubsetVariant(subset, a, b)
        BY <2>2, <2>5, <3>2 DEF SubsetNode
      <4>2. a \in FieldsOver(S) \union {Top, None} /\ b \in FieldsOver(Shapes) \union {Top, None}
        BY <2>5, <2>6, <2>12, <3>2, VariantParts
      <4>3. FieldsCover(covers, a, v)
        BY <2>12
      <4> HIDE DEF a, b
      <4>4. a # None
        BY <2>7, <4>3 DEF FieldsCover
      <4>5. CASE b = Top
        <5>1. FieldsCover(covers, b, v)
          BY <4>5 DEF FieldsCover
        <5> QED BY <2>4, <5>1 DEF CoversNode, b
      <4>6. CASE b # Top
        <5>1. b # None /\ a # Top /\ \A i \in Index : SubsetOpt(subset, a[i], b[i])
          BY <4>1, <4>4, <4>6 DEF SubsetVariant
        <5>2. a \in FieldsOver(S) /\ b \in FieldsOver(Shapes)
          BY <4>2, <4>4, <4>6, <5>1
        <5>3. ASSUME NEW i \in Bindings(v.fields)
              PROVE  b[i] # None /\ covers[<<b[i], v.fields[i]>>]
          <6>1. i \in Index /\ v.fields[i] \in Value
            BY <2>5
          <6>2. a[i] # None /\ covers[<<a[i], v.fields[i]>>]
            BY <4>3, <5>1 DEF FieldsCover
          <6>3. a[i] \in S /\ b[i] \in Shapes \union {None}
            BY <5>2, <6>1, <6>2, FieldParts
          <6>4. b[i] # None /\ subset[<<a[i], b[i]>>]
            BY <5>1, <6>1, <6>2 DEF SubsetOpt
          <6> QED BY <2>3, <6>1, <6>2, <6>3, <6>4
        <5>4. FieldsCover(covers, b, v)
          BY <5>1, <5>3 DEF FieldsCover
        <5> QED BY <2>4, <5>4 DEF CoversNode, b
      <4> QED BY <4>5, <4>6
    <3> QED BY <3>1, <3>2
  <2>13. \/ s.array_fields = Top
         \/ /\ s.array_fields # None
            /\ \A i \in Bindings(v.fields) : covers[<<s.array_fields, v.fields[i]>>]
         \/ s.variant_fields = Top
         \/ FieldsCover(covers, s.variant_fields[v.tag], v)
    BY <2>2, <2>8 DEF CoversNode
  <2> QED BY <2>9, <2>10, <2>11, <2>12, <2>13
<1>2. Shapes \subseteq P
  <2>1. \A S \in SUBSET Shapes :
          S \subseteq P /\ ShapesOver(S) \subseteq Shapes => ShapesOver(S) \subseteq P
    BY <1>1
  <2> HIDE DEF P
  <2> QED BY <2>1, ShapeInduction
<1> QED BY <1>2

LEMMA JoinCovers ==
  ASSUME NEW s \in Shapes, NEW t \in Shapes, NEW v \in Value, Covers(s, v) \/ Covers(t, v)
  PROVE  Covers(Join(s, t), v)
BY JoinUpper, JoinType, SubsetCovers

\* What a loop keeps: a widening is above both shapes (lattice.ml 66-68).
LEMMA WidenAbove ==
  ASSUME NEW s \in Shapes, NEW t \in Shapes
  PROVE  /\ Widen(s, t) \in Shapes
         /\ \A v \in Value : Covers(s, v) \/ Covers(t, v) => Covers(Widen(s, t), v)
<1>1. Join(s, t) \in Shapes /\ MaxDepth \in Int
  BY JoinType, ShapesAssumption
<1>2. Widen(s, t) \in Shapes
  BY <1>1, TruncateType DEF Widen
<1>3. Subset(Join(s, t), Widen(s, t))
  BY <1>1, TruncateAbove DEF Widen
<1> QED BY <1>1, <1>2, <1>3, JoinCovers, SubsetCovers

-----------------------------------------------------------------------------
(* Joins of sets of shapes, and the shape of a field.                      *)

LEMMA AnyCovers ==
  /\ Any \in Shapes
  /\ \A v \in Value : Covers(Any, v)
<1>1. Any \in Shapes
  BY FirstLevel, Constants
<1>2. ASSUME NEW v \in Value
      PROVE  CoversNode(covers, Any, v)
  BY ValueParts, ShapeFields DEF CoversNode, Any
<1> QED BY <1>1, <1>2, Equations

\* The fold of a finite set takes its members away one by one.
LEMMA JoinAllRecursion ==
  ASSUME NEW M, IsFiniteSet(M)
  PROVE  \E f : /\ JoinAll(M) = f[M]
                /\ \A U \in SUBSET M :
                     f[U] = IF U = {} THEN Bottom
                            ELSE Join(CHOOSE x \in U : TRUE, f[U \ {CHOOSE x \in U : TRUE}])
<1> DEFINE pick(U) == CHOOSE x \in U : TRUE
           Step(f, U) == IF U = {} THEN Bottom ELSE Join(pick(U), f[U \ {pick(U)}])
           L(n) == {U \in SUBSET M : Cardinality(U) <= n}
           Solves(f, n) == /\ f = [U \in L(n) |-> f[U]]
                           /\ \A U \in L(n) : f[U] = Step(f, U)
           T == {n \in Nat : \E f : Solves(f, n)}
<1>1. \A U \in SUBSET M : /\ IsFiniteSet(U) /\ Cardinality(U) \in Nat
                          /\ U # {} => /\ pick(U) \in U
                                       /\ U \ {pick(U)} \in SUBSET M
                                       /\ Cardinality(U \ {pick(U)}) = Cardinality(U) - 1
  <2>1. SUFFICES ASSUME NEW U \in SUBSET M
                 PROVE  /\ IsFiniteSet(U) /\ Cardinality(U) \in Nat
                        /\ U # {} => /\ pick(U) \in U
                                     /\ U \ {pick(U)} \in SUBSET M
                                     /\ Cardinality(U \ {pick(U)}) = Cardinality(U) - 1
    OBVIOUS
  <2>2. IsFiniteSet(U)
    BY FS_Subset
  <2>3. Cardinality(U) \in Nat
    BY <2>2, FS_CardinalityType
  <2>4. U # {} => pick(U) \in U
    OBVIOUS
  <2> HIDE DEF pick
  <2> QED BY <2>2, <2>3, <2>4, FS_RemoveElement
<1> HIDE DEF pick
<1>2. 0 \in T
  <2> DEFINE f == [U \in L(0) |-> Bottom]
  <2>1. \A U \in L(0) : U = {}
    <3>1. SUFFICES ASSUME NEW U \in L(0) PROVE U = {}
      OBVIOUS
    <3>2. U \in SUBSET M /\ Cardinality(U) <= 0
      OBVIOUS
    <3>3. IsFiniteSet(U) /\ Cardinality(U) \in Nat
      BY <1>1, <3>2
    <3>4. Cardinality(U) = 0
      BY <3>2, <3>3
    <3> QED BY <3>3, <3>4, FS_EmptySet
  <2>2. f = [U \in L(0) |-> f[U]] /\ \A U \in L(0) : f[U] = Bottom
    OBVIOUS
  <2> HIDE DEF f
  <2>3. Solves(f, 0)
    BY <2>1, <2>2
  <2> HIDE DEF Solves
  <2> QED BY <2>3
<1>3. ASSUME NEW n \in Nat, n \in T
      PROVE  n + 1 \in T
  <2>1. PICK f : Solves(f, n)
    <3> HIDE DEF Solves
    <3> QED BY <1>3
  <2> DEFINE g == [U \in L(n + 1) |-> Step(f, U)]
  <2>2. L(n) \subseteq L(n + 1) /\ \A U \in L(n) : f[U] = Step(f, U)
    <3>1. \A U \in SUBSET M : Cardinality(U) <= n => Cardinality(U) <= n + 1
      <4>1. \A k \in Nat : k <= n => k <= n + 1
        OBVIOUS
      <4> QED BY <1>1, <4>1
    <3> QED BY <2>1, <3>1
  <2>3. g = [U \in L(n + 1) |-> g[U]] /\ \A U \in L(n + 1) : g[U] = Step(f, U)
    OBVIOUS
  <2> HIDE DEF g
  <2>4. \A U \in L(n) : g[U] = f[U]
    BY <2>2, <2>3
  <2>5. ASSUME NEW U \in L(n + 1)
        PROVE  Step(f, U) = Step(g, U)
    <3>1. CASE U = {}
      BY <3>1
    <3>2. CASE U # {}
      <4>1. U \ {pick(U)} \in L(n)
        BY <1>1, <3>2
      <4> QED BY <2>4, <3>2, <4>1
    <3> QED BY <3>1, <3>2
  <2>6. Solves(g, n + 1)
    BY <2>3, <2>5
  <2> HIDE DEF Solves
  <2> QED BY <2>6
<1>4. Cardinality(M) \in T
  <2> HIDE DEF T
  <2> QED BY <1>1, <1>2, <1>3, NatSetInduction
<1>5. PICK f : Solves(f, Cardinality(M))
  <2> HIDE DEF Solves
  <2> QED BY <1>4
<1>6. L(Cardinality(M)) = SUBSET M
  BY FS_Subset
<1>7. f = [U \in SUBSET M |-> Step(f, U)]
  BY <1>5, <1>6
<1> DEFINE iter == CHOOSE h : h = [U \in SUBSET M |-> Step(h, U)]
<1>8. iter = [U \in SUBSET M |-> Step(iter, U)]
  BY <1>7
<1>9. JoinAll(M) = iter[M]
  BY DEF JoinAll, FoldSet, MapThenFoldSet, pick
<1> HIDE DEF iter
<1>10. \A U \in SUBSET M : iter[U] = Step(iter, U)
  BY <1>8
<1> QED BY <1>9, <1>10 DEF pick

LEMMA JoinAllCovers ==
  ASSUME NEW M \in SUBSET Shapes, IsFiniteSet(M)
  PROVE  /\ JoinAll(M) \in Shapes
         /\ \A m \in M, v \in Value : Covers(m, v) => Covers(JoinAll(M), v)
<1> DEFINE pick(U) == CHOOSE x \in U : TRUE
<1>1. PICK f : /\ JoinAll(M) = f[M]
               /\ \A U \in SUBSET M :
                    f[U] = IF U = {} THEN Bottom ELSE Join(pick(U), f[U \ {pick(U)}])
  BY JoinAllRecursion
<1>2. \A U : U # {} => pick(U) \in U
  OBVIOUS
<1> HIDE DEF pick
<1> DEFINE Above(U) == /\ f[U] \in Shapes
                       /\ \A m \in U, v \in Value : Covers(m, v) => Covers(f[U], v)
           T == {n \in Nat : \A U \in SUBSET M : Cardinality(U) = n => Above(U)}
<1>3. \A U \in SUBSET M : IsFiniteSet(U) /\ Cardinality(U) \in Nat
  BY FS_Subset, FS_CardinalityType
<1>4. 0 \in T
  <2>1. \A U \in SUBSET M : Cardinality(U) = 0 => U = {}
    BY <1>3, FS_EmptySet
  <2>2. Bottom \in Shapes
    BY FirstLevel, Constants
  <2>3. {} \in SUBSET M /\ f[{}] = Bottom
    BY <1>1
  <2>4. Above({})
    BY <2>2, <2>3
  <2> HIDE DEF Above
  <2> QED BY <2>1, <2>4
<1>5. ASSUME NEW n \in Nat, n \in T
      PROVE  n + 1 \in T
  <2>1. SUFFICES ASSUME NEW U \in SUBSET M, Cardinality(U) = n + 1
                 PROVE  Above(U)
    <3> HIDE DEF Above
    <3> QED OBVIOUS
  <2> DEFINE x == pick(U)
             V == U \ {x}
  <2>2. U # {}
    BY <2>1, FS_EmptySet
  <2>3. x \in U /\ x \in Shapes
    BY <1>2, <2>2
  <2>4. Cardinality(V) = n
    <3>1. IsFiniteSet(U) /\ Cardinality(V) = Cardinality(U) - 1
      BY <1>3, <2>3, FS_RemoveElement
    <3>2. Cardinality(V) = (n + 1) - 1
      BY <2>1, <3>1
    <3> QED BY <3>2
  <2>5. Above(V)
    <3> HIDE DEF Above, x
    <3> QED BY <1>5, <2>4
  <2>6. f[U] = Join(x, f[V])
    BY <1>1, <2>2
  <2> HIDE DEF x
  <2>7. f[U] \in Shapes
    BY <2>3, <2>5, <2>6, JoinType
  <2>8. ASSUME NEW m \in U, NEW v \in Value, Covers(m, v)
        PROVE  Covers(f[U], v)
    <3>1. Covers(x, v) \/ Covers(f[V], v)
      <4>1. m = x \/ m \in V
        OBVIOUS
      <4> QED BY <2>5, <2>8, <4>1
    <3> QED BY <2>3, <2>5, <2>6, <3>1, JoinCovers
  <2> QED BY <2>7, <2>8
<1>6. Cardinality(M) \in T
  <2> HIDE DEF T
  <2> QED BY <1>3, <1>4, <1>5, NatSetInduction
<1>7. Above(M)
  <2> HIDE DEF Above
  <2> QED BY <1>6
<1> QED BY <1>1, <1>7

\* What field i is in the constructors is one of the shapes or nothing.
LEMMA VariantIndex ==
  ASSUME NEW m \in VariantsOver(Shapes) \union {Top}, NEW i \in Index
  PROVE  /\ VariantShapesAtIndex(m, i) \in Shapes \union {None}
         /\ \A v \in Value, k \in Tag :
              /\ i \in Bindings(v.fields)
              /\ m = Top \/ FieldsCover(covers, m[k], v)
              => /\ VariantShapesAtIndex(m, i) # None
                 /\ Covers(VariantShapesAtIndex(m, i), v.fields[i])
<1>0. /\ Top # None /\ None \notin Shapes /\ Top \notin FieldsOver(Shapes) /\ None \notin FieldsOver(Shapes)
      /\ Top \notin VariantsOver(Shapes)
  BY MarksApart
<1>1. \A v \in Value : Bindings(v.fields) \subseteq Index
                       /\ \A j \in Bindings(v.fields) : v.fields[j] \in Value
  BY ValueParts
<1>2. CASE m = Top
  BY <1>0, <1>1, <1>2, AnyCovers DEF VariantShapesAtIndex
<1>3. CASE m # Top /\ m = NoVariants
  <2>1. VariantShapesAtIndex(m, i) = None
    BY <1>3 DEF VariantShapesAtIndex
  <2>2. \A k \in Tag : m[k] = None
    BY <1>3 DEF NoVariants
  <2> QED BY <1>0, <1>3, <2>1, <2>2 DEF FieldsCover
<1>4. CASE m # Top /\ m # NoVariants
  <2> DEFINE at(k) == IF m[k] = Top THEN Any ELSE IF m[k][i] = None THEN Any ELSE m[k][i]
             B == Bindings(m)
             M == {at(k) : k \in B}
  <2>1. VariantShapesAtIndex(m, i) = JoinAll(M)
    BY <1>4 DEF VariantShapesAtIndex
  <2>2. B \subseteq Tag /\ \A k \in Tag : m[k] # None => k \in B
    BY <1>4 DEF VariantsOver, Bindings
  <2>3. \A k \in B : m[k] \in FieldsOver(Shapes) \union {Top}
    BY <1>4, <2>2, VariantParts DEF Bindings
  <2>4. \A k \in B : at(k) \in Shapes
    BY <2>3, FieldParts, AnyCovers
  <2>5. IsFiniteSet(M)
    <3>1. IsFiniteSet(B)
      BY <2>2, FS_Subset, ShapesAssumption
    <3> DEFINE g == [k \in B |-> at(k)]
    <3>2. g \in Surjection(B, M)
      <4> HIDE DEF B, at
      <4> QED BY DEF Surjection
    <3> HIDE DEF g, M, B
    <3> QED BY <3>1, <3>2, FS_Surjection
  <2>6. M \in SUBSET Shapes
    BY <2>4
  <2>7. ASSUME NEW v \in Value, NEW k \in Tag, i \in Bindings(v.fields), FieldsCover(covers, m[k], v)
        PROVE  Covers(JoinAll(M), v.fields[i])
    <3>1. m[k] # None
      BY <1>0, <2>7 DEF FieldsCover
    <3>2. k \in B /\ at(k) \in M
      BY <2>2, <3>1
    <3>3. v.fields[i] \in Value
      BY <1>1, <2>7
    <3>4. Covers(at(k), v.fields[i])
      <4>1. CASE m[k] = Top
        BY <3>3, <4>1, AnyCovers
      <4>2. CASE m[k] # Top
        <5>1. m[k][i] # None /\ covers[<<m[k][i], v.fields[i]>>]
          BY <2>7, <4>2 DEF FieldsCover
        <5> QED BY <4>2, <5>1 DEF Covers
      <4> QED BY <4>1, <4>2
    <3> HIDE DEF M, B, at
    <3> QED BY <2>5, <2>6, <3>2, <3>3, <3>4, JoinAllCovers
  <2>8. JoinAll(M) \in Shapes
    <3> HIDE DEF M
    <3> QED BY <2>5, <2>6, JoinAllCovers
  <2> HIDE DEF M, B, at
  <2> QED BY <1>0, <1>4, <2>1, <2>7, <2>8
<1> QED BY <1>2, <1>3, <1>4

LEMMA FieldCovers ==
  ASSUME NEW s \in Shapes, NEW v \in Value, NEW i \in Bindings(v.fields),
         Covers(s, v), v.kind = Std
  PROVE  /\ FieldShapeAtIndex(s, i) \in Shapes
         /\ Covers(FieldShapeAtIndex(s, i), v.fields[i])
<1> DEFINE field == VariantShapesAtIndex(s.variant_fields, i)
           element == ArrayShapesAtIndex(s.array_fields, i)
           w == v.fields[i]
<1>1. i \in Index /\ w \in Value /\ v.tag \in Tag
  BY ValueParts
<1>2. /\ s.variant_fields \in VariantsOver(Shapes) \union {Top}
      /\ s.array_fields \in Shapes \union {Top, None}
  BY ShapesUnfold, ShapeParts
<1>3. Top # None /\ None \notin Shapes /\ Top \notin Shapes
  BY MarksApart
<1>4. field \in Shapes \union {None}
  BY <1>1, <1>2, VariantIndex
<1>5. element \in Shapes \union {None}
  BY <1>2, AnyCovers DEF ArrayShapesAtIndex
<1>6. \/ field \in Shapes /\ Covers(field, w)
      \/ element \in Shapes /\ Covers(element, w)
  <2>1. CoversNode(covers, s, v)
    BY Equations
  <2>2. \/ s.array_fields = Top
        \/ s.array_fields # None /\ covers[<<s.array_fields, w>>]
        \/ s.variant_fields = Top \/ FieldsCover(covers, s.variant_fields[v.tag], v)
    BY <2>1 DEF CoversNode
  <2>3. CASE s.array_fields = Top
    BY <1>1, <2>3, AnyCovers DEF ArrayShapesAtIndex
  <2>4. CASE s.array_fields \notin {Top, None} /\ covers[<<s.array_fields, w>>]
    BY <1>2, <2>4 DEF ArrayShapesAtIndex, Covers
  <2>5. CASE s.variant_fields = Top \/ FieldsCover(covers, s.variant_fields[v.tag], v)
    BY <1>1, <1>2, <1>4, <2>5, VariantIndex
  <2> QED BY <2>2, <2>3, <2>4, <2>5
<1>7. FieldShapeAtIndex(s, i) =
        IF {field, element} = {None} THEN Any ELSE JoinOpt(join, field, element)
  BY DEF FieldShapeAtIndex
<1> HIDE DEF field, element
<1>8. {field, element} # {None}
  BY <1>3, <1>6
<1>9. CASE field = None
  BY <1>3, <1>6, <1>7, <1>8, <1>9 DEF JoinOpt
<1>10. CASE field # None /\ element = None
  BY <1>3, <1>6, <1>7, <1>8, <1>10 DEF JoinOpt
<1>11. CASE field # None /\ element # None
  <2>1. FieldShapeAtIndex(s, i) = Join(field, element) /\ field \in Shapes /\ element \in Shapes
    BY <1>4, <1>5, <1>7, <1>8, <1>11 DEF JoinOpt, Join
  <2> QED BY <1>1, <1>6, <2>1, JoinType, JoinCovers
<1> QED BY <1>9, <1>10, <1>11

-----------------------------------------------------------------------------
(* Types and constants describe the values they are the type or shape of.  *)

LEMMA TypeCovers ==
  \A ty \in Types, v \in Value : HasType(v, ty) => Covers(ValueShapeToShapes[ty], v)
<1> DEFINE F == ValueShapeToShapes
           P == {ty \in Types : \A v \in Value : HasType(v, ty) => Covers(F[ty], v)}
<1>1. ASSUME NEW S \in SUBSET Types, S \subseteq P, TypesOver(S) \subseteq Types,
             NEW ty \in TypesOver(S), NEW v \in Value, HasType(v, ty)
      PROVE  Covers(F[ty], v)
  <2>1. ty \in Types /\ F[ty] \in Shapes
    BY <1>1, TypeShapeLevel
  <2>2. F[ty] = TypeNode(F, ty)
    BY <2>1, TypeRecursion
  <2>3. HasTypeNode(hasType, v, ty)
    BY <1>1, <2>1, Equations
  <2>4. \A x \in S, w \in Value : hasType[<<w, x>>] => covers[<<F[x], w>>]
    BY <1>1 DEF HasType, Covers
  <2>5. \A x \in S : F[x] # None /\ F[x] \in Shapes
    BY TypeShapeLevel, MarksApart
  <2>6. /\ v.kind \in Kind /\ v.tag \in Tag /\ Bindings(v.fields) \subseteq Index
        /\ \A i \in Bindings(v.fields) : v.fields[i] \in Value
    BY ValueParts
  <2> HIDE DEF F, P
  <2>7. SUFFICES CoversNode(covers, F[ty], v)
    BY <2>1, Equations
  <2>8. CASE ty[1] = "Value"
    <3>1. F[ty] = Any
      BY <2>2, <2>8 DEF TypeNode
    <3> QED BY <3>1, AnyCovers, Equations
  <2>9. CASE ty[1] = "Flat"
    <3>1. F[ty] = Flat(ty[2]) /\ v.kind = ty[2]
      BY <2>2, <2>3, <2>9 DEF TypeNode, HasTypeNode
    <3>2. ty[2] # Std
      BY <2>9, TypeParts
    <3> QED BY <3>1, <3>2, ShapeFields DEF CoversNode, Flat
  <2>10. CASE ty[1] = "Block"
    <3>1. F[ty] = AnyNonArrayStandardBlock /\ v.kind = Std
      BY <2>2, <2>3, <2>10 DEF TypeNode, HasTypeNode
    <3> QED BY <3>1, ShapeFields DEF CoversNode, AnyNonArrayStandardBlock
  <2>11. CASE ty[1] = "BlockOf"
    <3> DEFINE fields == [i \in Index |-> IF ty[3][i] = None THEN None ELSE F[ty[3][i]]]
    <3>1. F[ty] = Shape({Std}, [NoVariants EXCEPT ![ty[2]] = fields], None)
      BY <2>2, <2>11 DEF TypeNode, FixedSizeStandardBlock
    <3>2. /\ v.kind = Std /\ v.tag = ty[2]
          /\ Bindings(v.fields) = Bindings(ty[3])
          /\ \A i \in Bindings(ty[3]) : hasType[<<v.fields[i], ty[3][i]>>]
      BY <2>3, <2>11 DEF HasTypeNode
    <3>3. ty[3] \in FieldsOver(S)
      BY <2>11, TypeParts
    <3>4. ASSUME NEW i \in Bindings(v.fields)
          PROVE  fields[i] # None /\ covers[<<fields[i], v.fields[i]>>]
      <4>1. i \in Index /\ v.fields[i] \in Value /\ ty[3][i] # None /\ hasType[<<v.fields[i], ty[3][i]>>]
        BY <2>6, <3>2 DEF Bindings
      <4>2. ty[3][i] \in S
        BY <3>3, <4>1, FieldParts
      <4>3. fields[i] = F[ty[3][i]]
        BY <4>1
      <4> QED BY <2>4, <2>5, <4>1, <4>2, <4>3
    <3> HIDE DEF fields
    <3>5. F[ty].shape = {Std} /\ F[ty].variant_fields = [NoVariants EXCEPT ![ty[2]] = fields]
      BY <3>1, ShapeFields
    <3>6. F[ty].variant_fields[v.tag] = fields
      BY <2>6, <3>2, <3>5 DEF NoVariants
    <3>7. fields # None
      <4>1. fields \in FieldsOver(Shapes)
        <5>1. \A i \in Index : ty[3][i] # None => F[ty[3][i]] \in Shapes
          BY <2>5, <3>3, FieldParts
        <5> QED BY <5>1 DEF fields, FieldsOver
      <4> QED BY <4>1, MarksApart
    <3>8. FieldsCover(covers, F[ty].variant_fields[v.tag], v)
      BY <3>4, <3>6, <3>7 DEF FieldsCover
    <3> QED BY <3>2, <3>5, <3>8 DEF CoversNode
  <2>12. CASE ty[1] = "Array"
    <3>1. F[ty] = Shape({Std}, NoVariants, F[ty[2]])
      BY <2>2, <2>12 DEF TypeNode, ArrayOf
    <3>2. v.kind = Std /\ \A i \in Bindings(v.fields) : hasType[<<v.fields[i], ty[2]>>]
      BY <2>3, <2>12 DEF HasTypeNode
    <3>3. ty[2] \in S
      BY <2>12, TypeParts
    <3>4. \A i \in Bindings(v.fields) : covers[<<F[ty[2]], v.fields[i]>>]
      BY <2>4, <2>6, <3>2, <3>3
    <3>5. F[ty].shape = {Std} /\ F[ty].array_fields = F[ty[2]] /\ F[ty[2]] # None
      BY <2>5, <3>1, <3>3, ShapeFields
    <3> QED BY <3>2, <3>4, <3>5 DEF CoversNode
  <2>13. CASE ty[1] = "Or"
    <3>1. F[ty] = Join(F[ty[2]], F[ty[3]])
      BY <2>2, <2>13 DEF TypeNode
    <3>2. hasType[<<v, ty[2]>>] \/ hasType[<<v, ty[3]>>]
      BY <2>3, <2>13 DEF HasTypeNode
    <3>3. ty[2] \in S /\ ty[3] \in S
      BY <2>13, TypeParts
    <3>4. Covers(F[ty[2]], v) \/ Covers(F[ty[3]], v)
      BY <2>4, <3>2, <3>3 DEF Covers
    <3>5. Covers(F[ty], v)
      BY <2>5, <3>1, <3>3, <3>4, JoinCovers
    <3> QED BY <2>1, <3>5, Equations
  <2> QED BY <2>8, <2>9, <2>10, <2>11, <2>12, <2>13, TypeParts
<1>2. Types \subseteq P
  <2>1. \A S \in SUBSET Types :
          S \subseteq P /\ TypesOver(S) \subseteq Types => TypesOver(S) \subseteq P
    BY <1>1
  <2> HIDE DEF P
  <2> QED BY <2>1, TypeInduction
<1> QED BY <1>2

LEMMA RuntimeCovers ==
  ASSUME NEW e \in RuntimeShapes, NEW v \in Value, HasRuntimeShape(v, e)
  PROVE  Covers(RuntimeShapeToShapes(e), v)
<1>1. AnyStandardBlock \in Shapes /\ \A k \in Kind : Flat(k) \in Shapes
  BY FirstLevel, Constants
<1>2. v.kind = Std => Covers(AnyStandardBlock, v)
  <2>1. v.kind = Std => CoversNode(covers, AnyStandardBlock, v)
    BY ShapeFields DEF CoversNode, AnyStandardBlock
  <2> QED BY <1>1, <2>1, Equations
<1>3. \A k \in Kind \ {Std} : v.kind = k => Covers(Flat(k), v)
  <2>1. \A k \in Kind \ {Std} : v.kind = k => CoversNode(covers, Flat(k), v)
    BY ShapeFields DEF CoversNode, Flat
  <2> QED BY <1>1, <2>1, Equations
<1>4. CASE e = "FFI_BLOCK"
  BY <1>2, <1>4 DEF RuntimeShapeToShapes, HasRuntimeShape
<1>5. CASE e = "FFI_VARIANT"
  <2>1. v.kind \in {Std, Imm}
    BY <1>5 DEF HasRuntimeShape
  <2>2. RuntimeShapeToShapes(e) = Join(AnyStandardBlock, Flat(Imm))
    BY <1>5 DEF RuntimeShapeToShapes
  <2>3. Imm \in Kind \ {Std}
    BY ShapesAssumption
  <2>4. Covers(AnyStandardBlock, v) \/ Covers(Flat(Imm), v)
    BY <1>2, <1>3, <2>1, <2>3
  <2> QED BY <1>1, <2>2, <2>3, <2>4, JoinCovers
<1>6. CASE e = "FFI_ANY"
  BY <1>6, AnyCovers DEF RuntimeShapeToShapes
<1>7. CASE e \notin {"FFI_BLOCK", "FFI_VARIANT", "FFI_ANY"}
  <2>1. e \in Kind \ {Std} /\ v.kind = e
    BY <1>7 DEF RuntimeShapes, HasRuntimeShape
  <2>2. RuntimeShapeToShapes(e) = Flat(e)
    BY <1>7 DEF RuntimeShapeToShapes
  <2> QED BY <1>3, <2>1, <2>2
<1> QED BY <1>4, <1>5, <1>6, <1>7

-----------------------------------------------------------------------------
(* Constraints: what a value satisfies is compatible with what describes   *)
(* it, and the case of a test for an immediate still does.                 *)

LEMMA CompatKinds ==
  \A s, t \in Shapes : Compat(s, t) <=> s.shape \intersect t.shape # {}
<1>1. SUFFICES ASSUME NEW s \in Shapes, NEW t \in Shapes
               PROVE  Compat(s, t) <=> s.shape \intersect t.shape # {}
  OBVIOUS
<1>2. MeetNode(meet, s, t).shape = s.shape \intersect t.shape
  BY ShapeFields DEF MeetNode
<1>3. Meet(s, t).shape = s.shape \intersect t.shape
  BY <1>2, Equations
<1> QED BY <1>3 DEF Compat, IsBottom

LEMMA CoversKind == \A s \in Shapes, v \in Value : Covers(s, v) => v.kind \in s.shape
BY Equations DEF CoversNode

LEMMA CompatCovered ==
  ASSUME NEW s \in Shapes, NEW t \in Shapes, NEW v \in Value, Covers(s, v), Covers(t, v)
  PROVE  Compat(s, t)
BY CompatKinds, CoversKind

LEMMA MeetImmediate ==
  ASSUME NEW s \in Shapes, NEW v \in Value, Covers(s, v), v.kind = Imm
  PROVE  /\ Compat(s, Flat(Imm))
         /\ Meet(s, Flat(Imm)) \in Shapes
         /\ Covers(Meet(s, Flat(Imm)), v)
<1> DEFINE t == Flat(Imm)
           m == Meet(s, t)
<1>1. Imm \in Kind /\ Imm # Std
  BY ShapesAssumption
<1>2. t \in Shapes
  BY <1>1, FirstLevel, Constants
<1>3. t.shape = {Imm} /\ t.variant_fields = NoVariants /\ t.array_fields = None
  BY ShapeFields DEF Flat
<1>4. Imm \in s.shape
  BY CoversKind
<1>5. NoVariants # Top /\ Top # None
  BY MarksApart, Constants
<1>6. m = MeetNode(meet, s, t)
  BY <1>2, Equations
<1> HIDE DEF t
<1>7. \A x : MeetVariant(meet, x, None) = None /\ MeetOpt(join, x, None) = None
  BY DEF MeetVariant, MeetOpt
<1>8. \A k \in Tag : NoVariants[k] = None
  BY DEF NoVariants
<1>9. [k \in Tag |-> MeetVariant(meet, s.variant_fields[k], NoVariants[k])] = NoVariants
  BY <1>7, <1>8 DEF NoVariants
<1>10. m = Shape(s.shape \intersect {Imm}, NoVariants, None)
  <2>1. m = Shape(s.shape \intersect {Imm},
                  IF s.variant_fields = Top THEN NoVariants
                  ELSE [k \in Tag |-> MeetVariant(meet, s.variant_fields[k], NoVariants[k])],
                  IF s.array_fields = Top THEN None ELSE MeetOpt(join, s.array_fields, None))
    BY <1>3, <1>5, <1>6 DEF MeetNode
  <2> HIDE DEF m
  <2> QED BY <1>7, <1>9, <2>1
<1>11. m = t
  BY <1>4, <1>10 DEF t, Flat
<1> HIDE DEF m
<1>12. CoversNode(covers, t, v)
  BY <1>1, <1>3 DEF CoversNode
<1>13. m \in Shapes /\ Covers(m, v)
  BY <1>2, <1>11, <1>12, Equations
<1>14. Compat(s, t)
  BY <1>2, <1>3, <1>4, CompatKinds
<1> QED BY <1>13, <1>14 DEF m, t

LEMMA MeetBlock ==
  ASSUME NEW s \in Shapes, NEW v \in Value, Covers(s, v), v.kind # Imm
  PROVE  /\ Compat(s, AnyBlock)
         /\ Meet(s, AnyBlock) \in Shapes
         /\ Covers(Meet(s, AnyBlock), v)
<1> DEFINE t == AnyBlock
           m == Meet(s, t)
           S == ShapesTo[Levels - 1]
<1>1. Imm # Std /\ v.kind \in Kind
  BY ShapesAssumption, ValueParts
<1>2. t \in Shapes
  BY FirstLevel, Constants
<1>3. t.shape = Kind \ {Imm} /\ t.variant_fields = Top /\ t.array_fields = Top
  BY ShapeFields DEF AnyBlock
<1>4. v.kind \in s.shape
  BY CoversKind
<1>5. m = MeetNode(meet, s, t)
  BY <1>2, Equations
<1> HIDE DEF t
<1>6. m = Shape(s.shape \intersect (Kind \ {Imm}), s.variant_fields, s.array_fields)
  <2>1. MeetNode(meet, s, t).shape = s.shape \intersect t.shape
    BY ShapeFields DEF MeetNode
  <2>2. MeetNode(meet, s, t) = Shape(s.shape \intersect t.shape, s.variant_fields, s.array_fields)
    BY <1>3 DEF MeetNode
  <2> QED BY <1>3, <1>5, <2>2
<1>7. Shapes = ShapesOver(S)
  BY ShapesLevels, ShapesAssumption DEF Shapes
<1>8. m \in Shapes
  <2>1. /\ s.variant_fields \in VariantsOver(S) \union {Top}
        /\ s.array_fields \in S \union {Top, None}
        /\ (s.variant_fields = NoVariants /\ s.array_fields = None) \/ Std \in s.shape
        /\ s.shape \in SUBSET Kind
    BY <1>7, ShapeParts
  <2> HIDE DEF S, m
  <2>2. /\ s.shape \intersect (Kind \ {Imm}) \in SUBSET Kind
        /\ Std \in s.shape => Std \in s.shape \intersect (Kind \ {Imm})
    BY <1>1, <2>1
  <2> QED BY <1>6, <1>7, <2>1, <2>2, ShapeMade
<1>9. /\ m.shape = s.shape \intersect (Kind \ {Imm})
      /\ m.variant_fields = s.variant_fields /\ m.array_fields = s.array_fields
  BY <1>6, ShapeFields
<1> HIDE DEF m
<1>10. CoversNode(covers, s, v)
  BY Equations
<1>11. CoversNode(covers, m, v)
  BY <1>1, <1>9, <1>10 DEF CoversNode
<1>12. Covers(m, v)
  BY <1>8, <1>11, Equations
<1>13. Compat(s, t)
  BY <1>1, <1>2, <1>3, <1>4, CompatKinds
<1> QED BY <1>8, <1>12, <1>13 DEF m, t

-----------------------------------------------------------------------------
(* The invariant.                                                          *)

IInv ==
  /\ sh \in Shapes
  /\ val \in Value
  /\ looping \in BOOLEAN
  /\ Described
  /\ MismatchIsReal

LEMMA TypeShapesTyped == \A ty \in TypeShapes : ty \in Types /\ ValueShapeToShapes[ty] \in Shapes
BY TypeShapeLevel, ShapesAssumption

LEMMA GoingReal == Going => MismatchIsReal /\ verdict # <<"lost">>
<1>1. <<"none">>[1] = "none" /\ <<"none">> # <<"lost">>
  OBVIOUS
<1> QED BY <1>1 DEF Going, MismatchIsReal

LEMMA InitEstablishes == Init => IInv
<1> SUFFICES ASSUME Init PROVE IInv
  OBVIOUS
<1>1. PICK ty \in TypeShapes : sh = ValueShapeToShapes[ty] /\ val \in {v \in Value : HasType(v, ty)}
  BY DEF Init
<1>2. sh \in Shapes /\ val \in Value /\ Covers(sh, val)
  BY <1>1, TypeShapesTyped, TypeCovers
<1>3. Going /\ looping \in BOOLEAN
  BY DEF Init, Going
<1> QED BY <1>2, <1>3, GoingReal DEF IInv, Described

\* The analysis and the run go on with a shape that describes the value.
LEMMA GoesOn ==
  ASSUME Going, verdict' = verdict, looping' \in BOOLEAN,
         sh' \in Shapes, val' \in Value, Covers(sh', val')
  PROVE  IInv'
<1>1. verdict'[1] = "none" /\ verdict' # <<"lost">>
  BY DEF Going
<1>2. MismatchIsReal'
  BY <1>1 DEF MismatchIsReal
<1>3. Covers(sh, val)'
  BY DEF Covers
<1> QED BY <1>1, <1>2, <1>3 DEF IInv, Described

LEMMA InitWithShapeStep ==
  ASSUME IInv, Going, NEW ty \in TypeShapes, InitWithShape(ty)
  PROVE  IInv'
<1>1. /\ sh' = ValueShapeToShapes[ty] /\ val' \in Value /\ HasType(val', ty)
      /\ looping' \in BOOLEAN /\ verdict' = verdict
  BY DEF InitWithShape, IInv
<1>2. sh' \in Shapes /\ Covers(sh', val')
  BY <1>1, TypeShapesTyped, TypeCovers
<1> QED BY <1>1, <1>2, GoesOn

LEMMA JoinBranchesStep ==
  ASSUME IInv, Going, NEW ty \in TypeShapes, JoinBranches(ty)
  PROVE  IInv'
<1>1. /\ sh' = Join(sh, ValueShapeToShapes[ty]) /\ looping' \in BOOLEAN /\ verdict' = verdict
      /\ val' = val \/ (val' \in Value /\ HasType(val', ty))
  BY DEF JoinBranches, IInv
<1>2. sh \in Shapes /\ val \in Value /\ Covers(sh, val)
  BY DEF IInv, Described
<1>3. val' \in Value /\ (Covers(sh, val') \/ Covers(ValueShapeToShapes[ty], val'))
  BY <1>1, <1>2, TypeShapesTyped, TypeCovers
<1>4. sh' \in Shapes /\ Covers(sh', val')
  BY <1>1, <1>2, <1>3, TypeShapesTyped, JoinType, JoinCovers
<1> QED BY <1>1, <1>3, <1>4, GoesOn

LEMMA EvalSetShapeStep ==
  ASSUME IInv, Going, NEW e \in RuntimeShapes, EvalSetShape(e)
  PROVE  IInv'
<1>1. /\ sh' = RuntimeShapeToShapes(e) /\ val' \in Value /\ HasRuntimeShape(val', e)
      /\ looping' \in BOOLEAN /\ verdict' = verdict
  BY DEF EvalSetShape, IInv
<1>2. sh' \in Shapes /\ Covers(sh', val')
  BY <1>1, RuntimeShapeType, RuntimeCovers
<1> QED BY <1>1, <1>2, GoesOn

LEMMA EvalAddShapeStep ==
  ASSUME IInv, Going, NEW e \in RuntimeShapes, EvalAddShape(e)
  PROVE  IInv'
<1>1. /\ sh' = Join(sh, RuntimeShapeToShapes(e)) /\ looping' \in BOOLEAN /\ verdict' = verdict
      /\ val' = val \/ (val' \in Value /\ HasRuntimeShape(val', e))
  BY DEF EvalAddShape, IInv
<1>2. sh \in Shapes /\ val \in Value /\ Covers(sh, val)
  BY DEF IInv, Described
<1>3. val' \in Value /\ (Covers(sh, val') \/ Covers(RuntimeShapeToShapes(e), val'))
  BY <1>1, <1>2, RuntimeCovers
<1>4. sh' \in Shapes /\ Covers(sh', val')
  BY <1>1, <1>2, <1>3, RuntimeShapeType, JoinType, JoinCovers
<1> QED BY <1>1, <1>3, <1>4, GoesOn

\* A mismatch means that the shapes have no kind in common.
LEMMA AssertShapeStep ==
  ASSUME IInv, Going, NEW constr \in Shapes, NEW constraint, constraint # <<"lost">>,
         AssertShape(constr, constraint),
         ~Covers(constr, val) =>
           /\ constraint[1] = "type" => ~HasType(val, constraint[2])
           /\ constraint[1] = "shape" => ~HasRuntimeShape(val, constraint[2])
  PROVE  IInv'
<1>1. /\ sh' = sh /\ val' = val /\ looping' = looping
      /\ verdict' = IF Compat(sh, constr) THEN <<"none">> ELSE constraint
  BY DEF AssertShape
<1>2. sh \in Shapes /\ val \in Value /\ looping \in BOOLEAN /\ Covers(sh, val)
  BY DEF IInv, Described
<1>3. CASE Compat(sh, constr)
  <2>1. verdict' = verdict
    BY <1>1, <1>3 DEF Going
  <2> QED BY <1>1, <1>2, <2>1, GoesOn
<1>4. CASE ~Compat(sh, constr)
  <2>1. ~Covers(constr, val)
    BY <1>2, <1>4, CompatCovered
  <2>2. verdict' = constraint
    BY <1>1, <1>4
  <2>3. MismatchIsReal'
    BY <1>1, <2>1, <2>2 DEF MismatchIsReal, HasType, HasRuntimeShape
  <2>4. Described'
    BY <1>1, <1>2, <2>2 DEF Described, Covers
  <2> QED BY <1>1, <1>2, <2>3, <2>4 DEF IInv
<1> QED BY <1>3, <1>4

LEMMA AssertTypeStep ==
  ASSUME IInv, Going, NEW ty \in TypeShapes,
         AssertShape(ValueShapeToShapes[ty], <<"type", ty>>)
  PROVE  IInv'
<1> DEFINE constraint == <<"type", ty>>
<1>1. constraint[1] = "type" /\ constraint[2] = ty /\ constraint # <<"lost">>
  OBVIOUS
<1>2. ty \in Types /\ ValueShapeToShapes[ty] \in Shapes /\ val \in Value
  BY TypeShapesTyped DEF IInv
<1>3. ~Covers(ValueShapeToShapes[ty], val) => ~HasType(val, ty)
  BY <1>2, TypeCovers
<1> HIDE DEF constraint
<1>4. ~Covers(ValueShapeToShapes[ty], val) =>
        /\ constraint[1] = "type" => ~HasType(val, constraint[2])
        /\ constraint[1] = "shape" => ~HasRuntimeShape(val, constraint[2])
  BY <1>1, <1>3
<1>5. AssertShape(ValueShapeToShapes[ty], constraint)
  BY DEF constraint
<1> QED BY <1>1, <1>2, <1>4, <1>5, AssertShapeStep

LEMMA AssertRuntimeStep ==
  ASSUME IInv, Going, NEW e \in RuntimeShapes,
         AssertShape(RuntimeShapeToShapes(e), <<"shape", e>>)
  PROVE  IInv'
<1> DEFINE constraint == <<"shape", e>>
<1>1. constraint[1] = "shape" /\ constraint[2] = e /\ constraint # <<"lost">>
  OBVIOUS
<1>2. RuntimeShapeToShapes(e) \in Shapes /\ val \in Value
  BY RuntimeShapeType DEF IInv
<1>3. ~Covers(RuntimeShapeToShapes(e), val) => ~HasRuntimeShape(val, e)
  BY <1>2, RuntimeCovers
<1> HIDE DEF constraint
<1>4. ~Covers(RuntimeShapeToShapes(e), val) =>
        /\ constraint[1] = "type" => ~HasType(val, constraint[2])
        /\ constraint[1] = "shape" => ~HasRuntimeShape(val, constraint[2])
  BY <1>1, <1>3
<1>5. AssertShape(RuntimeShapeToShapes(e), constraint)
  BY DEF constraint
<1> QED BY <1>1, <1>2, <1>4, <1>5, AssertShapeStep

LEMMA EvalIsImmediateStep ==
  ASSUME IInv, Going, EvalIsImmediate
  PROVE  IInv'
<1> DEFINE kind == IF val.kind = Imm THEN Flat(Imm) ELSE AnyBlock
<1>1. sh \in Shapes /\ val \in Value /\ looping \in BOOLEAN /\ Covers(sh, val)
  BY DEF IInv, Described
<1>2. Compat(sh, kind) /\ Meet(sh, kind) \in Shapes /\ Covers(Meet(sh, kind), val)
  <2>1. CASE val.kind = Imm
    BY <1>1, <2>1, MeetImmediate
  <2>2. CASE val.kind # Imm
    BY <1>1, <2>2, MeetBlock
  <2> QED BY <2>1, <2>2
<1>3. /\ IF Compat(sh, kind)
            THEN sh' = Meet(sh, kind) /\ verdict' = verdict
            ELSE verdict' = <<"lost">> /\ sh' = sh
      /\ val' = val /\ looping' = looping
  BY DEF EvalIsImmediate
<1> HIDE DEF kind
<1>4. sh' = Meet(sh, kind) /\ verdict' = verdict
  BY <1>2, <1>3
<1> QED BY <1>1, <1>2, <1>3, <1>4, GoesOn

LEMMA PassOnShapeStep ==
  ASSUME IInv, Going, NEW i \in Index, PassOnShape(i)
  PROVE  IInv'
<1>1. sh \in Shapes /\ val \in Value /\ looping \in BOOLEAN /\ Covers(sh, val)
  BY DEF IInv, Described
<1>2. /\ val.kind = Std /\ i \in Bindings(val.fields)
      /\ sh' = FieldShapeAtIndex(sh, i) /\ val' = val.fields[i]
      /\ looping' = looping /\ verdict' = verdict
  BY DEF PassOnShape
<1>3. val' \in Value
  BY <1>1, <1>2, ValueParts
<1>4. sh' \in Shapes /\ Covers(sh', val')
  BY <1>1, <1>2, FieldCovers
<1> QED BY <1>1, <1>2, <1>3, <1>4, GoesOn

LEMMA IterateStep ==
  ASSUME IInv, Going, NEW ty \in TypeShapes, Iterate(ty)
  PROVE  IInv'
<1>1. /\ sh' = Widen(sh, ValueShapeToShapes[ty]) /\ looping' \in BOOLEAN /\ verdict' = verdict
      /\ val' = val \/ (val' \in Value /\ HasType(val', ty))
  BY DEF Iterate
<1>2. sh \in Shapes /\ val \in Value /\ Covers(sh, val)
  BY DEF IInv, Described
<1>3. val' \in Value /\ (Covers(sh, val') \/ Covers(ValueShapeToShapes[ty], val'))
  BY <1>1, <1>2, TypeShapesTyped, TypeCovers
<1>4. sh' \in Shapes /\ Covers(sh', val')
  BY <1>1, <1>2, <1>3, TypeShapesTyped, WidenAbove
<1> QED BY <1>1, <1>3, <1>4, GoesOn

LEMMA LeaveLoopStep ==
  ASSUME IInv, Going, LeaveLoop
  PROVE  IInv'
<1>1. sh \in Shapes /\ val \in Value /\ Covers(sh, val)
  BY DEF IInv, Described
<1>2. sh' = sh /\ val' = val /\ looping' = FALSE /\ verdict' = verdict
  BY DEF LeaveLoop
<1> QED BY <1>1, <1>2, GoesOn

LEMMA NextPreserves == IInv /\ [Next]_vars => IInv'
<1> SUFFICES ASSUME IInv, [Next]_vars PROVE IInv'
  OBVIOUS
<1>1. CASE UNCHANGED vars
  <2>1. sh' = sh /\ val' = val /\ looping' = looping /\ verdict' = verdict
    BY <1>1 DEF vars
  <2> QED BY <2>1 DEF IInv, Described, MismatchIsReal, Covers, HasType, HasRuntimeShape
<1>2. ASSUME Going, Straight
      PROVE  IInv'
  BY <1>2, InitWithShapeStep, JoinBranchesStep, AssertTypeStep, EvalSetShapeStep,
     EvalAddShapeStep, AssertRuntimeStep, EvalIsImmediateStep, PassOnShapeStep
     DEF Straight
<1>3. CASE Next
  BY <1>2, <1>3, IterateStep, LeaveLoopStep DEF Next
<1> QED BY <1>1, <1>3

LEMMA Invariance == Spec => []IInv
BY InitEstablishes, NextPreserves, PTL DEF Spec

-----------------------------------------------------------------------------
(* Theorems.                                                               *)

\* No sequence of the operations of a stub, for any declarations, any tags and
\* any depth and breadth of the cut, makes a shape empty or one the
\* constructors cannot build (shapes.ml 577-690).
THEOREM TypeCorrect == Spec => []TypeOK
<1>1. IInv => TypeOK
  <2> SUFFICES ASSUME IInv PROVE TypeOK
    OBVIOUS
  <2>1. sh \in Shapes /\ val \in Value /\ looping \in BOOLEAN /\ Covers(sh, val)
    BY DEF IInv, Described
  <2>2. ~IsBottom(sh)
    BY <2>1, CoversKind DEF IsBottom
  <2> QED BY <2>1, <2>2 DEF TypeOK
<1> QED BY <1>1, Invariance, PTL

\* The shape the analysis gives a variable describes the value of every run at
\* every depth, after every assignment of a field, branch, test for an
\* immediate and widened loop (shapes.ml 219-239, 737-783, 851-880).
THEOREM ShapesDescribe == Spec => []Described
<1>1. IInv => Described
  BY DEF IInv
<1> QED BY <1>1, Invariance, PTL

\* Where a mismatch of shapes is reported, the value of no run has the type or
\* shape asked for: the meet of the shapes is empty for no other reason
\* (domain.ml 444-451).
THEOREM MismatchesAreReal == Spec => []MismatchIsReal
<1>1. IInv => MismatchIsReal
  BY DEF IInv
<1> QED BY <1>1, Invariance, PTL

\* A shape included in that of a declared type has values of the latter only,
\* so a loop may stop as soon as its shape no longer grows (shapes.ml 281-285,
\* 749-752).
THEOREM InclusionSound == Spec => []SubsetSound
<1>1. IInv => SubsetSound
  BY TypeShapesTyped, SubsetCovers DEF IInv, Described, SubsetSound
<1> QED BY <1>1, Invariance, PTL

\* Whatever was described stays so: the widening of two shapes, cut at any
\* depth and breadth, describes the values of both (lattice.ml 66-68).
THEOREM WideningKeepsValues ==
  \A s, t \in Shapes, v \in Value : Covers(s, v) \/ Covers(t, v) => Covers(Widen(s, t), v)
BY WidenAbove

=============================================================================
