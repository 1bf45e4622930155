---------------------------- MODULE NestedShapes ----------------------------
(***************************************************************************)
(* The shape the analysis gives to an OCaml value, down to the shapes of   *)
(* its fields, and the value a run has in the same variable.               *)
(*                                                                         *)
(* A shape (memory/runtime/shapes.ml, NestedShapes) has the kinds the      *)
(* value may be of and, for standard blocks, a map from tags to maps from  *)
(* indices to shapes (tuples, records, variants) and the shape of the      *)
(* elements (arrays).  Top stands for any map or element, None for no      *)
(* array and for what a map has no binding of.  Shapes come from the types *)
(* of the OCaml declarations (common/type_shapes.ml) and from the          *)
(* constants of enum ffi_shape.                                            *)
(*                                                                         *)
(* A recursive operation on shapes is a recursive function whose body is   *)
(* the operator ...Node: what it does to one node, given the function for  *)
(* the nodes below.                                                        *)
(***************************************************************************)
EXTENDS Integers, FiniteSets, FiniteSetsExt

CONSTANTS
  Kind,       \* kinds of values: those of value_shape that matter
  Imm, Std,   \* immediates, standard blocks
  Tag, Index, \* tags of blocks, indices of fields
  Top, None,  \* marks: any map or element; no binding or element
  TypeShapes, \* the types of the declarations
  Value,      \* the values of a run: records [kind, tag, fields]
  Levels,     \* no type of a declaration has more levels
  MaxDepth,   \* depth and breadth at which widening cuts a shape: 5 and 20
  MaxBreadth  \* in the code

-----------------------------------------------------------------------------
(* Shapes: a map is a function that is None where it has no binding.  Only *)
(* standard blocks have fields.                                            *)

NoVariants == [t \in Tag |-> None]

FieldsOver(S) == [Index -> S \union {None}]
VariantsOver(S) == [Tag -> FieldsOver(S) \union {Top, None}]

ShapesOver(S) ==
  {s \in [shape          : SUBSET Kind,
          variant_fields : VariantsOver(S) \union {Top},
          array_fields   : S \union {Top, None}] :
     (s.variant_fields = NoVariants /\ s.array_fields = None) \/ Std \in s.shape}

ShapesTo[n \in 0 .. Levels] == IF n = 0 THEN {} ELSE ShapesOver(ShapesTo[n - 1])

Shapes == ShapesTo[Levels]

\* The types of OCaml declarations: 'a, a flat kind, an unknown block, a block
\* with a tag and types of its fields, an array, a choice.
TypesOver(T) ==
  {<<"Value">>, <<"Block">>}
  \union ({"Flat"} \X (Kind \ {Std}))
  \union ({"BlockOf"} \X Tag \X FieldsOver(T))
  \union ({"Array"} \X T)
  \union ({"Or"} \X T \X T)

TypesTo[n \in 0 .. Levels] == IF n = 0 THEN {} ELSE TypesOver(TypesTo[n - 1])

Types == TypesTo[Levels]

ASSUME ShapesAssumption ==
  /\ {Imm, Std} \subseteq Kind /\ Imm # Std
  /\ IsFiniteSet(Tag) /\ IsFiniteSet(Index)
  /\ Levels \in Nat \ {0} /\ MaxDepth \in Nat /\ MaxBreadth \in Nat
  /\ TypeShapes \subseteq Types
  /\ \A v \in Value : v \in [kind : Kind, tag : Tag, fields : FieldsOver(Value)]

ASSUME MarksAssumption ==
  /\ Top # None
  /\ {Top, None} \intersect Shapes = {}
  /\ {Top, None} \intersect FieldsOver(Shapes) = {}
  /\ Top \notin VariantsOver(Shapes)
  /\ None \notin Types \union Value

-----------------------------------------------------------------------------
(* Constructors.                                                           *)

Shape(kinds, variants, elements) ==
  [shape |-> kinds, variant_fields |-> variants, array_fields |-> elements]

Bottom == Shape({}, NoVariants, None)
Any == Shape(Kind, Top, Top)
Flat(kind) == Shape({kind}, NoVariants, None)
AnyBlock == Shape(Kind \ {Imm}, Top, Top)
AnyStandardBlock == Shape({Std}, Top, Top)
AnyNonArrayStandardBlock == Shape({Std}, Top, None)
ArrayOf(s) == Shape({Std}, NoVariants, s)
FixedSizeStandardBlock(tag, fields) == Shape({Std}, [NoVariants EXCEPT ![tag] = fields], None)

-----------------------------------------------------------------------------
(* Order, join and meet, each lifted to an option, to a map and to a mark  *)
(* (shapes.ml 483-528).                                                    *)

JoinOpt(J, a, b) == IF a = None THEN b ELSE IF b = None THEN a ELSE J[<<a, b>>]
MeetOpt(M, a, b) == IF None \in {a, b} THEN None ELSE M[<<a, b>>]
SubsetOpt(S, a, b) == a = None \/ (b # None /\ S[<<a, b>>])

JoinVariant(J, a, b) ==
  IF a = None THEN b ELSE IF b = None THEN a
  ELSE IF Top \in {a, b} THEN Top ELSE [i \in Index |-> JoinOpt(J, a[i], b[i])]

JoinNode(J, s, t) ==
  Shape(s.shape \union t.shape,
        IF Top \in {s.variant_fields, t.variant_fields} THEN Top
        ELSE [k \in Tag |-> JoinVariant(J, s.variant_fields[k], t.variant_fields[k])],
        IF Top \in {s.array_fields, t.array_fields} THEN Top
        ELSE JoinOpt(J, s.array_fields, t.array_fields))

join[p \in Shapes \X Shapes] == JoinNode(join, p[1], p[2])
Join(s, t) == join[<<s, t>>]

MeetVariant(M, a, b) ==
  IF None \in {a, b} THEN None ELSE IF a = Top THEN b ELSE IF b = Top THEN a
  ELSE [i \in Index |-> MeetOpt(M, a[i], b[i])]

\* (mutant) the fields of the value are kept
MeetKinds(s, t) ==
  Shape(s.shape \intersect t.shape, s.variant_fields, s.array_fields)

\* The elements of arrays are joined.
MeetNode(M, s, t) ==
  Shape(s.shape \intersect t.shape,
        IF s.variant_fields = Top THEN t.variant_fields
        ELSE IF t.variant_fields = Top THEN s.variant_fields
        ELSE [k \in Tag |-> MeetVariant(M, s.variant_fields[k], t.variant_fields[k])],
        IF s.array_fields = Top THEN t.array_fields
        ELSE IF t.array_fields = Top THEN s.array_fields
        ELSE MeetOpt(join, s.array_fields, t.array_fields))

meet[p \in Shapes \X Shapes] == MeetNode(meet, p[1], p[2])
Meet(s, t) == meet[<<s, t>>]

SubsetVariant(S, a, b) ==
  \/ a = None
  \/ b = Top
  \/ b # None /\ a # Top /\ \A i \in Index : SubsetOpt(S, a[i], b[i])

\* (mutant) fields are not compared
SubsetKinds(s, t) == s.shape \subseteq t.shape

SubsetNode(S, s, t) ==
  /\ s.shape \subseteq t.shape
  /\ \/ t.variant_fields = Top
     \/ /\ s.variant_fields # Top
        /\ \A k \in Tag : SubsetVariant(S, s.variant_fields[k], t.variant_fields[k])
  /\ \/ t.array_fields = Top
     \/ s.array_fields # Top /\ SubsetOpt(S, s.array_fields, t.array_fields)

subset[p \in Shapes \X Shapes] == SubsetNode(subset, p[1], p[2])
Subset(s, t) == subset[<<s, t>>]

IsBottom(s) == s.shape = {}

\* (mutant) the value has to satisfy the constraint for certain
CompatCertain(s, constr) == Subset(s, constr)

Compat(s, constr) == ~IsBottom(Meet(s, constr))

-----------------------------------------------------------------------------
(* Widening.                                                               *)

Bindings(m) == {k \in DOMAIN m : m[k] # None}

TooBroad(m) == Cardinality(Bindings(m)) > MaxBreadth

TruncateFields(T, depth, m) ==
  IF m \in {Top, None} THEN m
  ELSE IF TooBroad(m) THEN Top
  ELSE [i \in Index |-> IF m[i] = None THEN None ELSE T[<<m[i], depth - 1>>]]

TruncateNode(T, s, depth) ==
  IF depth < 0 THEN Any
  ELSE Shape(s.shape,
             IF s.variant_fields = Top \/ TooBroad(s.variant_fields) THEN Top
             ELSE [k \in Tag |-> TruncateFields(T, depth, s.variant_fields[k])],
             IF s.array_fields \in {Top, None} THEN s.array_fields
             ELSE T[<<s.array_fields, depth - 1>>])

truncate[p \in Shapes \X Int] == TruncateNode(truncate, p[1], p[2])
Truncate(s, depth) == truncate[<<s, depth>>]

\* (mutant) the shape of the last iteration only
WidenLast(s, t) == Truncate(t, MaxDepth)

Widen(s, t) == Truncate(Join(s, t), MaxDepth)

-----------------------------------------------------------------------------
(* The shape of a field.                                                   *)

JoinAll(S) == FoldSet(Join, Bottom, S)

VariantShapesAtIndex(variants, i) ==
  IF variants = Top THEN Any
  ELSE IF variants = NoVariants THEN None
  ELSE JoinAll({IF variants[t] = Top THEN Any
                ELSE IF variants[t][i] = None THEN Any ELSE variants[t][i] :
                t \in Bindings(variants)})

ArrayShapesAtIndex(elements, i) == IF elements = Top THEN Any ELSE elements

\* (mutant) arrays count only if no constructor does
FieldShapeVariantFirst(s, i) ==
  LET field == VariantShapesAtIndex(s.variant_fields, i)
  IN IF field # None THEN field
     ELSE IF s.array_fields = None THEN Any ELSE ArrayShapesAtIndex(s.array_fields, i)

FieldShapeAtIndex(s, i) ==
  LET field == VariantShapesAtIndex(s.variant_fields, i)
      element == ArrayShapesAtIndex(s.array_fields, i)
  IN IF {field, element} = {None} THEN Any ELSE JoinOpt(join, field, element)

-----------------------------------------------------------------------------
(* Types, and the constants of enum ffi_shape.                             *)

TypeNode(F, ty) ==
  CASE ty[1] = "Value"   -> Any
    [] ty[1] = "Flat"    -> Flat(ty[2])
    [] ty[1] = "Block"   -> AnyNonArrayStandardBlock
    [] ty[1] = "BlockOf" ->
         FixedSizeStandardBlock(ty[2],
           [i \in Index |-> IF ty[3][i] = None THEN None ELSE F[ty[3][i]]])
    [] ty[1] = "Array"   -> ArrayOf(F[ty[2]])
    [] ty[1] = "Or"      -> Join(F[ty[2]], F[ty[3]])

ValueShapeToShapes[ty \in Types] == TypeNode(ValueShapeToShapes, ty)

RuntimeShapes == {"FFI_BLOCK", "FFI_VARIANT", "FFI_ANY"} \union (Kind \ {Std})

RuntimeShapeToShapes(e) ==
  CASE e = "FFI_BLOCK"   -> AnyStandardBlock
    [] e = "FFI_VARIANT" -> Join(AnyStandardBlock, Flat(Imm))
    [] e = "FFI_ANY"     -> Any
    [] OTHER             -> Flat(e)

-----------------------------------------------------------------------------
(* What types, constants and shapes say of a value.                        *)

HasTypeNode(H, v, ty) ==
  CASE ty[1] = "Value"   -> TRUE
    [] ty[1] = "Flat"    -> v.kind = ty[2]
    [] ty[1] = "Block"   -> v.kind = Std
    [] ty[1] = "BlockOf" -> /\ v.kind = Std
                            /\ v.tag = ty[2]
                            /\ Bindings(v.fields) = Bindings(ty[3])
                            /\ \A i \in Bindings(ty[3]) : H[<<v.fields[i], ty[3][i]>>]
    [] ty[1] = "Array"   -> /\ v.kind = Std
                            /\ v.tag = 0
                            /\ \A i \in Bindings(v.fields) : H[<<v.fields[i], ty[2]>>]
    [] ty[1] = "Or"      -> H[<<v, ty[2]>>] \/ H[<<v, ty[3]>>]

hasType[p \in Value \X Types] == HasTypeNode(hasType, p[1], p[2])
HasType(v, ty) == hasType[<<v, ty>>]

HasRuntimeShape(v, e) ==
  CASE e = "FFI_BLOCK"   -> v.kind = Std
    [] e = "FFI_VARIANT" -> v.kind \in {Std, Imm}
    [] e = "FFI_ANY"     -> TRUE
    [] OTHER             -> v.kind = e

\* What one map of fields, of one constructor, says of a block.
FieldsCover(C, fields, v) ==
  \/ fields = Top
  \/ fields # None /\ \A i \in Bindings(v.fields) : fields[i] # None /\ C[<<fields[i], v.fields[i]>>]

CoversNode(C, s, v) ==
  /\ v.kind \in s.shape
  /\ v.kind = Std =>
       \/ s.array_fields = Top
       \/ s.array_fields # None /\ \A i \in Bindings(v.fields) : C[<<s.array_fields, v.fields[i]>>]
       \/ s.variant_fields = Top
       \/ FieldsCover(C, s.variant_fields[v.tag], v)

covers[p \in Shapes \X Value] == CoversNode(covers, p[1], p[2])
Covers(s, v) == covers[<<s, v>>]

-----------------------------------------------------------------------------
(* A variable of a stub.                                                   *)

VARIABLES
  sh,       \* the shape the analysis gives to the variable
  val,      \* the value the run has in it
  looping,  \* the analysis iterates a loop
  verdict   \* <<"none">>, <<"lost">> when no case is left for the run, or the
            \* constraint a mismatch was reported for

vars == <<sh, val, looping, verdict>>

Going == verdict = <<"none">>

\* The argument of a stub, and a value returned by a function with a type.
InitWithShape(ty) ==
  /\ sh' = ValueShapeToShapes[ty]
  /\ val' \in {v \in Value : HasType(v, ty)}
  /\ UNCHANGED <<looping, verdict>>

EvalSetShape(e) ==
  /\ sh' = RuntimeShapeToShapes(e)
  /\ val' \in {v \in Value : HasRuntimeShape(v, e)}
  /\ UNCHANGED <<looping, verdict>>

\* The variable keeps its value or gets one of the added shape.
EvalAddShape(e) ==
  /\ sh' = Join(sh, RuntimeShapeToShapes(e))
  /\ val' \in {val} \union {v \in Value : HasRuntimeShape(v, e)}
  /\ UNCHANGED <<looping, verdict>>

\* Two branches meet; the other one leaves a value of type ty.
JoinBranches(ty) ==
  /\ sh' = Join(sh, ValueShapeToShapes[ty])
  /\ val' \in {val} \union {v \in Value : HasType(v, ty)}
  /\ UNCHANGED <<looping, verdict>>

\* The result of a stub, and the arguments of the functions of ffi.c.
AssertShape(constr, constraint) ==
  /\ verdict' = IF Compat(sh, constr) THEN <<"none">> ELSE constraint
  /\ UNCHANGED <<sh, val, looping>>

\* if (Is_long(v)): the case the run takes.
EvalIsImmediate ==
  LET kind == IF val.kind = Imm THEN Flat(Imm) ELSE AnyBlock
  IN /\ IF Compat(sh, kind)
          THEN sh' = Meet(sh, kind) /\ UNCHANGED verdict
          ELSE verdict' = <<"lost">> /\ UNCHANGED sh
     /\ UNCHANGED <<val, looping>>

\* The shape passes on to a variable that is assigned the field.
PassOnShape(i) ==
  /\ val.kind = Std
  /\ i \in Bindings(val.fields)
  /\ sh' = FieldShapeAtIndex(sh, i)
  /\ val' = val.fields[i]
  /\ UNCHANGED <<looping, verdict>>

\* A loop at whose head the variable may have been assigned a value of type ty.
Iterate(ty) ==
  /\ looping' = TRUE
  /\ sh' = Widen(sh, ValueShapeToShapes[ty])
  /\ val' \in {val} \union {v \in Value : HasType(v, ty)}
  /\ UNCHANGED verdict

LeaveLoop == looping /\ looping' = FALSE /\ UNCHANGED <<sh, val, verdict>>

Init ==
  /\ \E ty \in TypeShapes :
       sh = ValueShapeToShapes[ty] /\ val \in {v \in Value : HasType(v, ty)}
  /\ looping = FALSE
  /\ verdict = <<"none">>

Straight ==
  \/ \E ty \in TypeShapes :
       \/ InitWithShape(ty)
       \/ JoinBranches(ty)
       \/ AssertShape(ValueShapeToShapes[ty], <<"type", ty>>)
  \/ \E e \in RuntimeShapes :
       \/ EvalSetShape(e)
       \/ EvalAddShape(e)
       \/ AssertShape(RuntimeShapeToShapes(e), <<"shape", e>>)
  \/ EvalIsImmediate
  \/ \E i \in Index : PassOnShape(i)

Next ==
  /\ Going
  /\ \/ ~looping /\ Straight
     \/ \E ty \in TypeShapes : Iterate(ty)
     \/ LeaveLoop

Spec == Init /\ [][Next]_vars

-----------------------------------------------------------------------------
(* Properties.                                                             *)

\* The shape of a variable is never bottom and one the constructors can build:
\* only standard blocks have fields, at every depth (shapes.ml 577-690).
TypeOK ==
  /\ sh \in Shapes /\ ~IsBottom(sh)
  /\ val \in Value
  /\ looping \in BOOLEAN

\* Whatever a stub does with a variable, its shape describes the value at every
\* depth, and a test for an immediate leaves the run a case (shapes.ml 219-239,
\* 737-783, 851-880).
Described == verdict # <<"lost">> /\ Covers(sh, val)

\* A mismatch is reported only for a value that does not have the type or
\* shape asked for (domain.ml 444-451).
MismatchIsReal ==
  /\ verdict[1] = "type" => ~HasType(val, verdict[2])
  /\ verdict[1] = "shape" => ~HasRuntimeShape(val, verdict[2])

\* Inclusion is inclusion of values: a guaranteed immediate is one, and a loop
\* that adds nothing to the shape adds no value (shapes.ml 749-752, 281-285).
SubsetSound ==
  \A t \in {ValueShapeToShapes[ty] : ty \in TypeShapes} : Subset(sh, t) => Covers(t, val)

\* However long a loop is iterated, its shapes stop changing (lattice.ml 66-68).
Stabilises == <>[]looping => <>[][FALSE]_sh

=============================================================================
