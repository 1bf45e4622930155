--------------------------- MODULE RuntimeLattice ---------------------------
(***************************************************************************)
(* The value lattice of the OCaml runtime domain (c.memory.runtime).       *)
(*                                                                         *)
(* The analyzer keeps, for every C location it tracks, a triple            *)
(*     ((status, root), shape)                                             *)
(* where status and root are flat ("const") lattices and shape is the      *)
(* disjoint sum of OCaml shapes and "not an OCaml value".  A partial map   *)
(* from locations to such triples, paired with the flat lattice of the     *)
(* runtime lock, is the abstract state (domain.ml, module Dom).            *)
(*                                                                         *)
(* Shapes are sets of kinds: the booleans of the shape record that are     *)
(* true.  The field maps inside a shape are abstracted to FieldOf, the     *)
(* kinds a field of a block of a given kind may have.                      *)
(***************************************************************************)
EXTENDS Naturals

CONSTANTS
  Loc,       \* tracked C locations: variables and FFI cells
  Kind,      \* kinds of OCaml values (immediate, ordinary block, string...)
  Imm,       \* the immediate kind
  StdBlock,  \* the kinds that are ordinary (structured) blocks
  FieldOf,   \* the kinds found in the fields of a structured block
  NonValue,  \* C data that is not an OCaml value
  Absent     \* a location without binding in the partial map

ASSUME KindAssumption ==
  /\ Imm \in Kind
  /\ NonValue \notin Kind
  /\ StdBlock \subseteq Kind \ {Imm}
  /\ StdBlock # {}
  /\ FieldOf \in [StdBlock -> SUBSET Kind]
  /\ \A k \in StdBlock : FieldOf[k] # {}

-----------------------------------------------------------------------------
(* Flat lattices: bottom, the embedded constants, top.                     *)

BOT == "BOT"
TOP == "TOP"

Status      == {"Untracked", "Active", "Stale"}
Roots       == {"Rooted", "NotRooted"}
RuntimeLock == {"Locked", "Unlocked"}

Flat(C) == C \union {BOT, TOP}

ConstSubset(x, y) == x = BOT \/ y = TOP \/ x = y

\* (mutant) two constants that disagree join to bottom
ConstJoinDisagree(x, y) ==
  CASE x = BOT -> y
    [] y = BOT -> x
    [] OTHER   -> IF x = y THEN x ELSE BOT

ConstJoin(x, y) ==
  CASE x = BOT -> y
    [] y = BOT -> x
    [] OTHER   -> IF x = y THEN x ELSE TOP

ConstMeet(x, y) ==
  CASE x = TOP -> y
    [] y = TOP -> x
    [] OTHER   -> IF x = y THEN x ELSE BOT

-----------------------------------------------------------------------------
(* Shapes: Disjoint(OCamlValue, NonValue).  A shape is the set of what it  *)
(* allows, so inclusion is \subseteq and a sum of both sides is top.       *)

TopShape      == Kind \union {NonValue}
NonOCamlValue == {NonValue}
OCamlShape    == SUBSET Kind
Shape         == OCamlShape \union {NonOCamlValue, TopShape}

ShapeJoin(a, b) ==
  LET u == a \union b
  IN IF u \in OCamlShape \union {NonOCamlValue} THEN u ELSE TopShape

ShapeMeet(a, b) == a \intersect b

\* An OCaml shape that allows nothing but immediates.
IsGuaranteedImmediate(sh) == sh \subseteq {Imm}

\* compat: the intersection of value and constraint is not bottom.
Compat(value, constr) == ShapeMeet(value, constr) # {}

\* The shape of a field: the join over the blocks the parent may be, and
\* every kind when the parent may not be a structured block.
FieldShape(sh) ==
  IF sh \intersect StdBlock = {}
    THEN Kind
    ELSE UNION {FieldOf[k] : k \in sh \intersect StdBlock}

-----------------------------------------------------------------------------
(* Entries, and the partial map of entries.                                *)

Entry == [status : Flat(Status), root : Flat(Roots), shape : Shape]

Bind(status, root, shape) ==
  [status |-> status, root |-> root, shape |-> shape]

ASSUME AbsentAssumption == Absent \notin Entry

\* What the domain meets in practice: entries with no bottom component.
ProperEntry ==
  [status : Status \union {TOP}, root : Roots \union {TOP},
   shape : Shape \ {{}}]

EntrySubset(e, f) ==
  /\ ConstSubset(e.status, f.status)
  /\ ConstSubset(e.root, f.root)
  /\ e.shape \subseteq f.shape

EntryJoin(e, f) ==
  Bind(ConstJoin(e.status, f.status), ConstJoin(e.root, f.root),
       ShapeJoin(e.shape, f.shape))

Env       == [Loc -> Entry \union {Absent}]
ProperEnv == [Loc -> ProperEntry \union {Absent}]

\* A binding missing on one side is kept from the other.
EnvJoin(m, n) ==
  [l \in Loc |->
     IF m[l] = Absent THEN n[l]
     ELSE IF n[l] = Absent THEN m[l]
     ELSE EntryJoin(m[l], n[l])]

\* Every key of the left must be bound on the right.
EnvSubset(m, n) ==
  \A l \in Loc :
    m[l] # Absent => n[l] # Absent /\ EntrySubset(m[l], n[l])
=============================================================================
