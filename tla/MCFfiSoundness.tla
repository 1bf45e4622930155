--------------------------- MODULE MCFfiSoundness ---------------------------
(* Values for the constants of FfiSoundness.                               *)
EXTENDS FfiSoundness, TLC

CONSTANTS imm, blk, ref, str, x, y, p, q, s, atP, atQ

\* Immediates, and blocks whose fields are of any of the two kinds.
PlainKinds   == {imm, blk}
PlainFields  == [k \in {blk} |-> {imm, blk}]
PlainArgs    == {{imm}, {blk}, {imm, blk}}
PlainAllocs  == {{blk}}

\* References, whose field is an immediate, and strings as well.
MixedKinds   == {imm, ref, blk, str}
MixedFields  == [k \in {ref, blk} |-> IF k = ref THEN {imm} ELSE {ref, str}]
MixedArgs    == {{imm}, {ref}, {blk, str}, {imm, ref, blk, str}}
MixedAllocs  == {{ref, blk}, {str}}

\* p is a pointer to a field, q to a named value.
NoPointers   == [r \in {} |-> x]
Cells        == [r \in {p, q} |-> IF r = p THEN atP ELSE atQ]

Twins == Permutations({x, y})
=============================================================================
