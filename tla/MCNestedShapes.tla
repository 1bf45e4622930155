--------------------------- MODULE MCNestedShapes ---------------------------
(* Values for the constants of NestedShapes.                               *)
EXTENDS NestedShapes, Sequences

CONSTANTS imm, std, str

\* The fields of a block, numbered from 0.
Fields(f) == [i \in Index |-> IF i < Len(f) THEN f[i + 1] ELSE None]

Atom(k) == [kind |-> k, tag |-> 0, fields |-> Fields(<<>>)]
Block(t, f) == [kind |-> std, tag |-> t, fields |-> Fields(f)]

\* Immediates, strings and the empty array.
Atoms == {Atom(k) : k \in {imm, std, str}}

\* Values of depth two at most: every block of one or two atoms, and blocks that
\* hold a pair or a list cell.
Values ==
  LET Flats == {Block(0, f) : f \in {<<a>> : a \in Atoms} \union (Atoms \X Atoms)}
  IN Atoms \union Flats
     \union {Block(1, <<Atom(str), Atom(imm)>>), Block(1, <<Atom(std)>>)}
     \union {Block(0, f) : f \in {<<Block(0, <<Atom(imm), Atom(str)>>)>>,
                                  <<Atom(imm), Block(0, <<Atom(imm), Atom(imm)>>)>>,
                                  <<Atom(imm), Block(0, <<Atom(imm), Atom(str)>>)>>}}

ImmTy == <<"Flat", imm>>
StrTy == <<"Flat", str>>

\* int; string; 'a; an unknown block; int array; string array; int * string;
\* A of int | B of string * int; (int * string) option; a list whose third cell is
\* unknown; a constructor of string array array.
DeclaredTypes ==
  LET Pair == <<"BlockOf", 0, Fields(<<ImmTy, StrTy>>)>>
      Cell == <<"BlockOf", 0, Fields(<<ImmTy, <<"Value">>>>)>>
  IN {ImmTy, StrTy, <<"Value">>, <<"Block">>, <<"Array", ImmTy>>, <<"Array", StrTy>>, Pair,
      <<"Or", <<"BlockOf", 0, Fields(<<ImmTy>>)>>, <<"BlockOf", 1, Fields(<<StrTy, ImmTy>>)>>>>,
      <<"Or", ImmTy, <<"BlockOf", 0, Fields(<<Pair>>)>>>>,
      <<"Or", ImmTy, <<"BlockOf", 0, Fields(<<ImmTy, <<"Or", ImmTy, Cell>>>>)>>>>,
      <<"BlockOf", 1, Fields(<<<<"Array", <<"Array", StrTy>>>>>>)>>}
=============================================================================
