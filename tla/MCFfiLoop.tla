------------------------------ MODULE MCFfiLoop -----------------------------
(* Values for the constants of FfiLoop: every body of bounded length.      *)
EXTENDS FfiLoop

CONSTANTS imm, blk, x, y, MaxBody

NoPointers == [r \in {} |-> x]
BlockField == [k \in {blk} |-> {imm, blk}]

Calls == {<<"copy", x, y>>, <<"copy", y, x>>, <<"long", y>>, <<"alloc", x>>,
          <<"inspect", x>>, <<"inspect", y>>, <<"root", x>>, <<"unroot", x>>, <<"enter">>, <<"leave">>}
Jumps == {<<"break">>, <<"continue">>}

SeqUpTo(S, n) == UNION {[1 .. k -> S] : k \in 1 .. n}

Loop(kind, forever, body, incr) ==
  [kind |-> kind, forever |-> forever, body |-> body, incr |-> incr]

Whiles ==
  {Loop(kind, forever, body, <<>>) : kind \in {"while", "do"}, forever \in BOOLEAN,
                                     body \in SeqUpTo(Calls \union Jumps, MaxBody)}

Onces == {Loop("once", FALSE, body, <<>>) : body \in SeqUpTo(Calls \union Jumps, MaxBody)}

\* for loops whose body does not continue, and those whose body may.
PlainFors ==
  {Loop("for", FALSE, body, <<s>>) : body \in {<<>>} \union SeqUpTo(Calls \union {<<"break">>}, MaxBody - 1),
                                     s \in Calls}

Fors ==
  {Loop("for", FALSE, body, <<s>>) : body \in {<<>>} \union SeqUpTo(Calls \union Jumps, MaxBody - 1),
                                     s \in Calls}

AllLoops == Whiles \union Onces \union PlainFors
=============================================================================
