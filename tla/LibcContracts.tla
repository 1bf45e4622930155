---------------------------- MODULE LibcContracts ----------------------------
(*
The vocabulary of the C library's contracts (share/mopsa/stubs/c/libc): what a
contract requires of a pointer, handle or descriptor, whether it says that the
function assigns what the pointer refers to, and which resources its cases
allocate and free.  Everything a contract says of numbers and of the contents
of strings is left out.

An argument is a record:
  kind       what the prototype takes: a buffer, a descriptor number ("FileRes")
             or a handle of a resource class
  asks       what the contract requires of it
  assigned   whether the contract assigns what it refers to
  const      whether the prototype lets the function write there
  null       whether NULL (or a number that stands for no file) is accepted
*)
EXTENDS Integers, Sequences

Asked == {"nothing", "base", "extent", "member", "alive"}

Param(kind, asks, assigned, const) ==
    [kind |-> kind, asks |-> asks, assigned |-> assigned, const |-> const, null |-> FALSE]

(*
Buffers.  A requires clause valid_ptr, valid_bytes, valid_string, valid_wchars
and the like asks that the pointer's base is alive and its extent sufficient;
an assigns clause alone only asks that the base is alive.
*)
\* (mutant) the assigns clause of a result is forgotten
OutUnassigned == Param("Memory", "extent", FALSE, FALSE)

In       == Param("Memory", "extent", FALSE, TRUE)
Out      == Param("Memory", "extent", TRUE, FALSE)
Kept     == Param("Memory", "extent", FALSE, FALSE)
Dest     == Param("Memory", "base", TRUE, FALSE)
Loose    == Param("Memory", "nothing", FALSE, TRUE)
LooseOut == Param("Memory", "nothing", FALSE, FALSE)

(*
Handles and descriptors: alive_resource(p, R), p in R, or no clause at all.  A
contract looks a descriptor number up with _mopsa_find_file_resource first.
*)
\* (mutant) alive_resource(p, R) weakened to p in R
LiveUnasked(kind) == Param(kind, "member", FALSE, TRUE)

Live(kind)   == Param(kind, "alive", FALSE, TRUE)
Member(kind) == Param(kind, "member", FALSE, TRUE)
Blank(kind)  == Param(kind, "nothing", FALSE, TRUE)

OrNull(param) == [param EXCEPT !.null = TRUE]

-----------------------------------------------------------------------------
(*
The effect of a case on resources: "on" is the position of the argument it
frees, 0 when it frees none.  A case that ensures 1 == 0 does not return.
A case says what the function returns, so the program can tell whether the
call has failed.
*)
Effect(what, on, kinds) == [what |-> what, on |-> on, kinds |-> kinds, failed |-> FALSE]

Failed(effect) == [effect EXCEPT !.failed = TRUE]

Keep                 == Effect("keep", 0, <<>>)
Fail                 == Failed(Keep)
Leave                == Effect("leave", 0, <<>>)
Make(kinds)          == Effect("make", 0, kinds)
FreeArg(i)           == Effect("free", i, <<>>)
Resize(i, kind)      == Effect("resize", i, <<kind>>)
Renew(kind)          == Effect("renew", 0, <<kind>>)
Strings(n)           == Effect("strings", 0, [i \in 1 .. n |-> "Memory"])
OpenStream           == Effect("open stream", 0, <<"FileRes", "File">>)
CloseStream          == Effect("close stream", 1, <<>>)
WrapDescriptor       == Effect("wrap descriptor", 1, <<"FileRes", "File">>)
OpenDir              == Effect("open directory", 0, <<"Dir">>)
OpenDescriptors(n)   == Effect("open", 0, [i \in 1 .. n |-> "FileRes"])
CloseDescriptor      == Effect("close", 1, <<>>)
Duplicate            == Effect("duplicate", 1, <<"FileRes">>)
DuplicateAt          == Effect("duplicate at", 2, <<"FileRes">>)

(*
The cases of a contract are joined; a call takes one of them.  A function may
do nothing when it fails (Try), or the same as when it succeeds (Always).
*)
Only(effect)   == {effect}
Try(effect)    == {Fail, effect}
Always(effect) == {Failed(effect), effect}
Keeps          == Always(Keep)

(* The contract of some functions of one shape. *)
Fn(names, params, cases) == [names |-> names, params |-> params, cases |-> cases]

=============================================================================
