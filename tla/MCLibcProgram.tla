---------------------------- MODULE MCLibcProgram ----------------------------
(* LibcProgram on a small heap. *)
EXTENDS LibcProgram, LibcDivergences

FewAddresses == 1 .. 4

=============================================================================
