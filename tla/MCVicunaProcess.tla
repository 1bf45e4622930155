-------------------------- MODULE MCVicunaProcess ---------------------------
(* Values for the constants of VicunaProcess: every output of bounded length. *)
EXTENDS VicunaProcess

CONSTANT MaxWrites

AllJobs == UNION {[1 .. n -> Streams] : n \in 0 .. MaxWrites}
=============================================================================
