------------------------- MODULE MCDescriptorProgram -------------------------
(* Small instances of DescriptorProgram: a few interchangeable sites. *)
EXTENDS DescriptorProgram, LibcDivergences, TLC

Sites == Permutations(Address)

(*
The hypothesis of LibcProgram_proofs, over every function that LibcDivergences
does not list.  It is evaluated apart from the run of LibcProgram, which shows
what becomes of a program where it fails.
*)
Libc == INSTANCE LibcJobs WITH Avoided <- AvoidedFunctions, Unfollowed <- UnfollowedOutcomes

ASSUME AgreementAssumption == Libc!ContractsAgree

=============================================================================
