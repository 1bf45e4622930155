---------------------------- MODULE OcamlRuntime ----------------------------
(***************************************************************************)
(* The concrete side: what a C stub really does to OCaml values, as the    *)
(* comments of vicuna/runtime/include/caml/ffi.h describe the runtime that *)
(* vicuna/runtime/src/ffi.c stands in for.  The OCaml collector is not     *)
(* part of the repository; this module is an external environment.         *)
(*                                                                         *)
(* A C location holds a datum: of which kind, whether it is a pointer into *)
(* the OCaml heap, whether the collector has moved (or freed) what it      *)
(* points to, and whether it was exposed: a collection happened while it   *)
(* was held by no root.                                                    *)
(***************************************************************************)
EXTENDS FfiApi

Datum ==
  [kind : Kind \union {NonValue}, heap : BOOLEAN, moved : BOOLEAN,
   exposed : BOOLEAN]

ASSUME AbsentDatumAssumption == Absent \notin Datum

Fresh(kind, heap) ==
  [kind |-> kind, heap |-> heap, moved |-> FALSE, exposed |-> FALSE]

CDatum      == Fresh(NonValue, FALSE)
HeapPointer == Fresh(NonValue, TRUE)

\* Immediates are not in the heap, all other values are.
ValueOf(k) == Fresh(k, k # Imm)

WellFormed(d) ==
  /\ d.kind \in Kind => (d.heap <=> d.kind # Imm)
  /\ d.moved => d.heap /\ d.exposed

Data == {d \in Datum : WellFormed(d)}

Memory == [Loc -> Data \union {Absent}]

Holds(m, l) == m[l] # Absent

\* The heap pointers without a root: what a collection may invalidate.
Unprotected(m, roots) == {l \in Loc \ roots : Holds(m, l) /\ m[l].heap}

\* The memory after a collection that moves what the locations of S point to.
Collected(m, roots, S) ==
  [l \in Loc |->
     IF l \in roots \/ ~Holds(m, l) THEN m[l]
     ELSE [m[l] EXCEPT !.exposed = TRUE, !.moved = @ \/ l \in S]]

\* y op z: C data that is as fragile as its operands.
Arithmetic(d, e) ==
  [kind |-> NonValue, heap |-> d.heap \/ e.heap, moved |-> d.moved \/ e.moved,
   exposed |-> d.exposed \/ e.exposed]

\* d is an OCaml value that the collector has not invalidated.
Usable(d) == d.kind # NonValue /\ ~d.moved

-----------------------------------------------------------------------------
(* How a flow describes a run.                                             *)

Agrees(e, d, isRooted, locked) ==
  /\ d.kind \in e.shape
  /\ e.root = "Rooted" => isRooted
  /\ e.root = "NotRooted" => ~isRooted
  /\ e.status = "Active" => ~d.moved
  /\ e.status = "Untracked" => ~d.heap
  /\ (~locked /\ d.heap /\ ~isRooted) => e.status \in {"Stale", TOP}

Describes(env, m, r, h) ==
  \A l \in Loc :
    Holds(m, l) => env[l] # Absent /\ Agrees(env[l], m[l], l \in r, h)

Sim(f, m, r, h) ==
  /\ f.reach
  /\ f.lock \in {TOP, IF h THEN "Locked" ELSE "Unlocked"}
  /\ Describes(f.env, m, r, h)

-----------------------------------------------------------------------------
(* How an attempt goes: in order, each thing it needs. *)

Legal(ok) == IF ok THEN "ok" ELSE "misuse"

Then(a, b) == IF a = "ok" THEN b ELSE a
=============================================================================
