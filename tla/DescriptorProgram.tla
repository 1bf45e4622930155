-------------------------- MODULE DescriptorProgram --------------------------
(*
A program that opens, uses, duplicates and closes descriptors, beside the
state the descriptor domain computes for it.  The kernel gives out the lowest
free number (external); the analysis only sees the contracts of open, close,
dup2 and read.

The cases of a contract stay apart while the program tests the result, so the
analysis follows the success that the run has.  A conditional whose first
branch is the block between Branch and Merge and whose second branch is empty
brings two flows together; so does a call whose result is not tested at once,
which is Branch, the call, Merge.  The cases that only the analysis tells apart
(where an address is registered, which address a number stands for) are joined
at the end of the statement.
*)
EXTENDS FileDescriptors

CONSTANTS
    MaxAnswer,    \* bound: the largest number the analysis hands out
    Branches      \* bound: the conditionals a run goes through

ASSUME AnswerAssumption == MaxAnswer \in Nat
ASSUME BranchesAssumption == Branches \in Nat

VARIABLES
    kernel,       \* the address of the open file each number stands for
    pool,         \* the addresses the heap domain knows
    analysis,     \* the state of the descriptor domain
    saved,        \* at most one flow that waits for the end of the conditional
    branched,     \* the conditionals so far
    answer        \* what the last call returned, and what the analysis said

vars == <<kernel, pool, analysis, saved, branched, answer>>

Flow == [kernel : [Number -> Address \cup {None}], pool : SUBSET Address,
         analysis : Descriptors]

Silent == [real |-> None, said |-> {None}]

Init ==
    /\ kernel = [n \in Number |-> None]
    /\ pool = {}
    /\ analysis = NoDescriptors
    /\ saved = {}
    /\ branched = 0
    /\ answer = Silent

Lowest(n) == kernel[n] = None /\ \A m \in 0 .. (n - 1) : kernel[m] # None

(*
The success case of open: a FileRes at a site with no live address takes the
lowest number.  The failure case changes nothing.
*)
Open(a) ==
    /\ a \notin pool
    /\ \E n \in Number :
        /\ Lowest(n)
        /\ kernel' = [kernel EXCEPT ![n] = a]
        /\ \E ids \in Handed(analysis) :
            /\ \A m \in ids : m <= MaxAnswer
            /\ analysis' = Register(a, analysis, ids)
            /\ answer' = [real |-> n, said |-> Answers(a, analysis, ids)]
    /\ pool' = pool \cup {a}
    /\ UNCHANGED <<saved, branched>>

(*
dup2 onto the number n.  The newfd case registers a new resource at n if n may
be closed, the reopen case changes nothing.
*)
DupOnto(a, n) ==
    /\ a \notin pool
    /\ None \in Find(n, analysis)
    /\ kernel' = IF kernel[n] = None THEN [kernel EXCEPT ![n] = a] ELSE kernel
    /\ analysis' = IF Find(n, analysis) = {None}
                   THEN RegisterAt(a, n, analysis)
                   ELSE Join(RegisterAt(a, n, analysis), analysis)
    /\ pool' = pool \cup {a}
    /\ answer' = Silent
    /\ UNCHANGED <<saved, branched>>

(*
The success case of close on an open number frees each resource the number may
stand for; one that is freed on every path leaves the pool.
*)
Close(n) ==
    /\ kernel[n] # None
    /\ kernel' = [kernel EXCEPT ![n] = None]
    /\ LET targets == Find(n, analysis) \ {None}
       IN  /\ analysis' = JoinAll({ RemoveAddr(a, analysis) : a \in targets })
           /\ pool' = UNION { pool \ {a} : a \in targets }
    /\ answer' = Silent
    /\ UNCHANGED <<saved, branched>>

(* Any call that takes a descriptor looks it up first. *)
Use(n) ==
    /\ kernel[n] # None
    /\ answer' = [real |-> kernel[n], said |-> Find(n, analysis)]
    /\ UNCHANGED <<kernel, pool, analysis, saved, branched>>

Branch ==
    /\ branched < Branches
    /\ branched' = branched + 1
    /\ saved = {}
    /\ saved' = {[kernel |-> kernel, pool |-> pool, analysis |-> analysis]}
    /\ answer' = Silent
    /\ UNCHANGED <<kernel, pool, analysis>>

(* The run took the block, or it took the empty branch. *)
Merge ==
    \E f \in saved :
        /\ kernel' \in {kernel, f.kernel}
        /\ pool' = pool \cup f.pool
        /\ analysis' = Join(analysis, f.analysis)
        /\ saved' = {}
        /\ answer' = Silent
        /\ UNCHANGED branched

Next ==
    \/ \E a \in Address : Open(a)
    \/ \E a \in Address, n \in Number : DupOnto(a, n)
    \/ \E n \in Number : Close(n)
    \/ \E n \in Number : Use(n)
    \/ Branch
    \/ Merge

Spec == Init /\ [][Next]_vars

-----------------------------------------------------------------------------
(*
The kernel's table, the pool and the abstract state keep their types: the
domain never builds an ill-formed slot or interval (domain.ml, type t).
*)
TypeOK ==
    /\ kernel \in [Number -> Address \cup {None}]
    /\ pool \subseteq Address
    /\ analysis \in Descriptors
    /\ saved \subseteq Flow
    /\ branched \in 0 .. Branches

(*
An open number below the window is in a slot that has its address, a closed
one is in a slot that may be free, and an open number above the window is in
the interval of its address: the reading domain.ml's header gives of the
abstract state, which every find and every registration relies on.
*)
DescriptorsDescribed == Describes(analysis, kernel)

(*
The support is an under-approximation: each of its addresses is the file of
some number above the window (table.ml, support).  A number that the support
takes away from a registration would otherwise be one the kernel may give out.
*)
SupportIsOpen == Supported(analysis, kernel)

(*
What open returns is among the numbers the analysis returned for it, and the
file of a number is among the addresses that a lookup of the number gives.
*)
AnswerDescribed == answer.real \in answer.said

=============================================================================
