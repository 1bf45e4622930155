--------------------------- MODULE FileDescriptors ---------------------------
(*
The abstraction of Unix file descriptors (libs/libc/file_descriptor): for the
numbers below Window a slot says whether the number may be free and which heap
addresses may hold it; an address that may hold a larger number is mapped by
the table to an interval of numbers, and the table keeps a set of addresses
that certainly hold one (its support).

An interval is the set of its members; an address the table does not map has
the empty interval.  The top elements, which no operation builds, and the
widening of the intervals are left out.
*)
EXTENDS Integers, FiniteSets

CONSTANTS
    Address,      \* heap addresses of FileRes resources
    None,         \* no address: NULL
    Window,       \* the numbers below it have a slot
    MaxId         \* bound: the largest number the kernel gives out

ASSUME WindowAssumption == Window \in Nat
ASSUME KernelAssumption == MaxId \in Nat /\ Window <= MaxId + 1
ASSUME NoneAssumption == None \notin Address

Id == 0 .. (Window - 1)

Number == 0 .. MaxId

-----------------------------------------------------------------------------
(* Intervals. *)

Hull(S) == UNION { i .. j : i \in S, j \in S }

IsBound(n, S) == n \in S /\ ((\A m \in S : n <= m) \/ (\A m \in S : m <= n))

-----------------------------------------------------------------------------
(* Slots: Bot, Free, NotFree A and MaybeFree A are the four kinds of record. *)

Slot == [free : BOOLEAN, addrs : SUBSET Address]

Bot == [free |-> FALSE, addrs |-> {}]

Free == [free |-> TRUE, addrs |-> {}]

\* (mutant) a joined slot may be free only if both are
SlotJoinTaken(s, t) == [free |-> s.free /\ t.free, addrs |-> s.addrs \cup t.addrs]

SlotJoin(s, t) == [free |-> s.free \/ t.free, addrs |-> s.addrs \cup t.addrs]

(* The slot once the address took it, and the slot if it was not free. *)
Inserted(a, s) == IF s.free THEN [free |-> FALSE, addrs |-> s.addrs \cup {a}] ELSE Bot

NotInserted(s) == [free |-> FALSE, addrs |-> s.addrs]

SlotAdd(a, s) == IF s = Bot THEN Bot ELSE [free |-> FALSE, addrs |-> s.addrs \cup {a}]

\* (mutant) the address stays in the slot it leaves
SlotRemoveKept(a, s) ==
    IF a \in s.addrs THEN [free |-> TRUE, addrs |-> s.addrs] ELSE s

SlotRemove(a, s) ==
    IF a \in s.addrs THEN [free |-> TRUE, addrs |-> s.addrs \ {a}] ELSE s

-----------------------------------------------------------------------------
(* The abstract state. *)

Descriptors ==
    [slots : [Id -> Slot], table : [Address -> SUBSET Nat], support : SUBSET Address]

NoDescriptors ==
    [slots |-> [i \in Id |-> Free], table |-> [a \in Address |-> {}], support |-> {}]

(*
What a state says of the kernel's table of open files (the example in
domain.ml's header).
*)
Describes(d, kernel) ==
    \A n \in DOMAIN kernel :
        IF kernel[n] = None THEN n < Window => d.slots[n].free
        ELSE IF n < Window THEN kernel[n] \in d.slots[n].addrs
        ELSE n \in d.table[kernel[n]]

(* Each address of the support is the file of some number above the window. *)
Supported(d, kernel) ==
    \A a \in d.support : \E n \in Number : n >= Window /\ kernel[n] = a

Impossible(d) == \E i \in Id : d.slots[i] = Bot

\* (mutant) the supports are joined like the tables
JoinSupports(d, e) ==
    [slots |-> [i \in Id |-> SlotJoin(d.slots[i], e.slots[i])],
     table |-> [a \in Address |-> Hull(d.table[a] \cup e.table[a])],
     support |-> d.support \cup e.support]

Join(d, e) ==
    [slots |-> [i \in Id |-> SlotJoin(d.slots[i], e.slots[i])],
     table |-> [a \in Address |-> Hull(d.table[a] \cup e.table[a])],
     support |-> d.support \cap e.support]

-----------------------------------------------------------------------------
(*
Registering an address under the lowest free number.  The walk over the slots
stops at the first one that is certainly free; every slot it passed was taken.
The case that inserts at slot i keeps what the walk made of the later slots.
*)
Walked(i, d) == \A j \in 0 .. (i - 1) : NotInserted(d.slots[j]) # Bot

Passed(d) ==
    [d EXCEPT !.slots =
        [i \in Id |-> IF Walked(i, d) THEN NotInserted(d.slots[i]) ELSE d.slots[i]]]

InsertFirst(a, d, i) == [Passed(d) EXCEPT !.slots[i] = Inserted(a, d.slots[i])]

(*
The numbers the table hands out: from Window to one past the last that may be
taken, less those of the support.  A support interval is taken away only when
it is a single number at an end of what is left.  The sort before the fold
compares an interval with itself, so nothing fixes the order: the ends of the
first interval go, what they uncover may go or stay.
*)
Allocated(d) == Hull(UNION { d.table[a] : a \in Address })

\* (mutant) the number after the last one taken is never handed out
CandidatesShort(d) ==
    IF Allocated(d) = {} THEN {Window} ELSE UNION { Window .. m : m \in Allocated(d) }

\* (mutant) the table starts below the window, and below zero when it is small
CandidatesEarly(d) ==
    IF Allocated(d) = {} THEN {Window} ELSE UNION { (Window - 2) .. m + 1 : m \in Allocated(d) }

Candidates(d) ==
    IF Allocated(d) = {} THEN {Window} ELSE UNION { Window .. m + 1 : m \in Allocated(d) }

Taken(d) == { n \in Candidates(d) : \E a \in d.support : d.table[a] = {n} }

Handed(d) ==
    { rest \in SUBSET Candidates(d) :
        /\ rest = Hull(rest)
        /\ Candidates(d) \ rest \subseteq Taken(d)
        /\ \A n \in Taken(d) : IsBound(n, Candidates(d)) => n \notin rest }

\* (mutant) the table is not told the numbers of the address
InsertOtherUnmapped(a, d, ids) == [Passed(d) EXCEPT !.support = @ \cup {a}]

InsertOther(a, d, ids) ==
    [Passed(d) EXCEPT !.table[a] = ids, !.support = @ \cup {a}]

(*
The cases of a registration, each with the numbers it may return; a case whose
state is impossible is dropped.  The statement ends with their join.
*)
Registrations(a, d, ids) ==
    { c \in { [ids |-> {i}, state |-> InsertFirst(a, d, i)] :
                 i \in { j \in Id : Walked(j, d) /\ d.slots[j].free } }
             \cup (IF ids = {} THEN {} ELSE {[ids |-> ids, state |-> InsertOther(a, d, ids)]}) :
        ~Impossible(c.state) }

JoinAll(states) ==
    [slots |-> [i \in Id |-> [free |-> \E e \in states : e.slots[i].free,
                             addrs |-> UNION { e.slots[i].addrs : e \in states }]],
     table |-> [a \in Address |-> Hull(UNION { e.table[a] : e \in states })],
     support |-> { a \in Address : \A e \in states : a \in e.support }]

Register(a, d, ids) == JoinAll({ c.state : c \in Registrations(a, d, ids) })

Answers(a, d, ids) == UNION { c.ids : c \in Registrations(a, d, ids) }

(* Registering an address under a given number. *)
RegisterAt(a, n, d) ==
    IF n < Window
    THEN [d EXCEPT !.slots[n] = SlotAdd(a, @)]
    ELSE [d EXCEPT !.table[a] = Hull(@ \cup {n}), !.support = @ \cup {a}]

(*
The addresses a number may stand for, None when it may stand for none.  A slot
with addresses answers for its number alone, whether or not it may be free.
*)
MayDiffer(n, S) == S # {n}

Find(n, d) ==
    IF n \in Id /\ d.slots[n].addrs # {}
    THEN d.slots[n].addrs
    ELSE { a \in Address : n \in d.table[a] }
         \cup { x \in {None} : \A a \in Address : MayDiffer(n, d.table[a]) }

(* An address that is freed leaves every slot and the table. *)
RemoveAddr(a, d) ==
    [slots |-> [i \in Id |-> SlotRemove(a, d.slots[i])],
     table |-> [d.table EXCEPT ![a] = {}],
     support |-> d.support \ {a}]

=============================================================================
