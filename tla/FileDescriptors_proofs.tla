------------------------ MODULE FileDescriptors_proofs ------------------------
(*
What the operators of the descriptor domain preserve, for every set of
addresses, every window and every number of descriptors: the state describes
the kernel's table after a registration, a removal, a duplication and a join.
*)
EXTENDS FileDescriptors, TLAPS

Kernels == [Number -> Address \cup {None}]

-----------------------------------------------------------------------------
(* What a state is to a kernel, and to a pool of addresses in use. *)

(* A file has one number. *)
Distinct(k) == \A m, n \in Number : k[m] = k[n] /\ k[m] # None => m = n

(* The open files are in the pool, and so is what the state mentions. *)
Known(k, p) == \A n \in Number : k[n] # None => k[n] \in p

Within(d, p) ==
    /\ \A i \in Id : d.slots[i].addrs \subseteq p
    /\ \A a \in Address : d.table[a] # {} => a \in p
    /\ d.support \subseteq p

Above(d) == \A a \in Address : \A n \in d.table[a] : n >= Window

Good(k, d, p) ==
    /\ Describes(d, k)
    /\ Supported(d, k)
    /\ Distinct(k)
    /\ Known(k, p)
    /\ Within(d, p)
    /\ Above(d)

(*
Without merged flows a slot knows whether it is taken, and by whom.  A
registration loses a case when a slot that may be free and may be taken has
slots after it; merged flows give such slots (run descriptors_merged).
*)
Sharp(d) ==
    \A i \in Id :
        /\ d.slots[i].free => d.slots[i].addrs = {}
        /\ \A a, b \in d.slots[i].addrs : a = b
        /\ \A a \in d.slots[i].addrs : d.table[a] = {}

(*
Without merged flows and without duplications onto a number that may be open,
an address of the table certainly holds a number.
*)
Placed(d) == \A a \in Address : d.table[a] # {} => a \in d.support

-----------------------------------------------------------------------------
(* Intervals. *)

(* An interval contains what it was built from, and nothing below it. *)
LEMMA HullContains ==
    ASSUME NEW S \in SUBSET Nat
    PROVE  S \subseteq Hull(S) /\ Hull(S) \in SUBSET Nat
BY DEF Hull

LEMMA HullBounded ==
    ASSUME NEW S \in SUBSET Nat, NEW w \in Nat, \A n \in S : n >= w
    PROVE  \A n \in Hull(S) : n >= w
BY DEF Hull

LEMMA HullEmpty == Hull({}) = {}
BY DEF Hull

LEMMA HullNonempty ==
    ASSUME NEW S, Hull(S) # {}
    PROVE  S # {}
BY DEF Hull

-----------------------------------------------------------------------------
(* Joins. *)

(* The join of two states is that of the set of both. *)
LEMMA JoinIsJoinAll ==
    ASSUME NEW d \in Descriptors, NEW e \in Descriptors
    PROVE  Join(d, e) = JoinAll({d, e})
<1>1. ASSUME NEW i \in Id
      PROVE  SlotJoin(d.slots[i], e.slots[i]) =
                 [free |-> \E x \in {d, e} : x.slots[i].free,
                  addrs |-> UNION { x.slots[i].addrs : x \in {d, e} }]
  <2>1. UNION { x.slots[i].addrs : x \in {d, e} } = d.slots[i].addrs \cup e.slots[i].addrs
    OBVIOUS
  <2>2. (\E x \in {d, e} : x.slots[i].free) = (d.slots[i].free \/ e.slots[i].free)
    OBVIOUS
  <2> QED
    BY <2>1, <2>2 DEF SlotJoin
<1>2. ASSUME NEW a \in Address
      PROVE  UNION { x.table[a] : x \in {d, e} } = d.table[a] \cup e.table[a]
  OBVIOUS
<1>3. { a \in Address : \A x \in {d, e} : a \in x.support } = d.support \cap e.support
  BY DEF Descriptors
<1> QED
  BY <1>1, <1>2, <1>3 DEF Join, JoinAll

LEMMA JoinAllType ==
    ASSUME NEW states \in SUBSET Descriptors
    PROVE  JoinAll(states) \in Descriptors
<1>1. ASSUME NEW a \in Address
      PROVE  Hull(UNION { e.table[a] : e \in states }) \in SUBSET Nat
  BY HullContains DEF Descriptors
<1>2. ASSUME NEW i \in Id
      PROVE  [free |-> \E e \in states : e.slots[i].free,
              addrs |-> UNION { e.slots[i].addrs : e \in states }] \in Slot
  BY DEF Slot, Descriptors
<1> QED
  BY <1>1, <1>2 DEF JoinAll, Descriptors

(* The table of a join has what the table of each part has. *)
LEMMA JoinAllTable ==
    ASSUME NEW states \in SUBSET Descriptors, NEW e \in states, NEW a \in Address
    PROVE  e.table[a] \subseteq JoinAll(states).table[a]
<1>1. UNION { f.table[a] : f \in states } \in SUBSET Nat
  BY DEF Descriptors
<1> QED
  BY <1>1, HullContains DEF JoinAll

(* A join describes what one of its parts describes (domain.ml, join). *)
LEMMA JoinAllDescribes ==
    ASSUME NEW states \in SUBSET Descriptors, NEW e \in states, NEW k \in Kernels,
           Describes(e, k), Supported(e, k)
    PROVE  Describes(JoinAll(states), k) /\ Supported(JoinAll(states), k)
<1> USE WindowAssumption, KernelAssumption, NoneAssumption
<1>1. ASSUME NEW n \in Number
      PROVE  IF k[n] = None THEN n < Window => JoinAll(states).slots[n].free
             ELSE IF n < Window THEN k[n] \in JoinAll(states).slots[n].addrs
             ELSE n \in JoinAll(states).table[k[n]]
  <2>1. n \in DOMAIN k
    BY DEF Kernels
  <2>2. CASE n < Window
    <3>1. n \in Id
      BY <2>2 DEF Id, Number
    <3> QED
      BY <2>1, <2>2, <3>1 DEF Describes, JoinAll
  <2>3. CASE ~(n < Window) /\ k[n] # None
    <3>1. k[n] \in Address /\ n \in e.table[k[n]]
      BY <2>1, <2>3 DEF Describes, Kernels
    <3> QED
      BY <2>3, <3>1, JoinAllTable
  <2> QED
    BY <2>2, <2>3
<1>2. DOMAIN k = Number
  BY DEF Kernels
<1>3. JoinAll(states).support \subseteq e.support
  BY DEF JoinAll
<1> QED
  BY <1>1, <1>2, <1>3 DEF Describes, Supported

LEMMA JoinAllKeeps ==
    ASSUME NEW states \in SUBSET Descriptors, states # {}, NEW p,
           \A e \in states : Within(e, p) /\ Above(e)
    PROVE  Within(JoinAll(states), p) /\ Above(JoinAll(states))
<1>1. ASSUME NEW a \in Address, JoinAll(states).table[a] # {}
      PROVE  a \in p
  <2>1. UNION { e.table[a] : e \in states } # {}
    BY <1>1, HullNonempty DEF JoinAll
  <2> QED
    BY <2>1 DEF Within
<1>2. ASSUME NEW a \in Address
      PROVE  \A n \in JoinAll(states).table[a] : n >= Window
  <2>1. /\ UNION { e.table[a] : e \in states } \in SUBSET Nat
        /\ \A n \in UNION { e.table[a] : e \in states } : n >= Window
    BY DEF Above, Descriptors
  <2> QED
    BY <2>1, HullBounded, WindowAssumption DEF JoinAll
<1>3. \A i \in Id : JoinAll(states).slots[i].addrs \subseteq p
  BY DEF JoinAll, Within
<1>4. JoinAll(states).support \subseteq p
  BY DEF JoinAll, Within
<1> QED
  BY <1>1, <1>2, <1>3, <1>4 DEF Within, Above

(* States with the same slots, whose addresses are in no table, stay sharp. *)
LEMMA JoinAllSharp ==
    ASSUME NEW states \in SUBSET Descriptors, NEW e \in states,
           \A f \in states : f.slots = e.slots /\ Sharp(f)
    PROVE  Sharp(JoinAll(states))
<1>1. ASSUME NEW i \in Id
      PROVE  /\ JoinAll(states).slots[i].free = e.slots[i].free
             /\ JoinAll(states).slots[i].addrs = e.slots[i].addrs
  <2>1. (\E f \in states : f.slots[i].free) = e.slots[i].free
    BY DEF Descriptors, Slot
  <2>2. UNION { f.slots[i].addrs : f \in states } = e.slots[i].addrs
    OBVIOUS
  <2> QED
    BY <2>1, <2>2 DEF JoinAll
<1>2. ASSUME NEW i \in Id, NEW a \in e.slots[i].addrs
      PROVE  JoinAll(states).table[a] = {}
  <2>1. a \in Address
    BY DEF Descriptors, Slot
  <2>2. UNION { f.table[a] : f \in states } = {}
    BY DEF Sharp
  <2> QED
    BY <2>1, <2>2, HullEmpty DEF JoinAll
<1> QED
  BY <1>1, <1>2 DEF Sharp

-----------------------------------------------------------------------------
(* Lookups. *)

(* The file of an open number is among what a lookup finds (domain.ml, find_addr). *)
LEMMA FindSound ==
    ASSUME NEW d \in Descriptors, NEW k \in Kernels, NEW n \in Number,
           Describes(d, k), k[n] # None
    PROVE  k[n] \in Find(n, d) \ {None}
<1>1. n \in DOMAIN k /\ k[n] \in Address
  BY DEF Kernels
<1>2. CASE n < Window
  <2>1. n \in Id /\ k[n] \in d.slots[n].addrs
    BY <1>1, <1>2, WindowAssumption DEF Describes, Id, Number
  <2> QED
    BY <2>1 DEF Find
<1>3. CASE ~(n < Window)
  BY <1>1, <1>3, WindowAssumption DEF Describes, Find, Id, Number
<1> QED
  BY <1>2, <1>3

LEMMA FindType ==
    ASSUME NEW d \in Descriptors, NEW n
    PROVE  Find(n, d) \in SUBSET (Address \cup {None})
BY DEF Find, Descriptors, Slot

(* A lookup of a closed number may find none (domain.ml, find_addr). *)
LEMMA FindClosed ==
    ASSUME NEW d \in Descriptors, NEW k \in Kernels, NEW p, Good(k, d, p), Sharp(d), Placed(d),
           NEW n \in Number, k[n] = None
    PROVE  None \in Find(n, d)
<1>1. \A m \in Number : m \in DOMAIN k
  BY DEF Kernels
<1>2. CASE n < Window
  <2>1. n \in Id /\ d.slots[n].free
    BY <1>1, <1>2, WindowAssumption DEF Good, Describes, Id, Number
  <2>2. \A a \in Address : n \notin d.table[a]
    BY <1>2, WindowAssumption DEF Good, Above, Number, Descriptors
  <2>3. \A a \in Address : MayDiffer(n, d.table[a])
    BY <2>2 DEF MayDiffer
  <2>4. d.slots[n].addrs = {}
    BY <2>1 DEF Sharp
  <2> QED
    BY <2>3, <2>4 DEF Find
<1>3. CASE ~(n < Window)
  <2>1. n \notin Id
    BY <1>3, WindowAssumption DEF Id, Number
  <2>2. ASSUME NEW a \in Address, d.table[a] = {n}
        PROVE  FALSE
    <3>1. a \in d.support
      BY <2>2 DEF Placed
    <3>2. PICK m \in Number : m >= Window /\ k[m] = a
      BY <3>1 DEF Good, Supported
    <3>3. m \in d.table[a]
      BY <1>1, <3>2, NoneAssumption, WindowAssumption DEF Good, Describes, Number
    <3> QED
      BY <2>2, <3>2, <3>3, NoneAssumption
  <2>3. \A a \in Address : MayDiffer(n, d.table[a])
    BY <2>2 DEF MayDiffer
  <2> QED
    BY <2>1, <2>3 DEF Find
<1>4. n < Window \/ ~(n < Window)
  OBVIOUS
<1> QED
  BY <1>2, <1>3, <1>4

-----------------------------------------------------------------------------
(* Registrations. *)

LEMMA NotInsertedShape ==
    ASSUME NEW s \in Slot
    PROVE  NotInserted(s) = [free |-> FALSE, addrs |-> s.addrs]
BY DEF NotInserted

LEMMA PassedType ==
    ASSUME NEW d \in Descriptors
    PROVE  /\ Passed(d) \in Descriptors
           /\ Passed(d).table = d.table
           /\ Passed(d).support = d.support
           /\ \A i \in Id : Passed(d).slots[i] =
                  IF Walked(i, d) THEN NotInserted(d.slots[i]) ELSE d.slots[i]
<1>1. \A i \in Id : d.slots[i] \in Slot /\ NotInserted(d.slots[i]) \in Slot
  BY DEF Descriptors, NotInserted, Slot
<1> QED
  BY <1>1 DEF Passed, Descriptors

LEMMA InsertFirstType ==
    ASSUME NEW d \in Descriptors, NEW a \in Address, NEW i \in Id
    PROVE  /\ InsertFirst(a, d, i) \in Descriptors
           /\ InsertFirst(a, d, i).table = d.table
           /\ InsertFirst(a, d, i).support = d.support
           /\ InsertFirst(a, d, i).slots[i] = Inserted(a, d.slots[i])
           /\ \A j \in Id \ {i} : InsertFirst(a, d, i).slots[j] = Passed(d).slots[j]
<1>1. Inserted(a, d.slots[i]) \in Slot
  BY DEF Inserted, Bot, Slot, Descriptors
<1>2. Passed(d) \in [slots : [Id -> Slot], table : [Address -> SUBSET Nat],
                     support : SUBSET Address]
  BY PassedType DEF Descriptors
<1> QED
  BY <1>1, <1>2, PassedType DEF InsertFirst, Descriptors

LEMMA InsertOtherType ==
    ASSUME NEW d \in Descriptors, NEW a \in Address, NEW ids \in SUBSET Nat
    PROVE  /\ InsertOther(a, d, ids) \in Descriptors
           /\ InsertOther(a, d, ids).slots = Passed(d).slots
           /\ InsertOther(a, d, ids).table = [d.table EXCEPT ![a] = ids]
           /\ InsertOther(a, d, ids).support = d.support \cup {a}
<1>1. Passed(d) \in [slots : [Id -> Slot], table : [Address -> SUBSET Nat],
                     support : SUBSET Address]
  BY PassedType DEF Descriptors
<1> QED
  BY <1>1, PassedType DEF InsertOther, Descriptors

(* The slots a registration passes over keep their addresses. *)
LEMMA PassedAddrs ==
    ASSUME NEW d \in Descriptors, NEW j \in Id
    PROVE  Passed(d).slots[j].addrs = d.slots[j].addrs
<1>1. d.slots[j] \in Slot
  BY DEF Descriptors
<1>2. NotInserted(d.slots[j]).addrs = d.slots[j].addrs
  BY <1>1, NotInsertedShape
<1>3. Passed(d).slots[j] = IF Walked(j, d) THEN NotInserted(d.slots[j]) ELSE d.slots[j]
  BY PassedType
<1> QED
  BY <1>2, <1>3

(* The numbers handed out are above the window (table.ml, insert). *)
LEMMA HandedAbove ==
    ASSUME NEW d \in Descriptors, Above(d), NEW ids \in Handed(d)
    PROVE  /\ ids \in SUBSET Nat
           /\ \A n \in ids : n >= Window
<1> USE WindowAssumption
<1>1. Allocated(d) \in SUBSET Nat
  BY HullContains DEF Allocated, Descriptors
<1>2. Candidates(d) \in SUBSET Nat /\ \A n \in Candidates(d) : n >= Window
  <2>1. CASE Allocated(d) = {}
    BY <2>1 DEF Candidates
  <2>2. CASE Allocated(d) # {}
    <3>1. \A m \in Allocated(d) : Window .. m + 1 \in SUBSET Nat
      BY <1>1
    <3>2. \A m \in Allocated(d) : \A n \in Window .. m + 1 : n >= Window
      BY <1>1
    <3> QED
      BY <2>2, <3>1, <3>2 DEF Candidates
  <2> QED
    BY <2>1, <2>2
<1> QED
  BY <1>2 DEF Handed

LEMMA RegistrationShape ==
    ASSUME NEW d, NEW a, NEW ids, NEW c \in Registrations(a, d, ids)
    PROVE  /\ ~Impossible(c.state)
           /\ \/ \E i \in Id : /\ Walked(i, d)
                               /\ d.slots[i].free
                               /\ c = [ids |-> {i}, state |-> InsertFirst(a, d, i)]
              \/ ids # {} /\ c = [ids |-> ids, state |-> InsertOther(a, d, ids)]
BY DEF Registrations

LEMMA RegistrationType ==
    ASSUME NEW d \in Descriptors, NEW a \in Address, NEW ids \in SUBSET Nat,
           NEW c \in Registrations(a, d, ids)
    PROVE  c.state \in Descriptors
<1>1. ASSUME NEW i \in Id, c = [ids |-> {i}, state |-> InsertFirst(a, d, i)]
      PROVE  c.state \in Descriptors
  BY <1>1, InsertFirstType
<1>2. ASSUME c = [ids |-> ids, state |-> InsertOther(a, d, ids)]
      PROVE  c.state \in Descriptors
  BY <1>2, InsertOtherType
<1> QED
  BY <1>1, <1>2, RegistrationShape

(* Every slot before the lowest free number was taken. *)
LEMMA WalkedTaken ==
    ASSUME NEW d \in Descriptors, NEW k \in Kernels, NEW n \in Number,
           Describes(d, k), \A m \in 0 .. (n - 1) : k[m] # None,
           NEW i \in Nat, i <= n, i <= Window
    PROVE  Walked(i, d)
<1> USE WindowAssumption, KernelAssumption
<1>1. ASSUME NEW j \in 0 .. (i - 1)
      PROVE  NotInserted(d.slots[j]) # Bot
  <2>1. j \in Id /\ j \in DOMAIN k /\ j < Window /\ k[j] # None
    BY <1>1 DEF Id, Number, Kernels
  <2>2. k[j] \in d.slots[j].addrs /\ d.slots[j] \in Slot
    BY <2>1 DEF Describes, Descriptors
  <2> QED
    BY <2>2 DEF NotInserted, Bot, Slot
<1> QED
  BY <1>1 DEF Walked

(* A slot that may be free and has no address stops the walk. *)
LEMMA WalkStops ==
    ASSUME NEW d \in Descriptors, NEW i \in Id, NEW j \in Id, i < j,
           d.slots[i].free, d.slots[i].addrs = {}
    PROVE  ~Walked(j, d)
<1>1. i \in 0 .. (j - 1)
  BY WindowAssumption DEF Id
<1>2. NotInserted(d.slots[i]) = Bot
  <2>1. d.slots[i] \in [free : BOOLEAN, addrs : SUBSET Address]
    BY DEF Descriptors, Slot
  <2>2. NotInserted(d.slots[i]) = [free |-> FALSE, addrs |-> d.slots[i].addrs]
    BY <2>1, NotInsertedShape DEF Slot
  <2> QED
    BY <2>2 DEF Bot
<1> QED
  BY <1>1, <1>2 DEF Walked

(* Where a registration puts the address, the state still describes the kernel. *)
LEMMA InsertFirstDescribes ==
    ASSUME NEW d \in Descriptors, NEW k \in Kernels, NEW n \in Number, NEW a \in Address,
           Describes(d, k), Supported(d, k), Sharp(d) \/ Window <= 1,
           k[n] = None, \A m \in 0 .. (n - 1) : k[m] # None, n < Window
    PROVE  LET e == InsertFirst(a, d, n) IN
           /\ Walked(n, d) /\ d.slots[n].free
           /\ ~Impossible(e)
           /\ Describes(e, [k EXCEPT ![n] = a])
           /\ Supported(e, [k EXCEPT ![n] = a])
<1> USE WindowAssumption, KernelAssumption, NoneAssumption
<1> DEFINE e == InsertFirst(a, d, n)
           l == [k EXCEPT ![n] = a]
<1>1. n \in Id /\ n \in DOMAIN k /\ Id \subseteq Number
  BY DEF Id, Number, Kernels
<1>2. Walked(n, d) /\ d.slots[n].free
  BY <1>1, WalkedTaken DEF Describes, Number
<1>3. e.slots[n] = [free |-> FALSE, addrs |-> d.slots[n].addrs \cup {a}]
  BY <1>1, <1>2, InsertFirstType DEF Inserted
<1>4. ASSUME NEW j \in Id, j < n
      PROVE  e.slots[j].addrs = d.slots[j].addrs /\ k[j] \in d.slots[j].addrs
  <2>1. j \in Id \ {n}
    BY <1>4 DEF Id
  <2>2. e.slots[j] = Passed(d).slots[j]
    BY <2>1, <1>1, InsertFirstType
  <2>3. Passed(d).slots[j].addrs = d.slots[j].addrs
    BY PassedAddrs
  <2>4. j \in DOMAIN k /\ k[j] # None /\ j < Window
    BY <1>1, <1>4 DEF Id, Kernels
  <2> QED
    BY <2>2, <2>3, <2>4 DEF Describes
<1>5. ASSUME NEW j \in Id, n < j
      PROVE  e.slots[j] = d.slots[j]
  <2>1. Sharp(d)
    BY <1>5 DEF Id, Number
  <2>2. d.slots[n].addrs = {}
    BY <2>1, <1>1, <1>2 DEF Sharp
  <2>3. ~Walked(j, d)
    BY <2>2, <1>1, <1>2, <1>5, WalkStops
  <2> QED
    BY <2>3, <1>1, <1>5, InsertFirstType, PassedType DEF Id
<1>6. ASSUME NEW j \in Id
      PROVE  /\ e.slots[j] # Bot
             /\ IF l[j] = None THEN e.slots[j].free ELSE l[j] \in e.slots[j].addrs
  <2>1. j \in Number /\ j \in DOMAIN k /\ j < Window
    BY <1>1 DEF Id, Kernels
  <2>2. CASE j = n
    BY <2>1, <2>2, <1>3 DEF Bot, Kernels
  <2>3. CASE j < n
    <3>1. l[j] = k[j] /\ k[j] # None
      BY <2>3, <2>1, <1>1 DEF Kernels, Id
    <3> QED
      BY <1>4, <2>3, <3>1 DEF Bot
  <2>4. CASE n < j
    <3>1. l[j] = k[j] /\ e.slots[j] = d.slots[j]
      <4>1. l[j] = k[j]
        BY <2>4, <2>1, <1>1 DEF Id
      <4> QED
        BY <2>4, <4>1, <1>5
    <3>2. IF k[j] = None THEN d.slots[j].free ELSE k[j] \in d.slots[j].addrs
      BY <2>1 DEF Describes
    <3> QED
      BY <3>1, <3>2 DEF Bot
  <2> QED
    BY <2>2, <2>3, <2>4 DEF Id, Number
<1>7. ASSUME NEW m \in Number, m >= Window
      PROVE  l[m] = k[m] /\ (k[m] # None => m \in e.table[k[m]])
  <2>1. e.table = d.table
    BY <1>1, InsertFirstType
  <2>2. m # n /\ m \in DOMAIN k
    BY <1>7 DEF Number, Kernels
  <2> QED
    BY <2>1, <2>2, <1>7 DEF Describes, Kernels, Number
<1>8. ~Impossible(e)
  BY <1>6 DEF Impossible
<1>9. Describes(e, l)
  <2>1. DOMAIN l = Number
    BY DEF Kernels
  <2>2. \A m \in Number : m < Window => m \in Id
    BY DEF Id, Number
  <2>3. \A m \in Number : m < Window \/ m >= Window
    BY DEF Number
  <2> QED
    BY <2>1, <2>2, <2>3, <1>6, <1>7 DEF Describes, Number
<1>10. Supported(e, l)
  <2>1. e.support = d.support
    BY <1>1, InsertFirstType
  <2>2. \A m \in Number : m >= Window => l[m] = k[m]
    BY <1>7
  <2> QED
    BY <2>1, <2>2 DEF Supported
<1> QED
  BY <1>2, <1>8, <1>9, <1>10

(* The lowest free number is one the table hands out (table.ml, insert). *)
LEMMA HandedLowest ==
    ASSUME NEW d \in Descriptors, NEW k \in Kernels, NEW n \in Number,
           Describes(d, k), Supported(d, k), Distinct(k), Above(d),
           k[n] = None, \A m \in 0 .. (n - 1) : k[m] # None, n >= Window,
           NEW ids \in Handed(d)
    PROVE  n \in ids
<1> USE WindowAssumption, KernelAssumption, NoneAssumption
<1>1. ASSUME NEW m \in Number, m >= Window, k[m] # None
      PROVE  m \in d.table[k[m]] /\ k[m] \in Address /\ m \in Allocated(d)
  <2>1. m \in d.table[k[m]] /\ k[m] \in Address
    BY <1>1 DEF Describes, Kernels, Number
  <2>2. UNION { d.table[b] : b \in Address } \in SUBSET Nat
    BY DEF Descriptors
  <2>3. m \in UNION { d.table[b] : b \in Address }
    BY <2>1
  <2> QED
    BY <2>1, <2>2, <2>3, HullContains DEF Allocated
<1>2. Allocated(d) \in SUBSET Nat /\ \A m \in Allocated(d) : m >= Window
  <2>1. /\ UNION { d.table[b] : b \in Address } \in SUBSET Nat
        /\ \A m \in UNION { d.table[b] : b \in Address } : m >= Window
    BY DEF Descriptors, Above
  <2> QED
    BY <2>1, HullContains, HullBounded DEF Allocated
<1>3. n \in Candidates(d)
  <2>1. CASE n = Window
    <3>1. CASE Allocated(d) = {}
      BY <2>1, <3>1 DEF Candidates
    <3>2. CASE Allocated(d) # {}
      <4>1. PICK m \in Allocated(d) : TRUE
        BY <3>2
      <4>2. n \in Window .. m + 1
        BY <4>1, <2>1, <1>2
      <4> QED
        BY <3>2, <4>2 DEF Candidates
    <3> QED
      BY <3>1, <3>2
  <2>2. CASE n > Window
    <3>1. n - 1 \in Number /\ n - 1 >= Window /\ k[n - 1] # None
      BY <2>2 DEF Number
    <3>2. n - 1 \in Allocated(d)
      BY <3>1, <1>1
    <3>3. n \in Window .. (n - 1) + 1
      BY <2>2 DEF Number
    <3> QED
      BY <3>2, <3>3 DEF Candidates
  <2> QED
    BY <2>1, <2>2 DEF Number
<1>4. n \notin Taken(d)
  <2>1. SUFFICES ASSUME NEW b \in d.support, d.table[b] = {n}
                 PROVE  FALSE
    BY DEF Taken
  <2>2. PICK m \in Number : m >= Window /\ k[m] = b
    BY DEF Supported
  <2>3. k[m] # None
    BY <2>2, <2>1 DEF Descriptors
  <2>4. m = n
    BY <2>1, <2>2, <2>3, <1>1
  <2> QED
    BY <2>3, <2>4
<1> QED
  BY <1>3, <1>4 DEF Handed

LEMMA InsertOtherDescribes ==
    ASSUME NEW d \in Descriptors, NEW k \in Kernels, NEW n \in Number, NEW a \in Address,
           Describes(d, k), Supported(d, k), \A m \in Number : k[m] # a,
           k[n] = None, \A m \in 0 .. (n - 1) : k[m] # None, n >= Window,
           NEW ids \in SUBSET Nat, n \in ids
    PROVE  LET e == InsertOther(a, d, ids) IN
           /\ ~Impossible(e)
           /\ Describes(e, [k EXCEPT ![n] = a])
           /\ Supported(e, [k EXCEPT ![n] = a])
<1> USE WindowAssumption, KernelAssumption, NoneAssumption
<1> DEFINE e == InsertOther(a, d, ids)
           l == [k EXCEPT ![n] = a]
<1>1. Id \subseteq Number /\ DOMAIN l = Number
  BY DEF Id, Number, Kernels
<1>2. ASSUME NEW j \in Id
      PROVE  /\ e.slots[j] # Bot
             /\ l[j] # None /\ l[j] \in e.slots[j].addrs
  <2>1. j \in DOMAIN k /\ j < Window /\ j < n /\ l[j] = k[j] /\ k[j] # None
    BY <1>1 DEF Id, Kernels, Number
  <2>2. e.slots = Passed(d).slots
    BY InsertOtherType
  <2>4. Passed(d).slots[j].addrs = d.slots[j].addrs
    BY PassedAddrs
  <2>5. k[j] \in d.slots[j].addrs
    BY <2>1 DEF Describes
  <2> QED
    BY <2>1, <2>2, <2>4, <2>5 DEF Bot
<1>3. ASSUME NEW m \in Number, m >= Window, l[m] # None
      PROVE  m \in e.table[l[m]]
  <2>1. e.table = [d.table EXCEPT ![a] = ids] /\ d.table \in [Address -> SUBSET Nat]
    BY InsertOtherType DEF Descriptors
  <2>2. CASE m = n
    BY <2>1, <2>2 DEF Kernels
  <2>3. CASE m # n
    <3>1. l[m] = k[m] /\ k[m] # a /\ k[m] \in Address
      BY <2>3, <1>3 DEF Kernels
    <3>2. m \in d.table[k[m]]
      BY <3>1, <1>3 DEF Describes, Kernels, Number
    <3> QED
      BY <2>1, <3>1, <3>2
  <2> QED
    BY <2>2, <2>3
<1>4. ~Impossible(e)
  BY <1>2 DEF Impossible
<1>5. Describes(e, l)
  <2>1. \A m \in Number : m < Window => m \in Id
    BY DEF Id, Number
  <2>2. \A m \in Number : m < Window \/ m >= Window
    BY DEF Number
  <2> QED
    BY <2>1, <2>2, <1>1, <1>2, <1>3 DEF Describes, Number
<1>6. Supported(e, l)
  <2>1. e.support = d.support \cup {a}
    BY InsertOtherType
  <2>2. l[n] = a /\ \A m \in Number : k[m] \in Address => l[m] = k[m]
    BY DEF Kernels
  <2>3. d.support \subseteq Address
    BY DEF Descriptors
  <2> QED
    BY <2>1, <2>2, <2>3 DEF Supported
<1> QED
  BY <1>4, <1>5, <1>6

(* No case of a registration knows more addresses, or numbers below the window. *)
LEMMA RegistrationKeeps ==
    ASSUME NEW d \in Descriptors, NEW a \in Address, NEW p, Within(d, p), Above(d),
           NEW ids \in SUBSET Nat, \A n \in ids : n >= Window,
           NEW c \in Registrations(a, d, ids)
    PROVE  Within(c.state, p \cup {a}) /\ Above(c.state)
<1>1. ASSUME NEW i \in Id, c.state = InsertFirst(a, d, i)
      PROVE  Within(c.state, p \cup {a}) /\ Above(c.state)
  <2>1. /\ c.state.table = d.table
        /\ c.state.support = d.support
        /\ c.state.slots[i] = Inserted(a, d.slots[i])
        /\ \A j \in Id \ {i} : c.state.slots[j] = Passed(d).slots[j]
    BY <1>1, InsertFirstType
  <2>2. Inserted(a, d.slots[i]).addrs \subseteq d.slots[i].addrs \cup {a}
    BY DEF Inserted, Bot
  <2>3. ASSUME NEW j \in Id
        PROVE  c.state.slots[j].addrs \subseteq p \cup {a}
    BY <2>1, <2>2, PassedAddrs DEF Within
  <2> QED
    BY <2>1, <2>3 DEF Within, Above
<1>2. ASSUME c.state = InsertOther(a, d, ids)
      PROVE  Within(c.state, p \cup {a}) /\ Above(c.state)
  <2>1. /\ c.state.slots = Passed(d).slots
        /\ c.state.table = [d.table EXCEPT ![a] = ids]
        /\ c.state.support = d.support \cup {a}
    BY <1>2, InsertOtherType
  <2>2. d.table \in [Address -> SUBSET Nat]
    BY DEF Descriptors
  <2>3. \A b \in Address : c.state.table[b] = IF b = a THEN ids ELSE d.table[b]
    BY <2>1, <2>2
  <2>4. \A j \in Id : c.state.slots[j].addrs \subseteq p \cup {a}
    BY <2>1, PassedAddrs DEF Within
  <2> QED
    BY <2>1, <2>3, <2>4 DEF Within, Above
<1>3. CASE \E i \in Id : c = [ids |-> {i}, state |-> InsertFirst(a, d, i)]
  BY <1>1, <1>3
<1>4. CASE c = [ids |-> ids, state |-> InsertOther(a, d, ids)]
  BY <1>2, <1>4
<1> QED
  BY <1>3, <1>4, RegistrationShape

(* Without merged flows a slot that is free stops the walk before the table. *)
LEMMA OtherImpossible ==
    ASSUME NEW d \in Descriptors, NEW a \in Address, Sharp(d), NEW ids \in SUBSET Nat,
           NEW i \in Id, d.slots[i].free, Walked(i, d)
    PROVE  Impossible(InsertOther(a, d, ids))
<1>1. NotInserted(d.slots[i]) = Bot
  BY DEF NotInserted, Bot, Sharp
<1>2. InsertOther(a, d, ids).slots[i] = Bot
  BY <1>1, InsertOtherType, PassedType
<1> QED
  BY <1>2 DEF Impossible

(* Without merged flows one case is possible, and its slots are sharp. *)
LEMMA RegistrationSharp ==
    ASSUME NEW d \in Descriptors, NEW a \in Address, NEW p, Within(d, p), a \notin p,
           Sharp(d), NEW ids \in SUBSET Nat, NEW c \in Registrations(a, d, ids)
    PROVE  /\ Sharp(c.state)
           /\ \A b \in Registrations(a, d, ids) : b.state.slots = c.state.slots
<1>1. d.table \in [Address -> SUBSET Nat] /\ d.table[a] = {} /\ \A i \in Id : d.slots[i] \in Slot
  BY DEF Descriptors, Within
<1>2. ASSUME NEW j \in Id
      PROVE  /\ Passed(d).slots[j].addrs = d.slots[j].addrs
             /\ Passed(d).slots[j].free => d.slots[j].free
  <2>1. Passed(d).slots[j] = IF Walked(j, d) THEN NotInserted(d.slots[j]) ELSE d.slots[j]
    BY PassedType
  <2> QED
    BY <2>1, PassedAddrs DEF NotInserted
<1>3. ASSUME NEW i \in Id, c.state = InsertFirst(a, d, i), d.slots[i].free
      PROVE  Sharp(c.state)
  <2>1. /\ c.state.table = d.table
        /\ c.state.slots[i] = Inserted(a, d.slots[i])
        /\ \A j \in Id \ {i} : c.state.slots[j] = Passed(d).slots[j]
    BY <1>3, InsertFirstType
  <2>2. Inserted(a, d.slots[i]) = [free |-> FALSE, addrs |-> {a}]
    BY <1>3 DEF Inserted, Sharp
  <2>3. ASSUME NEW j \in Id \ {i}
        PROVE  /\ c.state.slots[j].addrs = d.slots[j].addrs
               /\ c.state.slots[j].free => d.slots[j].free
    BY <2>1, <1>2
  <2>4. c.state.slots[i].addrs = {a} /\ ~c.state.slots[i].free
    BY <2>1, <2>2
  <2>5. ASSUME NEW j \in Id
        PROVE  /\ c.state.slots[j].free => c.state.slots[j].addrs = {}
               /\ \A x, y \in c.state.slots[j].addrs : x = y
               /\ \A x \in c.state.slots[j].addrs : c.state.table[x] = {}
    <3>1. CASE j = i
      BY <2>1, <2>4, <3>1, <1>1
    <3>2. CASE j # i
      BY <2>1, <2>3, <3>2 DEF Sharp
    <3> QED
      BY <3>1, <3>2
  <2> QED
    BY <2>5 DEF Sharp
<1>4. ASSUME c.state = InsertOther(a, d, ids)
      PROVE  Sharp(c.state)
  <2>1. /\ c.state.slots = Passed(d).slots
        /\ c.state.table = [d.table EXCEPT ![a] = ids]
    <3>1. /\ InsertOther(a, d, ids).slots = Passed(d).slots
          /\ InsertOther(a, d, ids).table = [d.table EXCEPT ![a] = ids]
      BY InsertOtherType
    <3> QED
      BY <3>1, <1>4
  <2>2. ASSUME NEW j \in Id, NEW x \in c.state.slots[j].addrs
        PROVE  c.state.table[x] = {}
    <3>1. x \in d.slots[j].addrs /\ x \in Address /\ x # a
      BY <2>1, <1>1, <1>2 DEF Within, Slot
    <3> QED
      BY <2>1, <3>1, <1>1 DEF Sharp
  <2> QED
    BY <2>1, <2>2, <1>2 DEF Sharp
<1>5. ASSUME NEW i \in Id, d.slots[i].free, Walked(i, d), NEW j \in Id, j # i, d.slots[j].free
      PROVE  ~Walked(j, d)
  <2>1. d.slots[i].addrs = {} /\ d.slots[j].addrs = {}
    BY <1>5 DEF Sharp
  <2>2. CASE i < j
    BY <1>5, <2>1, <2>2, WalkStops
  <2>3. CASE j < i
    BY <1>5, <2>1, <2>3, WalkStops
  <2> QED
    BY <1>5, <2>2, <2>3, WindowAssumption DEF Id
<1>6. ASSUME NEW i \in Id, d.slots[i].free, Walked(i, d)
      PROVE  Impossible(InsertOther(a, d, ids))
  BY <1>6, OtherImpossible
<1>7. ASSUME NEW b \in Registrations(a, d, ids)
      PROVE  b.state.slots = c.state.slots
  <2> DEFINE First(x, i) == /\ Walked(i, d)
                            /\ d.slots[i].free
                            /\ x = [ids |-> {i}, state |-> InsertFirst(a, d, i)]
             Other(x) == x = [ids |-> ids, state |-> InsertOther(a, d, ids)]
  <2>1. \A x \in {b, c} : ~Impossible(x.state) /\ ((\E i \in Id : First(x, i)) \/ Other(x))
    BY RegistrationShape
  <2>2. CASE Other(b) /\ Other(c)
    BY <2>2
  <2>3. ASSUME NEW i \in Id, First(b, i), NEW j \in Id, First(c, j)
        PROVE  b.state.slots = c.state.slots
    <3>1. i = j
      BY <2>3, <1>5
    <3> QED
      BY <2>3, <3>1
  <2>4. ASSUME NEW x \in {b, c}, NEW y \in {b, c}, NEW i \in Id, First(x, i), Other(y)
        PROVE  FALSE
    <3>1. Impossible(InsertOther(a, d, ids))
      BY <2>4, <1>6
    <3> QED
      BY <2>1, <2>4, <3>1
  <2> QED
    BY <2>1, <2>2, <2>3, <2>4
<1> QED
  BY <1>3, <1>4, <1>7, RegistrationShape

-----------------------------------------------------------------------------
(* Registering an address keeps the state good, and the answer is among those given. *)
LEMMA RegisterGood ==
    ASSUME NEW d \in Descriptors, NEW k \in Kernels, NEW p \in SUBSET Address, Good(k, d, p),
           Sharp(d) \/ Window <= 1, NEW a \in Address, a \notin p, NEW n \in Number,
           k[n] = None, \A m \in 0 .. (n - 1) : k[m] # None, NEW ids \in Handed(d)
    PROVE  /\ Register(a, d, ids) \in Descriptors
           /\ Good([k EXCEPT ![n] = a], Register(a, d, ids), p \cup {a})
           /\ Sharp(d) => Sharp(Register(a, d, ids))
           /\ n \in Answers(a, d, ids)
<1> USE WindowAssumption, KernelAssumption, NoneAssumption
<1> DEFINE cases == Registrations(a, d, ids)
           states == { c.state : c \in cases }
           l == [k EXCEPT ![n] = a]
<1>1. ids \in SUBSET Nat /\ \A m \in ids : m >= Window
  BY HandedAbove DEF Good
<1>2. states \in SUBSET Descriptors
  BY <1>1, RegistrationType
<1>3. \A m \in Number : k[m] # a
  BY DEF Good, Known
<1>4. PICK c \in cases : n \in c.ids /\ Describes(c.state, l) /\ Supported(c.state, l)
  <2>1. CASE n < Window
    <3> DEFINE c == [ids |-> {n}, state |-> InsertFirst(a, d, n)]
    <3>1. /\ Walked(n, d) /\ d.slots[n].free
          /\ ~Impossible(c.state)
          /\ Describes(c.state, l)
          /\ Supported(c.state, l)
      BY <2>1, InsertFirstDescribes DEF Good
    <3>2. n \in Id
      BY <2>1 DEF Id, Number
    <3>3. c \in cases
      BY <3>1, <3>2 DEF Registrations
    <3> QED
      BY <3>1, <3>3
  <2>2. CASE n >= Window
    <3> DEFINE c == [ids |-> ids, state |-> InsertOther(a, d, ids)]
    <3>1. n \in ids
      BY <2>2, HandedLowest DEF Good
    <3>2. /\ ~Impossible(c.state)
          /\ Describes(c.state, l)
          /\ Supported(c.state, l)
      BY <2>2, <3>1, <1>1, <1>3, InsertOtherDescribes DEF Good
    <3>3. c \in cases
      BY <3>1, <3>2 DEF Registrations
    <3> QED
      BY <3>1, <3>2, <3>3
  <2>3. n < Window \/ n >= Window
    BY DEF Number
  <2> QED
    BY <2>1, <2>2, <2>3
<1>5. l \in Kernels
  BY DEF Kernels
<1>6. Describes(Register(a, d, ids), l) /\ Supported(Register(a, d, ids), l)
  BY <1>2, <1>4, <1>5, JoinAllDescribes DEF Register
<1>7. Within(Register(a, d, ids), p \cup {a}) /\ Above(Register(a, d, ids))
  <2>1. \A e \in states : Within(e, p \cup {a}) /\ Above(e)
    BY <1>1, RegistrationKeeps DEF Good
  <2> QED
    BY <2>1, <1>2, <1>4, JoinAllKeeps DEF Register
<1>8. Sharp(d) => Sharp(Register(a, d, ids))
  <2>1. SUFFICES ASSUME Sharp(d)
                 PROVE  Sharp(JoinAll(states))
    BY DEF Register
  <2>2. \A b \in cases : Sharp(b.state) /\ b.state.slots = c.state.slots
    BY <2>1, <1>1, RegistrationSharp DEF Good
  <2> QED
    BY <2>2, <1>2, JoinAllSharp
<1>9. Distinct(l) /\ Known(l, p \cup {a})
  BY <1>3 DEF Good, Distinct, Known, Kernels
<1>10. n \in Answers(a, d, ids)
  BY <1>4 DEF Answers
<1>11. Register(a, d, ids) \in Descriptors
  BY <1>2, JoinAllType DEF Register
<1> QED
  BY <1>6, <1>7, <1>8, <1>9, <1>10, <1>11 DEF Good

(* A registration in the table puts the address in the support. *)
LEMMA RegisterPlaced ==
    ASSUME NEW d \in Descriptors, NEW a \in Address, Above(d), Sharp(d), Placed(d),
           NEW ids \in Handed(d)
    PROVE  Placed(Register(a, d, ids))
<1> DEFINE cases == Registrations(a, d, ids)
           states == { c.state : c \in cases }
<1>1. ids \in SUBSET Nat
  BY HandedAbove
<1> DEFINE First(c) == \E i \in Id : /\ Walked(i, d) /\ d.slots[i].free
                                    /\ c.state = InsertFirst(a, d, i)
           Other(c) == c.state = InsertOther(a, d, ids)
<1>2. \A c \in cases : ~Impossible(c.state) /\ (First(c) \/ Other(c))
  BY RegistrationShape
<1>3. \A c \in cases : First(c) => c.state.table = d.table /\ c.state.support = d.support
  BY InsertFirstType
<1>4. \A c \in cases : Other(c) => /\ c.state.table = [d.table EXCEPT ![a] = ids]
                                   /\ c.state.support = d.support \cup {a}
  BY <1>1, InsertOtherType
<1>5. \A b, c \in cases : ~(First(b) /\ Other(c))
  BY <1>1, <1>2, OtherImpossible
<1> HIDE DEF cases, First, Other
<1>6. ASSUME NEW b \in Address, NEW c \in cases, c.state.table[b] # {}
      PROVE  \A f \in cases : b \in f.state.support
  <2>1. \A f \in cases : d.support \subseteq f.state.support
    BY <1>2, <1>3, <1>4
  <2>2. d.table \in [Address -> SUBSET Nat]
    BY DEF Descriptors
  <2>3. d.table[b] # {} \/ (b = a /\ Other(c))
    BY <1>2, <1>3, <1>4, <1>6, <2>2
  <2>4. CASE d.table[b] # {}
    BY <2>1, <2>4 DEF Placed
  <2>5. CASE b = a /\ Other(c)
    <3>1. \A f \in cases : Other(f)
      BY <1>2, <1>5, <2>5
    <3> QED
      BY <1>4, <2>5, <3>1
  <2> QED
    BY <2>3, <2>4, <2>5
<1>7. ASSUME NEW b \in Address, JoinAll(states).table[b] # {}
      PROVE  b \in JoinAll(states).support
  <2>1. UNION { e.table[b] : e \in states } # {}
    BY <1>7, HullNonempty DEF JoinAll
  <2>2. PICK c \in cases : c.state.table[b] # {}
    BY <2>1
  <2>3. \A e \in states : b \in e.support
    BY <1>6, <2>2
  <2> QED
    BY <2>3 DEF JoinAll
<1> QED
  BY <1>7 DEF Placed, Register, cases

-----------------------------------------------------------------------------
(* Removals. *)

LEMMA RemoveType ==
    ASSUME NEW d \in Descriptors, NEW a \in Address
    PROVE  /\ RemoveAddr(a, d) \in Descriptors
           /\ \A i \in Id : RemoveAddr(a, d).slots[i] = SlotRemove(a, d.slots[i])
           /\ \A b \in Address :
                  RemoveAddr(a, d).table[b] = IF b = a THEN {} ELSE d.table[b]
           /\ RemoveAddr(a, d).support = d.support \ {a}
<1>1. \A i \in Id : SlotRemove(a, d.slots[i]) \in Slot
  BY DEF Descriptors, SlotRemove, Slot
<1>2. d.table \in [Address -> SUBSET Nat] /\ d.support \in SUBSET Address
  BY DEF Descriptors
<1>3. /\ RemoveAddr(a, d).slots = [i \in Id |-> SlotRemove(a, d.slots[i])]
      /\ RemoveAddr(a, d).table = [d.table EXCEPT ![a] = {}]
      /\ RemoveAddr(a, d).support = d.support \ {a}
  BY DEF RemoveAddr
<1>4. RemoveAddr(a, d) = [slots   |-> RemoveAddr(a, d).slots,
                          table   |-> RemoveAddr(a, d).table,
                          support |-> RemoveAddr(a, d).support]
  BY DEF RemoveAddr
<1> QED
  BY <1>1, <1>2, <1>3, <1>4 DEF Descriptors

LEMMA SlotRemoveShape ==
    ASSUME NEW s \in Slot, NEW a
    PROVE  /\ SlotRemove(a, s).addrs = s.addrs \ {a}
           /\ s.free => SlotRemove(a, s).free
           /\ a \in s.addrs => SlotRemove(a, s).free
           /\ a \notin s.addrs => SlotRemove(a, s) = s
BY DEF SlotRemove, Slot

(* The state without the file that was closed describes the kernel without it. *)
LEMMA RemoveDescribes ==
    ASSUME NEW d \in Descriptors, NEW k \in Kernels, NEW n \in Number, k[n] # None,
           Describes(d, k), Supported(d, k), Distinct(k)
    PROVE  LET e == RemoveAddr(k[n], d) IN
           /\ Describes(e, [k EXCEPT ![n] = None])
           /\ Supported(e, [k EXCEPT ![n] = None])
<1> USE WindowAssumption, KernelAssumption, NoneAssumption
<1> DEFINE e == RemoveAddr(k[n], d)
           l == [k EXCEPT ![n] = None]
<1>1. k[n] \in Address /\ DOMAIN l = Number /\ DOMAIN k = Number
  BY DEF Kernels
<1>2. \A m \in Number : l[m] = IF m = n THEN None ELSE k[m]
  BY DEF Kernels
<1>3. ASSUME NEW m \in Number, m < Window
      PROVE  IF l[m] = None THEN e.slots[m].free ELSE l[m] \in e.slots[m].addrs
  <2>1. m \in Id
    BY <1>3 DEF Id, Number
  <2>2. d.slots[m] \in Slot /\ e.slots[m] = SlotRemove(k[n], d.slots[m])
    BY <2>1, <1>1, RemoveType DEF Descriptors
  <2>3. IF k[m] = None THEN d.slots[m].free ELSE k[m] \in d.slots[m].addrs
    BY <1>1, <1>3 DEF Describes
  <2>4. k[m] = k[n] => m = n
    BY DEF Distinct
  <2> QED
    BY <1>2, <2>2, <2>3, <2>4, SlotRemoveShape
<1>4. ASSUME NEW m \in Number, ~(m < Window), l[m] # None
      PROVE  m \in e.table[l[m]]
  <2>1. l[m] = k[m] /\ k[m] \in Address /\ m \in d.table[k[m]]
    BY <1>1, <1>2, <1>4 DEF Describes, Kernels
  <2>2. k[m] # k[n]
    BY <1>2, <1>4, <2>1 DEF Distinct
  <2> QED
    BY <2>1, <2>2, <1>1, RemoveType
<1>5. ASSUME NEW b \in e.support
      PROVE  \E m \in Number : m >= Window /\ l[m] = b
  <2>1. b \in d.support /\ b # k[n]
    BY <1>1, <1>5, RemoveType
  <2>2. PICK m \in Number : m >= Window /\ k[m] = b
    BY <2>1 DEF Supported
  <2> QED
    BY <2>1, <2>2, <1>2
<1> QED
  BY <1>1, <1>3, <1>4, <1>5 DEF Describes, Supported

LEMMA RemoveKeeps ==
    ASSUME NEW d \in Descriptors, NEW a \in Address, NEW p, Within(d, p), Above(d)
    PROVE  Within(RemoveAddr(a, d), p \ {a}) /\ Above(RemoveAddr(a, d))
<1>1. \A i \in Id : RemoveAddr(a, d).slots[i].addrs = d.slots[i].addrs \ {a}
  BY RemoveType, SlotRemoveShape DEF Descriptors
<1> QED
  BY <1>1, RemoveType DEF Within, Above

LEMMA RemoveSharp ==
    ASSUME NEW d \in Descriptors, NEW a \in Address, Sharp(d)
    PROVE  Sharp(RemoveAddr(a, d))
<1>1. ASSUME NEW i \in Id
      PROVE  /\ RemoveAddr(a, d).slots[i].addrs = d.slots[i].addrs \ {a}
             /\ RemoveAddr(a, d).slots[i].free => d.slots[i].free \/ a \in d.slots[i].addrs
             /\ d.slots[i].addrs \subseteq Address
  <2>1. d.slots[i] \in Slot
    BY DEF Descriptors
  <2>2. RemoveAddr(a, d).slots[i] = SlotRemove(a, d.slots[i])
    BY RemoveType
  <2>3. a \notin d.slots[i].addrs => SlotRemove(a, d.slots[i]) = d.slots[i]
    BY DEF SlotRemove
  <2>4. SlotRemove(a, d.slots[i]).addrs = d.slots[i].addrs \ {a}
    BY <2>1, SlotRemoveShape
  <2>5. d.slots[i].addrs \subseteq Address
    BY <2>1 DEF Slot
  <2> QED
    BY <2>2, <2>3, <2>4, <2>5
<1> QED
  BY <1>1, RemoveType DEF Sharp

LEMMA RemovePlaced ==
    ASSUME NEW d \in Descriptors, NEW a \in Address, Placed(d)
    PROVE  Placed(RemoveAddr(a, d))
BY RemoveType DEF Placed

(* Without merged flows the targets of a close leave the same slots. *)
LEMMA RemoveSameSlots ==
    ASSUME NEW d \in Descriptors, Sharp(d), NEW n \in Number,
           NEW a \in Find(n, d) \ {None}, NEW b \in Find(n, d) \ {None}
    PROVE  RemoveAddr(a, d).slots = RemoveAddr(b, d).slots
<1>1. CASE n \in Id /\ d.slots[n].addrs # {}
  <2>1. a = b
    BY <1>1 DEF Find, Sharp
  <2> QED
    BY <2>1
<1>2. CASE ~(n \in Id /\ d.slots[n].addrs # {})
  <2>1. ASSUME NEW x \in {a, b}, NEW i \in Id
        PROVE  SlotRemove(x, d.slots[i]) = d.slots[i]
    <3>1. d.table[x] # {}
      BY <1>2 DEF Find
    <3>2. x \notin d.slots[i].addrs
      BY <3>1 DEF Sharp
    <3> QED
      BY <3>2 DEF SlotRemove
  <2> QED
    BY <2>1 DEF RemoveAddr
<1> QED
  BY <1>1, <1>2

(* Closing a number keeps the state good, whatever else the number may stand for. *)
LEMMA CloseGood ==
    ASSUME NEW d \in Descriptors, NEW k \in Kernels, NEW p \in SUBSET Address, Good(k, d, p),
           NEW n \in Number, k[n] # None
    PROVE  LET targets == Find(n, d) \ {None}
               e == JoinAll({ RemoveAddr(a, d) : a \in targets })
           IN  /\ e \in Descriptors
               /\ Good([k EXCEPT ![n] = None], e, UNION { p \ {a} : a \in targets })
               /\ Sharp(d) => Sharp(e)
<1> USE WindowAssumption, KernelAssumption, NoneAssumption
<1> DEFINE targets == Find(n, d) \ {None}
           states == { RemoveAddr(a, d) : a \in targets }
           e == JoinAll(states)
           q == UNION { p \ {a} : a \in targets }
           l == [k EXCEPT ![n] = None]
<1>1. targets \in SUBSET Address /\ k[n] \in targets
  BY FindType, FindSound DEF Good
<1>2. states \in SUBSET Descriptors /\ RemoveAddr(k[n], d) \in states
  BY <1>1, RemoveType
<1>3. l \in Kernels /\ \A m \in Number : l[m] = IF m = n THEN None ELSE k[m]
  BY DEF Kernels
<1>4. Describes(e, l) /\ Supported(e, l)
  <2>1. Describes(RemoveAddr(k[n], d), l) /\ Supported(RemoveAddr(k[n], d), l)
    BY RemoveDescribes DEF Good
  <2> QED
    BY <2>1, <1>2, <1>3, JoinAllDescribes
<1>5. Within(e, q) /\ Above(e)
  <2>1. ASSUME NEW a \in targets
        PROVE  Within(RemoveAddr(a, d), q) /\ Above(RemoveAddr(a, d))
    <3>1. Within(RemoveAddr(a, d), p \ {a}) /\ Above(RemoveAddr(a, d))
      BY <1>1, RemoveKeeps DEF Good
    <3>2. p \ {a} \subseteq q
      OBVIOUS
    <3> QED
      BY <3>1, <3>2 DEF Within
  <2> QED
    BY <2>1, <1>2, JoinAllKeeps
<1>6. Sharp(d) => Sharp(e)
  <2>1. SUFFICES ASSUME Sharp(d)
                 PROVE  Sharp(e)
    OBVIOUS
  <2>2. \A f \in states : f.slots = RemoveAddr(k[n], d).slots /\ Sharp(f)
    BY <2>1, <1>1, RemoveSharp, RemoveSameSlots DEF Good
  <2> QED
    BY <2>2, <1>2, JoinAllSharp
<1>7. Distinct(l)
  BY <1>3 DEF Good, Distinct
<1>8. Known(l, q)
  <2>1. ASSUME NEW m \in Number, l[m] # None
        PROVE  l[m] \in p \ {k[n]}
    BY <1>3, <2>1 DEF Good, Distinct, Known
  <2> QED
    BY <2>1, <1>1 DEF Known
<1>9. e \in Descriptors
  BY <1>2, JoinAllType
<1> QED
  BY <1>4, <1>5, <1>6, <1>7, <1>8, <1>9 DEF Good

-----------------------------------------------------------------------------
(* Duplications and merges. *)

(* The address joins the slot of a number that has one, and the table otherwise. *)
LEMMA RegisterAtSlot ==
    ASSUME NEW d \in Descriptors, NEW a \in Address, NEW n \in Number, n < Window
    PROVE  LET e == RegisterAt(a, n, d) IN
           /\ n \in Id
           /\ e \in Descriptors
           /\ e.table = d.table
           /\ e.support = d.support
           /\ e.slots[n] = SlotAdd(a, d.slots[n])
           /\ \A i \in Id \ {n} : e.slots[i] = d.slots[i]
<1> USE WindowAssumption, KernelAssumption
<1> DEFINE t == [d.slots EXCEPT ![n] = SlotAdd(a, d.slots[n])]
<1>1. /\ d.slots \in [Id -> Slot]
      /\ d.table \in [Address -> SUBSET Nat]
      /\ d.support \in SUBSET Address
      /\ d = [slots |-> d.slots, table |-> d.table, support |-> d.support]
  BY DEF Descriptors
<1>2. n \in Id
  BY DEF Id, Number
<1>3. SlotAdd(a, d.slots[n]) \in Slot
  BY <1>1, <1>2 DEF SlotAdd, Slot, Bot
<1>4. t \in [Id -> Slot] /\ \A i \in Id : t[i] = IF i = n THEN SlotAdd(a, d.slots[n]) ELSE d.slots[i]
  BY <1>1, <1>2, <1>3
<1>5. RegisterAt(a, n, d) = [slots |-> t, table |-> d.table, support |-> d.support]
  BY <1>1 DEF RegisterAt
<1> HIDE DEF t
<1>6. RegisterAt(a, n, d) \in Descriptors
  BY <1>1, <1>4, <1>5 DEF Descriptors
<1> QED
  BY <1>2, <1>4, <1>5, <1>6

LEMMA RegisterAtTable ==
    ASSUME NEW d \in Descriptors, NEW a \in Address, NEW n \in Number, ~(n < Window)
    PROVE  /\ RegisterAt(a, n, d) \in Descriptors
           /\ RegisterAt(a, n, d).slots = d.slots
           /\ RegisterAt(a, n, d).support = d.support \cup {a}
           /\ RegisterAt(a, n, d).table[a] = Hull(d.table[a] \cup {n})
           /\ \A b \in Address \ {a} : RegisterAt(a, n, d).table[b] = d.table[b]
<1> USE WindowAssumption, KernelAssumption
<1> DEFINE h == Hull(d.table[a] \cup {n})
           t == [d.table EXCEPT ![a] = h]
<1>1. /\ d.slots \in [Id -> Slot]
      /\ d.table \in [Address -> SUBSET Nat]
      /\ d.support \in SUBSET Address
      /\ d = [slots |-> d.slots, table |-> d.table, support |-> d.support]
  BY DEF Descriptors
<1>2. h \in SUBSET Nat
  BY <1>1, HullContains DEF Number
<1>4. RegisterAt(a, n, d) = [d EXCEPT !.table[a] = h, !.support = d.support \cup {a}]
  BY Zenon DEF RegisterAt
<1> HIDE DEF h
<1>5. t \in [Address -> SUBSET Nat] /\ \A b \in Address : t[b] = IF b = a THEN h ELSE d.table[b]
  BY <1>1, <1>2
<1>6. RegisterAt(a, n, d) = [slots |-> d.slots, table |-> t, support |-> d.support \cup {a}]
  BY <1>1, <1>4
<1> HIDE DEF t
<1>7. RegisterAt(a, n, d) \in Descriptors
  BY <1>1, <1>5, <1>6 DEF Descriptors
<1>8. /\ RegisterAt(a, n, d).slots = d.slots
      /\ RegisterAt(a, n, d).support = d.support \cup {a}
      /\ RegisterAt(a, n, d).table[a] = h
      /\ \A b \in Address \ {a} : RegisterAt(a, n, d).table[b] = d.table[b]
  BY <1>5, <1>6
<1> QED
  BY <1>7, <1>8, Zenon DEF h

(* The resource that dup2 registers at a closed number (domain.ml, register_at). *)
LEMMA RegisterAtDescribes ==
    ASSUME NEW d \in Descriptors, NEW k \in Kernels, NEW n \in Number, NEW a \in Address,
           Describes(d, k), Supported(d, k), k[n] = None, \A m \in Number : k[m] # a
    PROVE  LET e == RegisterAt(a, n, d) IN
           /\ Describes(e, [k EXCEPT ![n] = a])
           /\ Supported(e, [k EXCEPT ![n] = a])
<1> USE WindowAssumption, KernelAssumption, NoneAssumption
<1> DEFINE e == RegisterAt(a, n, d)
           l == [k EXCEPT ![n] = a]
<1>1. /\ DOMAIN l = Number /\ DOMAIN k = Number
      /\ \A m \in Number : l[m] = IF m = n THEN a ELSE k[m]
      /\ a # None
  BY DEF Kernels
<1>2. d.table \in [Address -> SUBSET Nat] /\ d.slots \in [Id -> Slot]
  BY DEF Descriptors
<1>3. CASE n < Window
  <2>1. /\ n \in Id /\ e.table = d.table /\ e.support = d.support
        /\ e.slots[n] = SlotAdd(a, d.slots[n])
        /\ \A m \in Id \ {n} : e.slots[m] = d.slots[m]
    BY <1>3, RegisterAtSlot
  <2>2. d.slots[n].free
    BY <1>1, <1>3 DEF Describes
  <2>3. d.slots[n] # Bot
    BY <2>2 DEF Bot
  <2>4. e.slots[n] = [free |-> FALSE, addrs |-> d.slots[n].addrs \cup {a}]
    BY <1>2, <2>1, <2>3 DEF SlotAdd
  <2>5. ASSUME NEW m \in Number
        PROVE  IF l[m] = None THEN m < Window => e.slots[m].free
               ELSE IF m < Window THEN l[m] \in e.slots[m].addrs
               ELSE m \in e.table[l[m]]
    <3>1. CASE m = n
      BY <1>1, <1>3, <2>4, <3>1
    <3>2. CASE m # n
      <4>1. l[m] = k[m]
        BY <1>1, <3>2
      <4>2. m < Window => m \in Id \ {n}
        BY <3>2 DEF Id, Number
      <4> QED
        BY <1>1, <2>1, <4>1, <4>2 DEF Describes
    <3> QED
      BY <3>1, <3>2
  <2>6. Supported(e, l)
    BY <1>1, <1>3, <2>1 DEF Supported, Number
  <2> QED
    BY <1>1, <2>5, <2>6 DEF Describes
<1>4. CASE ~(n < Window)
  <2>1. /\ e.slots = d.slots
        /\ e.support = d.support \cup {a}
        /\ e.table[a] = Hull(d.table[a] \cup {n})
        /\ \A b \in Address \ {a} : e.table[b] = d.table[b]
    BY <1>4, RegisterAtTable
  <2>2. n \in e.table[a]
    <3>1. d.table[a] \cup {n} \in SUBSET Nat
      BY <1>2 DEF Number
    <3> QED
      BY <2>1, <3>1, HullContains
  <2>3. ASSUME NEW m \in Number
        PROVE  IF l[m] = None THEN m < Window => e.slots[m].free
               ELSE IF m < Window THEN l[m] \in e.slots[m].addrs
               ELSE m \in e.table[l[m]]
    <3>1. CASE m = n
      BY <1>1, <1>4, <2>2, <3>1 DEF Number
    <3>2. CASE m # n
      <4>1. l[m] = k[m] /\ k[m] # a
        BY <1>1, <3>2
      <4>2. k[m] # None => e.table[k[m]] = d.table[k[m]]
        BY <1>2, <2>1, <4>1 DEF Kernels
      <4> QED
        BY <1>1, <2>1, <4>1, <4>2 DEF Describes
    <3> QED
      BY <3>1, <3>2
  <2>4. Supported(e, l)
    <3>1. ASSUME NEW b \in d.support
          PROVE  \E m \in Number : m >= Window /\ l[m] = b
      <4>1. PICK m \in Number : m >= Window /\ k[m] = b
        BY DEF Supported
      <4>2. CASE m = n
        BY <1>1, <1>4, <4>1, <4>2 DEF Descriptors
      <4>3. CASE m # n
        BY <1>1, <4>1, <4>3
      <4> QED
        BY <4>2, <4>3
    <3>2. n >= Window /\ l[n] = a
      BY <1>1, <1>4 DEF Number
    <3> QED
      BY <2>1, <3>1, <3>2 DEF Supported
  <2> QED
    BY <1>1, <2>3, <2>4 DEF Describes
<1>5. n < Window \/ ~(n < Window)
  OBVIOUS
<1> QED
  BY <1>3, <1>4, <1>5

LEMMA RegisterAtKeeps ==
    ASSUME NEW d \in Descriptors, NEW a \in Address, NEW n \in Number, NEW p,
           Within(d, p), Above(d)
    PROVE  /\ Within(RegisterAt(a, n, d), p \cup {a})
           /\ Above(RegisterAt(a, n, d))
<1> USE WindowAssumption, KernelAssumption
<1> DEFINE e == RegisterAt(a, n, d)
<1>1. d.table \in [Address -> SUBSET Nat] /\ d.slots \in [Id -> Slot]
  BY DEF Descriptors
<1>2. CASE n < Window
  <2>1. /\ n \in Id /\ e.table = d.table /\ e.support = d.support
        /\ e.slots[n] = SlotAdd(a, d.slots[n])
        /\ \A m \in Id \ {n} : e.slots[m] = d.slots[m]
    BY <1>2, RegisterAtSlot
  <2>2. SlotAdd(a, d.slots[n]).addrs \subseteq d.slots[n].addrs \cup {a}
    BY DEF SlotAdd, Bot
  <2>3. \A i \in Id : e.slots[i].addrs \subseteq d.slots[i].addrs \cup {a}
    BY <1>1, <2>1, <2>2
  <2> QED
    BY <2>1, <2>3 DEF Within, Above
<1>3. CASE ~(n < Window)
  <2>1. /\ e.slots = d.slots
        /\ e.support = d.support \cup {a}
        /\ e.table[a] = Hull(d.table[a] \cup {n})
        /\ \A b \in Address \ {a} : e.table[b] = d.table[b]
    BY <1>3, RegisterAtTable
  <2>2. \A m \in Hull(d.table[a] \cup {n}) : m >= Window
    <3>1. /\ d.table[a] \cup {n} \in SUBSET Nat
          /\ \A m \in d.table[a] \cup {n} : m >= Window
      BY <1>1, <1>3 DEF Above, Number
    <3> QED
      BY <3>1, HullBounded
  <2> QED
    BY <2>1, <2>2 DEF Within, Above
<1>4. n < Window \/ ~(n < Window)
  OBVIOUS
<1> QED
  BY <1>2, <1>3, <1>4

(* Duplicating onto a number keeps the state good, open or closed as it may be. *)
LEMMA DupGood ==
    ASSUME NEW d \in Descriptors, NEW k \in Kernels, NEW p \in SUBSET Address, Good(k, d, p),
           NEW a \in Address, a \notin p, NEW n \in Number, None \in Find(n, d)
    PROVE  LET r == RegisterAt(a, n, d)
               e == IF Find(n, d) = {None} THEN r ELSE Join(r, d)
               l == IF k[n] = None THEN [k EXCEPT ![n] = a] ELSE k
           IN  e \in Descriptors /\ Good(l, e, p \cup {a}) /\ (Sharp(d) => Sharp(e))
<1> USE WindowAssumption, KernelAssumption, NoneAssumption
<1> DEFINE r == RegisterAt(a, n, d)
           e == IF Find(n, d) = {None} THEN r ELSE Join(r, d)
           l == IF k[n] = None THEN [k EXCEPT ![n] = a] ELSE k
<1>1. r \in Descriptors
  <2>1. n < Window \/ ~(n < Window)
    OBVIOUS
  <2> QED
    BY <2>1, RegisterAtSlot, RegisterAtTable
<1>2. Join(r, d) = JoinAll({r, d}) /\ {r, d} \in SUBSET Descriptors
  BY <1>1, JoinIsJoinAll
<1>3. e \in Descriptors
  BY <1>1, <1>2, JoinAllType
<1>4. \A m \in Number : k[m] # a
  BY DEF Good, Known
<1>5. l \in Kernels
  BY DEF Kernels
<1>6. Describes(e, l) /\ Supported(e, l)
  <2>1. CASE k[n] = None
    <3>1. Describes(r, l) /\ Supported(r, l)
      BY <1>4, <2>1, RegisterAtDescribes DEF Good
    <3>2. Describes(JoinAll({r, d}), l) /\ Supported(JoinAll({r, d}), l)
      BY <1>2, <1>5, <3>1, JoinAllDescribes
    <3> QED
      BY <1>2, <3>1, <3>2
  <2>2. CASE k[n] # None
    <3>1. k[n] \in Find(n, d) \ {None}
      BY <2>2, FindSound DEF Good
    <3>2. e = JoinAll({r, d}) /\ l = k
      BY <1>2, <2>2, <3>1
    <3> QED
      BY <1>2, <3>2, JoinAllDescribes DEF Good
  <2> QED
    BY <2>1, <2>2
<1>7. Within(e, p \cup {a}) /\ Above(e)
  <2>1. Within(r, p \cup {a}) /\ Above(r)
    BY RegisterAtKeeps DEF Good
  <2>2. Within(d, p \cup {a}) /\ Above(d)
    BY DEF Good, Within
  <2>3. Within(JoinAll({r, d}), p \cup {a}) /\ Above(JoinAll({r, d}))
    BY <1>2, <2>1, <2>2, JoinAllKeeps
  <2> QED
    BY <1>2, <2>1, <2>3
<1>8. Sharp(d) => Sharp(e)
  <2>1. SUFFICES ASSUME Sharp(d)
                 PROVE  Sharp(e)
    OBVIOUS
  <2>2. /\ Sharp(d)
        /\ d.table \in [Address -> SUBSET Nat] /\ d.slots \in [Id -> Slot]
        /\ d.table[a] = {}
        /\ \A i \in Id : a \notin d.slots[i].addrs /\ d.slots[i].addrs \subseteq Address
    BY <2>1 DEF Good, Within, Descriptors, Slot
  <2>3. CASE n < Window
    <3>1. /\ n \in Id /\ r.table = d.table
          /\ r.slots[n] = SlotAdd(a, d.slots[n])
          /\ \A i \in Id \ {n} : r.slots[i] = d.slots[i]
      BY <2>3, RegisterAtSlot
    <3>2. d.slots[n].addrs = {}
      BY <3>1 DEF Find, Descriptors, Slot
    <3>3. Find(n, d) = {None}
      <4>1. \A b \in Address : n \notin d.table[b]
        BY <2>3 DEF Good, Above, Number
      <4>2. { b \in Address : n \in d.table[b] } = {}
        BY <4>1
      <4>3. \A b \in Address : MayDiffer(n, d.table[b])
        BY <4>1 DEF MayDiffer
      <4>4. Find(n, d) = { b \in Address : n \in d.table[b] }
                        \cup { x \in {None} : \A b \in Address : MayDiffer(n, d.table[b]) }
        BY <3>2 DEF Find
      <4> QED
        BY <4>2, <4>3, <4>4
    <3>4. SlotAdd(a, d.slots[n]).addrs \subseteq {a} /\ ~SlotAdd(a, d.slots[n]).free
      BY <3>2 DEF SlotAdd, Bot
    <3>5. ASSUME NEW i \in Id
          PROVE  /\ r.slots[i].free => r.slots[i].addrs = {}
                 /\ \A x, y \in r.slots[i].addrs : x = y
                 /\ \A x \in r.slots[i].addrs : r.table[x] = {}
      <4>1. CASE i = n
        <5>1. r.slots[i] = SlotAdd(a, d.slots[n])
          BY <2>2, <3>1, <4>1
        <5> QED
          BY <2>2, <3>1, <3>4, <5>1
      <4>2. CASE i # n
        <5>1. r.slots[i] = d.slots[i]
          BY <2>2, <3>1, <4>2
        <5> QED
          BY <2>2, <3>1, <5>1 DEF Sharp
      <4> QED
        BY <4>1, <4>2
    <3> QED
      BY <3>3, <3>5 DEF Sharp
  <2>4. CASE ~(n < Window)
    <3>1. /\ r.slots = d.slots
          /\ r.support = d.support \cup {a}
          /\ r.table[a] = Hull(d.table[a] \cup {n})
          /\ \A b \in Address \ {a} : r.table[b] = d.table[b]
      BY <2>4, RegisterAtTable
    <3>2. ASSUME NEW i \in Id, NEW x \in r.slots[i].addrs
          PROVE  r.table[x] = {}
      <4>1. x \in Address /\ x # a /\ d.table[x] = {}
        BY <2>2, <3>1 DEF Sharp
      <4> QED
        BY <2>2, <3>1, <4>1
    <3>3. Sharp(r)
      BY <2>2, <3>1, <3>2 DEF Sharp
    <3>4. Sharp(JoinAll({r, d}))
      BY <1>2, <2>2, <3>1, <3>3, JoinAllSharp
    <3> QED
      BY <1>2, <3>3, <3>4
  <2>5. n < Window \/ ~(n < Window)
    OBVIOUS
  <2> QED
    BY <2>3, <2>4, <2>5
<1>9. Distinct(l) /\ Known(l, p \cup {a})
  <2>1. CASE k[n] = None
    BY <1>4, <2>1 DEF Good, Distinct, Known, Kernels
  <2>2. CASE k[n] # None
    BY <2>2 DEF Good, Distinct, Known
  <2> QED
    BY <2>1, <2>2
<1> QED
  BY <1>3, <1>6, <1>7, <1>8, <1>9 DEF Good

(* The join of two flows is good for the kernel of either. *)
LEMMA MergeGood ==
    ASSUME NEW d \in Descriptors, NEW k \in Kernels, NEW p \in SUBSET Address, Good(k, d, p),
           NEW e \in Descriptors, NEW l \in Kernels, NEW q \in SUBSET Address, Good(l, e, q),
           NEW m \in {k, l}
    PROVE  Join(d, e) \in Descriptors /\ Good(m, Join(d, e), p \cup q)
<1>1. Join(d, e) = JoinAll({d, e}) /\ {d, e} \in SUBSET Descriptors
  BY JoinIsJoinAll
<1>2. Describes(JoinAll({d, e}), m) /\ Supported(JoinAll({d, e}), m)
  BY <1>1, JoinAllDescribes DEF Good
<1>3. Within(JoinAll({d, e}), p \cup q) /\ Above(JoinAll({d, e}))
  <2>1. \A f \in {d, e} : Within(f, p \cup q) /\ Above(f)
    BY DEF Good, Within
  <2> QED
    BY <1>1, <2>1, JoinAllKeeps
<1>4. Distinct(m) /\ Known(m, p \cup q)
  BY DEF Good, Known
<1> QED
  BY <1>1, <1>2, <1>3, <1>4, JoinAllType DEF Good

-----------------------------------------------------------------------------
(* The first state, and one file that leaves. *)

LEMMA NoDescriptorsGood ==
    /\ NoDescriptors \in Descriptors
    /\ Good([n \in Number |-> None], NoDescriptors, {})
    /\ Sharp(NoDescriptors) /\ Placed(NoDescriptors)
<1> USE WindowAssumption, KernelAssumption, NoneAssumption
<1> DEFINE k == [n \in Number |-> None]
<1>1. /\ NoDescriptors.slots \in [Id -> Slot]
      /\ \A i \in Id : NoDescriptors.slots[i] = [free |-> TRUE, addrs |-> {}]
  BY DEF NoDescriptors, Free, Slot
<1>2. /\ NoDescriptors.table \in [Address -> SUBSET Nat]
      /\ \A a \in Address : NoDescriptors.table[a] = {}
      /\ NoDescriptors.support = {}
  BY DEF NoDescriptors
<1>3. NoDescriptors \in Descriptors
  BY <1>1, <1>2 DEF NoDescriptors, Descriptors
<1>4. Describes(NoDescriptors, k)
  <2>1. \A n \in Number : n < Window => n \in Id
    BY DEF Id, Number
  <2> QED
    BY <1>1, <2>1 DEF Describes
<1>5. Supported(NoDescriptors, k) /\ Distinct(k) /\ Known(k, {})
  BY <1>2 DEF Supported, Distinct, Known
<1>6. /\ Within(NoDescriptors, {}) /\ Above(NoDescriptors)
      /\ Sharp(NoDescriptors) /\ Placed(NoDescriptors)
  BY <1>1, <1>2 DEF Within, Above, Sharp, Placed
<1> QED
  BY <1>3, <1>4, <1>5, <1>6 DEF Good

(* The file of an open number leaves the state as it leaves the kernel. *)
LEMMA RemoveGood ==
    ASSUME NEW d \in Descriptors, NEW k \in Kernels, NEW p, Good(k, d, p),
           NEW n \in Number, k[n] # None
    PROVE  /\ RemoveAddr(k[n], d) \in Descriptors
           /\ Good([k EXCEPT ![n] = None], RemoveAddr(k[n], d), p \ {k[n]})
           /\ Sharp(d) => Sharp(RemoveAddr(k[n], d))
<1> USE NoneAssumption
<1> DEFINE e == RemoveAddr(k[n], d)
           l == [k EXCEPT ![n] = None]
<1>1. k[n] \in Address /\ \A m \in Number : l[m] = IF m = n THEN None ELSE k[m]
  BY DEF Kernels
<1>2. Describes(e, l) /\ Supported(e, l)
  BY RemoveDescribes DEF Good
<1>3. Within(e, p \ {k[n]}) /\ Above(e)
  BY <1>1, RemoveKeeps DEF Good
<1>4. Distinct(l) /\ Known(l, p \ {k[n]})
  BY <1>1 DEF Good, Distinct, Known
<1> QED
  BY <1>1, <1>2, <1>3, <1>4, RemoveType, RemoveSharp DEF Good

=============================================================================
