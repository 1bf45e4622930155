-------------------------- MODULE LibcProgram_proofs --------------------------
(*
What agreement of the contracts, one call at a time, gives a whole program:
for every heap, every number of descriptors, every window of the descriptor
domain, every set of avoided functions and every set of outcomes that calls do
not have.  The contracts themselves are never looked at: what they must satisfy
are CasesAgree, EffectsFit, ResultsAssigned and ClausesAgree of LibcJobs.
*)
EXTENDS LibcProgram, FileDescriptors_proofs, FiniteSetTheorems

-----------------------------------------------------------------------------
(* The inductive invariant. *)

Object ==
    [kind : Kinds, live : BOOLEAN, roomy : BOOLEAN, content : Content, number : Number \cup {NULL}]

Used == { x \in Address : heap[x] # NoObject }

Alive == { x \in Address : heap[x].live }

(* The open files, and the objects that may be one. *)
InUse(k) == { k[n] : n \in Number } \ {None}

FileKinds == {"FileRes", "Dir"}

HeapOK ==
    /\ heap \in [Address -> Object \cup {NoObject}]
    /\ \E u \in Nat : Used = 1 .. u

TableOK ==
    /\ kernel \in Kernels
    /\ files \in Descriptors
    /\ Good(kernel, files, InUse(kernel))
    /\ Sharp(files) /\ Placed(files)

(* The kernel's files are live, and a live stream has a number and a file before it. *)
FilesLive == \A x \in InUse(kernel) : heap[x].live /\ heap[x].kind \in FileKinds

StreamsNumbered ==
    \A x \in Address : heap[x].live /\ heap[x].kind = "File" => heap[x].number \in Number /\ x > 1

KnownOK ==
    /\ known \in [reached : BOOLEAN, live : SUBSET Address, contents : [Address -> SUBSET Content]]
    /\ known.live = Alive
    /\ Running => known.reached

IInv == HeapOK /\ TableOK /\ FilesLive /\ StreamsNumbered /\ KnownOK

(* The contents, on top of it: nothing is known of an object that is not made yet. *)
ContentsOK ==
    /\ ContentsDescribed
    /\ \A x \in Address \ Used : known.contents[x] = Content

-----------------------------------------------------------------------------
(* What a job may do. *)

(* The kinds of objects that are neither files nor streams. *)
PlainKinds == Kinds \ {"FileRes", "Dir", "File"}

(* The effects that make no objects, that make one, and that open files. *)
Quiet ==
    {Keep, Leave, FreeArg(1), CloseStream, CloseDescriptor,
     Fail, Failed(CloseStream), Failed(CloseDescriptor)}

Making == { Make(<<k>>) : k \in PlainKinds }
          \cup { Resize(i, k) : i \in {1, 2}, k \in PlainKinds }
          \cup { Failed(Resize(2, k)) : k \in PlainKinds }
          \cup { Renew(k) : k \in {"LocaleName", "LConv"} }

Opening1 == {OpenStream, OpenDir, OpenDescriptors(1)}

Opening2 == {OpenDescriptors(2)}

Effects == Quiet \cup Making \cup Opening1 \cup Opening2

LEMMA RealEffects ==
    ASSUME NEW f
    PROVE  RealCases(f) \subseteq Effects
<1> DEFINE P == {"Memory", "IConv", "Locale", "Timer"}
<1>1. /\ Keep \in Effects /\ Leave \in Effects /\ FreeArg(1) \in Effects /\ Fail \in Effects
      /\ CloseStream \in Effects /\ CloseDescriptor \in Effects
      /\ Failed(CloseStream) \in Effects /\ Failed(CloseDescriptor) \in Effects
      /\ OpenStream \in Effects /\ OpenDir \in Effects
      /\ OpenDescriptors(1) \in Effects /\ OpenDescriptors(2) \in Effects
  BY DEF Effects, Quiet, Opening1, Opening2
<1>2. P \subseteq PlainKinds
  BY DEF PlainKinds, Kinds
<1>3. /\ \A k \in P : Make(<<k>>) \in Effects
      /\ \A k \in P, i \in {1, 2} : Resize(i, k) \in Effects
      /\ \A k \in P : Failed(Resize(2, k)) \in Effects
      /\ \A k \in {"LocaleName", "LConv"} : Renew(k) \in Effects
  BY <1>2 DEF Effects, Making
<1> DEFINE All(S) == S \subseteq Effects
<1>4. /\ All(Only(Leave)) /\ All(Try(Leave)) /\ All(Try(OpenStream))
      /\ All(Try(OpenDescriptors(1))) /\ All(Try(Make(<<"Memory">>)))
      /\ All(Try(OpenDescriptors(2))) /\ All(Only(CloseStream))
      /\ All(Try(OpenDir)) /\ All(Try(Make(<<"IConv">>))) /\ All(Try(Make(<<"Locale">>)))
      /\ All(Try(Make(<<"Timer">>))) /\ All(Only(FreeArg(1)))
      /\ All({Fail, FreeArg(1), Resize(1, "Memory")}) /\ All(Try(Resize(2, "Locale")))
      /\ All(Try(Renew("LocaleName"))) /\ All(Only(Renew("LConv")))
  BY <1>1, <1>3 DEF Only, Try
<1>5. /\ All(Always(CloseStream)) /\ All(Try(CloseDescriptor) \cup Always(CloseDescriptor))
      /\ All(Try(Resize(2, "Memory")) \cup Always(Resize(2, "Memory"))) /\ All(Keeps)
  <2>1. Failed(Keep) = Fail
    BY DEF Fail
  <2> QED
    BY <1>1, <1>3, <2>1 DEF Try, Always, Keeps
<1> HIDE DEF All
<1>6. All(RealCases(f))
  BY <1>4, <1>5 DEF RealCases
<1> QED
  BY <1>6 DEF All

LEMMA JobShape ==
    ASSUME NEW job \in Jobs
    PROVE  /\ job.real \subseteq Effects
           /\ job.writes => job.param.kind = "Memory"
<1>1. PICK c \in Contracts : \E f \in c.names \ Avoided,
              i \in IF c.params = <<>> THEN {0} ELSE DOMAIN c.params : job = Job(c, f, i)
  BY DEF Jobs
<1>2. PICK f, i : job = Job(c, f, i) /\ (i > 0 \/ ~(i > 0))
  BY <1>1
<1>3. Shown(Outcomes(f), i) \subseteq Effects
  <2>1. Keep \in Effects /\ Fail \in Effects
    BY DEF Effects, Quiet
  <2>2. Outcomes(f) \subseteq Effects
    BY RealEffects DEF Outcomes
  <2> QED
    BY <2>1, <2>2 DEF Shown
<1>4. job.writes => job.param.kind = "Memory"
  <2>1. SUFFICES ASSUME Job(c, f, i).writes
                 PROVE  Job(c, f, i).param.kind = "Memory"
    BY <1>2
  <2>2. i > 0 /\ c.params[i].kind = "Memory"
    BY <2>1 DEF Job
  <2> QED
    BY <2>2 DEF Job
<1> QED
  BY <1>2, <1>3, <1>4 DEF Job

(* The shapes of effects the steps of the program tell apart. *)
IsQuiet(e) ==
    /\ ~Registers(e)
    /\ e.kinds = <<>>
    /\ e.what \in {"keep", "leave", "free", "close stream", "close"}

IsMaking(e) ==
    /\ ~Registers(e)
    /\ e.what \in {"make", "resize", "renew"}
    /\ \E k \in PlainKinds : e.kinds = <<k>> /\ (e.what = "renew" => k \in {"LocaleName", "LConv"})

IsOpening1(e) ==
    \/ e.what = "open stream" /\ e.kinds = <<"FileRes", "File">>
    \/ e.what = "open directory" /\ e.kinds = <<"Dir">>
    \/ e.what = "open" /\ e.kinds = <<"FileRes">>

IsOpening2(e) == e.what = "open" /\ e.kinds = <<"FileRes", "FileRes">>

LEMMA EffectShape ==
    ASSUME NEW e \in Effects
    PROVE  /\ IsQuiet(e) \/ IsMaking(e) \/ IsOpening1(e) \/ IsOpening2(e)
           /\ e.what = "leave" => e = Leave
<1> DEFINE Shaped(x) == /\ IsQuiet(x) \/ IsMaking(x) \/ IsOpening1(x) \/ IsOpening2(x)
                        /\ x.what = "leave" => x = Leave
<1>1. Shaped(Keep) /\ Shaped(Leave)
  BY DEF Keep, Leave, Effect, IsQuiet, Registers
<1>2. Shaped(FreeArg(1))
  BY DEF FreeArg, Effect, IsQuiet, Registers
<1>3. Shaped(CloseStream) /\ Shaped(CloseDescriptor)
  BY DEF CloseStream, CloseDescriptor, Effect, IsQuiet, Registers
<1>3b. Shaped(Fail) /\ Shaped(Failed(CloseStream)) /\ Shaped(Failed(CloseDescriptor))
  BY DEF Fail, Failed, Keep, Leave, CloseStream, CloseDescriptor, Effect, IsQuiet, Registers
<1>4. Shaped(OpenStream) /\ Shaped(OpenDir)
  BY DEF OpenStream, OpenDir, Effect, IsOpening1
<1>5. Shaped(OpenDescriptors(1))
  <2>1. [i \in 1 .. 1 |-> "FileRes"] = <<"FileRes">>
    OBVIOUS
  <2> QED
    BY <2>1 DEF OpenDescriptors, Effect, IsOpening1
<1>6. Shaped(OpenDescriptors(2))
  <2>1. [i \in 1 .. 2 |-> "FileRes"] = <<"FileRes", "FileRes">>
    OBVIOUS
  <2> QED
    BY <2>1 DEF OpenDescriptors, Effect, IsOpening2
<1>7. ASSUME NEW k \in PlainKinds
      PROVE  Shaped(Make(<<k>>))
  BY DEF Make, Effect, IsMaking, Registers
<1>8. ASSUME NEW k \in PlainKinds, NEW i \in {1, 2}
      PROVE  Shaped(Resize(i, k)) /\ Shaped(Failed(Resize(i, k)))
  BY DEF Resize, Failed, Effect, IsMaking, Registers
<1>9. ASSUME NEW k \in {"LocaleName", "LConv"}
      PROVE  Shaped(Renew(k))
  <2>1. k \in PlainKinds
    BY DEF PlainKinds, Kinds
  <2> QED
    BY <2>1 DEF Renew, Effect, IsMaking, Registers
<1> HIDE DEF Shaped
<1>10. ASSUME e \in Quiet
       PROVE  Shaped(e)
  BY <1>1, <1>2, <1>3, <1>3b, <1>10, Zenon DEF Quiet
<1>11. ASSUME e \in Making
       PROVE  Shaped(e)
  <2>1. \/ \E k \in PlainKinds : e = Make(<<k>>)
        \/ \E i \in {1, 2}, k \in PlainKinds : e = Resize(i, k) \/ e = Failed(Resize(i, k))
        \/ \E k \in {"LocaleName", "LConv"} : e = Renew(k)
    BY <1>11 DEF Making
  <2> QED
    BY <2>1, <1>7, <1>8, <1>9, Zenon
<1>12. ASSUME e \in Opening1 \cup Opening2
       PROVE  Shaped(e)
  BY <1>4, <1>5, <1>6, <1>12, Zenon DEF Opening1, Opening2
<1>13. Shaped(e)
  BY <1>10, <1>11, <1>12 DEF Effects
<1> QED
  BY <1>13 DEF Shaped

-----------------------------------------------------------------------------
(* New addresses, and the numbers the kernel gives out. *)

LEMMA FreshNew ==
    ASSUME HeapOK
    PROVE  \E u \in Nat :
              /\ Used = 1 .. u
              /\ Fresh(<<>>) = <<>>
              /\ \A k : Fresh(<<k>>) = <<u + 1>>
              /\ \A j, k : Fresh(<<j, k>>) = <<u + 1, u + 2>>
<1>1. PICK u \in Nat : Used = 1 .. u
  BY DEF HeapOK
<1>2. Cardinality(Used) = u
  <2>1. 1 \in Int /\ u \in Int
    OBVIOUS
  <2>2. Cardinality(1 .. u) = IF 1 > u THEN 0 ELSE u - 1 + 1
    BY <2>1, FS_Interval
  <2> QED
    BY <1>1, <2>2
<1>3. \A kinds : Fresh(kinds) = [i \in DOMAIN kinds |-> u + i]
  BY <1>2 DEF Fresh, Used
<1>4. \A k : Fresh(<<k>>) = <<u + 1>>
  BY <1>3
<1>5. \A j, k : Fresh(<<j, k>>) = <<u + 1, u + 2>>
  BY <1>3
<1>6. Fresh(<<>>) = <<>>
  BY <1>3
<1> QED
  BY <1>1, <1>4, <1>5, <1>6

LEMMA OpeningGood ==
    ASSUME NEW k \in Kernels, NEW n \in Number, Lowest(n, k),
           NEW d \in Descriptors, Good(k, d, InUse(k)), Sharp(d), Placed(d),
           NEW x \in Address \ InUse(k), NEW ids \in Handed(d)
    PROVE  LET l == [k EXCEPT ![n] = x]
               e == Register(x, d, ids)
           IN  /\ l \in Kernels /\ e \in Descriptors
               /\ Good(l, e, InUse(l)) /\ Sharp(e) /\ Placed(e)
               /\ InUse(l) = InUse(k) \cup {x}
<1> DEFINE l == [k EXCEPT ![n] = x]
<1>1. InUse(k) \in SUBSET Address
  BY DEF InUse, Kernels
<1>2. /\ Register(x, d, ids) \in Descriptors
      /\ Good(l, Register(x, d, ids), InUse(k) \cup {x})
      /\ Sharp(Register(x, d, ids))
  BY <1>1, RegisterGood DEF Lowest
<1>3. l \in Kernels
  BY DEF Kernels
<1>4. InUse(l) = InUse(k) \cup {x}
  BY NoneAssumption DEF InUse, Kernels, Lowest
<1>5. Placed(Register(x, d, ids))
  BY RegisterPlaced DEF Good
<1> QED
  BY <1>2, <1>3, <1>4, <1>5

-----------------------------------------------------------------------------
(* One call: what it makes and what it ends. *)

New(e) == Range(Fresh(e.kinds))

Gone(e, t) == Dying(e, t, IF Closed(e, t) = NULL THEN None ELSE kernel[Closed(e, t)])

FilesMade(e) == IF Registers(e) THEN Range(Files(e)) ELSE {}

(* The target of an effect is what the effect is made for (see EffectsFit). *)
Fitting(e, t) ==
    /\ e.what \in {"free", "resize"} =>
           t = NULL \/ (t \in Address /\ heap[t].kind \notin {"FileRes", "File", "Dir"})
    /\ e.what = "close" => t = NULL \/ (t \in Number /\ kernel[t] # None)
    /\ e.what = "close stream" => t \in Address /\ heap[t].kind = "File" /\ heap[t].live

Writable(t, writes) == writes => t = NULL \/ (t \in Address /\ heap[t].kind = "Memory")

LEMMA JobFits ==
    ASSUME EffectsFit, NEW job \in Jobs, NEW t \in Targets(job.param), Legal(job, t),
           NEW e \in job.real
    PROVE  /\ e \in Effects
           /\ Fitting(e, t)
           /\ Writable(t, job.writes)
<1>1. e \in Effects /\ (job.writes => job.param.kind = "Memory")
  BY JobShape
<1>2. \/ t = NULL
      \/ job.param.kind = "FileRes" /\ t \in Number
      \/ job.param.kind # "FileRes" /\ t \in Address /\ heap[t].kind = job.param.kind
  BY DEF Targets, Objects
<1>3. job.param.kind = "FileRes" /\ t # NULL => kernel[t] # None
  BY DEF Legal
<1>4. job.param.kind = "File" /\ t # NULL => heap[t].live
  BY DEF Legal
<1>5. t = NULL => job.param.kind = "nothing" \/ job.param.null
  <2>1. NULL \notin Number /\ NULL \notin Address
    BY AddressAssumption DEF NULL, Number
  <2> QED
    BY <2>1 DEF Targets, Objects
<1>6. CASE e.what \in {"free", "resize"}
  <2>1. job.param.kind \notin {"FileRes", "File", "Dir"}
    BY <1>6 DEF EffectsFit
  <2> QED
    BY <1>1, <1>2, <1>6, <2>1 DEF Fitting, Writable
<1>7. CASE e.what = "close"
  <2>1. job.param.kind = "FileRes"
    BY <1>7 DEF EffectsFit
  <2> QED
    BY <1>1, <1>2, <1>3, <1>7, <2>1 DEF Fitting, Writable
<1>8. CASE e.what = "close stream"
  <2>1. job.param.kind = "File" /\ ~job.param.null
    BY <1>8 DEF EffectsFit
  <2> QED
    BY <1>1, <1>2, <1>4, <1>5, <1>8, <2>1 DEF Fitting, Writable
<1>9. CASE e.what \notin {"free", "resize", "close", "close stream"}
  BY <1>1, <1>2, <1>9 DEF Fitting, Writable
<1> QED
  BY <1>6, <1>7, <1>8, <1>9

(* A number that is closed stands for one file, and the analysis finds it. *)
LEMMA ClosedFile ==
    ASSUME IInv, NEW e, NEW t, Fitting(e, t), Possible(e, t)
    PROVE  LET n == Closed(e, t) IN
           \/ n = NULL /\ Looked(n) = {None}
           \/ /\ n \in Number /\ n # NULL
              /\ kernel[n] \in Address /\ kernel[n] # None
              /\ Looked(n) = {kernel[n]}
              /\ e.what \in {"close", "close stream"}
<1> DEFINE n == Closed(e, t)
<1>1. ASSUME n \in Number, kernel[n] # None
      PROVE  n # NULL /\ kernel[n] \in Address /\ Looked(n) = {kernel[n]}
  <2>1. n # NULL /\ kernel[n] \in Address
    BY <1>1 DEF NULL, Number, IInv, TableOK, Kernels
  <2>2. kernel[n] \in Find(n, files)
    BY <1>1, FindSound DEF IInv, TableOK, Good
  <2> QED
    BY <2>1, <2>2 DEF Looked
<1>2. CASE e.what = "close"
  <2>1. n = t
    BY <1>2 DEF Closed
  <2>2. t = NULL \/ (t \in Number /\ kernel[t] # None)
    BY <1>2 DEF Fitting
  <2> QED
    BY <1>1, <1>2, <2>1, <2>2 DEF Looked
<1>3. CASE e.what = "close stream"
  <2>1. n = heap[t].number
    BY <1>3 DEF Closed
  <2>2. t \in Address /\ heap[t].kind = "File" /\ heap[t].live
    BY <1>3 DEF Fitting
  <2>3. n \in Number /\ t > 1
    BY <2>1, <2>2 DEF IInv, StreamsNumbered
  <2>4. kernel[n] = t - 1
    BY <1>3, <2>1 DEF Possible
  <2>5. kernel[n] # None
    BY <2>2, <2>3, <2>4, AddressAssumption
  <2> QED
    BY <1>1, <1>3, <2>3, <2>5
<1>4. CASE e.what \notin {"close", "close stream"}
  BY <1>4 DEF Closed, Looked
<1> QED
  BY <1>2, <1>3, <1>4

(* Sequences of one and of two members. *)
LEMMA Short ==
    /\ \A a : Len(<<a>>) = 1 /\ DOMAIN <<a>> = {1} /\ <<a>>[1] = a /\ Range(<<a>>) = {a}
    /\ \A a, b : /\ Len(<<a, b>>) = 2 /\ DOMAIN <<a, b>> = {1, 2}
                 /\ <<a, b>>[1] = a /\ <<a, b>>[2] = b
                 /\ Range(<<a, b>>) = {a, b}
    /\ Range(<<>>) = {}
    /\ \A a, b : <<a>> # <<a, b>>
<1>1. \A a : Len(<<a>>) = 1 /\ DOMAIN <<a>> = {1} /\ <<a>>[1] = a
  OBVIOUS
<1>2. \A a, b : Len(<<a, b>>) = 2 /\ <<a, b>>[1] = a /\ <<a, b>>[2] = b
  OBVIOUS
<1>3. \A a, b : DOMAIN <<a, b>> = {1, 2}
  OBVIOUS
<1>4. \A a : Range(<<a>>) = {a}
  BY DEF Range
<1>5. \A a, b : Range(<<a, b>>) = {a, b}
  BY DEF Range
<1>6. Range(<<>>) = {}
  BY DEF Range
<1>7. \A a, b : <<a>> # <<a, b>>
  BY <1>1, <1>2
<1> QED
  BY <1>1, <1>2, <1>3, <1>4, <1>5, <1>6, <1>7

(* The shapes exclude each other. *)
LEMMA Shapes ==
    ASSUME NEW e
    PROVE  /\ IsQuiet(e) => ~Registers(e) /\ ~IsMaking(e) /\ ~IsOpening1(e) /\ ~IsOpening2(e)
           /\ IsMaking(e) => ~Registers(e) /\ ~IsQuiet(e) /\ ~IsOpening1(e) /\ ~IsOpening2(e)
           /\ IsOpening1(e) => Registers(e) /\ ~IsQuiet(e) /\ ~IsMaking(e) /\ ~IsOpening2(e)
           /\ IsOpening2(e) => Registers(e) /\ ~IsQuiet(e) /\ ~IsMaking(e) /\ ~IsOpening1(e)
<1>1. <<"FileRes">> # <<"FileRes", "FileRes">>
  BY Short
<1>2. IsOpening1(e) \/ IsOpening2(e) => Registers(e)
  BY DEF IsOpening1, IsOpening2, Registers
<1>3. IsQuiet(e) \/ IsMaking(e) => ~Registers(e)
  BY DEF IsQuiet, IsMaking
<1>4. ~(IsQuiet(e) /\ IsMaking(e))
  BY DEF IsQuiet, IsMaking
<1>5. ~(IsOpening1(e) /\ IsOpening2(e))
  BY <1>1 DEF IsOpening1, IsOpening2
<1> QED
  BY <1>2, <1>3, <1>4, <1>5

(* The addresses of new objects. *)
LEMMA NewAddresses ==
    ASSUME HeapOK, NEW e \in Effects, NEW t, Possible(e, t)
    PROVE  \E u \in Nat :
              /\ Used = 1 .. u
              /\ New(e) \subseteq Address /\ New(e) \intersect Used = {}
              /\ \E v \in Nat : Used \cup New(e) = 1 .. v
              /\ IsQuiet(e) => New(e) = {} /\ FilesMade(e) = {}
              /\ IsMaking(e) => /\ Fresh(e.kinds) = <<u + 1>>
                                /\ New(e) = {u + 1} /\ FilesMade(e) = {}
              /\ IsOpening1(e) => /\ Files(e) = <<u + 1>> /\ FilesMade(e) = {u + 1}
                                  /\ \/ /\ Fresh(e.kinds) = <<u + 1>> /\ New(e) = {u + 1}
                                        /\ e.kinds \in {<<"FileRes">>, <<"Dir">>}
                                     \/ /\ Fresh(e.kinds) = <<u + 1, u + 2>>
                                        /\ New(e) = {u + 1, u + 2}
                                        /\ e.kinds = <<"FileRes", "File">>
              /\ IsOpening2(e) => /\ Files(e) = <<u + 1, u + 2>> /\ Fresh(e.kinds) = Files(e)
                                  /\ New(e) = {u + 1, u + 2} /\ FilesMade(e) = New(e)
<1>1. PICK u \in Nat :
         /\ Used = 1 .. u
         /\ Fresh(<<>>) = <<>>
         /\ \A k : Fresh(<<k>>) = <<u + 1>>
         /\ \A j, k : Fresh(<<j, k>>) = <<u + 1, u + 2>>
  BY FreshNew
<1>2. \A i \in DOMAIN e.kinds : Fresh(e.kinds)[i] \in Address
  BY DEF Possible
<1>3. /\ u + 1 \notin Used /\ u + 2 \notin Used
      /\ Used \cup {} = 1 .. u /\ Used \cup {u + 1} = 1 .. (u + 1)
      /\ Used \cup {u + 1, u + 2} = 1 .. (u + 2)
      /\ u + 1 \in Nat /\ u + 2 \in Nat
  BY <1>1
<1>4. /\ \A j : e.kinds = <<j>> => Fresh(e.kinds) = <<u + 1>> /\ New(e) = {u + 1}
                                   /\ u + 1 \in Address
      /\ \A j, k : e.kinds = <<j, k>> =>
             /\ Fresh(e.kinds) = <<u + 1, u + 2>> /\ New(e) = {u + 1, u + 2}
             /\ u + 1 \in Address /\ u + 2 \in Address
  <2>1. ASSUME NEW j, e.kinds = <<j>>
        PROVE  Fresh(e.kinds) = <<u + 1>> /\ New(e) = {u + 1} /\ u + 1 \in Address
    <3>1. Fresh(e.kinds) = <<u + 1>> /\ New(e) = {u + 1}
      BY <1>1, <2>1, Short DEF New
    <3>2. 1 \in DOMAIN e.kinds /\ Fresh(e.kinds)[1] = u + 1
      BY <2>1, <3>1, Short
    <3> QED
      BY <1>2, <3>1, <3>2
  <2>2. ASSUME NEW j, NEW k, e.kinds = <<j, k>>
        PROVE  /\ Fresh(e.kinds) = <<u + 1, u + 2>> /\ New(e) = {u + 1, u + 2}
               /\ u + 1 \in Address /\ u + 2 \in Address
    <3>1. Fresh(e.kinds) = <<u + 1, u + 2>> /\ New(e) = {u + 1, u + 2}
      BY <1>1, <2>2, Short DEF New
    <3>2. /\ 1 \in DOMAIN e.kinds /\ Fresh(e.kinds)[1] = u + 1
          /\ 2 \in DOMAIN e.kinds /\ Fresh(e.kinds)[2] = u + 2
      BY <2>2, <3>1, Short
    <3> QED
      BY <1>2, <3>1, <3>2
  <2> QED
    BY <2>1, <2>2
<1>5. ASSUME IsQuiet(e)
      PROVE  New(e) = {} /\ FilesMade(e) = {}
  BY <1>1, <1>5, Short DEF IsQuiet, New, FilesMade
<1>6. ASSUME IsMaking(e)
      PROVE  /\ Fresh(e.kinds) = <<u + 1>>
             /\ New(e) = {u + 1} /\ FilesMade(e) = {} /\ u + 1 \in Address
  <2>1. PICK k : e.kinds = <<k>>
    BY <1>6 DEF IsMaking
  <2>2. FilesMade(e) = {}
    BY <1>6 DEF IsMaking, FilesMade
  <2> QED
    BY <1>4, <2>1, <2>2
<1>7. ASSUME IsOpening1(e)
      PROVE  /\ Files(e) = <<u + 1>> /\ FilesMade(e) = {u + 1} /\ u + 1 \in Address
             /\ \/ /\ Fresh(e.kinds) = <<u + 1>> /\ New(e) = {u + 1}
                   /\ e.kinds \in {<<"FileRes">>, <<"Dir">>}
                \/ /\ Fresh(e.kinds) = <<u + 1, u + 2>>
                   /\ New(e) = {u + 1, u + 2} /\ u + 2 \in Address
                   /\ e.kinds = <<"FileRes", "File">>
  <2>1. CASE e.what = "open stream" /\ e.kinds = <<"FileRes", "File">>
    <3>1. /\ Fresh(e.kinds) = <<u + 1, u + 2>> /\ New(e) = {u + 1, u + 2}
          /\ u + 1 \in Address /\ u + 2 \in Address
      BY <1>4, <2>1
    <3>2. Files(e) = <<u + 1>>
      <4>1. Fresh(e.kinds)[1] = u + 1
        BY <3>1
      <4>2. Files(e) = <<Fresh(e.kinds)[1]>>
        BY <2>1 DEF Files
      <4> QED
        BY <4>1, <4>2
    <3>3. FilesMade(e) = {u + 1}
      BY <1>7, <3>2, Shapes, Short DEF FilesMade
    <3> QED
      BY <2>1, <3>1, <3>2, <3>3
  <2>2. CASE e.what # "open stream" /\ e.kinds \in {<<"FileRes">>, <<"Dir">>}
    <3>1. Fresh(e.kinds) = <<u + 1>> /\ New(e) = {u + 1} /\ u + 1 \in Address
      BY <1>4, <2>2
    <3>2. Files(e) = <<u + 1>>
      BY <2>2, <3>1 DEF Files
    <3>3. FilesMade(e) = {u + 1}
      BY <1>7, <3>2, Shapes, Short DEF FilesMade
    <3> QED
      BY <2>2, <3>1, <3>2, <3>3
  <2> QED
    BY <1>7, <2>1, <2>2 DEF IsOpening1
<1>8. ASSUME IsOpening2(e)
      PROVE  /\ Files(e) = <<u + 1, u + 2>> /\ Fresh(e.kinds) = Files(e)
             /\ New(e) = {u + 1, u + 2} /\ FilesMade(e) = New(e)
             /\ u + 1 \in Address /\ u + 2 \in Address
  <2>1. /\ Fresh(e.kinds) = <<u + 1, u + 2>> /\ New(e) = {u + 1, u + 2}
        /\ u + 1 \in Address /\ u + 2 \in Address
    BY <1>4, <1>8 DEF IsOpening2
  <2>2. Files(e) = Fresh(e.kinds)
    BY <1>8 DEF Files, IsOpening2
  <2>3. FilesMade(e) = {u + 1, u + 2}
    BY <1>8, <2>1, <2>2, Shapes, Short DEF FilesMade
  <2> QED
    BY <2>1, <2>2, <2>3
<1>9. /\ New(e) \subseteq Address
      /\ New(e) = {} \/ New(e) = {u + 1} \/ New(e) = {u + 1, u + 2}
  <2>1. IsQuiet(e) \/ IsMaking(e) \/ IsOpening1(e) \/ IsOpening2(e)
    BY EffectShape
  <2> QED
    BY <1>5, <1>6, <1>7, <1>8, <2>1
<1>10. /\ New(e) \intersect Used = {}
       /\ \E v \in Nat : Used \cup New(e) = 1 .. v
  BY <1>3, <1>9
<1> WITNESS u \in Nat
<1> QED
  BY <1>1, <1>5, <1>6, <1>7, <1>8, <1>9, <1>10, Zenon

(* The records of objects. *)
LEMMA DeadObject ==
    /\ Dead("none") = NoObject
    /\ NoObject \notin Object
    /\ \A k \in Kinds : Dead(k) \in Object /\ Dead(k).kind = k /\ ~Dead(k).live
    /\ ~NoObject.live /\ NoObject.kind = "none" /\ "none" \notin Kinds
<1>1. "none" \notin Kinds
  BY DEF Kinds
<1>2. NoObject.kind = "none" /\ ~NoObject.live /\ Dead("none") = NoObject
  BY DEF NoObject, Dead
<1>3. NoObject \notin Object
  <2>1. \A o \in Object : o.kind \in Kinds
    BY DEF Object
  <2> QED
    BY <1>1, <1>2, <2>1
<1>4. ASSUME NEW k \in Kinds
      PROVE  Dead(k) \in Object /\ Dead(k).kind = k /\ ~Dead(k).live
  BY DEF Dead, Object, Content
<1> QED
  BY <1>1, <1>2, <1>3, <1>4

LEMMA BornObject ==
    ASSUME NEW k \in Kinds, NEW r \in BOOLEAN, NEW c \in Content, NEW n,
           k = "File" => n \in Number
    PROVE  /\ Born(k, r, c, n) \in Object
           /\ Born(k, r, c, n).kind = k /\ Born(k, r, c, n).live
           /\ k = "File" => Born(k, r, c, n).number = n
BY DEF Born, Object, Content

(* The kind an effect makes at an address. *)
MadeKind(e, x) == e.kinds[CHOOSE i \in DOMAIN Fresh(e.kinds) : Fresh(e.kinds)[i] = x]

LEMMA MadeKinds ==
    ASSUME HeapOK, NEW e \in Effects, NEW t, Possible(e, t), NEW x \in New(e)
    PROVE  /\ MadeKind(e, x) \in Kinds
           /\ x \in FilesMade(e) => MadeKind(e, x) \in FileKinds
           /\ MadeKind(e, x) = "File" => IsOpening1(e) /\ x > 1
<1> DEFINE i == CHOOSE j \in DOMAIN Fresh(e.kinds) : Fresh(e.kinds)[j] = x
<1>1. i \in DOMAIN Fresh(e.kinds) /\ Fresh(e.kinds)[i] = x
  BY DEF New, Range
<1>2. MadeKind(e, x) = e.kinds[i]
  BY DEF MadeKind
<1> HIDE DEF i
<1>3. PICK u \in Nat :
         /\ IsQuiet(e) => New(e) = {} /\ FilesMade(e) = {}
         /\ IsMaking(e) => Fresh(e.kinds) = <<u + 1>> /\ FilesMade(e) = {}
         /\ IsOpening1(e) => /\ FilesMade(e) = {u + 1}
                             /\ \/ /\ Fresh(e.kinds) = <<u + 1>>
                                   /\ e.kinds \in {<<"FileRes">>, <<"Dir">>}
                                \/ /\ Fresh(e.kinds) = <<u + 1, u + 2>>
                                   /\ e.kinds = <<"FileRes", "File">>
         /\ IsOpening2(e) => Fresh(e.kinds) = <<u + 1, u + 2>>
  BY NewAddresses
<1>4. CASE IsMaking(e)
  <2>1. PICK k \in PlainKinds : e.kinds = <<k>>
    BY <1>4 DEF IsMaking
  <2>2. i = 1 /\ FilesMade(e) = {}
    BY <1>1, <1>3, <1>4, Short
  <2>3. MadeKind(e, x) = k
    BY <1>2, <2>1, <2>2
  <2> QED
    BY <2>2, <2>3 DEF PlainKinds
<1>5. CASE IsOpening1(e)
  <2>1. CASE /\ Fresh(e.kinds) = <<u + 1>>
             /\ e.kinds \in {<<"FileRes">>, <<"Dir">>}
    <3>1. i = 1
      BY <1>1, <2>1, Short
    <3>2. MadeKind(e, x) \in FileKinds
      BY <1>2, <2>1, <3>1 DEF FileKinds
    <3> QED
      BY <3>2 DEF FileKinds, Kinds
  <2>2. CASE /\ Fresh(e.kinds) = <<u + 1, u + 2>>
             /\ e.kinds = <<"FileRes", "File">>
    <3>1. (i = 1 /\ x = u + 1) \/ (i = 2 /\ x = u + 2)
      BY <1>1, <2>2, Short
    <3>2. CASE i = 1 /\ x = u + 1
      <4>1. MadeKind(e, x) = "FileRes"
        BY <1>2, <2>2, <3>2
      <4> QED
        BY <4>1 DEF FileKinds, Kinds
    <3>3. CASE i = 2 /\ x = u + 2
      <4>1. MadeKind(e, x) = "File"
        BY <1>2, <2>2, <3>3
      <4>2. x > 1 /\ x \notin FilesMade(e)
        BY <1>3, <1>5, <3>3
      <4> QED
        BY <1>5, <4>1, <4>2 DEF Kinds
    <3> QED
      BY <3>1, <3>2, <3>3
  <2> QED
    BY <1>3, <1>5, <2>1, <2>2
<1>6. CASE IsOpening2(e)
  <2>1. e.kinds = <<"FileRes", "FileRes">> /\ i \in {1, 2}
    BY <1>1, <1>3, <1>6, Short DEF IsOpening2
  <2>2. MadeKind(e, x) = "FileRes"
    BY <1>2, <2>1
  <2> QED
    BY <2>2 DEF FileKinds, Kinds
<1> QED
  BY <1>3, <1>4, <1>5, <1>6, EffectShape

-----------------------------------------------------------------------------
(* Opening files, and registering them. *)

(* The domain follows the kernel, with the open files as the pool. *)
Served(k, d) ==
    /\ k \in Kernels /\ d \in Descriptors
    /\ Good(k, d, InUse(k)) /\ Sharp(d) /\ Placed(d)

LEMMA OpenOne ==
    ASSUME NEW k, NEW d, NEW x, NEW l, NEW c,
           Served(k, d), x \in Address \ InUse(k),
           l \in Opening({k}, x), c \in Registering({d}, x)
    PROVE  /\ Served(l, c)
           /\ InUse(l) = InUse(k) \cup {x}
<1>1. PICK n \in Number : Lowest(n, k) /\ l = [k EXCEPT ![n] = x]
  BY DEF Opening
<1>2. PICK ids \in Handed(d) : c = Register(x, d, ids)
  BY DEF Registering
<1> QED
  BY <1>1, <1>2, OpeningGood DEF Served

LEMMA OpenTwo ==
    ASSUME NEW k, NEW d, NEW x, NEW y, NEW l, NEW c,
           Served(k, d), x \in Address \ InUse(k), y \in Address \ InUse(k), x # y,
           l \in Opening(Opening({k}, x), y), c \in Registering(Registering({d}, x), y)
    PROVE  /\ Served(l, c)
           /\ \A z : z \in InUse(l) <=> z \in InUse(k) \/ z = x \/ z = y
<1>1. PICK j \in Opening({k}, x) : l \in Opening({j}, y)
  BY DEF Opening
<1>2. PICK f \in Registering({d}, x) : c \in Registering({f}, y)
  BY DEF Registering
<1>3. Served(j, f)
  BY <1>1, <1>2, OpenOne
<1>4. InUse(j) = InUse(k) \cup {x}
  BY <1>1, <1>2, OpenOne, Zenon
<1>5. y \in Address \ InUse(j)
  BY <1>4
<1>6. Served(l, c)
  BY <1>1, <1>2, <1>3, <1>5, OpenOne
<1>7. InUse(l) = InUse(j) \cup {y}
  BY <1>1, <1>2, <1>3, <1>5, OpenOne, Zenon
<1> QED
  BY <1>4, <1>6, <1>7

LEMMA Opens ==
    ASSUME IInv, NEW e \in Effects, NEW t, Possible(e, t), NEW opened \in Opened(e),
           NEW d \in IF Registers(e) THEN Registered(e) ELSE {files}
    PROVE  /\ Served(opened, d)
           /\ InUse(opened) = InUse(kernel) \cup FilesMade(e)
<1>1. PICK x, y :
         /\ x # y /\ x \notin Used /\ y \notin Used
         /\ IsQuiet(e) => FilesMade(e) = {}
         /\ IsMaking(e) => FilesMade(e) = {}
         /\ IsOpening1(e) => Files(e) = <<x>> /\ FilesMade(e) = {x} /\ x \in Address
         /\ IsOpening2(e) => /\ Files(e) = <<x, y>> /\ FilesMade(e) = {x, y}
                             /\ x \in Address /\ y \in Address
  <2>1. HeapOK
    BY DEF IInv
  <2>2. PICK u \in Nat :
           /\ Used = 1 .. u
           /\ New(e) \subseteq Address
           /\ IsQuiet(e) => FilesMade(e) = {}
           /\ IsMaking(e) => FilesMade(e) = {}
           /\ IsOpening1(e) => /\ Files(e) = <<u + 1>> /\ FilesMade(e) = {u + 1}
                               /\ u + 1 \in New(e)
           /\ IsOpening2(e) => Files(e) = <<u + 1, u + 2>> /\ New(e) = {u + 1, u + 2}
                               /\ FilesMade(e) = New(e)
    BY <2>1, NewAddresses
  <2>3. u + 1 # u + 2 /\ u + 1 \notin Used /\ u + 2 \notin Used
    BY <2>2
  <2> QED
    BY <2>2, <2>3
<1>2. kernel \in Kernels /\ Served(kernel, files)
  BY DEF IInv, TableOK, Served
<1>3. x \notin InUse(kernel) /\ y \notin InUse(kernel)
  <2>1. \A z \in InUse(kernel) : z \in Address /\ heap[z].live
    BY <1>2 DEF IInv, FilesLive, InUse, Kernels
  <2>2. \A z \in InUse(kernel) : z \in Used
    BY <2>1, DeadObject DEF Used
  <2> QED
    BY <1>1, <2>2
<1>4. CASE IsQuiet(e) \/ IsMaking(e)
  <2>1. ~Registers(e)
    BY <1>4, Shapes
  <2>2. Opened(e) = {kernel}
    BY <2>1 DEF Opened
  <2>3. opened = kernel /\ d = files
    BY <2>1, <2>2
  <2>4. FilesMade(e) = {}
    BY <1>1, <1>4
  <2> QED
    BY <1>2, <2>1, <2>3, <2>4
<1>5. CASE IsOpening1(e)
  <2>1. Registers(e) /\ Files(e) = <<x>> /\ FilesMade(e) = {x}
    BY <1>1, <1>5, Shapes
  <2>2. Len(Files(e)) = 1 /\ Files(e)[1] = x
    BY <2>1
  <2>3. opened \in Opening({kernel}, x) /\ d \in Registering({files}, x)
    BY <2>1, <2>2 DEF Opened, Registered
  <2>4. x \in Address \ InUse(kernel)
    BY <1>1, <1>3, <1>5
  <2>5. Served(opened, d)
    BY <1>2, <2>3, <2>4, OpenOne
  <2>6. InUse(opened) = InUse(kernel) \cup {x}
    BY <1>2, <2>3, <2>4, OpenOne, Zenon
  <2> QED
    BY <2>1, <2>5, <2>6
<1>6. CASE IsOpening2(e)
  <2>1. Registers(e) /\ Files(e) = <<x, y>> /\ FilesMade(e) = {x, y}
    BY <1>1, <1>6, Shapes
  <2>2. Len(Files(e)) = 2 /\ Files(e)[1] = x /\ Files(e)[2] = y
    BY <2>1
  <2>3. /\ opened \in Opening(Opening({kernel}, x), y)
        /\ d \in Registering(Registering({files}, x), y)
    BY <2>1, <2>2 DEF Opened, Registered
  <2>4. x \in Address \ InUse(kernel) /\ y \in Address \ InUse(kernel) /\ x # y
    BY <1>1, <1>3, <1>6
  <2>5. Served(opened, d)
    BY <1>2, <2>3, <2>4, OpenTwo
  <2>6. InUse(opened) = InUse(kernel) \cup {x, y}
    <3>1. \A z : z \in InUse(opened) <=> z \in InUse(kernel) \/ z = x \/ z = y
      BY <1>2, <2>3, <2>4, OpenTwo
    <3> QED
      BY <3>1
  <2> QED
    BY <2>1, <2>5, <2>6
<1> QED
  BY <1>4, <1>5, <1>6, EffectShape

(* The number of a stream is the one its file was given. *)
LEMMA StreamNumber ==
    ASSUME IInv, NEW e \in Effects, NEW t, Possible(e, t), IsOpening1(e), NEW opened \in Opened(e)
    PROVE  NumberOf(Files(e)[1], opened) \in Number
<1>1. Registers(e)
  BY Shapes
<1>2. HeapOK /\ kernel \in Kernels
  BY DEF IInv, TableOK
<1>3. PICK x : Files(e) = <<x>>
  BY <1>2, NewAddresses
<1>4. Len(Files(e)) = 1 /\ Files(e)[1] = x
  BY <1>3
<1>5. opened \in Opening({kernel}, x)
  BY <1>1, <1>4 DEF Opened
<1>6. PICK n \in Number : opened = [kernel EXCEPT ![n] = x]
  BY <1>5 DEF Opening
<1>7. opened[n] = x
  BY <1>2, <1>6 DEF Kernels
<1> QED
  BY <1>4, <1>7 DEF NumberOf

-----------------------------------------------------------------------------
(* One call: the heap. *)

LEMMA Written ==
    ASSUME NEW o \in Object, NEW c \in Content
    PROVE  LET p == [o EXCEPT !.content = c] IN
           p \in Object /\ p.kind = o.kind /\ p.live = o.live /\ p.number = o.number
BY DEF Object

(* What becomes of one address. *)
LEMMA AddressStep ==
    ASSUME IInv, NEW e \in Effects, NEW t, NEW writes, Possible(e, t),
           Writable(t, writes), Run(e, t, writes), NEW x \in Address
    PROVE  /\ heap'[x] \in Object \cup {NoObject}
           /\ heap'[x] = NoObject <=> heap[x] = NoObject /\ x \notin New(e)
           /\ heap'[x].live <=> x \in New(e) \/ (heap[x].live /\ x \notin Gone(e, t))
           /\ x \in New(e) => /\ heap'[x].kind = MadeKind(e, x)
                              /\ MadeKind(e, x) = "File" => heap'[x].number \in Number
           /\ x \notin New(e) => heap'[x].kind = heap[x].kind
           /\ x \notin New(e) /\ heap'[x].live =>
                  /\ heap'[x].number = heap[x].number
                  /\ heap'[x].content = heap[x].content \/ (x = t /\ writes)
<1>1. PICK opened \in Opened(e), roomy \in BOOLEAN, content \in Content :
         heap' = [y \in Address |->
                   IF y \in New(e)
                   THEN Born(MadeKind(e, y), roomy, content,
                             IF Registers(e) THEN NumberOf(Files(e)[1], opened) ELSE NULL)
                   ELSE IF y \in Gone(e, t) THEN Dead(heap[y].kind)
                   ELSE IF y = t /\ writes THEN [heap[y] EXCEPT !.content = content]
                   ELSE heap[y]]
  BY DEF Run, New, Gone, MadeKind
<1>2. heap[x] \in Object \cup {NoObject}
  BY DEF IInv, HeapOK
<1>3. HeapOK
  BY DEF IInv
<1>4. CASE x \in New(e)
  <2> DEFINE n == IF Registers(e) THEN NumberOf(Files(e)[1], opened) ELSE NULL
  <2>1. heap'[x] = Born(MadeKind(e, x), roomy, content, n)
    BY <1>1, <1>4
  <2>2. MadeKind(e, x) \in Kinds /\ (MadeKind(e, x) = "File" => IsOpening1(e))
    BY <1>3, <1>4, MadeKinds
  <2>3. MadeKind(e, x) = "File" => n \in Number
    <3>1. SUFFICES ASSUME MadeKind(e, x) = "File"
                   PROVE  n \in Number
      OBVIOUS
    <3>2. Registers(e) /\ IsOpening1(e)
      BY <2>2, <3>1, Shapes
    <3> QED
      BY <3>2, StreamNumber
  <2> HIDE DEF n
  <2>4. /\ heap'[x] \in Object
        /\ heap'[x].kind = MadeKind(e, x) /\ heap'[x].live
        /\ MadeKind(e, x) = "File" => heap'[x].number = n
    BY <2>1, <2>2, <2>3, BornObject
  <2> QED
    BY <1>4, <2>3, <2>4, DeadObject
<1>5. CASE x \notin New(e) /\ x \in Gone(e, t)
  <2>1. heap'[x] = Dead(heap[x].kind)
    BY <1>1, <1>5
  <2>2. CASE heap[x] = NoObject
    BY <1>5, <2>1, <2>2, DeadObject
  <2>3. CASE heap[x] \in Object
    <3>1. heap[x].kind \in Kinds
      BY <2>3 DEF Object
    <3> QED
      BY <1>5, <2>1, <2>3, <3>1, DeadObject
  <2> QED
    BY <1>2, <2>2, <2>3
<1>6. CASE x \notin New(e) /\ x \notin Gone(e, t) /\ x = t /\ writes
  <2>1. heap'[x] = [heap[x] EXCEPT !.content = content]
    BY <1>1, <1>6
  <2>2. t # NULL
    BY <1>6, AddressAssumption DEF NULL
  <2>3. heap[x].kind = "Memory"
    BY <1>6, <2>2 DEF Writable
  <2>4. heap[x] \in Object
    BY <1>2, <2>3, DeadObject
  <2> QED
    BY <1>6, <2>1, <2>4, DeadObject, Written
<1>7. CASE x \notin New(e) /\ x \notin Gone(e, t) /\ ~(x = t /\ writes)
  <2>1. heap'[x] = heap[x]
    BY <1>1, <1>7
  <2> QED
    BY <1>2, <1>7, <2>1
<1> QED
  BY <1>4, <1>5, <1>6, <1>7

-----------------------------------------------------------------------------
(* One call: the table of descriptors, and what the analysis knows. *)

(*
What the analysis makes of an effect.  It keeps a state when the run goes on,
and may keep one when the run leaves.
*)
Told(e, t, assigned) ==
    /\ \E r \in BOOLEAN :
        /\ e.what # "leave" => r
        /\ known' = [reached  |-> r,
                     live     |-> (known.live \ Gone(e, t)) \cup New(e),
                     contents |-> [x \in Address |->
                                      IF x \in Gone(e, t) \/ (x = t /\ assigned)
                                      THEN Content ELSE known.contents[x]]]
    /\ files' \in IF Registers(e) THEN Registered(e)
                  ELSE {IF Closed(e, t) = NULL THEN files
                        ELSE RemoveAddr(kernel[Closed(e, t)], files)}

(* The analysis ends the same addresses as the run. *)
LEMMA AnalyseSame ==
    ASSUME IInv, NEW e \in Effects, NEW t, Fitting(e, t), Possible(e, t),
           NEW assigned, Analyse(e, t, assigned)
    PROVE  Told(e, t, assigned)
<1> DEFINE n == Closed(e, t)
           own == IF n = NULL THEN None ELSE kernel[n]
<1>1. PICK file \in Looked(n) :
         /\ known' = [reached  |-> e.what # "leave",
                      live     |-> (known.live \ Dying(e, t, file)) \cup New(e),
                      contents |-> [x \in Address |->
                                       IF x \in Dying(e, t, file) \/ (x = t /\ assigned)
                                       THEN Content ELSE known.contents[x]]]
         /\ files' \in IF Registers(e) THEN Registered(e)
                       ELSE {IF file = None THEN files ELSE RemoveAddr(file, files)}
  BY DEF Analyse, New
<1>2. \/ n = NULL /\ Looked(n) = {None}
      \/ n # NULL /\ Looked(n) = {kernel[n]} /\ kernel[n] # None
  BY ClosedFile
<1>3. file = own /\ (own = None <=> n = NULL)
  BY <1>1, <1>2
<1>4. Dying(e, t, file) = Gone(e, t)
  BY <1>3 DEF Gone
<1>5. (IF file = None THEN files ELSE RemoveAddr(file, files)) =
          (IF n = NULL THEN files ELSE RemoveAddr(kernel[n], files))
  BY <1>3
<1> HIDE DEF n, own
<1>6. files' \in IF Registers(e) THEN Registered(e)
                 ELSE {IF n = NULL THEN files ELSE RemoveAddr(kernel[n], files)}
  BY <1>1, <1>5
<1>7. (e.what # "leave") \in BOOLEAN
  OBVIOUS
<1> QED
  BY <1>1, <1>4, <1>6, <1>7 DEF n, Told

(* A contract without the case that leaves changes nothing when the run leaves. *)
LEMMA AnalyseLeft ==
    ASSUME IInv, NEW t, NEW assigned, Analyse(Keep, t, assigned)
    PROVE  Told(Leave, t, assigned)
<1>1. /\ Keep.what = "keep" /\ Leave.what = "leave"
      /\ Keep.kinds = <<>> /\ Leave.kinds = <<>>
  BY DEF Keep, Leave, Effect
<1>2. Closed(Keep, t) = NULL /\ Closed(Leave, t) = NULL
  BY <1>1 DEF Closed
<1>3. ~Registers(Keep) /\ ~Registers(Leave)
  BY <1>1 DEF Registers
<1>4. Gone(Leave, t) = {} /\ \A file : Dying(Keep, t, file) = {}
  BY <1>1 DEF Gone, Dying
<1>5. New(Leave) = New(Keep)
  BY <1>1 DEF New
<1>6. Looked(Closed(Keep, t)) = {None}
  BY <1>2 DEF Looked
<1>7. /\ known' = [reached  |-> Keep.what # "leave",
                   live     |-> (known.live \ {}) \cup New(Keep),
                   contents |-> [x \in Address |->
                                    IF x \in {} \/ (x = t /\ assigned)
                                    THEN Content ELSE known.contents[x]]]
      /\ files' = files
  BY <1>3, <1>4, <1>6 DEF Analyse, New
<1>8. (Keep.what # "leave") = TRUE
  BY <1>1
<1> QED
  BY <1>2, <1>3, <1>4, <1>5, <1>7, <1>8 DEF Told

LEMMA CloseOne ==
    ASSUME NEW k, NEW d, Served(k, d), NEW n \in Number, k[n] # None
    PROVE  /\ Served([k EXCEPT ![n] = None], RemoveAddr(k[n], d))
           /\ InUse([k EXCEPT ![n] = None]) = InUse(k) \ {k[n]}
<1> DEFINE l == [k EXCEPT ![n] = None]
<1>1. /\ k \in Kernels /\ d \in Descriptors
      /\ Good(k, d, InUse(k)) /\ Sharp(d) /\ Placed(d)
  BY DEF Served
<1>2. \A m \in Number : l[m] = IF m = n THEN None ELSE k[m]
  BY <1>1 DEF Kernels
<1>3. l \in Kernels
  BY <1>1 DEF Kernels
<1>4. \A m \in Number : k[m] = k[n] => m = n
  BY <1>1 DEF Good, Distinct
<1>5. InUse(l) = InUse(k) \ {k[n]}
  BY <1>2, <1>4 DEF InUse
<1>6. /\ RemoveAddr(k[n], d) \in Descriptors
      /\ Good(l, RemoveAddr(k[n], d), InUse(k) \ {k[n]})
      /\ Sharp(RemoveAddr(k[n], d))
  BY <1>1, RemoveGood
<1>7. Placed(RemoveAddr(k[n], d))
  <2>1. k[n] \in Address
    BY <1>1 DEF Kernels
  <2> QED
    BY <1>1, <2>1, RemovePlaced
<1> QED
  BY <1>3, <1>5, <1>6, <1>7 DEF Served

(* Only a close ends an open file. *)
LEMMA GoneFile ==
    ASSUME IInv, NEW e \in Effects, NEW t, Fitting(e, t), NEW x \in Gone(e, t), x \in InUse(kernel)
    PROVE  Closed(e, t) # NULL /\ x = kernel[Closed(e, t)]
<1>1. heap[x].kind \in FileKinds /\ x # None
  BY DEF IInv, FilesLive, InUse
<1>2. "File" \notin FileKinds /\ FileKinds = {"FileRes", "Dir"}
  BY DEF FileKinds
<1> DEFINE file == IF Closed(e, t) = NULL THEN None ELSE kernel[Closed(e, t)]
<1>3. x \in Dying(e, t, file)
  BY DEF Gone
<1>4. x # file => FALSE
  <2>1. SUFFICES ASSUME x # file
                 PROVE  FALSE
    OBVIOUS
  <2> HIDE DEF file
  <2>2. CASE e.what \in {"free", "resize"}
    <3>1. x = t /\ t # NULL
      BY <1>3, <2>2 DEF Dying
    <3> QED
      BY <1>1, <1>2, <2>2, <3>1 DEF Fitting
  <2>3. CASE e.what = "renew"
    <3>1. x \in Objects(e.kinds[1])
      BY <1>3, <2>3 DEF Dying
    <3>2. IsMaking(e)
      BY <2>3, EffectShape DEF IsQuiet, IsOpening1, IsOpening2
    <3>3. PICK k : e.kinds = <<k>> /\ k \in {"LocaleName", "LConv"}
      BY <2>3, <3>2 DEF IsMaking
    <3>4. e.kinds[1] = k
      BY <3>3
    <3> QED
      BY <1>1, <1>2, <3>1, <3>3, <3>4 DEF Objects
  <2>4. CASE e.what = "close"
    BY <1>3, <2>1, <2>4 DEF Dying
  <2>5. CASE e.what = "close stream"
    <3>1. x = t
      BY <1>3, <2>1, <2>5 DEF Dying
    <3> QED
      BY <1>1, <1>2, <2>5, <3>1 DEF Fitting
  <2>6. CASE e.what \notin {"free", "resize", "renew", "close", "close stream"}
    BY <1>3, <2>6 DEF Dying
  <2> QED
    BY <2>2, <2>3, <2>4, <2>5, <2>6
<1> QED
  BY <1>1, <1>4

LEMMA TableStep ==
    ASSUME IInv, NEW e \in Effects, NEW t, Fitting(e, t), Possible(e, t),
           NEW writes, Run(e, t, writes), NEW assigned, Told(e, t, assigned)
    PROVE  /\ Served(kernel, files)'
           /\ InUse(kernel') \subseteq (InUse(kernel) \ Gone(e, t)) \cup FilesMade(e)
<1> DEFINE n == Closed(e, t)
<1>1. PICK opened \in Opened(e) :
         kernel' = [m \in Number |-> IF m = n THEN None ELSE opened[m]]
  BY DEF Run
<1>2. /\ Served(kernel, files) /\ kernel \in Kernels /\ HeapOK
  BY DEF IInv, TableOK, Served
<1>3. files' \in IF Registers(e) THEN Registered(e)
                 ELSE {IF n = NULL THEN files ELSE RemoveAddr(kernel[n], files)}
  BY DEF Told
<1>4. \A x \in Gone(e, t) : x \in InUse(kernel) => n # NULL /\ x = kernel[n]
  BY GoneFile
<1> HIDE DEF n
<1>5. CASE n = NULL
  <2>1. files' \in IF Registers(e) THEN Registered(e) ELSE {files}
    BY <1>3, <1>5
  <2>2. Served(opened, files') /\ InUse(opened) = InUse(kernel) \cup FilesMade(e)
    BY <2>1, Opens
  <2>3. opened \in Kernels
    BY <2>2 DEF Served
  <2>4. NULL \notin Number
    BY DEF NULL, Number
  <2>5. kernel' = opened
    BY <1>1, <1>5, <2>3, <2>4 DEF Kernels
  <2> QED
    BY <1>4, <1>5, <2>2, <2>5
<1>6. CASE n # NULL
  <2>1. n \in Number /\ kernel[n] # None /\ e.what \in {"close", "close stream"}
    BY <1>6, ClosedFile DEF n
  <2>2. ~Registers(e)
    BY <2>1 DEF Registers
  <2>3. opened = kernel /\ files' = RemoveAddr(kernel[n], files)
    BY <1>3, <1>6, <2>2 DEF Opened
  <2>4. kernel' = [kernel EXCEPT ![n] = None]
    BY <1>1, <1>2, <2>3 DEF Kernels
  <2>5. /\ Served([kernel EXCEPT ![n] = None], RemoveAddr(kernel[n], files))
        /\ InUse([kernel EXCEPT ![n] = None]) = InUse(kernel) \ {kernel[n]}
    BY <1>2, <2>1, CloseOne
  <2>6. Served(kernel', files') /\ InUse(kernel') = InUse(kernel) \ {kernel[n]}
    BY <2>3, <2>4, <2>5
  <2> QED
    BY <1>4, <2>6
<1> QED
  BY <1>5, <1>6

-----------------------------------------------------------------------------
(* The steps preserve the invariant. *)

LEMMA CallKeeps ==
    ASSUME IInv, NEW e \in Effects, NEW t, NEW writes, NEW assigned,
           Fitting(e, t), Writable(t, writes), Possible(e, t),
           Run(e, t, writes), Told(e, t, assigned), Running' => e.what # "leave"
    PROVE  IInv'
<1>1. /\ HeapOK /\ FilesLive /\ StreamsNumbered /\ KnownOK
      /\ Served(kernel, files)
  BY DEF IInv, TableOK, Served
<1>2. PICK u \in Nat, v \in Nat :
         /\ Used = 1 .. u
         /\ New(e) \subseteq Address /\ New(e) \intersect Used = {}
         /\ Used \cup New(e) = 1 .. v
         /\ FilesMade(e) \subseteq New(e)
  <2>1. PICK u \in Nat :
           /\ Used = 1 .. u
           /\ New(e) \subseteq Address /\ New(e) \intersect Used = {}
           /\ \E v \in Nat : Used \cup New(e) = 1 .. v
           /\ IsQuiet(e) => FilesMade(e) = {}
           /\ IsMaking(e) => FilesMade(e) = {}
           /\ IsOpening1(e) => FilesMade(e) = {u + 1} /\ u + 1 \in New(e)
           /\ IsOpening2(e) => FilesMade(e) = New(e)
    BY <1>1, NewAddresses
  <2>2. FilesMade(e) \subseteq New(e)
    BY <2>1, EffectShape
  <2> QED
    BY <2>1, <2>2
<1>3. HeapOK'
  <2>1. heap' \in [Address -> Object \cup {NoObject}]
    <3>1. \A x \in Address : heap'[x] \in Object \cup {NoObject}
      BY AddressStep
    <3>2. heap' = [x \in Address |-> heap'[x]]
      BY DEF Run
    <3> QED
      BY <3>1, <3>2
  <2>2. \A x \in Address : heap'[x] = NoObject <=> heap[x] = NoObject /\ x \notin New(e)
    BY AddressStep
  <2>3. Used' = Used \cup New(e)
    BY <1>2, <2>2 DEF Used
  <2> QED
    BY <1>2, <2>1, <2>3 DEF HeapOK
<1>4. \A x \in Address : heap'[x].live <=> x \in New(e) \/ (heap[x].live /\ x \notin Gone(e, t))
  BY AddressStep
<1>5. TableOK' /\ InUse(kernel') \subseteq (InUse(kernel) \ Gone(e, t)) \cup FilesMade(e)
  BY TableStep DEF TableOK, Served
<1>6. ASSUME NEW x \in InUse(kernel')
      PROVE  heap'[x].live /\ heap'[x].kind \in FileKinds
  <2>1. CASE x \in FilesMade(e)
    <3>1. x \in Address /\ x \in New(e)
      BY <1>2, <2>1
    <3>2. heap'[x].kind = MadeKind(e, x)
      BY <3>1, AddressStep
    <3>3. MadeKind(e, x) \in FileKinds
      BY <1>1, <2>1, <3>1, MadeKinds
    <3> QED
      BY <1>4, <3>1, <3>2, <3>3
  <2>2. CASE x \in InUse(kernel) \ Gone(e, t)
    <3>1. x \in Address /\ heap[x].live /\ heap[x].kind \in FileKinds
      BY <1>1, <2>2 DEF FilesLive, InUse, Served, Kernels
    <3>2. x \notin New(e)
      BY <1>2, <3>1, DeadObject DEF Used
    <3>3. heap'[x].kind = heap[x].kind
      BY <3>1, <3>2, AddressStep
    <3> QED
      BY <1>4, <2>2, <3>1, <3>3
  <2> QED
    BY <1>5, <2>1, <2>2
<1>7. ASSUME NEW x \in Address, heap'[x].live, heap'[x].kind = "File"
      PROVE  heap'[x].number \in Number /\ x > 1
  <2>1. CASE x \in New(e)
    <3>1. /\ heap'[x].kind = MadeKind(e, x)
          /\ MadeKind(e, x) = "File" => heap'[x].number \in Number
      BY <2>1, AddressStep
    <3>2. MadeKind(e, x) = "File" => x > 1
      BY <1>1, <2>1, MadeKinds
    <3> QED
      BY <1>7, <3>1, <3>2
  <2>2. CASE x \notin New(e)
    <3>1. heap[x].live /\ heap[x].kind = "File" /\ heap'[x].number = heap[x].number
      BY <1>4, <1>7, <2>2, AddressStep
    <3> QED
      BY <1>1, <3>1 DEF StreamsNumbered
  <2> QED
    BY <2>1, <2>2
<1>8. KnownOK'
  <2>1. PICK r \in BOOLEAN :
           /\ e.what # "leave" => r
           /\ known' = [reached  |-> r,
                        live     |-> (known.live \ Gone(e, t)) \cup New(e),
                        contents |-> [x \in Address |->
                                         IF x \in Gone(e, t) \/ (x = t /\ assigned)
                                         THEN Content ELSE known.contents[x]]]
    BY DEF Told
  <2>2. Alive' = (Alive \ Gone(e, t)) \cup New(e)
    BY <1>2, <1>4 DEF Alive
  <2>3. known'.live = Alive' /\ known'.live \in SUBSET Address
    BY <1>1, <1>2, <2>1, <2>2 DEF KnownOK
  <2>4. known'.contents \in [Address -> SUBSET Content]
    BY <1>1, <2>1 DEF KnownOK
  <2>5. known' = [reached |-> r, live |-> known'.live, contents |-> known'.contents]
    BY <2>1
  <2>6. known' \in [reached : BOOLEAN, live : SUBSET Address, contents : [Address -> SUBSET Content]]
    BY <2>3, <2>4, <2>5
  <2>7. Running' => known'.reached
    BY <2>1
  <2> QED
    BY <2>3, <2>6, <2>7 DEF KnownOK
<1> QED
  BY <1>3, <1>5, <1>6, <1>7, <1>8 DEF IInv, FilesLive, StreamsNumbered

(* A call, with what it does to resources and what its target is. *)
LEMMA CallShape ==
    ASSUME IInv, CasesAgree, EffectsFit, NEW job \in Jobs, Call(job)
    PROVE  \E t \in Targets(job.param), e \in job.real :
              /\ e \in Effects /\ Legal(job, t)
              /\ Fitting(e, t) /\ Writable(t, job.writes) /\ Possible(e, t)
              /\ Run(e, t, job.writes)
              /\ Told(e, t, job.param.assigned)
              /\ Running' => e.what # "leave"
<1>1. PICK t \in Targets(job.param), e \in job.real : \E said \in Followed(job, e) :
         /\ Accepted(job, t)
         /\ Possible(e, t)
         /\ Run(e, t, job.writes)
         /\ Analyse(said, t, job.param.assigned)
         /\ verdict' = [Fine EXCEPT !.left = (e = Leave)]
  BY DEF Call
<1>6. PICK said \in Followed(job, e) : Analyse(said, t, job.param.assigned)
  BY <1>1
<1>2. Legal(job, t)
  BY <1>1 DEF Accepted, Judge
<1>3. e \in Effects /\ Fitting(e, t) /\ Writable(t, job.writes)
  BY <1>2, JobFits
<1>4. Told(e, t, job.param.assigned)
  <2>1. CASE e \in job.said
    <3>1. said = e
      BY <1>6, <2>1 DEF Followed
    <3> QED
      BY <1>1, <1>3, <1>6, <3>1, AnalyseSame
  <2>2. CASE e \notin job.said
    <3>1. e = Leave /\ job.said = Keeps
      BY <1>1, <2>2 DEF CasesAgree
    <3>2. { x \in job.said : x.failed = e.failed } = {Keep}
      <4>1. /\ ~Keep.failed /\ Failed(Keep).failed /\ ~Leave.failed
            /\ Keep.failed = Leave.failed /\ Failed(Keep).failed # Leave.failed
        BY DEF Failed, Keep, Leave, Effect
      <4>2. job.said = {Failed(Keep), Keep}
        BY <3>1 DEF Keeps, Always
      <4> QED
        BY <3>1, <4>1, <4>2
    <3>3. said = Keep
      BY <1>6, <2>2, <3>2 DEF Followed
    <3> QED
      BY <1>6, <3>1, <3>3, AnalyseLeft
  <2> QED
    BY <2>1, <2>2
<1>5. Running' => e.what # "leave"
  <2>1. Running' => ~(e = Leave)
    BY <1>1 DEF Running, Fine
  <2> QED
    BY <1>3, <2>1, EffectShape
<1> QED
  BY <1>1, <1>2, <1>3, <1>4, <1>5

LEMMA InitGood == Init => IInv
<1> SUFFICES ASSUME Init
             PROVE  IInv
  OBVIOUS
<1> USE NoneAssumption, AddressAssumption
<1>1. \A x \in Address : heap[x] = NoObject
  BY DEF Init
<1>2. HeapOK
  <2>1. heap \in [Address -> Object \cup {NoObject}]
    BY DEF Init
  <2>2. \A x : x \notin Used
    BY <1>1 DEF Used
  <2>3. \A x : x \notin 1 .. 0
    OBVIOUS
  <2>4. Used = 1 .. 0 /\ 0 \in Nat
    BY <2>2, <2>3
  <2> QED
    BY <2>1, <2>4 DEF HeapOK
<1>3. InUse(kernel) = {}
  BY DEF Init, InUse
<1>4. TableOK
  <2>1. kernel = [n \in Number |-> None] /\ files = NoDescriptors
    BY DEF Init
  <2>2. kernel \in Kernels
    BY <2>1 DEF Kernels
  <2> QED
    BY <1>3, <2>1, <2>2, NoDescriptorsGood DEF TableOK
<1>5. Alive = {}
  BY <1>1, DeadObject DEF Alive
<1>6. KnownOK
  BY <1>5 DEF Init, KnownOK
<1>7. StreamsNumbered
  BY <1>1, DeadObject DEF StreamsNumbered
<1> QED
  BY <1>2, <1>3, <1>4, <1>6, <1>7 DEF IInv, FilesLive

LEMMA StoreGood ==
    ASSUME IInv, NEW x \in Address, NEW value \in Content, Store(x, value)
    PROVE  IInv'
<1>1. /\ heap[x].kind = "Memory" /\ heap[x].live
      /\ heap' = [heap EXCEPT ![x].content = value]
      /\ known' = [known EXCEPT !.contents[x] = {value}]
      /\ kernel' = kernel /\ files' = files /\ verdict' = verdict
  BY DEF Store
<1>2. /\ HeapOK /\ TableOK /\ FilesLive /\ StreamsNumbered /\ KnownOK
      /\ heap \in [Address -> Object \cup {NoObject}]
  BY DEF IInv, HeapOK
<1>3. heap[x] \in Object
  BY <1>1, <1>2, DeadObject
<1>4. heap'[x] = [heap[x] EXCEPT !.content = value]
  BY <1>1, <1>2
<1>5. /\ heap'[x] \in Object /\ heap'[x].kind = heap[x].kind
      /\ heap'[x].live = heap[x].live /\ heap'[x].number = heap[x].number
  BY <1>3, <1>4, Written
<1>6. \A y \in Address \ {x} : heap'[y] = heap[y]
  BY <1>1, <1>2
<1>7. \A y \in Address :
         /\ heap'[y] \in Object \cup {NoObject}
         /\ heap'[y] = NoObject <=> heap[y] = NoObject
         /\ heap'[y].kind = heap[y].kind /\ heap'[y].live = heap[y].live
         /\ heap'[y].number = heap[y].number
  BY <1>2, <1>3, <1>5, <1>6, DeadObject
<1>8. HeapOK'
  <2>1. Used' = Used
    BY <1>7 DEF Used
  <2>2. heap' = [y \in Address |-> heap'[y]]
    BY <1>1, <1>2
  <2>3. heap' \in [Address -> Object \cup {NoObject}]
    BY <1>7, <2>2
  <2> QED
    BY <1>2, <2>1, <2>3 DEF HeapOK
<1>9. TableOK'
  BY <1>1, <1>2 DEF TableOK, InUse
<1>10. FilesLive'
  <2>1. \A y \in InUse(kernel') : y \in Address /\ y \in InUse(kernel)
    BY <1>1, <1>2 DEF InUse, TableOK, Kernels
  <2> QED
    BY <1>2, <1>7, <2>1 DEF FilesLive
<1>11. StreamsNumbered'
  BY <1>2, <1>7 DEF StreamsNumbered
<1>12. KnownOK'
  <2>1. Alive' = Alive
    BY <1>7 DEF Alive
  <2>2. /\ known'.live = known.live /\ known'.reached = known.reached
    BY <1>1, <1>2 DEF KnownOK
  <2>3. known' \in [reached : BOOLEAN, live : SUBSET Address, contents : [Address -> SUBSET Content]]
    BY <1>1, <1>2 DEF KnownOK
  <2>4. Running' = Running
    BY <1>1 DEF Running
  <2> QED
    BY <1>2, <2>1, <2>2, <2>3, <2>4 DEF KnownOK
<1> QED
  BY <1>8, <1>9, <1>10, <1>11, <1>12 DEF IInv

LEMMA StepGood ==
    ASSUME IInv, CasesAgree, EffectsFit, [Next]_vars
    PROVE  IInv'
<1>1. ASSUME NEW job \in Jobs, Call(job)
      PROVE  IInv'
  <2>1. PICK t \in Targets(job.param), e \in job.real :
           /\ e \in Effects
           /\ Fitting(e, t) /\ Writable(t, job.writes) /\ Possible(e, t)
           /\ Run(e, t, job.writes)
           /\ Told(e, t, job.param.assigned)
           /\ Running' => e.what # "leave"
    BY <1>1, CallShape
  <2> QED
    BY <2>1, CallKeeps
<1>2. ASSUME UNCHANGED <<heap, kernel, known, files>>, Running' => Running
      PROVE  IInv'
  <2>1. HeapOK' /\ TableOK' /\ FilesLive' /\ StreamsNumbered'
    BY <1>2 DEF IInv, HeapOK, Used, TableOK, InUse, FilesLive, StreamsNumbered
  <2>2. KnownOK'
    BY <1>2 DEF IInv, KnownOK, Alive
  <2> QED
    BY <2>1, <2>2 DEF IInv
<1>3. ASSUME NEW job \in Jobs, Stop(job)
      PROVE  IInv'
  BY <1>2, <1>3 DEF Stop
<1>4. ASSUME NEW x \in Address, NEW value \in Content, Store(x, value)
      PROVE  IInv'
  BY <1>4, StoreGood
<1>5. CASE UNCHANGED vars
  BY <1>2, <1>5 DEF vars, Running
<1> QED
  BY <1>1, <1>3, <1>4, <1>5 DEF Next

-----------------------------------------------------------------------------
(* The contents of buffers. *)

LEMMA ContentsStep ==
    ASSUME IInv, ContentsOK, CasesAgree, EffectsFit, ResultsAssigned, [Next]_vars
    PROVE  ContentsOK'
<1>1. /\ HeapOK /\ KnownOK /\ known.live = Alive
      /\ heap \in [Address -> Object \cup {NoObject}]
      /\ known.contents \in [Address -> SUBSET Content]
  BY DEF IInv, HeapOK, KnownOK
<1>2. IInv' /\ heap' \in [Address -> Object \cup {NoObject}] /\ known'.live = Alive'
  BY StepGood DEF IInv, HeapOK, KnownOK
<1>3. \A x \in Address : heap[x].live => heap[x].content \in known.contents[x]
  BY <1>1 DEF ContentsOK, ContentsDescribed, Alive
<1>4. \A x \in Address : heap[x] = NoObject => known.contents[x] = Content
  BY DEF ContentsOK, Used
<1>5. ASSUME \A x \in Address : heap'[x].live => heap'[x].content \in known'.contents[x],
             \A x \in Address : heap'[x] = NoObject => known'.contents[x] = Content
      PROVE  ContentsOK'
  BY <1>2, <1>5 DEF ContentsOK, ContentsDescribed, Alive, Used
<1>6. ASSUME NEW job \in Jobs, Call(job)
      PROVE  ContentsOK'
  <2>1. PICK t \in Targets(job.param), e \in job.real :
           /\ e \in Effects
           /\ Fitting(e, t) /\ Writable(t, job.writes) /\ Possible(e, t)
           /\ Run(e, t, job.writes)
           /\ Told(e, t, job.param.assigned)
    BY <1>6, CallShape
  <2>2. \A x \in Address :
           known'.contents[x] = IF x \in Gone(e, t) \/ (x = t /\ job.param.assigned)
                                THEN Content ELSE known.contents[x]
    BY <2>1 DEF Told
  <2>3. job.writes => job.param.assigned
    BY DEF ResultsAssigned
  <2>4. \A x \in Address : heap'[x].live => heap'[x].content \in Content
    BY <1>2, DeadObject DEF Object
  <2>5. ASSUME NEW x \in Address, heap'[x].live
        PROVE  heap'[x].content \in known'.contents[x]
    <3>1. CASE x \in New(e)
      <4>1. heap[x] = NoObject
        BY <1>1, <2>1, <3>1, NewAddresses DEF Used
      <4>2. known'.contents[x] = Content
        BY <1>4, <2>2, <4>1
      <4> QED
        BY <2>4, <2>5, <4>2
    <3>2. CASE x \notin New(e)
      <4>1. /\ heap[x].live
            /\ heap'[x].content = heap[x].content \/ (x = t /\ job.writes)
        BY <2>1, <2>5, <3>2, AddressStep
      <4> QED
        BY <1>3, <2>2, <2>3, <2>4, <2>5, <4>1
    <3> QED
      BY <3>1, <3>2
  <2>6. ASSUME NEW x \in Address, heap'[x] = NoObject
        PROVE  known'.contents[x] = Content
    <3>1. heap[x] = NoObject
      BY <2>1, <2>6, AddressStep
    <3> QED
      BY <1>4, <2>2, <3>1
  <2> QED
    BY <1>5, <2>5, <2>6
<1>7. ASSUME NEW job \in Jobs, Stop(job)
      PROVE  ContentsOK'
  BY <1>3, <1>4, <1>5, <1>7 DEF Stop
<1>8. ASSUME NEW x \in Address, NEW value \in Content, Store(x, value)
      PROVE  ContentsOK'
  <2>1. /\ heap[x].live
        /\ heap' = [heap EXCEPT ![x].content = value]
        /\ known' = [known EXCEPT !.contents[x] = {value}]
    BY <1>8 DEF Store
  <2>2. heap[x] \in Object
    BY <1>1, <2>1, DeadObject
  <2>3. heap'[x].content = value /\ known'.contents[x] = {value} /\ heap'[x] # NoObject
    <3>1. heap'[x] = [heap[x] EXCEPT !.content = value]
      BY <1>1, <2>1
    <3>2. heap'[x] \in Object
      BY <2>2, <3>1, Written
    <3>3. heap'[x].content = value
      BY <2>2, <3>1 DEF Object
    <3>4. known'.contents[x] = {value}
      BY <1>1, <2>1 DEF KnownOK
    <3> QED
      BY <3>2, <3>3, <3>4, DeadObject
  <2>4. \A y \in Address \ {x} : heap'[y] = heap[y] /\ known'.contents[y] = known.contents[y]
    BY <1>1, <2>1 DEF KnownOK
  <2>5. \A y \in Address : heap'[y].live => heap'[y].content \in known'.contents[y]
    BY <1>3, <2>3, <2>4
  <2>6. \A y \in Address : heap'[y] = NoObject => known'.contents[y] = Content
    BY <1>4, <2>3, <2>4
  <2> QED
    BY <1>5, <2>5, <2>6
<1>9. CASE UNCHANGED vars
  BY <1>3, <1>4, <1>5, <1>9 DEF vars
<1> QED
  BY <1>6, <1>7, <1>8, <1>9 DEF Next

-----------------------------------------------------------------------------
(* Reports. *)

(* The argument of a call is nothing, a number, or an object of its kind. *)
LEMMA TargetShape ==
    ASSUME NEW job \in Jobs, NEW t \in Targets(job.param), t # NULL
    PROVE  /\ job.param.kind # "nothing"
           /\ job.param.kind = "FileRes" => t \in Number
           /\ job.param.kind # "FileRes" => t \in Address
BY DEF Targets, Objects

(* What the library does not allow is reported. *)
LEMMA WrongReported ==
    ASSUME IInv, ClausesAgree, NEW job \in Jobs, NEW t \in Targets(job.param), ~Legal(job, t)
    PROVE  Reported(job.param, t) \/ FreedTwice(job, t)
<1>1. t # NULL
  BY DEF Legal
<1>2. /\ known.live = { x \in Address : heap[x].live }
      /\ kernel \in Kernels /\ files \in Descriptors
      /\ Good(kernel, files, InUse(kernel)) /\ Sharp(files) /\ Placed(files)
  BY DEF IInv, KnownOK, TableOK, Alive
<1>3. CASE job.param.kind = "FileRes"
  <2>1. t \in Number /\ kernel[t] = None
    BY <1>1, <1>3, TargetShape DEF Legal
  <2>2. None \in Find(t, files)
    BY <1>2, <2>1, FindClosed
  <2>3. None \notin known.live
    BY <1>2, NoneAssumption
  <2>4. job.param.asks \notin {"nothing", "member"}
    BY <1>3 DEF ClausesAgree
  <2> QED
    BY <1>1, <1>3, <2>2, <2>3, <2>4 DEF Reported
<1>4. CASE job.param.kind # "FileRes"
  <2>1. t \in Address /\ job.param.kind # "nothing"
    BY <1>1, <1>4, TargetShape
  <2>2. CASE job.param.kind = "Memory" /\ ~Takes(job)
    <3>1. job.param.asks = "extent"
      BY <2>2 DEF ClausesAgree
    <3>2. ~heap[t].live \/ ~heap[t].roomy
      BY <1>1, <2>2 DEF Legal
    <3> QED
      BY <1>1, <1>2, <1>4, <3>1, <3>2 DEF Reported
  <2>3. CASE ~(job.param.kind = "Memory" /\ ~Takes(job))
    <3>1. t \notin known.live
      BY <1>1, <1>2, <1>4, <2>3 DEF Legal
    <3>2. \/ job.param.asks \in {"base", "alive"}
          \/ job.param.asks \in {"nothing", "member"} /\ \E e \in job.said : e.on > 0
      BY <1>4, <2>1, <2>3 DEF ClausesAgree
    <3> QED
      BY <1>1, <1>4, <3>1, <3>2 DEF Reported, FreedTwice
  <2> QED
    BY <2>2, <2>3
<1> QED
  BY <1>3, <1>4

(* What is reported, and is not vague, is not allowed. *)
LEMMA ReportedWrong ==
    ASSUME IInv, ClausesAgree, NEW job \in Jobs, NEW t \in Targets(job.param),
           Reported(job.param, t) \/ FreedTwice(job, t), Legal(job, t)
    PROVE  job.param.kind = "FileRes" /\ t # NULL /\ Cardinality(Find(t, files)) # 1
<1>1. t # NULL
  BY DEF Reported, FreedTwice
<1>2. /\ known.live = { x \in Address : heap[x].live }
      /\ kernel \in Kernels /\ files \in Descriptors
      /\ Good(kernel, files, InUse(kernel))
      /\ \A x \in InUse(kernel) : heap[x].live
  BY DEF IInv, KnownOK, TableOK, Alive, FilesLive
<1>3. CASE job.param.kind = "FileRes"
  <2>1. t \in Number /\ kernel[t] # None
    BY <1>1, <1>3, TargetShape DEF Legal
  <2>2. kernel[t] \in Find(t, files)
    BY <1>2, <2>1, FindSound DEF Good
  <2>3. kernel[t] \in known.live
    BY <1>2, <2>1 DEF InUse, Kernels
  <2>4. ~(Find(t, files) \subseteq known.live)
    BY <1>3 DEF Reported, FreedTwice
  <2>5. Cardinality(Find(t, files)) # 1
    <3>1. SUFFICES ASSUME Cardinality(Find(t, files)) = 1
                   PROVE  FALSE
      OBVIOUS
    <3>2. IsFiniteSet(Find(t, files))
      <4>1. PICK u \in Nat : Used = 1 .. u
        BY DEF IInv, HeapOK
      <4>2. InUse(kernel) \subseteq Used
        <5>1. \A x \in InUse(kernel) : x \in Address /\ heap[x].live
          BY <1>2 DEF InUse, Kernels
        <5> QED
          BY <5>1, DeadObject DEF Used
      <4>3. Find(t, files) \subseteq InUse(kernel) \cup {None}
        BY <1>2 DEF Good, Within, Find
      <4>4. Find(t, files) \subseteq 0 .. u
        BY <4>1, <4>2, <4>3, AddressAssumption
      <4>5. IsFiniteSet(0 .. u)
        BY FS_Interval
      <4> QED
        BY <4>4, <4>5, FS_Subset
    <3>3. PICK x : Find(t, files) = {x}
      BY <3>1, <3>2, FS_Singleton
    <3> QED
      BY <2>2, <2>3, <2>4, <3>3
  <2> QED
    BY <1>1, <1>3, <2>5
<1>4. CASE job.param.kind # "FileRes"
  <2>1. t \in Address /\ job.param.kind # "nothing"
    BY <1>1, <1>4, TargetShape
  <2>2. heap[t].live /\ t \in known.live
    BY <1>1, <1>2, <1>4, <2>1 DEF Legal
  <2>3. job.param.asks = "extent" /\ ~heap[t].roomy
    BY <1>4, <2>2 DEF Reported, FreedTwice
  <2>4. job.param.kind = "Memory" /\ ~Takes(job)
    BY <1>4, <2>1, <2>3 DEF ClausesAgree
  <2> QED
    BY <1>1, <1>4, <2>3, <2>4 DEF Legal
<1> QED
  BY <1>3, <1>4

Judged == DeadUseReported /\ LegalUseSilent

LEMMA JudgedStep ==
    ASSUME IInv, Judged, ClausesAgree, [Next]_vars
    PROVE  Judged'
<1>1. ASSUME NEW job \in Jobs, Call(job)
      PROVE  Judged'
  <2>1. PICK left : verdict' = [Fine EXCEPT !.left = left]
    BY <1>1 DEF Call
  <2>2. ~verdict'.wrong /\ ~verdict'.alarm
    BY <2>1 DEF Fine
  <2> QED
    BY <2>2 DEF Judged, DeadUseReported, LegalUseSilent
<1>2. ASSUME NEW job \in Jobs, Stop(job)
      PROVE  Judged'
  <2>1. PICK t \in Targets(job.param) : verdict' = Judge(job, t)
    BY <1>2 DEF Stop
  <2> DEFINE vague == /\ job.param.kind = "FileRes" /\ t # NULL
                      /\ Cardinality(Find(t, files)) # 1
             alarm == Reported(job.param, t) \/ FreedTwice(job, t)
  <2>2. /\ verdict'.wrong = ~Legal(job, t)
        /\ verdict'.alarm = alarm
        /\ verdict'.vague = vague
    BY <2>1 DEF Judge
  <2>3. ~Legal(job, t) => alarm
    BY WrongReported
  <2>4. alarm /\ Legal(job, t) => vague
    BY ReportedWrong
  <2> QED
    BY <2>2, <2>3, <2>4 DEF Judged, DeadUseReported, LegalUseSilent
<1>3. ASSUME NEW x \in Address, NEW value \in Content, Store(x, value)
      PROVE  Judged'
  BY <1>3 DEF Store, Judged, DeadUseReported, LegalUseSilent
<1>4. CASE UNCHANGED vars
  BY <1>4 DEF vars, Judged, DeadUseReported, LegalUseSilent
<1> QED
  BY <1>1, <1>2, <1>3, <1>4 DEF Next

-----------------------------------------------------------------------------
(* The specification. *)

LEMMA Invariant ==
    ASSUME CasesAgree, EffectsFit
    PROVE  Spec => []IInv
<1>1. IInv /\ [Next]_vars => IInv'
  BY StepGood
<1> QED
  BY InitGood, <1>1, PTL DEF Spec

(*
The descriptor domain describes the kernel's table in every program whose calls
have contracts with the cases the functions really have: however streams,
directories and pipes are opened and closed, in whatever order the lowest free
number is given out (file_descriptor/domain.ml).
*)
THEOREM TableDescribed ==
    ASSUME CasesAgree, EffectsFit
    PROVE  Spec => []FilesDescribed
<1>1. IInv => FilesDescribed
  BY DEF IInv, TableOK, Good, FilesDescribed
<1> QED
  BY Invariant, <1>1, PTL

(*
While the run goes on the analysis has a state for it, and what the contracts
allocated and did not free is what is live: agreement of each call is agreement
of every program.
*)
THEOREM ResourcesAgree ==
    ASSUME CasesAgree, EffectsFit
    PROVE  Spec => []SameResources
<1>1. IInv => SameResources
  BY DEF IInv, KnownOK, Alive, SameResources
<1> QED
  BY Invariant, <1>1, PTL

(*
No buffer of a program holds a content that the analysis excludes, when each
function assigns what it writes (the assigns clauses).
*)
THEOREM ContentsKnown ==
    ASSUME CasesAgree, EffectsFit, ResultsAssigned
    PROVE  Spec => []ContentsDescribed
<1>1. Init => ContentsOK
  <2>1. SUFFICES ASSUME Init
                 PROVE  ContentsOK
    OBVIOUS
  <2> QED
    BY <2>1 DEF Init, ContentsOK, ContentsDescribed
<1>2. IInv /\ ContentsOK /\ [Next]_vars => ContentsOK'
  BY ContentsStep
<1>3. ContentsOK => ContentsDescribed
  BY DEF ContentsOK
<1> QED
  BY Invariant, <1>1, <1>2, <1>3, PTL DEF Spec

LEMMA AlwaysJudged ==
    ASSUME CasesAgree, EffectsFit, ClausesAgree
    PROVE  Spec => []Judged
<1>1. Init => Judged
  BY DEF Init, Fine, Judged, DeadUseReported, LegalUseSilent
<1>2. IInv /\ Judged /\ [Next]_vars => Judged'
  BY JudgedStep
<1> QED
  BY Invariant, <1>1, <1>2, PTL DEF Spec

(*
A program that passes a dead object, a closed number or too small a buffer is
reported, whatever calls it made before: a closed number is never taken for the
file of another (a lookup of it may find none).
*)
THEOREM DeadUsesReported ==
    ASSUME CasesAgree, EffectsFit, ClausesAgree
    PROVE  Spec => []DeadUseReported
<1>1. Judged => DeadUseReported
  BY DEF Judged
<1> QED
  BY AlwaysJudged, <1>1, PTL

(* A call the library allows is reported only when its number stands for several files. *)
THEOREM LegalUsesSilent ==
    ASSUME CasesAgree, EffectsFit, ClausesAgree
    PROVE  Spec => []LegalUseSilent
<1>1. Judged => LegalUseSilent
  BY DEF Judged
<1> QED
  BY AlwaysJudged, <1>1, PTL

=============================================================================
