----------------------- MODULE DescriptorProgram_proofs -----------------------
(*
The descriptor domain describes the kernel's table: proofs for every set of
addresses, every window and every number of descriptors, as long as no flows
are merged or the window has at most one slot (see Unmerged).
*)
EXTENDS DescriptorProgram, FileDescriptors_proofs

(* No flows are merged, or the walk over the slots stops at once (see Sharp). *)
Unmerged == Branches = 0 \/ Window <= 1

IInv ==
    /\ TypeOK
    /\ Good(kernel, analysis, pool)
    /\ \A f \in saved : Good(f.kernel, f.analysis, f.pool)
    /\ Branches = 0 => saved = {} /\ Sharp(analysis)
    /\ AnswerDescribed

-----------------------------------------------------------------------------
(* The specification. *)

LEMMA InitGood == Init => IInv
<1> SUFFICES ASSUME Init
             PROVE  IInv
  OBVIOUS
<1>1. TypeOK
  BY NoDescriptorsGood, BranchesAssumption DEF Init, TypeOK
<1>2. AnswerDescribed
  BY DEF Init, AnswerDescribed, Silent
<1> QED
  BY <1>1, <1>2, NoDescriptorsGood DEF Init, IInv

LEMMA StepPreserves ==
    ASSUME Unmerged, IInv, [Next]_vars
    PROVE  IInv'
<1> USE WindowAssumption, KernelAssumption, NoneAssumption, AnswerAssumption, BranchesAssumption
<1>1. /\ kernel \in Kernels /\ pool \in SUBSET Address /\ analysis \in Descriptors
      /\ saved \subseteq Flow /\ branched \in 0 .. Branches
      /\ Good(kernel, analysis, pool)
      /\ \A f \in saved : Good(f.kernel, f.analysis, f.pool)
      /\ Branches = 0 => saved = {} /\ Sharp(analysis)
      /\ AnswerDescribed
  BY DEF IInv, TypeOK, Kernels
<1>2. ASSUME saved' = saved, branched' = branched, analysis' \in Descriptors,
             kernel' \in Kernels, pool' \in SUBSET Address,
             Good(kernel', analysis', pool'), Branches = 0 => Sharp(analysis'),
             answer'.real \in answer'.said
      PROVE  IInv'
  BY <1>1, <1>2 DEF IInv, TypeOK, AnswerDescribed, Kernels
<1>3. Silent.real \in Silent.said
  BY DEF Silent
<1>4. ASSUME NEW a \in Address, Open(a)
      PROVE  IInv'
  <2>1. PICK n \in Number, ids \in Handed(analysis) :
           /\ Lowest(n)
           /\ kernel' = [kernel EXCEPT ![n] = a]
           /\ analysis' = Register(a, analysis, ids)
           /\ answer' = [real |-> n, said |-> Answers(a, analysis, ids)]
    BY <1>4 DEF Open
  <2>2. a \notin pool /\ pool' = pool \cup {a} /\ saved' = saved /\ branched' = branched
    BY <1>4 DEF Open
  <2>3. /\ analysis' \in Descriptors
        /\ Good(kernel', analysis', pool')
        /\ Branches = 0 => Sharp(analysis')
        /\ n \in Answers(a, analysis, ids)
    BY <1>1, <2>1, <2>2, RegisterGood DEF Lowest, Unmerged
  <2>4. kernel' \in Kernels
    BY <1>1, <2>1 DEF Kernels
  <2> QED
    BY <1>1, <1>2, <2>1, <2>2, <2>3, <2>4
<1>5. ASSUME NEW a \in Address, NEW n \in Number, DupOnto(a, n)
      PROVE  IInv'
  <2>1. /\ analysis' \in Descriptors /\ Good(kernel', analysis', pool')
        /\ Branches = 0 => Sharp(analysis')
    BY <1>1, <1>5, DupGood DEF DupOnto
  <2>2. kernel' \in Kernels
    BY <1>1, <1>5 DEF DupOnto, Kernels
  <2>3. /\ pool' = pool \cup {a} /\ saved' = saved /\ branched' = branched
        /\ answer' = Silent
    BY <1>5 DEF DupOnto
  <2> QED
    BY <1>1, <1>2, <1>3, <2>1, <2>2, <2>3
<1>6. ASSUME NEW n \in Number, Close(n)
      PROVE  IInv'
  <2>1. /\ analysis' \in Descriptors /\ Good(kernel', analysis', pool')
        /\ Branches = 0 => Sharp(analysis')
    BY <1>1, <1>6, CloseGood DEF Close
  <2>2. kernel' \in Kernels
    BY <1>1, <1>6 DEF Close, Kernels
  <2>3. /\ pool' \subseteq pool /\ saved' = saved /\ branched' = branched
        /\ answer' = Silent
    BY <1>6 DEF Close
  <2> QED
    BY <1>1, <1>2, <1>3, <2>1, <2>2, <2>3
<1>7. ASSUME NEW n \in Number, Use(n)
      PROVE  IInv'
  <2>1. kernel[n] \in Find(n, analysis)
    BY <1>1, <1>7, FindSound DEF Use, Good
  <2>2. /\ answer' = [real |-> kernel[n], said |-> Find(n, analysis)]
        /\ kernel' = kernel /\ pool' = pool /\ analysis' = analysis
        /\ saved' = saved /\ branched' = branched
    BY <1>7 DEF Use
  <2> QED
    BY <1>1, <1>2, <2>1, <2>2
<1>8. CASE Branch
  <2>1. /\ kernel' = kernel /\ pool' = pool /\ analysis' = analysis
        /\ saved' = {[kernel |-> kernel, pool |-> pool, analysis |-> analysis]}
        /\ branched' \in 0 .. Branches /\ Branches # 0 /\ answer' = Silent
    BY <1>1, <1>8 DEF Branch
  <2>2. saved' \subseteq Flow
    BY <1>1, <2>1 DEF Flow, Kernels
  <2>3. \A f \in saved' : Good(f.kernel, f.analysis, f.pool)
    BY <1>1, <2>1
  <2> QED
    BY <1>1, <1>3, <2>1, <2>2, <2>3 DEF IInv, TypeOK, AnswerDescribed, Kernels
<1>9. CASE Merge
  <2>1. PICK f \in saved :
           /\ kernel' \in {kernel, f.kernel}
           /\ pool' = pool \cup f.pool
           /\ analysis' = Join(analysis, f.analysis)
           /\ saved' = {}
           /\ answer' = Silent
           /\ branched' = branched
    BY <1>9 DEF Merge
  <2>2. f.kernel \in Kernels /\ f.pool \in SUBSET Address /\ f.analysis \in Descriptors
    BY <1>1 DEF Flow, Kernels
  <2>3. analysis' \in Descriptors /\ Good(kernel', analysis', pool')
    BY <1>1, <2>1, <2>2, MergeGood
  <2> QED
    BY <1>1, <1>3, <2>1, <2>2, <2>3 DEF IInv, TypeOK, AnswerDescribed, Kernels
<1>10. CASE UNCHANGED vars
  BY <1>1, <1>10, <1>2 DEF vars, AnswerDescribed
<1> QED
  BY <1>4, <1>5, <1>6, <1>7, <1>8, <1>9, <1>10 DEF Next

(* The inductive invariant holds of every run without merged flows. *)
LEMMA Invariant ==
    ASSUME Unmerged
    PROVE  Spec => []IInv
<1>1. IInv /\ [Next]_vars => IInv'
  BY StepPreserves
<1> QED
  BY InitGood, <1>1, PTL DEF Spec

(*
The kernel's table, the pool and the abstract state keep their types: no
registration, removal or join of the domain builds an ill-formed state.
*)
THEOREM TypeCorrect ==
    ASSUME Unmerged
    PROVE  Spec => []TypeOK
<1>1. IInv => TypeOK
  BY DEF IInv
<1> QED
  BY Invariant, <1>1, PTL

(*
Every open number is described by its slot or its interval, and every closed
one below the window by a slot that may be free (domain.ml's header), in every
run that merges no flows and in every run at all when there is one slot.
*)
THEOREM KernelDescribed ==
    ASSUME Unmerged
    PROVE  Spec => []DescriptorsDescribed
<1>1. IInv => DescriptorsDescribed
  BY DEF IInv, Good, DescriptorsDescribed
<1> QED
  BY Invariant, <1>1, PTL

(* An address of the support is the file of a number above the window (table.ml). *)
THEOREM SupportSound ==
    ASSUME Unmerged
    PROVE  Spec => []SupportIsOpen
<1>1. IInv => SupportIsOpen
  BY DEF IInv, Good, SupportIsOpen
<1> QED
  BY Invariant, <1>1, PTL

(*
What open returns is among the numbers the registration gives, and the file of
an open number is among the addresses a lookup gives (domain.ml, find_addr).
*)
THEOREM AnswersFound ==
    ASSUME Unmerged
    PROVE  Spec => []AnswerDescribed
<1>1. IInv => AnswerDescribed
  BY DEF IInv
<1> QED
  BY Invariant, <1>1, PTL

=============================================================================
