------------------------ MODULE AllocCollectorProofs ------------------------
(***************************************************************************)
(* Proofs about AllocCollector, for every graph of allocations, cyclic and *)
(* shared ones included, and every sequence of constants.                  *)
(***************************************************************************)
EXTENDS AllocCollector, TLAPS

\* Every id that is collected already or has a call on its way.
Known == DOMAIN visited_allocs \cup Pending
Covered(ptrs) == \A i \in 1..Len(ptrs) : ptrs[i].id \in Known

\* The two closure properties, pointer by pointer.
IInv == /\ TypeOK /\ NoDuplicates
        /\ \A c \in Walked : Covered(ConstPtrs[c])
        /\ \A a \in DOMAIN visited_allocs \cap Memory :
             visited_allocs[a] # Placeholder => Covered(Ptrs[a])

-----------------------------------------------------------------------------
LEMMA ToSetElems == ASSUME NEW S, NEW seq \in Seq(S), NEW x
                    PROVE  x \in ToSet(seq) <=> \E i \in 1..Len(seq) : seq[i] = x
BY DEF ToSet

\* Dropping the innermost call leaves at most its id uncovered.
LEMMA PendingOfTail ==
  ASSUME NEW s \in Seq(Call), s # <<>>
  PROVE  /\ Head(s) \in Call /\ Tail(s) \in Seq(Call)
         /\ \A i \in 1..Len(s) : s[i].id = Head(s).id \/ \E j \in 1..Len(Tail(s)) : Tail(s)[j] = s[i]
<1>1. Head(s) = s[1] /\ Head(s) \in Call /\ Tail(s) \in Seq(Call) /\ Len(Tail(s)) = Len(s) - 1
  OBVIOUS
<1>2. ASSUME NEW i \in 1..Len(s), i # 1
      PROVE  i - 1 \in 1..Len(Tail(s)) /\ Tail(s)[i - 1] = s[i]
  BY <1>1, <1>2
<1>. QED BY <1>1, <1>2

LEMMA SeqElems ==
  ASSUME NEW S, NEW s \in Seq(S)
  PROVE  /\ DOMAIN s = 1..Len(s) /\ Len(s) \in Nat
         /\ \A i \in 1..Len(s) : s[i] \in S
OBVIOUS

\* CallsOn turns each pointer into one call.
LEMMA CallsOnFacts ==
  ASSUME NEW t \in Ty, NEW ptrs \in Seq([offset : Offset, id : AllocId])
  PROVE  /\ CallsOn(t, ptrs) \in Seq(Call)
         /\ Len(CallsOn(t, ptrs)) = Len(ptrs)
         /\ \A i \in 1..Len(ptrs) : CallsOn(t, ptrs)[i].id = ptrs[i].id
<1>1. DOMAIN ptrs = 1..Len(ptrs) /\ Len(ptrs) \in Nat
  BY SeqElems
<1>2. \A i \in 1..Len(ptrs) : ptrs[i] \in [offset : Offset, id : AllocId]
  BY SeqElems
<1>3. \A i \in 1..Len(ptrs) : [ty |-> t, offset |-> ptrs[i].offset, id |-> ptrs[i].id] \in Call
  BY <1>2 DEF Call
<1>4. CallsOn(t, ptrs) = [i \in 1..Len(ptrs) |-> [ty |-> t, offset |-> ptrs[i].offset, id |-> ptrs[i].id]]
  BY <1>1 DEF CallsOn
<1>5. CallsOn(t, ptrs) \in Seq(Call) /\ Len(CallsOn(t, ptrs)) = Len(ptrs)
  BY <1>1, <1>3, <1>4
<1>. QED BY <1>4, <1>5

\* A concatenation holds the elements of both its parts.
LEMMA ConcatElems ==
  ASSUME NEW S, NEW s \in Seq(S), NEW t \in Seq(S)
  PROVE  /\ s \o t \in Seq(S)
         /\ \A i \in 1..Len(s) : \E j \in 1..Len(s \o t) : (s \o t)[j] = s[i]
         /\ \A i \in 1..Len(t) : \E j \in 1..Len(s \o t) : (s \o t)[j] = t[i]
<1>1. s \o t \in Seq(S) /\ Len(s \o t) = Len(s) + Len(t) /\ Len(s) \in Nat /\ Len(t) \in Nat
  OBVIOUS
<1>2. ASSUME NEW i \in 1..Len(s)
      PROVE  i \in 1..Len(s \o t) /\ (s \o t)[i] = s[i]
  BY <1>1
<1>3. ASSUME NEW i \in 1..Len(t)
      PROVE  Len(s) + i \in 1..Len(s \o t) /\ (s \o t)[Len(s) + i] = t[i]
  BY <1>1
<1>. QED BY <1>1, <1>2, <1>3

\* Pending, index by index.
LEMMA PendingElems ==
  ASSUME calls \in Seq(Call), NEW a
  PROVE  a \in Pending <=> \E i \in 1..Len(calls) : calls[i].id = a
BY ToSetElems, SeqElems DEF Pending

LEMMA TargetsElems ==
  ASSUME NEW ptrs \in Seq([offset : Offset, id : AllocId]), NEW a
  PROVE  a \in Targets(ptrs) <=> \E i \in 1..Len(ptrs) : ptrs[i].id = a
BY ToSetElems, SeqElems DEF Targets

-----------------------------------------------------------------------------
\* The calls on the pointers of an allocation cover them.
LEMMA CallsCover ==
  ASSUME NEW t \in Ty, NEW ptrs \in Seq([offset : Offset, id : AllocId]),
         calls' \in Seq(Call),
         \A i \in 1..Len(ptrs) : \E j \in 1..Len(calls') : calls'[j] = CallsOn(t, ptrs)[i]
  PROVE  Covered(ptrs)'
<1>1. ASSUME NEW i \in 1..Len(ptrs)
      PROVE  ptrs[i].id \in Pending'
  <2>1. PICK j \in 1..Len(calls') : calls'[j] = CallsOn(t, ptrs)[i]
    OBVIOUS
  <2>2. calls'[j].id = ptrs[i].id
    BY <2>1, CallsOnFacts
  <2>3. calls'[j] \in ToSet(calls')
    BY ToSetElems
  <2>. QED BY <2>2, <2>3 DEF Pending
<1>. QED BY <1>1 DEF Covered, Known

\* A step that works off the innermost call and keeps the others loses no id.
LEMMA NothingLost ==
  ASSUME calls \in Seq(Call), calls' \in Seq(Call), calls # <<>>,
         DOMAIN visited_allocs \subseteq DOMAIN visited_allocs',
         Head(calls).id \in DOMAIN visited_allocs',
         \A i \in 1..Len(Tail(calls)) : \E j \in 1..Len(calls') : calls'[j] = Tail(calls)[i]
  PROVE  Known \subseteq Known'
<1>1. ASSUME NEW a \in Pending, a # Head(calls).id
      PROVE  a \in Pending'
  <2>1. PICK i \in 1..Len(calls) : calls[i].id = a
    BY PendingElems
  <2>2. PICK k \in 1..Len(Tail(calls)) : Tail(calls)[k] = calls[i]
    BY <1>1, <2>1, PendingOfTail
  <2>3. PICK j \in 1..Len(calls') : calls'[j] = Tail(calls)[k]
    OBVIOUS
  <2>4. calls'[j] \in ToSet(calls') /\ calls'[j].id = a
    BY <2>1, <2>2, <2>3, ToSetElems
  <2>. QED BY <2>4 DEF Pending
<1>. QED BY <1>1 DEF Known

\* An id entered first is entered without a duplicate; the others keep their type.
LEMMA InsertFacts ==
  ASSUME NEW a, NEW ty, insert(a, ty), a \notin DOMAIN visited_allocs
  PROVE  /\ DOMAIN visited_allocs' = DOMAIN visited_allocs \cup {a}
         /\ visited_allocs'[a] = ty
         /\ \A x \in DOMAIN visited_allocs : visited_allocs'[x] = visited_allocs[x]
         /\ duplicate_ids' = duplicate_ids
BY DEF insert

\* Closure is carried over a step that loses no id.
LEMMA CoveredStays ==
  ASSUME NEW ptrs, Covered(ptrs), Known \subseteq Known'
  PROVE  Covered(ptrs)'
BY DEF Covered

-----------------------------------------------------------------------------
LEMMA InitIInv == Init => IInv
<1> SUFFICES ASSUME Init PROVE IInv
  OBVIOUS
<1>1. TypeOK /\ NoDuplicates
  BY DEF Init, TypeOK, NoDuplicates, MaxWalks
<1>2. Walked = {} /\ DOMAIN visited_allocs = {}
  BY DEF Init, Walked
<1>. QED BY <1>1, <1>2 DEF IInv

LEMMA NextIInv == IInv /\ [Next]_vars => IInv'
<1> SUFFICES ASSUME IInv, [Next]_vars PROVE IInv'
  OBVIOUS
<1> USE AllocAssumption
<1>1. calls \in Seq(Call) /\ TypeOK
  BY DEF IInv, TypeOK
<1>2. ASSUME NEW c \in Const, VisitConst(c)
      PROVE  IInv'
  <2>1. ConstTy[c] \in Ty /\ ConstPtrs[c] \in Seq([offset : Offset, id : AllocId])
    OBVIOUS
  <2>2. calls' \in Seq(Call)
    BY <1>2, <2>1, CallsOnFacts DEF VisitConst
  <2>3. TypeOK'
    BY <1>1, <1>2, <2>2 DEF VisitConst, TypeOK, MaxWalks
  <2>4. Known \subseteq Known'
    <3>1. Pending = {}
      BY <1>2 DEF VisitConst, Pending, ToSet
    <3>. QED BY <1>2, <3>1 DEF Known, VisitConst
  <2>5. Covered(ConstPtrs[c])'
    <3>1. \A i \in 1..Len(ConstPtrs[c]) :
            \E j \in 1..Len(calls') : calls'[j] = CallsOn(ConstTy[c], ConstPtrs[c])[i]
      BY <1>2, <2>1, CallsOnFacts DEF VisitConst
    <3>. QED BY <2>1, <2>2, <3>1, CallsCover
  <2>6. Walked' \subseteq Walked \cup {c}
    BY <1>1, <1>2 DEF VisitConst, Walked, TypeOK, MaxWalks
  <2>7. \A d \in Walked' : Covered(ConstPtrs[d])'
    BY <2>4, <2>5, <2>6, CoveredStays DEF IInv
  <2>8. \A a \in DOMAIN visited_allocs' \cap Memory :
          visited_allocs'[a] # Placeholder => Covered(Ptrs[a])'
    BY <1>2, <2>4, CoveredStays DEF VisitConst, IInv
  <2>. QED BY <1>2, <2>3, <2>7, <2>8 DEF IInv, VisitConst, NoDuplicates
<1>3. ASSUME collect_alloc, calls' \in Seq(Call), TypeOK', Known \subseteq Known',
             NoDuplicates', UNCHANGED walks,
             \A a \in DOMAIN visited_allocs : visited_allocs'[a] = visited_allocs[a],
             \A a \in (DOMAIN visited_allocs' \cap Memory) \ DOMAIN visited_allocs :
               visited_allocs'[a] # Placeholder => Covered(Ptrs[a])'
      PROVE  IInv'
  <2>1. \A c \in Walked' : Covered(ConstPtrs[c])'
    BY <1>3, CoveredStays DEF IInv, Walked
  <2>2. \A a \in DOMAIN visited_allocs' \cap Memory :
          visited_allocs'[a] # Placeholder => Covered(Ptrs[a])'
    BY <1>3, CoveredStays DEF IInv
  <2>. QED BY <1>3, <2>1, <2>2 DEF IInv
<1>4. ASSUME Skip
      PROVE  IInv'
  <2>1. calls' = Tail(calls) /\ calls # <<>> /\ calls' \in Seq(Call)
    BY <1>1, <1>4, PendingOfTail DEF Skip
  <2>2. Known \subseteq Known'
    BY <1>1, <1>4, <2>1, NothingLost DEF Skip, SeenBefore
  <2>3. TypeOK'
    BY <1>1, <1>4, <2>1 DEF Skip, TypeOK
  <2>. QED BY <1>3, <1>4, <2>1, <2>2, <2>3 DEF Skip, IInv, NoDuplicates, collect_alloc
<1>5. ASSUME Fresh
      PROVE  /\ Head(calls) \in Call /\ Tail(calls) \in Seq(Call) /\ calls # <<>>
             /\ Head(calls).id \in AllocId /\ Head(calls).ty \in Ty /\ Head(calls).offset \in Offset
             /\ Head(calls).id \notin DOMAIN visited_allocs
             /\ PointeeTy(Head(calls)) \in Ty \cup {NoTy}
  BY <1>1, <1>5, PendingOfTail DEF Fresh, SeenBefore, Call, PointeeTy
<1>6. ASSUME CollectMemory
      PROVE  IInv'
  <2>1. PICK a \in AllocId, ty \in Ty :
          /\ a = Head(calls).id /\ insert(a, ty) /\ a \notin DOMAIN visited_allocs
          /\ calls # <<>> /\ calls' = CallsOn(ty, Ptrs[a]) \o Tail(calls) /\ UNCHANGED walks
          /\ Tail(calls) \in Seq(Call) /\ Ptrs[a] \in Seq([offset : Offset, id : AllocId])
    BY <1>5, <1>6 DEF CollectMemory
  <2>2. CallsOn(ty, Ptrs[a]) \in Seq(Call) /\ Len(CallsOn(ty, Ptrs[a])) = Len(Ptrs[a])
    BY <2>1, CallsOnFacts
  <2>3. /\ calls' \in Seq(Call)
        /\ \A i \in 1..Len(Ptrs[a]) : \E j \in 1..Len(calls') : calls'[j] = CallsOn(ty, Ptrs[a])[i]
        /\ \A i \in 1..Len(Tail(calls)) : \E j \in 1..Len(calls') : calls'[j] = Tail(calls)[i]
    <3>1. PICK pushed \in Seq(Call), rest \in Seq(Call) :
            pushed = CallsOn(ty, Ptrs[a]) /\ rest = Tail(calls)
      BY <2>1, <2>2
    <3>2. calls' = pushed \o rest
      BY <2>1, <3>1
    <3>3. /\ calls' \in Seq(Call)
          /\ \A i \in 1..Len(pushed) : \E j \in 1..Len(calls') : calls'[j] = pushed[i]
          /\ \A i \in 1..Len(rest) : \E j \in 1..Len(calls') : calls'[j] = rest[i]
      BY <3>2, ConcatElems
    <3>. QED BY <2>2, <3>1, <3>3
  <2>4. Covered(Ptrs[a])'
    BY <2>1, <2>3, CallsCover
  <2>5. /\ DOMAIN visited_allocs' = DOMAIN visited_allocs \cup {a}
        /\ visited_allocs'[a] = ty
        /\ \A x \in DOMAIN visited_allocs : visited_allocs'[x] = visited_allocs[x]
        /\ duplicate_ids' = duplicate_ids
    BY <2>1, InsertFacts
  <2>6. Known \subseteq Known'
    BY <1>1, <2>1, <2>3, <2>5, NothingLost
  <2>7. TypeOK'
    BY <1>1, <2>1, <2>3, <2>5 DEF TypeOK
  <2>8. collect_alloc /\ NoDuplicates'
    BY <1>6, <2>5 DEF collect_alloc, IInv, NoDuplicates
  <2>. QED BY <1>3, <2>1, <2>3, <2>4, <2>5, <2>6, <2>7, <2>8
<1>7. ASSUME NEW a, NEW ty, a = Head(calls).id, Fresh, ty \in Ty \cup {Placeholder},
             insert(a, ty), calls' = Tail(calls), UNCHANGED walks, collect_alloc,
             ty = Placeholder \/ a \notin Memory
      PROVE  IInv'
  <2>1. /\ a \notin DOMAIN visited_allocs /\ a \in AllocId
        /\ calls # <<>> /\ calls' \in Seq(Call)
    BY <1>5, <1>7
  <2>2. /\ DOMAIN visited_allocs' = DOMAIN visited_allocs \cup {a}
        /\ visited_allocs'[a] = ty
        /\ \A x \in DOMAIN visited_allocs : visited_allocs'[x] = visited_allocs[x]
        /\ duplicate_ids' = duplicate_ids
    BY <1>7, <2>1, InsertFacts
  <2>3. Known \subseteq Known'
    BY <1>1, <1>7, <2>1, <2>2, NothingLost
  <2>4. TypeOK'
    BY <1>1, <1>7, <2>1, <2>2 DEF TypeOK
  <2>5. NoDuplicates'
    BY <2>2 DEF IInv, NoDuplicates
  <2>. QED BY <1>3, <1>7, <2>1, <2>2, <2>3, <2>4, <2>5
<1>8. CollectOpaque => IInv'
  BY <1>7 DEF CollectOpaque, collect_alloc
<1>9. CollectOther => IInv'
  <2> SUFFICES ASSUME CollectOther PROVE IInv'
    OBVIOUS
  <2>1. OtherTy(Head(calls)) \in Ty \cup {Placeholder}
    BY <1>5 DEF CollectOther, OtherTy
  <2>. QED BY <1>7, <2>1 DEF CollectOther, collect_alloc
<1>10. CASE UNCHANGED vars
  BY <1>10 DEF vars, IInv, TypeOK, NoDuplicates, Walked, Covered, Known, Pending
<1>. QED BY <1>2, <1>4, <1>6, <1>8, <1>9, <1>10 DEF Next, collect_alloc

\* The invariant on which the theorems rest.
LEMMA Invariance == Spec => []IInv
BY InitIInv, NextIInv, PTL DEF Spec

-----------------------------------------------------------------------------
\* The state stays well typed (AllocMap holds types or the opaque placeholder).
THEOREM AllocTyped == Spec => []TypeOK
<1>1. IInv => TypeOK
  BY DEF IInv
<1>. QED BY <1>1, Invariance, PTL

\* verify_coherence's first assertion: the ids of a walked body are collected or
\* have a call of collect_alloc on its way.
THEOREM AllocConstsCollected == Spec => []ConstsCollected
<1>1. IInv => ConstsCollected
  <2> SUFFICES ASSUME IInv, NEW c \in Walked, NEW x \in Targets(ConstPtrs[c])
               PROVE  x \in DOMAIN visited_allocs \cup Pending
    BY DEF ConstsCollected
  <2>1. ConstPtrs[c] \in Seq([offset : Offset, id : AllocId])
    BY AllocAssumption DEF Walked
  <2>2. PICK i \in 1..Len(ConstPtrs[c]) : ConstPtrs[c][i].id = x
    BY <2>1, TargetsElems
  <2>. QED BY <2>2 DEF IInv, Covered, Known
<1>. QED BY <1>1, Invariance, PTL

\* collect_alloc follows every pointer of a memory allocation it found the type of,
\* whatever order and sharing the constants come with.
THEOREM AllocTypedClosed == Spec => []TypedClosed
<1>1. IInv => TypedClosed
  <2> SUFFICES ASSUME IInv, NEW a \in DOMAIN visited_allocs \cap Memory,
                      visited_allocs[a] # Placeholder, NEW x \in Targets(Ptrs[a])
               PROVE  x \in DOMAIN visited_allocs \cup Pending
    BY DEF TypedClosed
  <2>1. Ptrs[a] \in Seq([offset : Offset, id : AllocId])
    BY AllocAssumption
  <2>2. PICK i \in 1..Len(Ptrs[a]) : Ptrs[a][i].id = x
    BY <2>1, TargetsElems
  <2>. QED BY <2>2 DEF IInv, Covered, Known
<1>. QED BY <1>1, Invariance, PTL

\* verify_coherence's second assertion never fires: the early return of collect_alloc
\* keeps AllocMap::insert from seeing an id twice.
THEOREM AllocNoDuplicates == Spec => []NoDuplicates
<1>1. IInv => NoDuplicates
  BY DEF IInv
<1>. QED BY <1>1, Invariance, PTL

\* The type of the first visit is final: later visitors do not correct it.
THEOREM AllocFirstVisitDecides == Spec => FirstVisitDecides
<1>1. IInv /\ [Next]_vars => [\A a \in DOMAIN visited_allocs : visited_allocs'[a] = visited_allocs[a]]_vars
  <2> SUFFICES ASSUME Next, NEW a \in DOMAIN visited_allocs
               PROVE  visited_allocs'[a] = visited_allocs[a]
    OBVIOUS
  <2>1. CASE \E c \in Const : VisitConst(c)
    BY <2>1 DEF VisitConst
  <2>2. CASE Skip
    BY <2>2 DEF Skip
  <2>3. CASE CollectMemory
    BY <2>3, InsertFacts DEF CollectMemory, Fresh, SeenBefore
  <2>4. CASE CollectOpaque
    BY <2>4, InsertFacts DEF CollectOpaque, Fresh, SeenBefore
  <2>5. CASE CollectOther
    BY <2>5, InsertFacts DEF CollectOther, Fresh, SeenBefore
  <2>. QED BY <2>1, <2>2, <2>3, <2>4, <2>5 DEF Next, collect_alloc
<1>. QED BY <1>1, Invariance, PTL DEF FirstVisitDecides, Spec

-----------------------------------------------------------------------------
Uncollected == AllocId \ DOMAIN visited_allocs

\* Lower in the lexicographic order of the ids not collected and the calls pending.
Lower == \/ Uncollected' \subseteq Uncollected /\ Uncollected' # Uncollected
         \/ UNCHANGED visited_allocs /\ Len(calls') < Len(calls)

\* mir_visitor.rs: each call of collect_alloc either collects an id for good or returns
\* at once.  With finitely many allocations that order has no infinite descent, so the
\* recursion is bounded whatever cycles the memory holds.
THEOREM AllocWalkDescends == Spec => [][collect_alloc => Lower]_vars
<1>1. IInv /\ [Next]_vars => [collect_alloc => Lower]_vars
  <2> SUFFICES ASSUME IInv, collect_alloc PROVE Lower
    OBVIOUS
  <2>1. calls \in Seq(Call)
    BY DEF IInv, TypeOK
  <2>2. CASE Skip
    <3>1. calls # <<>> /\ calls' = Tail(calls) /\ UNCHANGED visited_allocs
      BY <2>2 DEF Skip
    <3>2. Len(Tail(calls)) = Len(calls) - 1 /\ Len(calls) \in Nat
      BY <2>1, <3>1
    <3>. QED BY <3>1, <3>2 DEF Lower
  <2>3. ASSUME Fresh, NEW ty, insert(Head(calls).id, ty) PROVE Lower
    <3>1. Head(calls).id \in AllocId /\ Head(calls).id \notin DOMAIN visited_allocs
      BY <2>1, <2>3, PendingOfTail DEF Fresh, SeenBefore, Call
    <3>2. DOMAIN visited_allocs' = DOMAIN visited_allocs \cup {Head(calls).id}
      BY <2>3, <3>1, InsertFacts
    <3>. QED BY <3>1, <3>2 DEF Lower, Uncollected
  <2>4. CASE CollectMemory
    BY <2>3, <2>4 DEF CollectMemory
  <2>5. CASE CollectOpaque
    BY <2>3, <2>5 DEF CollectOpaque
  <2>6. CASE CollectOther
    BY <2>3, <2>6 DEF CollectOther
  <2>. QED BY <2>2, <2>4, <2>5, <2>6 DEF collect_alloc
<1>. QED BY <1>1, Invariance, PTL DEF Spec
=============================================================================
