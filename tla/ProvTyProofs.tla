---------------------------- MODULE ProvTyProofs ----------------------------
(***************************************************************************)
(* What get_prov_ty answers, for every layout of every finitely nested     *)
(* type.  The walk keeps the pointer it was asked about at its own offset  *)
(* of the type it has reached (Tracks), unless a field of size 0 led it    *)
(* into a type without pointers (Lost), from which it never answers.       *)
(***************************************************************************)
EXTENDS ProvTy, TLAPS, WellFoundedInduction

Tracks == PointeeAt(at.ty, at.offset) = Truth
Lost == Leaves[at.ty] = {}

\* Where the walk is: in a type inside the one it was asked about, with the pointer in
\* sight or in a type without pointers; in the latter only because of a hidden field.
OnTrack ==
  (status = "looking" /\ Truth # {} /\ Simple) =>
    /\ Tracks \/ Lost
    /\ Unshadowed => Tracks

Walk == /\ query \in [ty : Ty, offset : Offset]
        /\ at \in [ty : Ty, offset : Nat]
        /\ status \in {"looking", "done"}
        /\ Inside[at.ty] \subseteq Inside[query.ty]

IInv == Walk /\ OnTrack /\ ResolvesPointers

-----------------------------------------------------------------------------
(* Lemmas on types                                                         *)

LEMMA Parts ==
  ASSUME NEW t \in Ty, NEW i \in DOMAIN t.parts
  PROVE  /\ t.parts[i].ty \in Ty
         /\ t.parts[i].at \in Nat
         /\ t.parts[i].ty.size \in Nat
         /\ Ends(t.parts[i]) \in Nat
         /\ DOMAIN t.parts \subseteq Nat
<1>1. t.parts \in Seq([ty : Ty, at : Nat])
  BY TypesAssumption
<1>2. t.parts[i] \in [ty : Ty, at : Nat] /\ DOMAIN t.parts \subseteq Nat
  <2> DEFINE T == [ty : Ty, at : Nat]
  <2>1. t.parts \in Seq(T)
    BY <1>1
  <2> HIDE DEF T
  <2>2. t.parts \in [1 .. Len(t.parts) -> T] /\ DOMAIN t.parts = 1 .. Len(t.parts)
        /\ Len(t.parts) \in Nat
    BY <2>1
  <2>3. t.parts[i] \in T /\ DOMAIN t.parts \subseteq Nat
    BY <2>2
  <2> QED
    BY <2>3 DEF T
<1>3. t.parts[i].ty \in Ty /\ t.parts[i].at \in Nat
  BY <1>2
<1>4. t.parts[i].ty.size \in Nat
  BY <1>3, TypesAssumption
<1> QED
  BY <1>2, <1>3, <1>4 DEF Ends

\* A type is inside itself, and so is what its parts and elements contain.
LEMMA InsideSteps ==
  ASSUME NEW t \in Ty
  PROVE  /\ t \in Inside[t]
         /\ \A i \in DOMAIN t.parts : Inside[t.parts[i].ty] \subseteq Inside[t]
         /\ t.kind = "array" => \A e \in t.inner : Inside[e] \subseteq Inside[t]
<1>1. Inside[t] = {t} \cup (UNION {Inside[t.parts[i].ty] : i \in DOMAIN t.parts})
        \cup (IF t.kind = "array" THEN UNION {Inside[e] : e \in t.inner} ELSE {})
  BY NestingAssumption
<1> QED
  BY <1>1

\* The pointers of a composed type are those of its parts, moved to where the part is.
LEMMA PointeeOfParts ==
  ASSUME NEW t \in Ty, Composed(t), NEW o, NEW p
  PROVE  p \in PointeeAt(t, o) <=>
           \E i \in DOMAIN t.parts : \E l \in Leaves[t.parts[i].ty] :
             l.at + t.parts[i].at = o /\ l.to = p
<1>1. Leaves[t] =
        UNION {{[at |-> l.at + t.parts[i].at, to |-> l.to] : l \in Leaves[t.parts[i].ty]}
                 : i \in DOMAIN t.parts}
  BY NestingAssumption DEF Composed
<1>2. \A m : m \in Leaves[t] <=>
        \E i \in DOMAIN t.parts : \E l \in Leaves[t.parts[i].ty] :
          m = [at |-> l.at + t.parts[i].at, to |-> l.to]
  BY <1>1
<1>3. p \in PointeeAt(t, o) <=> \E m \in Leaves[t] : m.at = o /\ m.to = p
  BY DEF PointeeAt
<1>4. ASSUME NEW m \in Leaves[t], m.at = o, m.to = p
      PROVE  \E i \in DOMAIN t.parts : \E l \in Leaves[t.parts[i].ty] :
               l.at + t.parts[i].at = o /\ l.to = p
  <2>1. PICK i \in DOMAIN t.parts : \E l \in Leaves[t.parts[i].ty] :
               m = [at |-> l.at + t.parts[i].at, to |-> l.to]
    BY <1>2
  <2>2. PICK l \in Leaves[t.parts[i].ty] : m = [at |-> l.at + t.parts[i].at, to |-> l.to]
    BY <2>1
  <2> QED
    BY <2>2, <1>4
<1>5. ASSUME NEW i \in DOMAIN t.parts, NEW l \in Leaves[t.parts[i].ty],
             l.at + t.parts[i].at = o, l.to = p
      PROVE  \E m \in Leaves[t] : m.at = o /\ m.to = p
  <2>1. [at |-> l.at + t.parts[i].at, to |-> l.to] \in Leaves[t]
    BY <1>2
  <2> QED
    BY <2>1, <1>5
<1> QED
  BY <1>3, <1>4, <1>5

LEMMA PartsOfEmpty ==
  ASSUME NEW t \in Ty, Composed(t), Leaves[t] = {}, NEW i \in DOMAIN t.parts
  PROVE  Leaves[t.parts[i].ty] = {}
<1>1. SUFFICES ASSUME NEW l \in Leaves[t.parts[i].ty] PROVE FALSE
  OBVIOUS
<1>2. l.to \in PointeeAt(t, l.at + t.parts[i].at)
  BY PointeeOfParts
<1> QED
  BY <1>2 DEF PointeeAt

\* A type of size 0 has no pointers.
LEMMA EmptyOfSize0 ==
  ASSUME NEW t \in Ty, t.size = 0
  PROVE  Leaves[t] = {}
BY PointersInside

-----------------------------------------------------------------------------
(* Lemmas on field_containing_offset                                       *)

\* A part with a pointer at the offset is the only one whose bytes include it, and of the
\* fields that start where it starts or later, up to the offset, all others have size 0.
LEMMA ChosenField ==
  ASSUME NEW t \in Ty, t.kind \in {"struct", "tuple"}, NEW o \in Nat,
         NEW i \in DOMAIN t.parts, t.parts[i].at <= o, o < Ends(t.parts[i]),
         NEW j \in field_containing_offset(t.parts, o), j # i
  PROVE  /\ j \in DOMAIN t.parts
         /\ t.parts[j].at = t.parts[i].at
         /\ t.parts[j].ty.size = 0
         /\ j < i
<1>1. /\ j \in DOMAIN t.parts
      /\ t.parts[j].at <= o
      /\ t.parts[i].at < t.parts[j].at \/ (t.parts[i].at = t.parts[j].at /\ j < i)
  BY DEF field_containing_offset, StartsBefore
<1>2. Ends(t.parts[i]) <= t.parts[j].at \/ Ends(t.parts[j]) <= t.parts[i].at
  BY <1>1, LayoutAssumption
<1>3. /\ t.parts[i].at \in Nat /\ t.parts[j].at \in Nat
      /\ t.parts[i].ty.size \in Nat /\ t.parts[j].ty.size \in Nat
  BY <1>1, Parts
<1> QED
  BY <1>1, <1>2, <1>3 DEF Ends

LEMMA LeastNat ==
  ASSUME NEW T, T \subseteq Nat, T # {}
  PROVE  \E x \in T : \A y \in T : x <= y
<1> DEFINE R == {ss \in Nat \X Nat : ss[1] < ss[2]}
<1>1. IsWellFoundedOn(R, Nat)
  BY NatLessThanWellFounded DEF OpToRel
<1> HIDE DEF R
<1>2. PICK x \in T : \A y \in T : ~ (<<y, x>> \in R)
  BY <1>1, WFMin
<1>3. \A y \in T : ~ (y < x)
  BY <1>2 DEF R
<1> QED
  BY <1>3

\* Some field is chosen for an offset inside a field: the first listed of those that
\* start where that field starts.
LEMMA SomeField ==
  ASSUME NEW t \in Ty, t.kind \in {"struct", "tuple"}, NEW o \in Nat,
         NEW i \in DOMAIN t.parts, t.parts[i].at <= o, o < Ends(t.parts[i])
  PROVE  field_containing_offset(t.parts, o) # {}
<1> DEFINE Same == {k \in DOMAIN t.parts : t.parts[k].at = t.parts[i].at}
<1>1. PICK j \in Same : \A k \in Same : j <= k
  <2>1. Same \subseteq Nat
    BY Parts
  <2>2. i \in Same
    OBVIOUS
  <2> HIDE DEF Same
  <2> QED
    BY <2>1, <2>2, LeastNat
<1>2. j \in StartsBefore(t.parts, o)
  BY DEF StartsBefore
<1>3. ASSUME NEW k \in StartsBefore(t.parts, o) \ {j}
      PROVE  t.parts[k].at < t.parts[j].at \/ (t.parts[k].at = t.parts[j].at /\ j < k)
  <2>1. k \in DOMAIN t.parts /\ t.parts[k].at <= o /\ k \in Nat /\ j \in Nat /\ j # k
    BY Parts DEF StartsBefore
  <2>2. t.parts[k].at \in Nat /\ t.parts[i].at \in Nat /\ Ends(t.parts[k]) \in Nat
    BY <2>1, Parts
  <2>3. t.parts[k].at <= Ends(t.parts[k])
    BY <2>1, Parts DEF Ends
  <2>4. CASE k = i
    BY <2>4, <2>1, <1>1
  <2>5. CASE k # i
    <3>1. Ends(t.parts[i]) <= t.parts[k].at \/ Ends(t.parts[k]) <= t.parts[i].at
      BY <2>1, <2>5, LayoutAssumption
    <3>2. Ends(t.parts[i]) \in Nat
      BY Parts
    <3>3. t.parts[k].at <= t.parts[i].at
      BY <3>1, <3>2, <2>1, <2>2, <2>3
    <3>4. t.parts[k].at = t.parts[i].at => j < k
      BY <1>1, <2>1
    <3> QED
      BY <3>3, <3>4, <2>2
  <2> QED
    BY <2>4, <2>5
<1>4. j \in field_containing_offset(t.parts, o)
  BY <1>2, <1>3 DEF field_containing_offset
<1> QED
  BY <1>4

-----------------------------------------------------------------------------
(* The steps of the walk                                                   *)

\* A part with a pointer at the offset contains the offset.
LEMMA PartOfPointer ==
  ASSUME NEW t \in Ty, Composed(t), NEW o \in Nat, NEW p \in PointeeAt(t, o)
  PROVE  \E i \in DOMAIN t.parts :
           /\ t.parts[i].at <= o
           /\ o < Ends(t.parts[i])
           /\ p \in PointeeAt(t.parts[i].ty, o - t.parts[i].at)
<1>1. PICK i \in DOMAIN t.parts : \E l \in Leaves[t.parts[i].ty] :
             l.at + t.parts[i].at = o /\ l.to = p
  BY PointeeOfParts
<1>2. PICK l \in Leaves[t.parts[i].ty] : l.at + t.parts[i].at = o /\ l.to = p
  BY <1>1
<1>3. /\ t.parts[i].ty \in Ty /\ t.parts[i].at \in Nat /\ t.parts[i].ty.size \in Nat
      /\ l.at \in Nat /\ l.at < t.parts[i].ty.size
  BY Parts, PointersInside
<1>4. l.at = o - t.parts[i].at /\ t.parts[i].at <= o /\ o < Ends(t.parts[i])
  BY <1>2, <1>3 DEF Ends
<1>5. p \in PointeeAt(t.parts[i].ty, o - t.parts[i].at)
  BY <1>2, <1>4 DEF PointeeAt
<1> QED
  BY <1>4, <1>5

\* Into the field that has the pointer, or into one of size 0 that hides it.
LEMMA FieldTracks ==
  ASSUME NEW t \in Ty, t.kind \in {"struct", "tuple"}, NEW o \in Nat,
         PointeeAt(t, o) # {}, NEW j \in field_containing_offset(t.parts, o)
  PROVE  /\ j \in DOMAIN t.parts
         /\ t.parts[j].at <= o
         /\ \/ PointeeAt(t.parts[j].ty, o - t.parts[j].at) = PointeeAt(t, o)
            \/ Leaves[t.parts[j].ty] = {} /\ ~NoShadow(t)
<1>1. Composed(t)
  BY DEF Composed
<1>2. j \in DOMAIN t.parts /\ t.parts[j].at <= o
  BY DEF field_containing_offset, StartsBefore
<1>3. PICK q \in PointeeAt(t, o) : TRUE
  OBVIOUS
<1>4. PICK i \in DOMAIN t.parts : /\ t.parts[i].at <= o
                                  /\ o < Ends(t.parts[i])
                                  /\ q \in PointeeAt(t.parts[i].ty, o - t.parts[i].at)
  BY <1>1, PartOfPointer
<1>5. CASE j # i
  <2>1. t.parts[j].at = t.parts[i].at /\ t.parts[j].ty.size = 0 /\ j < i
    BY <1>4, <1>5, ChosenField
  <2>2. Leaves[t.parts[j].ty] = {}
    BY <2>1, <1>2, Parts, EmptyOfSize0
  <2>3. ~NoShadow(t)
    BY <2>1, <1>2 DEF NoShadow
  <2> QED
    BY <1>2, <2>2, <2>3
<1>6. CASE j = i
  <2>1. ASSUME NEW p \in PointeeAt(t, o)
        PROVE  p \in PointeeAt(t.parts[j].ty, o - t.parts[j].at)
    <3>1. PICK k \in DOMAIN t.parts : /\ t.parts[k].at <= o
                                      /\ o < Ends(t.parts[k])
                                      /\ p \in PointeeAt(t.parts[k].ty, o - t.parts[k].at)
      BY <1>1, PartOfPointer
    <3>2. k = j
      <4>1. SUFFICES ASSUME k # j PROVE FALSE
        OBVIOUS
      <4>2. Ends(t.parts[k]) <= t.parts[j].at \/ Ends(t.parts[j]) <= t.parts[k].at
        BY <4>1, <1>2, LayoutAssumption
      <4>3. /\ t.parts[k].at \in Nat /\ t.parts[j].at \in Nat
            /\ Ends(t.parts[k]) \in Nat /\ Ends(t.parts[j]) \in Nat
        BY <1>2, Parts
      <4> QED
        BY <4>2, <4>3, <3>1, <1>4, <1>6
    <3> QED
      BY <3>1, <3>2
  <2>2. ASSUME NEW p \in PointeeAt(t.parts[j].ty, o - t.parts[j].at)
        PROVE  p \in PointeeAt(t, o)
    <3>1. PICK l \in Leaves[t.parts[j].ty] : l.at = o - t.parts[j].at /\ l.to = p
      BY DEF PointeeAt
    <3>2. l.at + t.parts[j].at = o
      BY <3>1, <1>2, Parts
    <3> QED
      BY <3>1, <3>2, <1>1, <1>2, PointeeOfParts
  <2> QED
    BY <2>1, <2>2, <1>2
<1> QED
  BY <1>5, <1>6

\* An array with simple elements has at any offset no pointer or the one of its element.
LEMMA ArrayTracks ==
  ASSUME NEW t \in Ty, t.kind = "array", SimpleElements(t), NEW e \in t.inner, NEW o \in Nat
  PROVE  /\ e \in Ty
         /\ PointeeAt(t, o) # {} => PointeeAt(e, 0) = PointeeAt(t, o)
         /\ Leaves[t] = {} => Leaves[e] = {}
<1>1. e \in Ty /\ \A i \in DOMAIN t.parts : t.parts[i].ty = e
  BY TypesAssumption
<1>2. \A l \in Leaves[e] : l.at = 0 /\ t.parts # <<>>
  BY DEF SimpleElements
<1>3. Composed(t)
  BY DEF Composed
<1>4. ASSUME PointeeAt(t, o) # {}
      PROVE  PointeeAt(e, 0) = PointeeAt(t, o)
  <2>1. PICK q \in PointeeAt(t, o) : TRUE
    BY <1>4
  <2>2. PICK i \in DOMAIN t.parts : \E l \in Leaves[t.parts[i].ty] :
               l.at + t.parts[i].at = o /\ l.to = q
    BY <1>3, PointeeOfParts
  <2>3. t.parts[i].at = o
    BY <2>2, <1>1, <1>2, Parts
  <2>4. ASSUME NEW p \in PointeeAt(e, 0)
        PROVE  p \in PointeeAt(t, o)
    <3>1. PICK l \in Leaves[e] : l.at = 0 /\ l.to = p
      BY DEF PointeeAt
    <3>2. l.at + t.parts[i].at = o /\ l \in Leaves[t.parts[i].ty]
      BY <3>1, <2>3, <1>1
    <3> QED
      BY <3>1, <3>2, <1>3, PointeeOfParts
  <2>5. ASSUME NEW p \in PointeeAt(t, o)
        PROVE  p \in PointeeAt(e, 0)
    <3>1. PICK k \in DOMAIN t.parts : \E l \in Leaves[t.parts[k].ty] :
                 l.at + t.parts[k].at = o /\ l.to = p
      BY <1>3, PointeeOfParts
    <3>2. PICK l \in Leaves[e] : l.to = p
      BY <3>1, <1>1
    <3> QED
      BY <3>2, <1>2 DEF PointeeAt
  <2> QED
    BY <2>4, <2>5
<1>5. ASSUME Leaves[t] = {}
      PROVE  Leaves[e] = {}
  <2>1. SUFFICES ASSUME NEW l \in Leaves[e] PROVE FALSE
    OBVIOUS
  <2>2. 1 \in DOMAIN t.parts
    BY <2>1, <1>2, TypesAssumption
  <2>3. Leaves[t.parts[1].ty] = {}
    BY <2>2, <1>3, <1>5, PartsOfEmpty
  <2> QED
    BY <2>1, <2>2, <2>3, <1>1
<1> QED
  BY <1>1, <1>4, <1>5

-----------------------------------------------------------------------------
(* The invariant                                                           *)

LEMMA WalkInit == Init => IInv
<1> SUFFICES ASSUME Init PROVE IInv
  OBVIOUS
<1>1. /\ query \in [ty : Ty, offset : Offset] /\ at = query /\ status = "looking"
      /\ Offset \subseteq Nat
  BY TypesAssumption DEF Init
<1>2. Walk
  BY <1>1 DEF Walk
<1>3. OnTrack
  BY <1>1 DEF OnTrack, Tracks, Truth
<1>4. ResolvesPointers
  BY <1>1 DEF ResolvesPointers
<1> QED
  BY <1>2, <1>3, <1>4 DEF IInv

\* What is asked does not change.
LEMMA SameQuery ==
  query' = query =>
    Truth' = Truth /\ (Simple <=> Simple') /\ (Unshadowed <=> Unshadowed')
<1> SUFFICES ASSUME query' = query
             PROVE  Truth' = Truth /\ (Simple <=> Simple') /\ (Unshadowed <=> Unshadowed')
  OBVIOUS
<1>1. Truth' = Truth
  BY DEF Truth, PointeeAt
<1>2. Simple <=> Simple'
  BY DEF Simple, SimpleElements
<1>3. Unshadowed <=> Unshadowed'
  BY DEF Unshadowed, NoShadow
<1> QED
  BY <1>1, <1>2, <1>3

\* Ending: what is answered is what the type reached has at the offset reached.
LEMMA EndTracks ==
  ASSUME IInv, status = "looking", Answer(PointeeAt(at.ty, at.offset))
  PROVE  IInv'
<1> DEFINE p == PointeeAt(at.ty, at.offset)
<1>1. /\ status' = "done" /\ pointee' = p
      /\ query' = query /\ at' = at /\ Truth' = Truth
      /\ (Simple <=> Simple') /\ (Unshadowed <=> Unshadowed')
  BY SameQuery DEF Answer
<1>2. Walk'
  BY <1>1 DEF Walk, IInv
<1>3. OnTrack'
  BY <1>1 DEF OnTrack
<1>4. ResolvesPointers'
  <2> SUFFICES ASSUME Truth # {}, Simple
               PROVE  p \subseteq Truth /\ (Unshadowed => p = Truth)
    BY <1>1 DEF ResolvesPointers
  <2>1. (Tracks \/ Lost) /\ (Unshadowed => Tracks)
    BY DEF IInv, OnTrack
  <2>2. Lost => p = {}
    BY DEF Lost, PointeeAt
  <2> QED
    BY <2>1, <2>2 DEF Tracks
<1> QED
  BY <1>2, <1>3, <1>4 DEF IInv

\* Going on: into a type inside that keeps the pointer in sight, or has none.
LEMMA StepTracks ==
  ASSUME IInv, status = "looking", NEW t \in Ty, NEW o \in Nat, Recurse(t, o),
         Inside[t] \subseteq Inside[at.ty],
         (Tracks /\ Truth # {} /\ Simple) =>
            \/ PointeeAt(t, o) = Truth
            \/ Leaves[t] = {} /\ ~Unshadowed,
         (Lost /\ Simple) => Leaves[t] = {}
  PROVE  IInv'
<1>1. /\ at' = [ty |-> t, offset |-> o] /\ at'.ty = t /\ at'.offset = o
      /\ query' = query /\ status' = status /\ pointee' = pointee
      /\ Truth' = Truth /\ (Simple <=> Simple') /\ (Unshadowed <=> Unshadowed')
      /\ Tracks' <=> PointeeAt(t, o) = Truth
      /\ Lost' <=> Leaves[t] = {}
  BY SameQuery DEF Recurse, Tracks, Lost, PointeeAt
<1>2. Walk'
  BY <1>1 DEF Walk, IInv
<1>3. OnTrack'
  BY <1>1 DEF OnTrack, IInv
<1>4. ResolvesPointers'
  BY <1>1 DEF ResolvesPointers
<1> QED
  BY <1>2, <1>3, <1>4 DEF IInv

LEMMA WalkNext == IInv /\ [Next]_vars => IInv'
<1> SUFFICES ASSUME IInv, [Next]_vars PROVE IInv'
  OBVIOUS
<1>0. /\ at.ty \in Ty /\ at.offset \in Nat
      /\ Inside[at.ty] \subseteq Inside[query.ty] /\ at.ty \in Inside[query.ty]
  <2>1. at.ty \in Ty /\ at.offset \in Nat /\ Inside[at.ty] \subseteq Inside[query.ty]
    BY DEF IInv, Walk
  <2> QED
    BY <2>1, InsideSteps
<1>1. CASE UNCHANGED vars
  BY <1>1 DEF vars, IInv, Walk, OnTrack, ResolvesPointers, Tracks, Lost, Truth, Simple,
     Unshadowed, SimpleElements, NoShadow, PointeeAt
<1>2. ASSUME status = "looking", Pointer PROVE IInv'
  <2>1. Leaves[at.ty] = {[at |-> 0, to |-> p] : p \in at.ty.inner}
    BY <1>0, <1>2, NestingAssumption DEF Pointer
  <2>2. \A p : p \in PointeeAt(at.ty, at.offset) <=> p \in at.ty.inner /\ at.offset = 0
    <3> SUFFICES ASSUME NEW p
                 PROVE  p \in PointeeAt(at.ty, at.offset) <=> p \in at.ty.inner /\ at.offset = 0
      OBVIOUS
    <3>1. p \in PointeeAt(at.ty, at.offset) <=>
            \E m \in Leaves[at.ty] : m.at = at.offset /\ m.to = p
      BY DEF PointeeAt
    <3>2. \A m \in Leaves[at.ty] : m.at = 0 /\ m.to \in at.ty.inner
      BY <2>1
    <3>3. p \in at.ty.inner => [at |-> 0, to |-> p] \in Leaves[at.ty]
      BY <2>1
    <3> QED
      BY <3>1, <3>2, <3>3
  <2> DEFINE answer == IF at.offset = 0 THEN at.ty.inner ELSE {}
  <2>4. Answer(answer)
    BY <1>2 DEF Pointer
  <2>3. answer = PointeeAt(at.ty, at.offset)
    <3>1. \A p : p \in answer <=> p \in PointeeAt(at.ty, at.offset)
      BY <2>2
    <3> DEFINE reached == PointeeAt(at.ty, at.offset)
    <3> HIDE DEF answer, reached
    <3>2. \A p : p \in answer <=> p \in reached
      BY <3>1 DEF reached
    <3>3. answer = reached
      BY <3>2
    <3> QED
      BY <3>3 DEF reached
  <2> HIDE DEF answer
  <2>5. Answer(PointeeAt(at.ty, at.offset))
    BY <2>3, <2>4
  <2> QED
    BY <1>2, <2>5, EndTracks
<1>3. ASSUME status = "looking", Array PROVE IInv'
  <2>1. PICK e \in at.ty.inner : Recurse(e, 0)
    BY <1>3 DEF Array
  <2>2. at.ty.kind = "array"
    BY <1>3 DEF Array
  <2>3. e \in Ty /\ Inside[e] \subseteq Inside[at.ty]
    BY <1>0, <2>2, InsideSteps, TypesAssumption
  <2>4. Simple => SimpleElements(at.ty)
    BY <1>0 DEF Simple
  <2>5. (Tracks /\ Truth # {} /\ Simple) => PointeeAt(e, 0) = Truth
    BY <1>0, <2>2, <2>4, ArrayTracks DEF Tracks
  <2>6. (Lost /\ Simple) => Leaves[e] = {}
    BY <1>0, <2>2, <2>4, ArrayTracks DEF Lost
  <2> QED
    BY <1>3, <2>1, <2>3, <2>5, <2>6, StepTracks
<1>4. ASSUME status = "looking", Field PROVE IInv'
  <2> DEFINE start(i) == at.ty.parts[i].at
  <2>1. PICK j \in field_containing_offset(at.ty.parts, at.offset) :
               Recurse(at.ty.parts[j].ty, at.offset - start(j))
    BY <1>4 DEF Field
  <2>2. at.ty.kind \in {"struct", "tuple"} /\ Composed(at.ty)
    BY <1>4 DEF Field, Composed
  <2>3. j \in DOMAIN at.ty.parts /\ start(j) <= at.offset
    BY <2>1 DEF field_containing_offset, StartsBefore
  <2>4. /\ at.ty.parts[j].ty \in Ty /\ at.offset - start(j) \in Nat
        /\ Inside[at.ty.parts[j].ty] \subseteq Inside[at.ty]
    BY <1>0, <2>3, Parts, InsideSteps
  <2>5. (Tracks /\ Truth # {} /\ Simple) =>
           \/ PointeeAt(at.ty.parts[j].ty, at.offset - start(j)) = Truth
           \/ Leaves[at.ty.parts[j].ty] = {} /\ ~Unshadowed
    BY <1>0, <2>1, <2>2, FieldTracks DEF Tracks, Unshadowed
  <2>6. Lost => Leaves[at.ty.parts[j].ty] = {}
    BY <1>0, <2>2, <2>3, PartsOfEmpty DEF Lost
  <2> QED
    BY <1>4, <2>1, <2>4, <2>5, <2>6, StepTracks
<1>5. ASSUME status = "looking", NoField PROVE IInv'
  <2>1. PointeeAt(at.ty, at.offset) = {}
    <3>1. SUFFICES ASSUME NEW p \in PointeeAt(at.ty, at.offset) PROVE FALSE
      OBVIOUS
    <3>2. at.ty.kind \in {"struct", "tuple"} /\ Composed(at.ty)
      BY <1>5 DEF NoField, Composed
    <3>3. PICK i \in DOMAIN at.ty.parts :
                 at.ty.parts[i].at <= at.offset /\ at.offset < Ends(at.ty.parts[i])
      BY <1>0, <3>2, PartOfPointer
    <3> QED
      BY <1>0, <1>5, <3>2, <3>3, SomeField DEF NoField
  <2> QED
    BY <1>5, <2>1, EndTracks DEF NoField
<1>6. ASSUME status = "looking", Unresolved PROVE IInv'
  <2>1. Leaves[at.ty] = {}
    BY <1>0, <1>6, NestingAssumption DEF Unresolved, Composed
  <2>2. PointeeAt(at.ty, at.offset) = {}
    BY <2>1 DEF PointeeAt
  <2> QED
    BY <1>6, <2>2, EndTracks DEF Unresolved
<1> QED
  BY <1>1, <1>2, <1>3, <1>4, <1>5, <1>6 DEF Next

THEOREM WalkInvariant == Spec => []IInv
<1>1. Init => IInv
  BY WalkInit
<1>2. IInv /\ [Next]_vars => IInv'
  BY WalkNext
<1> QED
  BY <1>1, <1>2, PTL DEF Spec

\* get_prov_ty answers, for a pointer in a value of any type and any layout, with the
\* type that pointer points to or, where a zero-sized field hides it, not at all.
THEOREM PointersResolved == Spec => []ResolvesPointers
<1>1. IInv => ResolvesPointers
  BY DEF IInv
<1> QED
  BY <1>1, WalkInvariant, PTL

\* What the comment above field_containing_offset says is true of every field that has a
\* size: for a pointer's offset, the field chosen contains the offset or is empty.
THEOREM ChosenFieldContains ==
  ASSUME NEW t \in Ty, t.kind \in {"struct", "tuple"}, NEW o \in Nat,
         PointeeAt(t, o) # {}, NEW j \in field_containing_offset(t.parts, o)
  PROVE  /\ t.parts[j].at <= o
         /\ o < Ends(t.parts[j]) \/ t.parts[j].ty.size = 0
<1>1. PICK q \in PointeeAt(t, o) : TRUE
  OBVIOUS
<1>2. PICK i \in DOMAIN t.parts : t.parts[i].at <= o /\ o < Ends(t.parts[i])
  BY PartOfPointer DEF Composed
<1>3. t.parts[j].at <= o
  BY DEF field_containing_offset, StartsBefore
<1> QED
  BY <1>2, <1>3, ChosenField
=============================================================================
