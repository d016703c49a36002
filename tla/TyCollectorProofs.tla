-------------------------- MODULE TyCollectorProofs --------------------------
(***************************************************************************)
(* Proofs about TyCollector, for every graph of types, recursive ones      *)
(* included, and every sequence of visits and breaks.                      *)
(***************************************************************************)
EXTENDS TyCollector, TLAPS

\* The types a sequence holds, by index: what a frame has still to visit.
In(t, seq) == \E k \in 1..Len(seq) : seq[k] = t

\* An unrecorded type has each of its parts known or still to visit.
PartsVisited ==
  \A i \in 1..Len(stack) : ~stack[i].recorded =>
    \A p \in ToSet(Parts[stack[i].ty]) : p \in Known \/ In(p, stack[i].todo)

\* The frames of clean types have only clean types to visit, and only such frames are
\* above them: a break unwinds none of them.
CleanFrames ==
  /\ \A i \in 1..Len(stack) : stack[i].ty \in Clean =>
       \A k \in 1..Len(stack[i].todo) : stack[i].todo[k] \in Clean
  /\ \A i, j \in 1..Len(stack) : i < j /\ stack[j].ty \in Clean => stack[i].ty \in Clean

\* t is still to be visited for the sake of r.
ToVisit(t, r) == \E i \in 1..Len(stack) : stack[i].ty = r /\ In(t, stack[i].todo)

\* A type that is not recorded yet is entered as a frame, and its fields come after.
Entered(t) == \E i \in 1..Len(stack) : stack[i].ty = t /\ ~stack[i].recorded

CleanInv ==
  /\ \A r \in Known \cap Clean : \A t \in Refs(r) : t \in Known \/ ToVisit(t, r)
  /\ \A r \in visited \cap Clean : r \in Known \/ ToVisit(r, r)

\* A closure on its way to the types is a frame to be recorded.
ClosureInv == \A c \in (resolved \cap Clean) \ Fn : c \in types \/ Entered(c)

IInv == TypeOK /\ PartsKnown /\ PartsVisited /\ CleanFrames /\ CleanInv /\ ClosureInv

-----------------------------------------------------------------------------
LEMMA ToSetElems == ASSUME NEW S, NEW seq \in Seq(S), NEW x
                    PROVE  x \in ToSet(seq) <=> In(x, seq)
BY DEF ToSet, In

LEMMA SeqElems ==
  ASSUME NEW S, NEW s \in Seq(S)
  PROVE  /\ DOMAIN s = 1..Len(s) /\ Len(s) \in Nat
         /\ \A i \in 1..Len(s) : s[i] \in S
OBVIOUS

\* Head and tail of a sequence, by index.
LEMMA HeadTail ==
  ASSUME NEW S, NEW s \in Seq(S), s # <<>>
  PROVE  /\ Head(s) = s[1] /\ Head(s) \in S /\ 1 \in 1..Len(s)
         /\ Tail(s) \in Seq(S) /\ Len(Tail(s)) = Len(s) - 1
         /\ \A i \in 1..Len(Tail(s)) : i + 1 \in 1..Len(s) /\ Tail(s)[i] = s[i + 1]
         /\ \A i \in 1..Len(s) : i # 1 => i - 1 \in 1..Len(Tail(s)) /\ Tail(s)[i - 1] = s[i]
OBVIOUS

\* A sequence with one element put in front, by index.
LEMMA PushFront ==
  ASSUME NEW S, NEW s \in Seq(S), NEW x \in S
  PROVE  /\ <<x>> \o s \in Seq(S) /\ Len(<<x>> \o s) = Len(s) + 1 /\ (<<x>> \o s)[1] = x
         /\ 1 \in 1..Len(<<x>> \o s)
         /\ \A i \in 1..Len(s) : i + 1 \in 1..Len(<<x>> \o s) /\ (<<x>> \o s)[i + 1] = s[i]
         /\ \A i \in 1..Len(<<x>> \o s) : i # 1 => i - 1 \in 1..Len(s) /\ (<<x>> \o s)[i] = s[i - 1]
<1>1. <<x>> \in Seq(S) /\ Len(<<x>>) = 1 /\ <<x>>[1] = x
  OBVIOUS
<1>. QED BY <1>1

\* The elements of a sequence are its head and those of its tail.
LEMMA InTail ==
  ASSUME NEW S, NEW s \in Seq(S), s # <<>>, NEW x
  PROVE  In(x, s) <=> x = Head(s) \/ In(x, Tail(s))
<1>1. ASSUME In(x, s), x # Head(s) PROVE In(x, Tail(s))
  BY <1>1, HeadTail DEF In
<1>2. ASSUME In(x, Tail(s)) PROVE In(x, s)
  BY <1>2, HeadTail DEF In
<1>3. In(Head(s), s)
  BY HeadTail DEF In
<1>. QED BY <1>1, <1>2, <1>3

-----------------------------------------------------------------------------
(* The three ways the stack changes, by index.                             *)

LEMMA PushStack ==
  ASSUME stack \in Seq(Frame), NEW f \in Frame, stack' = <<f>> \o stack
  PROVE  /\ stack' \in Seq(Frame) /\ stack'[1] = f /\ 1 \in 1..Len(stack')
         /\ \A i \in 1..Len(stack) : i + 1 \in 1..Len(stack') /\ stack'[i + 1] = stack[i]
         /\ \A i \in 1..Len(stack') : i # 1 => i - 1 \in 1..Len(stack) /\ stack'[i] = stack[i - 1]
<1>1. PICK s \in Seq(Frame) : s = stack
  OBVIOUS
<1>2. stack' = <<f>> \o s
  BY <1>1
<1>. QED BY <1>1, <1>2, PushFront

LEMMA ReplaceTop ==
  ASSUME stack \in Seq(Frame), stack # <<>>, NEW f \in Frame, stack' = <<f>> \o Tail(stack)
  PROVE  /\ stack' \in Seq(Frame) /\ Len(stack') = Len(stack) /\ stack'[1] = f
         /\ 1 \in 1..Len(stack) /\ Top = stack[1]
         /\ \A i \in 1..Len(stack) : i # 1 => stack'[i] = stack[i]
<1>1. PICK s \in Seq(Frame) : s = stack
  OBVIOUS
<1>2. PICK t \in Seq(Frame) : t = Tail(s)
  BY <1>1, HeadTail
<1>3. stack' = <<f>> \o t
  BY <1>1, <1>2
<1>4. s # <<>> /\ Len(t) = Len(s) - 1 /\ Len(s) \in Nat /\ Head(s) = s[1] /\ 1 \in 1..Len(s)
  BY <1>1, <1>2, HeadTail, SeqElems
<1>5. stack' \in Seq(Frame) /\ Len(stack') = Len(s) /\ stack'[1] = f
  BY <1>3, <1>4, PushFront
<1>6. ASSUME NEW i \in 1..Len(s), i # 1
      PROVE  stack'[i] = s[i]
  <2>1. i \in 1..Len(<<f>> \o t)
    BY <1>3, <1>5
  <2>2. i - 1 \in 1..Len(t) /\ stack'[i] = t[i - 1]
    BY <1>3, <1>6, <2>1, PushFront
  <2>3. t[i - 1] = s[(i - 1) + 1]
    BY <1>2, <1>4, <2>2, HeadTail
  <2>4. (i - 1) + 1 = i
    BY <1>4
  <2>. QED BY <2>2, <2>3, <2>4
<1>. QED BY <1>1, <1>4, <1>5, <1>6 DEF Top

LEMMA PopStack ==
  ASSUME stack \in Seq(Frame), stack # <<>>, stack' = Tail(stack)
  PROVE  /\ stack' \in Seq(Frame) /\ 1 \in 1..Len(stack) /\ Top = stack[1]
         /\ \A i \in 1..Len(stack') : i + 1 \in 1..Len(stack) /\ stack'[i] = stack[i + 1]
         /\ \A i \in 1..Len(stack) : i # 1 => i - 1 \in 1..Len(stack') /\ stack'[i - 1] = stack[i]
<1>1. PICK s \in Seq(Frame) : s = stack
  OBVIOUS
<1>2. s # <<>> /\ stack' = Tail(s)
  BY <1>1
<1>. QED BY <1>1, <1>2, HeadTail DEF Top

\* What the top of the stack is.
LEMMA TopFacts ==
  ASSUME stack \in Seq(Frame), stack # <<>>
  PROVE  /\ 1 \in 1..Len(stack) /\ Top = stack[1] /\ Top \in Frame
         /\ Top.ty \in Ty /\ Top.todo \in Seq(Ty) /\ Top.recorded \in BOOLEAN
         /\ Top = [ty |-> Top.ty, todo |-> Top.todo, recorded |-> Top.recorded]
<1>1. 1 \in 1..Len(stack) /\ Top = stack[1] /\ Top \in Frame
  BY HeadTail DEF Top
<1>. QED BY <1>1 DEF Frame

\* A frame with its todo replaced.
LEMMA FrameTodo ==
  ASSUME NEW g \in Frame, NEW q \in Seq(Ty)
  PROVE  /\ [g EXCEPT !.todo = q] \in Frame
         /\ [g EXCEPT !.todo = q].ty = g.ty /\ [g EXCEPT !.todo = q].todo = q
         /\ [g EXCEPT !.todo = q].recorded <=> g.recorded
         /\ [g EXCEPT !.todo = q, !.recorded = TRUE] \in Frame
         /\ [g EXCEPT !.todo = q, !.recorded = TRUE].ty = g.ty
         /\ [g EXCEPT !.todo = q, !.recorded = TRUE].todo = q
         /\ [g EXCEPT !.todo = q, !.recorded = TRUE].recorded
BY DEF Frame

LEMMA RefsElems ==
  ASSUME NEW t \in Ty, NEW x
  PROVE  /\ x \in Refs(t) <=> In(x, Parts[t]) \/ In(x, Fields[t])
         /\ x \in ToSet(Parts[t]) <=> In(x, Parts[t])
BY TyAssumption, ToSetElems DEF Refs

\* With a type that is not clean next, no frame on the stack is for a clean one.
LEMMA NoCleanFrame ==
  ASSUME stack \in Seq(Frame), CleanFrames, NEW t, AtType(t), t \notin Clean
  PROVE  \A i \in 1..Len(stack) : stack[i].ty \notin Clean
<1>1. 1 \in 1..Len(stack) /\ Top = stack[1] /\ Top.todo \in Seq(Ty) /\ Len(stack) \in Nat
  BY TopFacts, SeqElems DEF AtType
<1>2. 1 \in 1..Len(Top.todo) /\ Top.todo[1] = t
  BY <1>1, HeadTail DEF AtType
<1>3. stack[1].ty \notin Clean
  BY <1>1, <1>2 DEF CleanFrames
<1>4. \A i \in 1..Len(stack) : i = 1 \/ 1 < i
  BY <1>1
<1>. QED BY <1>1, <1>3, <1>4 DEF CleanFrames

-----------------------------------------------------------------------------
(* The steps.                                                              *)

LEMMA InitIInv == Init => IInv
<1> SUFFICES ASSUME Init PROVE IInv
  OBVIOUS
<1>1. TypeOK
  BY DEF Init, TypeOK
<1>2. stack = <<>> /\ Known = {} /\ visited = {} /\ types = {} /\ resolved = {} /\ Len(stack) = 0
  BY DEF Init, Known
<1>. QED BY <1>1, <1>2 DEF IInv, PartsKnown, PartsVisited, CleanFrames, CleanInv, ClosureInv

LEMMA VisitStep == ASSUME IInv, NEW t \in Ty, Visit(t) PROVE IInv'
<1> DEFINE f == [ty |-> t, todo |-> <<t>>, recorded |-> TRUE]
<1>1. f \in Frame /\ f.ty = t /\ f.todo = <<t>> /\ f.recorded = TRUE
  BY DEF Frame
<1>2. In(t, <<t>>) /\ Len(<<t>>) = 1 /\ <<t>>[1] = t
  BY DEF In
<1> HIDE DEF f
<1>3. stack' \in Seq(Frame) /\ Len(stack') = 1 /\ stack'[1] = f /\ Len(stack) = 0
  BY <1>1 DEF Visit, f
<1>4. Known' = Known
  BY DEF Visit, Known
<1>5. TypeOK'
  BY <1>3 DEF IInv, TypeOK, Visit
<1>6. PartsKnown'
  BY <1>4 DEF IInv, PartsKnown, Visit
<1>7. PartsVisited'
  BY <1>1, <1>3 DEF PartsVisited
<1>8. CleanFrames'
  BY <1>1, <1>2, <1>3 DEF CleanFrames
<1>9. CleanInv'
  <2>1. \A r, x : ~ToVisit(x, r)
    BY <1>3 DEF ToVisit
  <2>2. ToVisit(t, t)'
    BY <1>1, <1>2, <1>3 DEF ToVisit
  <2>. QED BY <1>4, <2>1, <2>2 DEF IInv, CleanInv, Visit
<1>10. ClosureInv'
  <2>1. \A c : ~Entered(c)
    BY <1>3 DEF Entered
  <2>. QED BY <2>1 DEF IInv, ClosureInv, Visit
<1>. QED BY <1>5, <1>6, <1>7, <1>8, <1>9, <1>10 DEF IInv

LEMMA ContinueStep == ASSUME IInv, NEW t \in Ty, Continue(t) PROVE IInv'
<1>1. /\ stack \in Seq(Frame) /\ stack # <<>> /\ Top.todo # <<>> /\ t = Head(Top.todo) /\ t \in Known
  BY DEF IInv, TypeOK, Continue, AtType
<1>2. PICK f \in Frame : /\ f = [Top EXCEPT !.todo = Tail(@)]
                         /\ f.ty = Top.ty /\ f.todo = Tail(Top.todo) /\ (f.recorded <=> Top.recorded)
  <2>1. Tail(Top.todo) \in Seq(Ty)
    BY <1>1, TopFacts, HeadTail
  <2>. QED BY <1>1, <2>1, TopFacts, FrameTodo
<1>3. /\ stack' \in Seq(Frame) /\ Len(stack') = Len(stack) /\ stack'[1] = f
      /\ 1 \in 1..Len(stack) /\ Top = stack[1] /\ Top \in Frame /\ Top.todo \in Seq(Ty)
      /\ \A i \in 1..Len(stack) : i # 1 => stack'[i] = stack[i]
  BY <1>1, <1>2, ReplaceTop, TopFacts DEF Continue
<1>4. Known' = Known /\ types' = types /\ resolved' = resolved /\ visited' = visited
  BY DEF Continue, Known
<1>5. \A x : In(x, Top.todo) => x = t \/ In(x, f.todo)
  BY <1>1, <1>2, <1>3, InTail
<1>6. TypeOK'
  BY <1>3 DEF IInv, TypeOK, Continue
<1>7. PartsKnown'
  BY <1>4 DEF IInv, PartsKnown
<1>8. PartsVisited'
  <2>1. ASSUME NEW i \in 1..Len(stack), ~stack'[i].recorded, NEW p \in ToSet(Parts[stack'[i].ty])
        PROVE  p \in Known \/ In(p, stack'[i].todo)
    <3>1. CASE i = 1
      <4>1. ~stack[1].recorded /\ p \in ToSet(Parts[stack[1].ty])
        BY <1>2, <1>3, <2>1, <3>1
      <4>2. p \in Known \/ In(p, Top.todo)
        BY <1>3, <4>1 DEF IInv, PartsVisited
      <4>. QED BY <1>1, <1>3, <1>5, <3>1, <4>2
    <3>2. CASE i # 1
      BY <1>3, <2>1, <3>2 DEF IInv, PartsVisited
    <3>. QED BY <3>1, <3>2
  <2>. QED BY <1>3, <1>4, <2>1 DEF PartsVisited
<1>9. CleanFrames'
  <2>1. \A k \in 1..Len(f.todo) : k + 1 \in 1..Len(Top.todo) /\ f.todo[k] = Top.todo[k + 1]
    BY <1>1, <1>2, <1>3, HeadTail
  <2>2. \A i \in 1..Len(stack) : stack'[i].ty = stack[i].ty
    BY <1>2, <1>3
  <2>3. ASSUME NEW i \in 1..Len(stack), stack[i].ty \in Clean, NEW k \in 1..Len(stack'[i].todo)
        PROVE  stack'[i].todo[k] \in Clean
    <3>1. CASE i = 1
      BY <1>3, <2>1, <2>3, <3>1 DEF IInv, CleanFrames
    <3>2. CASE i # 1
      BY <1>3, <2>3, <3>2 DEF IInv, CleanFrames
    <3>. QED BY <3>1, <3>2
  <2>4. \A i, j \in 1..Len(stack) : i < j /\ stack[j].ty \in Clean => stack[i].ty \in Clean
    BY DEF IInv, CleanFrames
  <2>. QED BY <1>3, <2>2, <2>3, <2>4 DEF CleanFrames
<1>10. CleanInv'
  <2>1. ASSUME NEW x, NEW r, ToVisit(x, r), x # t
        PROVE  ToVisit(x, r)'
    BY <1>2, <1>3, <1>5, <2>1 DEF ToVisit
  <2>. QED BY <1>1, <1>4, <2>1 DEF IInv, CleanInv
<1>11. ClosureInv'
  <2>1. ASSUME NEW c, Entered(c)
        PROVE  Entered(c)'
    <3>1. PICK i \in 1..Len(stack) : stack[i].ty = c /\ ~stack[i].recorded
      BY <2>1 DEF Entered
    <3>2. stack'[i].ty = c /\ ~stack'[i].recorded
      <4>1. CASE i = 1
        BY <1>2, <1>3, <3>1, <4>1
      <4>2. CASE i # 1
        BY <1>3, <3>1, <4>2
      <4>. QED BY <4>1, <4>2
    <3>. QED BY <1>3, <3>2 DEF Entered
  <2>. QED BY <1>4, <2>1 DEF IInv, ClosureInv
<1>. QED BY <1>6, <1>7, <1>8, <1>9, <1>10, <1>11 DEF IInv

\* Both kinds of Enter put a frame for t on top that has all parts of t to visit.
LEMMA PushStep ==
  ASSUME IInv, NEW t \in Ty, NEW f \in Frame, AtType(t),
         f.ty = t, f.todo = Parts[t], stack' = <<f>> \o stack
  PROVE  /\ stack' \in Seq(Frame) /\ 1 \in 1..Len(stack') /\ stack'[1] = f
         /\ CleanFrames'
         /\ \A x, r : ToVisit(x, r) => ToVisit(x, r)'
         /\ \A c : Entered(c) => Entered(c)'
         /\ \A x : In(x, Parts[t]) => ToVisit(x, t)'
         /\ types \subseteq types' /\ resolved \subseteq resolved' => PartsVisited'
<1>1. stack \in Seq(Frame) /\ stack # <<>> /\ Top.todo # <<>> /\ t = Head(Top.todo)
  BY DEF IInv, TypeOK, AtType
<1>2. /\ stack' \in Seq(Frame) /\ stack'[1] = f /\ 1 \in 1..Len(stack')
      /\ \A i \in 1..Len(stack) : i + 1 \in 1..Len(stack') /\ stack'[i + 1] = stack[i]
      /\ \A i \in 1..Len(stack') : i # 1 => i - 1 \in 1..Len(stack) /\ stack'[i] = stack[i - 1]
  BY <1>1, PushStack
<1>3. ASSUME NEW x, NEW r, ToVisit(x, r)
      PROVE  ToVisit(x, r)'
  BY <1>2, <1>3 DEF ToVisit
<1>4. ASSUME NEW c, Entered(c)
      PROVE  Entered(c)'
  BY <1>2, <1>4 DEF Entered
<1>5. ASSUME NEW x, In(x, Parts[t])
      PROVE  ToVisit(x, t)'
  BY <1>2, <1>5 DEF ToVisit
<1>6. ASSUME types \subseteq types', resolved \subseteq resolved'
      PROVE  PartsVisited'
  <2>1. Known \subseteq Known'
    BY <1>6 DEF Known
  <2>2. ASSUME NEW i \in 1..Len(stack'), ~stack'[i].recorded, NEW p \in ToSet(Parts[stack'[i].ty])
        PROVE  p \in Known' \/ In(p, stack'[i].todo)
    <3>1. CASE i = 1
      <4>1. p \in ToSet(Parts[t])
        BY <1>2, <2>2, <3>1
      <4>2. In(p, Parts[t])
        BY <4>1, RefsElems
      <4>. QED BY <1>2, <3>1, <4>2
    <3>2. CASE i # 1
      BY <1>2, <2>1, <2>2, <3>2 DEF IInv, PartsVisited
    <3>. QED BY <3>1, <3>2
  <2>. QED BY <2>2 DEF PartsVisited
<1>7. CleanFrames'
  <2>1. /\ 1 \in 1..Len(stack) /\ Top = stack[1] /\ Top.todo \in Seq(Ty)
        /\ 1 \in 1..Len(Top.todo) /\ Top.todo[1] = t /\ Len(stack) \in Nat /\ Len(stack') \in Nat
    BY <1>1, <1>2, TopFacts, HeadTail, SeqElems
  <2>2. stack[1].ty \in Clean => t \in Clean
    BY <2>1 DEF IInv, CleanFrames
  <2>3. ASSUME t \in Clean, NEW k \in 1..Len(Parts[t])
        PROVE  Parts[t][k] \in Clean
    <3>1. In(Parts[t][k], Parts[t])
      BY <2>3 DEF In
    <3>. QED BY <2>3, <3>1, RefsElems, TyAssumption
  <2>4. ASSUME NEW i \in 1..Len(stack'), stack'[i].ty \in Clean, NEW k \in 1..Len(stack'[i].todo)
        PROVE  stack'[i].todo[k] \in Clean
    <3>1. CASE i = 1
      BY <1>2, <2>3, <2>4, <3>1
    <3>2. CASE i # 1
      BY <1>2, <2>4, <3>2 DEF IInv, CleanFrames
    <3>. QED BY <3>1, <3>2
  <2>5. ASSUME NEW i \in 1..Len(stack'), NEW j \in 1..Len(stack'), i < j, stack'[j].ty \in Clean
        PROVE  stack'[i].ty \in Clean
    <3>1. j # 1 /\ j - 1 \in 1..Len(stack) /\ stack[j - 1].ty \in Clean
      <4>1. j # 1
        BY <2>1, <2>5
      <4>. QED BY <1>2, <2>5, <4>1
    <3>2. CASE i # 1
      <4>1. i - 1 \in 1..Len(stack) /\ i - 1 < j - 1 /\ stack'[i] = stack[i - 1]
        BY <1>2, <2>1, <2>5, <3>2
      <4>. QED BY <3>1, <4>1 DEF IInv, CleanFrames
    <3>3. CASE i = 1
      <4>1. stack[1].ty \in Clean
        <5>1. CASE j - 1 = 1
          BY <3>1, <5>1
        <5>2. CASE j - 1 # 1
          <6>1. 1 < j - 1
            BY <2>1, <3>1, <5>2
          <6>. QED BY <2>1, <3>1, <6>1 DEF IInv, CleanFrames
        <5>. QED BY <5>1, <5>2
      <4>. QED BY <1>2, <2>2, <3>3, <4>1
    <3>. QED BY <3>2, <3>3
  <2>. QED BY <2>4, <2>5 DEF CleanFrames
<1>. QED BY <1>2, <1>3, <1>4, <1>5, <1>6, <1>7

LEMMA EnterFnStep == ASSUME IInv, NEW t \in Ty, EnterFn(t) PROVE IInv'
<1>1. PICK f \in Frame : /\ f.ty = t /\ f.todo = Parts[t] /\ (f.recorded <=> t \in Fn)
                         /\ stack' = <<f>> \o stack
  <2>1. [ty |-> t, todo |-> Parts[t], recorded |-> t \in Fn] \in Frame
    BY TyAssumption DEF Frame
  <2>. QED BY <2>1 DEF EnterFn, Pushed
<1>2. AtType(t) /\ t \in Fn \cup Closure /\ types' = types /\ resolved' = resolved \cup {t}
  BY DEF EnterFn
<1>3. /\ stack' \in Seq(Frame) /\ 1 \in 1..Len(stack') /\ stack'[1] = f
      /\ CleanFrames' /\ PartsVisited'
      /\ \A x, r : ToVisit(x, r) => ToVisit(x, r)'
      /\ \A c : Entered(c) => Entered(c)'
      /\ \A x : In(x, Parts[t]) => ToVisit(x, t)'
  BY <1>1, <1>2, PushStep
<1>4. Known' = Known \cup {t} /\ visited' = visited
  BY DEF EnterFn, Known
<1>5. TypeOK'
  BY <1>2, <1>3 DEF IInv, TypeOK, EnterFn
<1>6. PartsKnown'
  BY <1>2, <1>4 DEF IInv, PartsKnown
<1>7. CleanInv'
  <2>1. \A x \in Refs(t) : ToVisit(x, t)'
    <3>1. \A x : ~In(x, <<>>)
      BY DEF In
    <3>2. Fields[t] = <<>>
      BY <1>2, TyAssumption
    <3>. QED BY <1>3, <3>1, <3>2, RefsElems
  <2>. QED BY <1>3, <1>4, <2>1 DEF IInv, CleanInv
<1>8. ClosureInv'
  <2>1. t \notin Fn => Entered(t)'
    BY <1>1, <1>3 DEF Entered
  <2>2. ASSUME NEW c \in (resolved' \cap Clean) \ Fn
        PROVE  c \in types' \/ Entered(c)'
    <3>1. CASE c = t
      BY <2>1, <2>2, <3>1
    <3>2. CASE c # t
      BY <1>2, <1>3, <2>2, <3>2 DEF IInv, ClosureInv
    <3>. QED BY <3>1, <3>2
  <2>. QED BY <2>2 DEF ClosureInv
<1>. QED BY <1>3, <1>5, <1>6, <1>7, <1>8 DEF IInv

LEMMA EnterStep == ASSUME IInv, NEW t \in Ty, Enter(t) PROVE IInv'
<1>1. PICK f \in Frame : f.ty = t /\ f.todo = Parts[t] /\ stack' = <<f>> \o stack
  <2>1. [ty |-> t, todo |-> Parts[t], recorded |-> FALSE] \in Frame
    BY TyAssumption DEF Frame
  <2>. QED BY <2>1 DEF Enter, Pushed
<1>2. /\ AtType(t) /\ types' = types /\ resolved' = resolved /\ visited' = visited
      /\ Known' = Known
  BY DEF Enter, Known
<1>3. /\ stack' \in Seq(Frame) /\ CleanFrames' /\ PartsVisited'
      /\ \A x, r : ToVisit(x, r) => ToVisit(x, r)'
      /\ \A c : Entered(c) => Entered(c)'
  BY <1>1, <1>2, PushStep
<1>4. TypeOK'
  BY <1>3 DEF IInv, TypeOK, Enter
<1>5. PartsKnown' /\ CleanInv' /\ ClosureInv'
  BY <1>2, <1>3 DEF IInv, PartsKnown, CleanInv, ClosureInv
<1>. QED BY <1>3, <1>4, <1>5 DEF IInv

LEMMA BreakStep == ASSUME IInv, NEW t \in Ty, Break(t) PROVE IInv'
<1>1. stack' = <<>> /\ Len(stack') = 0 /\ stack' \in Seq(Frame)
  BY DEF Break
<1>2. Known' = Known /\ types' = types /\ resolved' = resolved /\ visited' = visited
  BY DEF Break, Known
<1>3. \A i \in 1..Len(stack) : stack[i].ty \notin Clean
  <2>1. t \notin Clean /\ AtType(t)
    BY TyAssumption DEF Break
  <2>. QED BY <2>1, NoCleanFrame DEF IInv, TypeOK
<1>4. \A r \in Clean : ~Entered(r) /\ \A x : ~ToVisit(x, r)
  BY <1>3 DEF Entered, ToVisit
<1>5. TypeOK'
  BY <1>1 DEF IInv, TypeOK, Break
<1>6. PartsKnown' /\ PartsVisited' /\ CleanFrames'
  BY <1>1, <1>2 DEF IInv, PartsKnown, PartsVisited, CleanFrames
<1>7. CleanInv' /\ ClosureInv'
  BY <1>2, <1>4 DEF IInv, CleanInv, ClosureInv
<1>. QED BY <1>5, <1>6, <1>7 DEF IInv

LEMMA RecordStep == ASSUME IInv, Record PROVE IInv'
<1>1. stack \in Seq(Frame) /\ stack # <<>> /\ Top.todo = <<>> /\ ~Top.recorded /\ Top.ty \in Ty
  BY TopFacts DEF IInv, TypeOK, Record
<1>2. PICK t \in Ty : t = Top.ty
  BY <1>1
<1>3. PICK f \in Frame : /\ f = [Top EXCEPT !.todo = Fields[Top.ty], !.recorded = TRUE]
                         /\ f.ty = t /\ f.todo = Fields[t] /\ f.recorded
  <2>1. Fields[t] \in Seq(Ty)
    BY TyAssumption
  <2>2. Top \in Frame
    BY <1>1, TopFacts
  <2>. QED BY <1>2, <2>1, <2>2, FrameTodo
<1>4. /\ stack' \in Seq(Frame) /\ Len(stack') = Len(stack) /\ stack'[1] = f
      /\ 1 \in 1..Len(stack) /\ Top = stack[1] /\ Len(stack) \in Nat
      /\ \A i \in 1..Len(stack) : i # 1 => stack'[i] = stack[i]
  BY <1>1, <1>3, ReplaceTop, SeqElems DEF Record
<1>5. /\ types' = types \cup {t} /\ Known' = Known \cup {t}
      /\ resolved' = resolved /\ visited' = visited
  BY <1>2 DEF Record, Known
<1>6. \A x : ~In(x, Top.todo)
  BY <1>1 DEF In
<1>7. \A p \in ToSet(Parts[t]) : p \in Known
  BY <1>1, <1>2, <1>4, <1>6 DEF IInv, PartsVisited
<1>8. TypeOK'
  <2>1. layout_panics \in Seq(types \cap LayoutPanics)
    BY DEF IInv, TypeOK
  <2>2. layout_panics \in Seq(types' \cap LayoutPanics)
    BY <1>5, <2>1
  <2>3. layout_panics' \in Seq(types' \cap LayoutPanics)
    BY <1>2, <1>5, <2>2 DEF Record, layout_shape_or_record
  <2>. QED BY <1>4, <1>5, <2>3 DEF IInv, TypeOK, Record
<1>9. PartsKnown'
  BY <1>5, <1>7 DEF IInv, PartsKnown
<1>10. PartsVisited'
  BY <1>3, <1>4, <1>5 DEF IInv, PartsVisited
<1>11. CleanFrames'
  <2>1. ASSUME t \in Clean, NEW k \in 1..Len(Fields[t])
        PROVE  Fields[t][k] \in Clean
    <3>1. In(Fields[t][k], Fields[t])
      BY <2>1 DEF In
    <3>. QED BY <2>1, <3>1, RefsElems, TyAssumption
  <2>2. \A i \in 1..Len(stack) : stack'[i].ty = stack[i].ty
    BY <1>2, <1>3, <1>4
  <2>3. ASSUME NEW i \in 1..Len(stack), stack[i].ty \in Clean, NEW k \in 1..Len(stack'[i].todo)
        PROVE  stack'[i].todo[k] \in Clean
    <3>1. CASE i = 1
      BY <1>2, <1>3, <1>4, <2>1, <2>3, <3>1
    <3>2. CASE i # 1
      BY <1>4, <2>3, <3>2 DEF IInv, CleanFrames
    <3>. QED BY <3>1, <3>2
  <2>4. \A i, j \in 1..Len(stack) : i < j /\ stack[j].ty \in Clean => stack[i].ty \in Clean
    BY DEF IInv, CleanFrames
  <2>. QED BY <1>4, <2>2, <2>3, <2>4 DEF CleanFrames
<1>12. CleanInv'
  <2>1. ASSUME NEW x, NEW r, ToVisit(x, r)
        PROVE  ToVisit(x, r)'
    BY <1>4, <1>6, <2>1 DEF ToVisit
  <2>2. ASSUME NEW x \in Refs(t)
        PROVE  x \in Known \/ ToVisit(x, t)'
    <3>1. CASE In(x, Parts[t])
      BY <1>7, <3>1, RefsElems
    <3>2. CASE In(x, Fields[t])
      <4>1. stack'[1].todo = Fields[t] /\ stack'[1].ty = t /\ 1 \in 1..Len(stack')
        BY <1>3, <1>4
      <4>2. In(x, stack'[1].todo)
        BY <3>2, <4>1
      <4>. QED BY <4>1, <4>2 DEF ToVisit
    <3>. QED BY <3>1, <3>2, RefsElems
  <2>3. ASSUME NEW r \in Known' \cap Clean, NEW x \in Refs(r)
        PROVE  x \in Known' \/ ToVisit(x, r)'
    <3>1. CASE r = t
      <4>1. x \in Refs(t)
        BY <2>3, <3>1
      <4>. QED BY <1>5, <2>2, <3>1, <4>1
    <3>2. CASE r # t
      BY <1>5, <2>1, <2>3, <3>2 DEF IInv, CleanInv
    <3>. QED BY <3>1, <3>2
  <2>4. \A r \in visited' \cap Clean : r \in Known' \/ ToVisit(r, r)'
    BY <1>5, <2>1 DEF IInv, CleanInv
  <2>. QED BY <2>3, <2>4 DEF CleanInv
<1>13. ClosureInv'
  <2>1. ASSUME NEW c, Entered(c), c # t
        PROVE  Entered(c)'
    BY <1>2, <1>4, <2>1 DEF Entered
  <2>. QED BY <1>5, <2>1 DEF IInv, ClosureInv
<1>. QED BY <1>8, <1>9, <1>10, <1>11, <1>12, <1>13 DEF IInv

LEMMA ReturnStep == ASSUME IInv, Return PROVE IInv'
<1>1. stack \in Seq(Frame) /\ stack # <<>> /\ Top.todo = <<>> /\ Top.recorded /\ stack' = Tail(stack)
  BY DEF IInv, TypeOK, Return
<1>2. /\ stack' \in Seq(Frame) /\ 1 \in 1..Len(stack) /\ Top = stack[1]
      /\ \A i \in 1..Len(stack') : i + 1 \in 1..Len(stack) /\ stack'[i] = stack[i + 1]
      /\ \A i \in 1..Len(stack) : i # 1 => i - 1 \in 1..Len(stack') /\ stack'[i - 1] = stack[i]
  BY <1>1, PopStack
<1>3. Known' = Known /\ types' = types /\ resolved' = resolved /\ visited' = visited
  BY DEF Return, Known
<1>4. TypeOK'
  BY <1>2 DEF IInv, TypeOK, Return
<1>5. PartsKnown' /\ PartsVisited'
  BY <1>2, <1>3 DEF IInv, PartsKnown, PartsVisited
<1>6. CleanFrames'
  <2>1. \A i, j \in 1..Len(stack') : i < j => i + 1 < j + 1
    BY <1>2, SeqElems
  <2>. QED BY <1>2, <2>1 DEF IInv, CleanFrames
<1>7. CleanInv'
  <2>1. \A x : ~In(x, Top.todo)
    BY <1>1 DEF In
  <2>2. ASSUME NEW x, NEW r, ToVisit(x, r)
        PROVE  ToVisit(x, r)'
    BY <1>2, <2>1, <2>2 DEF ToVisit
  <2>. QED BY <1>3, <2>2 DEF IInv, CleanInv
<1>8. ClosureInv'
  <2>1. ASSUME NEW c, Entered(c)
        PROVE  Entered(c)'
    BY <1>1, <1>2, <2>1 DEF Entered
  <2>. QED BY <1>3, <2>1 DEF IInv, ClosureInv
<1>. QED BY <1>4, <1>5, <1>6, <1>7, <1>8 DEF IInv

LEMMA StutterStep == ASSUME IInv, UNCHANGED vars PROVE IInv'
BY DEF vars, IInv, TypeOK, Known, PartsKnown, PartsVisited, CleanFrames, CleanInv, ClosureInv,
       ToVisit, Entered

\* The invariant on which the theorems rest.
LEMMA Invariance == Spec => []IInv
<1>1. IInv /\ [Next]_vars => IInv'
  BY VisitStep, ContinueStep, EnterFnStep, EnterStep, BreakStep, RecordStep, ReturnStep, StutterStep,
     TyAssumption DEF Next, Walk
<1>. QED BY InitIInv, <1>1, PTL DEF Spec

-----------------------------------------------------------------------------
\* The state stays well typed; layouts that panicked belong to recorded types.
THEOREM TyTyped == Spec => []TypeOK
<1>1. IInv => TypeOK
  BY DEF IInv
<1>. QED BY <1>1, Invariance, PTL

\* ty_visitor.rs: whatever breaks, a type is recorded only after the visit of all
\* its parts succeeded.
THEOREM TyPartsKnown == Spec => []PartsKnown
<1>1. IInv => PartsKnown
  BY DEF IInv
<1>. QED BY <1>1, Invariance, PTL

\* ty_visitor.rs: a break costs only types that lead to a witness; of every other type
\* that a body mentions, all it refers to is collected, the types of fields included.
THEOREM TyCleanCollected == Spec => []CleanCollected
<1>1. IInv => CleanCollected
  <2> SUFFICES ASSUME IInv PROVE CleanCollected
    OBVIOUS
  <2>1. stack \in Seq(Frame)
    BY DEF IInv, TypeOK
  <2>2. ASSUME NEW x, NEW r, ToVisit(x, r)
        PROVE  x \in Todo(r)
    <3>1. PICK i \in 1..Len(stack) : stack[i].ty = r /\ In(x, stack[i].todo)
      BY <2>2 DEF ToVisit
    <3>2. stack[i] \in Frame /\ stack[i].todo \in Seq(Ty)
      <4>1. stack[i] \in Frame
        BY <2>1, SeqElems
      <4>. QED BY <4>1 DEF Frame
    <3>3. x \in ToSet(stack[i].todo)
      BY <3>1, <3>2, ToSetElems
    <3>4. stack[i] \in ToSet(stack)
      BY <2>1, ToSetElems DEF In
    <3>. QED BY <3>1, <3>3, <3>4 DEF Todo
  <2>. QED BY <2>2 DEF IInv, CleanInv, CleanCollected
<1>. QED BY <1>1, Invariance, PTL

\* ty_visitor.rs: at the end of a walk every closure that leads to no witness has its
\* entry in the type map.
THEOREM TyClosuresRecorded == Spec => []ClosuresRecorded
<1>1. IInv => ClosuresRecorded
  BY DEF IInv, ClosureInv, ClosuresRecorded, Entered
<1>. QED BY <1>1, Invariance, PTL
=============================================================================
