---------------------------- MODULE OrderingProofs ----------------------------
(***************************************************************************)
(* The ordering of operations, for every list of operations: a relabelling *)
(* comes after the one that makes room for it, and the relabellings of an  *)
(* act stay together.                                                      *)
(***************************************************************************)
EXTENDS ReplayLaws, SequenceTheorems, FiniteSetTheorems, WellFoundedInduction, TLAPS

USE DEF Places

\* The list of operations is one of Programs, and stays what it is.
LEMMA OpsAreOperations ==
    ASSUME ops \in Programs
    PROVE  /\ ops \in Seq(Operation)
           /\ Places = 1..Len(ops)
           /\ \A i \in Places : ops[i] \in Operation
BY OrderingAssumption

-----------------------------------------------------------------------------
(* The search.                                                             *)

(***************************************************************************)
(* The stack is a path of the search: legs of one act, none of them        *)
(* emitted or passed over before, each waiting for the one above it.       *)
(***************************************************************************)
StackIsPath ==
    /\ stack \in Seq(Places)
    /\ \A k \in DOMAIN stack :
           /\ IsLeg(stack[k])
           /\ stack[k] \notin Emitted \cup dropped
    /\ \A k, m \in DOMAIN stack : ops[stack[k]].act = ops[stack[m]].act
    /\ \A k \in 1..(Len(stack) - 1) : WaitsFor(stack[k], stack[k + 1])
    /\ IsInjective(stack)

\* A leg is passed over only when another with its target was emitted.
DroppedAreVisited ==
    \A i \in dropped : IsLeg(i) /\ Visited(i)

OrderInv ==
    /\ ops \in Programs
    /\ emitted \in Seq(Places) /\ IsInjective(emitted)
    /\ dropped \subseteq Places \ Emitted
    /\ StackIsPath
    /\ DroppedAreVisited

\* The ordering starts with nothing emitted.
LEMMA OrderInvInit == OrderInit => OrderInv
BY OrderingAssumption DEF OrderInit, OrderInv, StackIsPath, DroppedAreVisited, IsInjective, Emitted

\* Appending a new element to a sequence without repetitions.
LEMMA AppendNew ==
    ASSUME NEW S, NEW s \in Seq(S), NEW x \in S, IsInjective(s),
           \A k \in DOMAIN s : s[k] # x
    PROVE  /\ Append(s, x) \in Seq(S)
           /\ IsInjective(Append(s, x))
           /\ {Append(s, x)[k] : k \in DOMAIN Append(s, x)} = {s[k] : k \in DOMAIN s} \cup {x}
<1> DEFINE t == Append(s, x)
<1>1. /\ t \in Seq(S) /\ Len(t) = Len(s) + 1
      /\ \A k \in 1..Len(s) : t[k] = s[k]
      /\ t[Len(s) + 1] = x
      /\ DOMAIN t = 1..(Len(s) + 1) /\ DOMAIN s = 1..Len(s) /\ Len(s) \in Nat
  OBVIOUS
<1>2. IsInjective(t)
  <2>1. SUFFICES ASSUME NEW a \in DOMAIN t, NEW b \in DOMAIN t, t[a] = t[b]
                 PROVE  a = b
    BY DEF IsInjective
  <2>2. a \in 1..Len(s) \/ a = Len(s) + 1
    BY <1>1
  <2>3. b \in 1..Len(s) \/ b = Len(s) + 1
    BY <1>1
  <2> QED
    BY <1>1, <2>1, <2>2, <2>3 DEF IsInjective
<1>3. {t[k] : k \in DOMAIN t} = {s[k] : k \in DOMAIN s} \cup {x}
  <2>1. \A y : y \in {t[k] : k \in DOMAIN t} => y \in {s[k] : k \in DOMAIN s} \cup {x}
    BY <1>1
  <2>2. ASSUME NEW k \in DOMAIN s
        PROVE  s[k] \in {t[m] : m \in DOMAIN t}
    <3>1. k \in DOMAIN t /\ t[k] = s[k]
      BY <1>1
    <3> QED
      BY <3>1
  <2>3. x \in {t[m] : m \in DOMAIN t}
    <3>1. Len(s) + 1 \in DOMAIN t
      BY <1>1
    <3> QED
      BY <1>1, <3>1
  <2> QED
    BY <2>1, <2>2, <2>3
<1> QED
  BY <1>1, <1>2, <1>3

\* Emitting an operation that is on neither the stack nor emitted before.
LEMMA EmittedNext ==
    ASSUME OrderInv, NEW i \in Places, i \notin Emitted,
           ops' = ops, emitted' = Append(emitted, i)
    PROVE  /\ emitted' \in Seq(Places) /\ IsInjective(emitted')
           /\ Emitted' = Emitted \cup {i}
<1>1. \A k \in DOMAIN emitted : emitted[k] # i
  BY DEF Emitted
<1>2. emitted \in Seq(Places) /\ IsInjective(emitted)
  BY DEF OrderInv
<1>3. /\ Append(emitted, i) \in Seq(Places)
      /\ IsInjective(Append(emitted, i))
      /\ {Append(emitted, i)[k] : k \in DOMAIN Append(emitted, i)}
            = {emitted[k] : k \in DOMAIN emitted} \cup {i}
  BY <1>1, <1>2, AppendNew
<1> QED
  BY <1>3 DEF Emitted

\* What was visited stays visited.
LEMMA VisitedStays ==
    ASSUME ops' = ops, Emitted \subseteq Emitted', NEW i, Visited(i)
    PROVE  Visited(i)'
BY DEF Visited, IsLeg

\* Emitting an operation that is not a leg, with no search under way.
LEMMA EmitNoLeg ==
    ASSUME OrderInv, stack = <<>>, NEW i \in Rest,
           emitted' = Append(emitted, i), UNCHANGED <<ops, dropped, stack>>
    PROVE  OrderInv'
<1>1. i \in Places /\ i \notin Emitted /\ i \notin dropped
  BY DEF Rest
<1>2. /\ emitted' \in Seq(Places) /\ IsInjective(emitted')
      /\ Emitted' = Emitted \cup {i}
  BY <1>1, EmittedNext
<1>3. dropped' \subseteq Places' \ Emitted'
  BY <1>1, <1>2 DEF OrderInv
<1>4. StackIsPath'
  <2>1. stack' = <<>>
    OBVIOUS
  <2>2. /\ DOMAIN stack' = {} /\ Len(stack') = 0 /\ stack' \in Seq(Places')
    BY <2>1
  <2> QED
    BY <2>2 DEF StackIsPath, IsInjective
<1>5. DroppedAreVisited'
  <2>1. ASSUME NEW j \in dropped'
        PROVE  IsLeg(j)' /\ Visited(j)'
    <3>1. IsLeg(j) /\ Visited(j)
      BY <2>1 DEF OrderInv, DroppedAreVisited
    <3> QED
      BY <3>1, <1>2, VisitedStays DEF IsLeg
  <2> QED
    BY <2>1 DEF DroppedAreVisited
<1> QED
  BY <1>2, <1>3, <1>4, <1>5 DEF OrderInv

\* A repeal is emitted.
LEMMA RepealStep ==
    ASSUME OrderInv, EmitRepeal
    PROVE  OrderInv'
<1>1. PICK i \in Repeals : emitted' = Append(emitted, i)
  BY DEF EmitRepeal
<1>2. i \in Rest
  BY DEF Repeals, Group
<1> QED
  BY <1>1, <1>2, EmitNoLeg DEF EmitRepeal

\* Another operation is emitted.
LEMMA OtherStep ==
    ASSUME OrderInv, EmitOther
    PROVE  OrderInv'
<1>1. PICK i \in Group : emitted' = Append(emitted, i)
  BY DEF EmitOther
<1>2. i \in Rest
  BY DEF Group
<1> QED
  BY <1>1, <1>2, EmitNoLeg DEF EmitOther

\* The search starts at a leg.
LEMMA VisitStep ==
    ASSUME OrderInv, Visit
    PROVE  OrderInv'
<1>1. PICK i \in Legs : stack' = <<i>>
  BY DEF Visit
<1>2. i \in Places \ (Emitted \cup dropped) /\ IsLeg(i)
  BY DEF Legs, Group, Rest
<1>3. UNCHANGED <<ops, emitted, dropped>>
  BY DEF Visit
<1>4. StackIsPath'
  <2>1. /\ stack' \in Seq(Places') /\ DOMAIN stack' = {1} /\ Len(stack') = 1
        /\ stack'[1] = i
    BY <1>1, <1>2, <1>3
  <2>2. IsLeg(i)' /\ i \notin Emitted' \cup dropped'
    BY <1>2, <1>3 DEF IsLeg, Emitted
  <2> QED
    BY <2>1, <2>2 DEF StackIsPath, IsInjective
<1>5. DroppedAreVisited'
  BY <1>3 DEF OrderInv, DroppedAreVisited, IsLeg, Visited, Emitted
<1> QED
  BY <1>3, <1>4, <1>5 DEF OrderInv, Emitted

\* A leg is passed over.
LEMMA PassOverStep ==
    ASSUME OrderInv, PassOver
    PROVE  OrderInv'
<1>1. PICK i \in Legs : Visited(i) /\ dropped' = dropped \cup {i}
  BY DEF PassOver
<1>2. i \in Places \ (Emitted \cup dropped) /\ IsLeg(i)
  BY DEF Legs, Group, Rest
<1>3. UNCHANGED <<ops, emitted, stack>> /\ stack = <<>>
  BY DEF PassOver
<1>4. StackIsPath'
  <2>1. /\ DOMAIN stack' = {} /\ Len(stack') = 0 /\ stack' \in Seq(Places')
    BY <1>3
  <2> QED
    BY <2>1 DEF StackIsPath, IsInjective
<1>5. DroppedAreVisited'
  BY <1>1, <1>2, <1>3 DEF OrderInv, DroppedAreVisited, IsLeg, Visited, Emitted
<1> QED
  BY <1>1, <1>2, <1>3, <1>4, <1>5 DEF OrderInv, Emitted

\* The search goes on to the leg that makes room for the one it is at.
LEMMA FollowStep ==
    ASSUME OrderInv, Follow
    PROVE  OrderInv'
<1>1. PICK j \in Places : Follows(j) /\ stack' = Append(stack, j)
  BY DEF Follow
<1>2. UNCHANGED <<ops, emitted, dropped>> /\ stack # <<>>
  BY DEF Follow
<1>3. /\ j \in SameAct(Top) /\ IsLeg(j) /\ WaitsFor(Top, j)
      /\ ~Visited(j) /\ ~BeingVisited(j)
  BY <1>1 DEF Follows, Vacates, SameAct, WaitsFor
<1>4. stack \in Seq(Places) /\ IsInjective(stack)
  BY DEF OrderInv, StackIsPath
<1>5. \A k \in DOMAIN stack : stack[k] # j
  BY <1>3 DEF BeingVisited, Visiting
<1>6. j \notin Emitted
  BY <1>3 DEF Visited
<1>7. j \notin dropped
  BY <1>3 DEF OrderInv, DroppedAreVisited
<1>8. Append(stack, j) \in Seq(Places) /\ IsInjective(Append(stack, j))
  BY <1>4, <1>5, AppendNew
<1>9. StackIsPath'
  <2>1. /\ Len(stack') = Len(stack) + 1 /\ Len(stack) \in Nat
        /\ DOMAIN stack' = 1..(Len(stack) + 1) /\ DOMAIN stack = 1..Len(stack)
        /\ \A k \in 1..Len(stack) : stack'[k] = stack[k]
        /\ stack'[Len(stack) + 1] = j
    BY <1>1, <1>4
  <2>2. ASSUME NEW k \in DOMAIN stack'
        PROVE  IsLeg(stack[k])' /\ stack'[k] \notin Emitted' \cup dropped'
    <3>1. CASE k \in DOMAIN stack
      <4>1. IsLeg(stack[k]) /\ stack[k] \notin Emitted \cup dropped
        BY <3>1 DEF OrderInv, StackIsPath
      <4>2. stack'[k] = stack[k]
        BY <2>1, <3>1
      <4> QED
        BY <4>1, <4>2, <1>2 DEF IsLeg, Emitted
    <3>2. CASE k = Len(stack) + 1
      BY <2>1, <3>2, <1>2, <1>3, <1>6, <1>7 DEF IsLeg, Emitted
    <3> QED
      BY <2>1, <2>2, <3>1, <3>2
  <2>3. ASSUME NEW k \in 1..(Len(stack') - 1)
        PROVE  WaitsFor(stack[k], stack[k + 1])'
    <3>1. CASE k < Len(stack)
      <4>1. k \in 1..(Len(stack) - 1) /\ stack'[k] = stack[k] /\ stack'[k + 1] = stack[k + 1]
        BY <2>1, <3>1
      <4>2. WaitsFor(stack[k], stack[k + 1])
        BY <4>1 DEF OrderInv, StackIsPath
      <4> QED
        BY <4>1, <4>2, <1>2 DEF WaitsFor, SameAct, IsLeg
    <3>2. CASE k = Len(stack)
      <4>1. stack'[k] = Top /\ stack'[k + 1] = j
        BY <2>1, <2>3, <3>2 DEF Top
      <4> QED
        BY <4>1, <1>2, <1>3 DEF WaitsFor, SameAct, IsLeg
    <3>3. k \in 1..Len(stack)
      BY <2>1, <2>3
    <3>4. k < Len(stack) \/ k = Len(stack)
      <4>1. Len(stack) \in Nat
        BY <2>1
      <4> HIDE DEF Places
      <4> QED
        BY <3>3, <4>1
    <3> QED
      BY <3>1, <3>2, <3>4
  <2>4. stack' \in Seq(Places') /\ IsInjective(stack')
    BY <1>1, <1>2, <1>8
  <2>5. ASSUME NEW k \in DOMAIN stack'
        PROVE  ops'[stack'[k]].act = ops[Top].act
    <3>1. Len(stack) \in DOMAIN stack
      BY <1>2, <1>4
    <3>2. CASE k \in DOMAIN stack
      BY <1>2, <2>1, <3>1, <3>2 DEF OrderInv, StackIsPath, Top
    <3>3. CASE k = Len(stack) + 1
      BY <1>2, <1>3, <2>1, <3>3 DEF SameAct
    <3> QED
      BY <2>1, <2>5, <3>2, <3>3
  <2> QED
    BY <2>2, <2>3, <2>4, <2>5 DEF StackIsPath
<1>10. DroppedAreVisited'
  BY <1>2 DEF OrderInv, DroppedAreVisited, IsLeg, Visited, Emitted
<1> QED
  BY <1>2, <1>9, <1>10 DEF OrderInv, Emitted

\* The stack without its top.
LEMMA PopStack ==
    ASSUME OrderInv, stack # <<>>
    PROVE  /\ SubSeq(stack, 1, Len(stack) - 1) \in Seq(Places)
           /\ Len(SubSeq(stack, 1, Len(stack) - 1)) = Len(stack) - 1
           /\ DOMAIN SubSeq(stack, 1, Len(stack) - 1) = 1..(Len(stack) - 1)
           /\ \A k \in 1..(Len(stack) - 1) : SubSeq(stack, 1, Len(stack) - 1)[k] = stack[k]
           /\ Len(stack) \in Nat /\ Len(stack) >= 1 /\ DOMAIN stack = 1..Len(stack)
<1>1. stack \in Seq(Places)
  BY DEF OrderInv, StackIsPath
<1>2. Len(stack) \in Nat /\ Len(stack) >= 1 /\ DOMAIN stack = 1..Len(stack)
  BY <1>1
<1> QED
  BY <1>1, <1>2

\* The leg at the top of the stack is emitted.
LEMMA EmitLegStep ==
    ASSUME OrderInv, EmitLeg
    PROVE  OrderInv'
<1> DEFINE n == Len(stack)
           t == SubSeq(stack, 1, n - 1)
<1>1. /\ stack # <<>> /\ emitted' = Append(emitted, Top) /\ stack' = t
      /\ UNCHANGED <<ops, dropped>>
  BY DEF EmitLeg
<1>2. /\ t \in Seq(Places) /\ Len(t) = n - 1 /\ DOMAIN t = 1..(n - 1)
      /\ \A k \in 1..(n - 1) : t[k] = stack[k]
      /\ n \in Nat /\ n >= 1 /\ DOMAIN stack = 1..n
  BY <1>1, PopStack
<1>3. Top \in Places /\ Top \notin Emitted /\ Top \notin dropped
  <2>1. n \in DOMAIN stack
    BY <1>2
  <2> QED
    BY <2>1 DEF OrderInv, StackIsPath, Top
<1>4. /\ emitted' \in Seq(Places) /\ IsInjective(emitted')
      /\ Emitted' = Emitted \cup {Top}
  BY <1>1, <1>3, EmittedNext
<1>5. dropped' \subseteq Places' \ Emitted'
  BY <1>1, <1>3, <1>4 DEF OrderInv
<1>6. \A k \in 1..(n - 1) : stack[k] # Top
  BY <1>2 DEF OrderInv, StackIsPath, IsInjective, Top
<1>7. StackIsPath'
  <2>1. ASSUME NEW k \in DOMAIN stack'
        PROVE  IsLeg(stack[k])' /\ stack'[k] \notin Emitted' \cup dropped'
    <3>1. stack'[k] = stack[k] /\ k \in DOMAIN stack /\ k \in 1..(n - 1)
      BY <1>1, <1>2, <2>1
    <3>2. IsLeg(stack[k]) /\ stack[k] \notin Emitted \cup dropped
      BY <3>1 DEF OrderInv, StackIsPath
    <3> QED
      BY <3>1, <3>2, <1>1, <1>4, <1>6 DEF IsLeg
  <2>2. ASSUME NEW k \in 1..(Len(stack') - 1)
        PROVE  WaitsFor(stack[k], stack[k + 1])'
    <3>1. k \in 1..(n - 1) /\ stack'[k] = stack[k] /\ stack'[k + 1] = stack[k + 1]
      BY <1>1, <1>2, <2>2
    <3>2. WaitsFor(stack[k], stack[k + 1])
      BY <3>1 DEF OrderInv, StackIsPath
    <3> QED
      BY <3>1, <3>2, <1>1 DEF WaitsFor, SameAct, IsLeg
  <2>3. IsInjective(stack')
    BY <1>1, <1>2 DEF OrderInv, StackIsPath, IsInjective
  <2>4. stack' \in Seq(Places')
    BY <1>1, <1>2
  <2>5. \A k, m \in DOMAIN stack' : ops'[stack'[k]].act = ops'[stack'[m]].act
    BY <1>1, <1>2 DEF OrderInv, StackIsPath
  <2> QED
    BY <2>1, <2>2, <2>3, <2>4, <2>5 DEF StackIsPath
<1>8. DroppedAreVisited'
  <2>1. ASSUME NEW j \in dropped'
        PROVE  IsLeg(j)' /\ Visited(j)'
    <3>1. IsLeg(j) /\ Visited(j)
      BY <2>1, <1>1 DEF OrderInv, DroppedAreVisited
    <3> QED
      BY <3>1, <1>1, <1>4, VisitedStays DEF IsLeg
  <2> QED
    BY <2>1 DEF DroppedAreVisited
<1> QED
  BY <1>1, <1>4, <1>5, <1>7, <1>8 DEF OrderInv

\* The ordering keeps the stack a path.
LEMMA OrderInvStep ==
    ASSUME OrderInv, [OrderNext]_orderVars
    PROVE  OrderInv'
<1>1. CASE EmitRepeal
  BY <1>1, RepealStep
<1>2. CASE Visit
  BY <1>2, VisitStep
<1>3. CASE PassOver
  BY <1>3, PassOverStep
<1>4. CASE Follow
  BY <1>4, FollowStep
<1>5. CASE EmitLeg
  BY <1>5, EmitLegStep
<1>6. CASE EmitOther
  BY <1>6, OtherStep
<1>7. CASE UNCHANGED orderVars
  BY <1>7 DEF orderVars, OrderInv, StackIsPath, DroppedAreVisited, Emitted, Visited,
              IsLeg, WaitsFor, SameAct
<1> QED
  BY <1>1, <1>2, <1>3, <1>4, <1>5, <1>6, <1>7 DEF OrderNext

-----------------------------------------------------------------------------
(* Room is made before it is taken.                                        *)

\* What has been in a circle stays in it: the search forgets no leg.
LEMMA CirclesStay ==
    ASSUME ops' = ops, Emitted \cup Visiting \subseteq Emitted' \cup Visiting',
           NEW i, InCircle(i)
    PROVE  InCircle(i)'
<1>1. PICK S \in SUBSET (SameAct(i) \cap (Emitted \cup Visiting)) :
          i \in S /\ \A j \in S : \E k \in S : WaitsFor(j, k)
  BY DEF InCircle
<1>2. S \in SUBSET (SameAct(i)' \cap (Emitted' \cup Visiting'))
  BY <1>1 DEF SameAct, IsLeg
<1>3. \A j \in S : \E k \in S : WaitsFor(j, k)'
  BY <1>1 DEF WaitsFor, SameAct, IsLeg
<1> QED
  BY <1>1, <1>2, <1>3 DEF InCircle

\* Of two operations one comes before the other.
LEMMA BeforeIsTotal ==
    ASSUME ops \in Programs, NEW i \in Places, NEW j \in Places, NEW k \in Places
    PROVE  /\ i # j => Before(i, j) \/ Before(j, i)
           /\ ~Before(i, i)
           /\ Before(i, j) /\ Before(j, k) => Before(i, k)
<1>1. i \in Nat /\ j \in Nat /\ k \in Nat
  BY OpsAreOperations
<1>2. \A l \in Places : ops[l].act \in Nat /\ ops[l].sequence \in Nat
  <2>1. \A l \in Places : ops[l].act \in Acts /\ ops[l].sequence \in Nat
    BY OpsAreOperations DEF Operation
  <2> QED
    BY <2>1, OrderingAssumption
<1> QED
  BY <1>1, <1>2 DEF Before

(***************************************************************************)
(* Some operations have a last one: one that has as few of them after it   *)
(* as any.                                                                 *)
(***************************************************************************)
LEMMA LastExists ==
    ASSUME ops \in Programs, NEW S \in SUBSET Places, S # {}
    PROVE  \E l \in S : \A k \in S : k # l => Before(k, l)
<1> DEFINE After(i) == {k \in S : Before(i, k)}
           Counts == {Cardinality(After(i)) : i \in S}
           R == OpToRel(<, Nat)
<1>1. IsFiniteSet(S)
  <2>1. Places = 1..Len(ops) /\ Len(ops) \in Int
    BY OpsAreOperations
  <2>2. IsFiniteSet(Places)
    BY <2>1, FS_Interval
  <2> QED
    BY <2>2, FS_Subset
<1>2. ASSUME NEW i \in S
      PROVE  IsFiniteSet(After(i)) /\ Cardinality(After(i)) \in Nat
  <2>1. After(i) \in SUBSET S
    OBVIOUS
  <2>2. IsFiniteSet(After(i))
    BY <1>1, <2>1, FS_Subset
  <2> QED
    BY <2>2, FS_CardinalityType
<1>3. Counts \subseteq Nat /\ Counts # {}
  BY <1>2
<1>4. IsWellFoundedOn(R, Nat)
  BY NatLessThanWellFounded
<1> HIDE DEF Counts
<1>5. PICK c \in Counts : \A d \in Counts : ~ (<<d, c>> \in R)
  BY <1>3, <1>4, WFMin
<1> USE DEF Counts
<1>6. PICK l \in S : c = Cardinality(After(l))
  BY <1>5
<1>7. \A i \in S : ~ (Cardinality(After(i)) < Cardinality(After(l)))
  <2>1. ASSUME NEW i \in S, Cardinality(After(i)) < Cardinality(After(l))
        PROVE  FALSE
    <3>1. <<Cardinality(After(i)), c>> \in R
      BY <1>2, <1>6, <2>1 DEF OpToRel
    <3> QED
      BY <1>5, <3>1
  <2> QED
    BY <2>1
<1>8. ASSUME NEW k \in S, k # l, ~Before(k, l)
      PROVE  FALSE
  <2>1. Before(l, k) /\ ~Before(k, k)
    BY <1>8, BeforeIsTotal
  <2>2. After(k) \in SUBSET After(l)
    BY <2>1, BeforeIsTotal
  <2>3. k \in After(l) /\ k \notin After(k)
    BY <2>1
  <2>4. Cardinality(After(k)) <= Cardinality(After(l))
        /\ (Cardinality(After(l)) = Cardinality(After(k)) => After(l) = After(k))
    BY <1>2, <2>2, FS_Subset
  <2>5. Cardinality(After(k)) \in Nat /\ Cardinality(After(l)) \in Nat
    BY <1>2
  <2>6. ~ (Cardinality(After(k)) < Cardinality(After(l)))
    BY <1>7
  <2>7. Cardinality(After(k)) = Cardinality(After(l))
    <3> HIDE DEF After
    <3> QED
      BY <2>4, <2>5, <2>6
  <2> QED
    BY <2>3, <2>4, <2>7
<1> QED
  BY <1>8

(***************************************************************************)
(* If the search stops at a leg although some leg of the act vacates its   *)
(* destination, then one that does was emitted before, or it is on the     *)
(* stack and what lies between it and the top is a circle.                 *)
(***************************************************************************)
LEMMA StopsForReason ==
    ASSUME OrderInv, stack # <<>>, NEW j \in Places, WaitsFor(Top, j),
           ~ \E i \in Places : Follows(i)
    PROVE  \/ \E m \in DOMAIN emitted : WaitsFor(Top, emitted[m])
           \/ InCircle(Top)
<1> DEFINE n == Len(stack)
           W == {k \in Places : WaitsFor(Top, k)}
<1>1. /\ stack \in Seq(Places) /\ n \in Nat /\ n >= 1 /\ DOMAIN stack = 1..n
      /\ ops \in Programs
  BY DEF OrderInv, StackIsPath
<1>2. PICK l \in W : \A k \in W : k # l => Before(k, l)
  BY <1>1, LastExists
<1>3. Vacates(l, Top)
  BY <1>2 DEF Vacates, WaitsFor, SameAct
<1>4. Visited(l) \/ BeingVisited(l)
  BY <1>3 DEF Follows
<1>5. IsLeg(l) /\ ops[l].act = ops[Top].act /\ ops[l].target = ops[Top].destination
  BY <1>2 DEF WaitsFor, SameAct
<1>6. CASE Visited(l)
  <2>1. PICK e \in Emitted : IsLeg(e) /\ ops[e].act = ops[l].act /\ ops[e].target = ops[l].target
    BY <1>6 DEF Visited
  <2>2. PICK m \in DOMAIN emitted : emitted[m] = e
    BY <2>1 DEF Emitted
  <2>3. e \in Places
    BY <2>2 DEF OrderInv
  <2> QED
    BY <1>5, <2>1, <2>2, <2>3 DEF WaitsFor, SameAct
<1>7. CASE BeingVisited(l)
  <2>1. PICK p \in 1..n : ops[stack[p]].target = ops[l].target
    BY <1>1, <1>7 DEF BeingVisited, Visiting
  <2> DEFINE S == {stack[k] : k \in p..n}
  <2>2. Top \in S /\ Top = stack[n]
    BY <1>1, <2>1 DEF Top
  <2>3. \A k \in p..n : stack[k] \in Places /\ IsLeg(stack[k])
    BY <1>1, <2>1 DEF OrderInv, StackIsPath
  <2>4. \A k \in p..(n - 1) : WaitsFor(stack[k], stack[k + 1])
    BY <1>1, <2>1 DEF OrderInv, StackIsPath
  <2>5. \A k \in p..n : ops[stack[k]].act = ops[Top].act
    BY <1>1, <2>1 DEF OrderInv, StackIsPath, Top
  <2>6. WaitsFor(Top, stack[p])
    BY <1>5, <2>1, <2>3, <2>5 DEF WaitsFor, SameAct
  <2>7. S \in SUBSET (SameAct(Top) \cap (Emitted \cup Visiting))
    BY <1>1, <2>1, <2>3, <2>5 DEF SameAct, Visiting
  <2>8. ASSUME NEW i \in S
        PROVE  \E k \in S : WaitsFor(i, k)
    <3>1. PICK k \in p..n : i = stack[k]
      BY <2>8
    <3>2. CASE k = n
      <4>1. stack[p] \in S
        BY <1>1, <2>1
      <4> QED
        BY <2>2, <2>6, <3>1, <3>2, <4>1
    <3>3. CASE k # n
      <4>0. k \in Int /\ p \in Int /\ n \in Int /\ p <= k /\ k <= n
        BY <1>1, <2>1, <3>1
      <4>1. k \in p..(n - 1) /\ k + 1 \in p..n
        BY <3>3, <4>0
      <4>2. stack[k + 1] \in S
        BY <4>1
      <4> QED
        BY <2>4, <3>1, <4>1, <4>2
    <3> QED
      BY <3>2, <3>3
  <2> QED
    BY <2>2, <2>7, <2>8 DEF InCircle
<1> QED
  BY <1>4, <1>6, <1>7

OrderedInv == OrderInv /\ VacatedFirst

\* An operation emitted now comes after all that were emitted before it.
LEMMA KeepsVacatedFirst ==
    ASSUME OrderedInv, NEW i \in Places, ops' = ops, emitted' = Append(emitted, i),
           Emitted \cup Visiting \subseteq Emitted' \cup Visiting',
           \A j \in Places :
               IsLeg(i) /\ WaitsFor(i, j) =>
                   \/ \E m \in DOMAIN emitted : WaitsFor(i, emitted[m])
                   \/ InCircle(i)
    PROVE  VacatedFirst'
<1>1. /\ emitted \in Seq(Places) /\ Len(emitted) \in Nat
      /\ DOMAIN emitted = 1..Len(emitted) /\ DOMAIN emitted' = 1..(Len(emitted) + 1)
      /\ \A k \in 1..Len(emitted) : emitted'[k] = emitted[k]
      /\ emitted'[Len(emitted) + 1] = i
  BY DEF OrderedInv, OrderInv
<1>2. \A a, b : WaitsFor(a, b)' <=> WaitsFor(a, b)
  BY DEF WaitsFor, SameAct, IsLeg
<1>3. SUFFICES ASSUME NEW n \in DOMAIN emitted', NEW j \in Places',
                      IsLeg(emitted[n])', WaitsFor(emitted[n], j)'
               PROVE  \/ \E m \in 1..(n - 1) : WaitsFor(emitted[n], emitted[m])'
                      \/ InCircle(emitted[n])'
  BY DEF VacatedFirst
<1>4. CASE n \in 1..Len(emitted)
  <2>1. emitted'[n] = emitted[n] /\ n \in DOMAIN emitted
    BY <1>1, <1>4
  <2>2. IsLeg(emitted[n]) /\ WaitsFor(emitted[n], j) /\ j \in Places
    BY <1>3, <2>1 DEF IsLeg, WaitsFor, SameAct
  <2>3. \/ \E m \in 1..(n - 1) : WaitsFor(emitted[n], emitted[m])
        \/ InCircle(emitted[n])
    BY <2>1, <2>2 DEF OrderedInv, VacatedFirst
  <2>4. \A m \in 1..(n - 1) : emitted'[m] = emitted[m]
    BY <1>1, <1>4
  <2>5. InCircle(emitted[n]) => InCircle(emitted[n])'
    BY <2>1, CirclesStay
  <2>6. ASSUME NEW m \in 1..(n - 1), WaitsFor(emitted[n], emitted[m])
        PROVE  WaitsFor(emitted[n], emitted[m])'
    BY <2>1, <2>4, <2>6 DEF WaitsFor, SameAct, IsLeg
  <2> QED
    BY <2>3, <2>5, <2>6
<1>5. CASE n = Len(emitted) + 1
  <2>1. emitted'[n] = i
    BY <1>1, <1>5
  <2>2. IsLeg(i) /\ WaitsFor(i, j) /\ j \in Places
    BY <1>3, <2>1 DEF IsLeg, WaitsFor, SameAct
  <2>3. CASE InCircle(i)
    BY <2>1, <2>3, CirclesStay
  <2>4. ASSUME NEW m \in DOMAIN emitted, WaitsFor(i, emitted[m])
        PROVE  m \in 1..(n - 1) /\ WaitsFor(emitted[n], emitted[m])'
    BY <1>1, <1>5, <2>1, <2>4 DEF WaitsFor, SameAct, IsLeg
  <2> QED
    BY <2>2, <2>3, <2>4
<1> QED
  BY <1>1, <1>4, <1>5

\* What was emitted or is being visited is emitted or being visited.
LEMMA NothingForgotten ==
    ASSUME OrderInv, [OrderNext]_orderVars
    PROVE  Emitted \cup Visiting \subseteq Emitted' \cup Visiting'
<1>1. CASE EmitRepeal \/ EmitOther
  <2>1. PICK i \in Rest : emitted' = Append(emitted, i)
    BY <1>1 DEF EmitRepeal, EmitOther, Repeals, Group
  <2>2. ops' = ops /\ stack' = stack /\ i \in Places /\ i \notin Emitted
    BY <1>1, <2>1 DEF EmitRepeal, EmitOther, Rest
  <2> QED
    BY <2>1, <2>2, EmittedNext DEF Visiting
<1>2. CASE Visit
  BY <1>2 DEF Visit, Visiting, Emitted
<1>3. CASE Follow
  <2>1. PICK j \in Places : stack' = Append(stack, j) /\ emitted' = emitted
    BY <1>3 DEF Follow
  <2>2. stack \in Seq(Places)
    BY DEF OrderInv, StackIsPath
  <2>3. /\ DOMAIN stack \subseteq DOMAIN stack'
        /\ \A k \in DOMAIN stack : stack'[k] = stack[k]
    BY <2>1, <2>2
  <2> QED
    BY <2>1, <2>3 DEF Visiting, Emitted
<1>4. CASE EmitLeg
  <2>1. /\ stack # <<>> /\ emitted' = Append(emitted, Top) /\ ops' = ops
        /\ stack' = SubSeq(stack, 1, Len(stack) - 1)
    BY <1>4 DEF EmitLeg
  <2>2. Top \in Places /\ Top \notin Emitted
    BY <2>1, PopStack DEF OrderInv, StackIsPath, Top
  <2>3. Emitted' = Emitted \cup {Top}
    BY <2>1, <2>2, EmittedNext
  <2>4. ASSUME NEW k \in DOMAIN stack
        PROVE  stack[k] \in {Top} \cup Visiting'
    <3>1. CASE k = Len(stack)
      BY <3>1 DEF Top
    <3>2. CASE k # Len(stack)
      <4>1. k \in DOMAIN stack' /\ stack'[k] = stack[k]
        BY <2>1, <2>4, <3>2, PopStack
      <4> QED
        BY <4>1 DEF Visiting
    <3> QED
      BY <3>1, <3>2
  <2> QED
    BY <2>3, <2>4 DEF Visiting
<1>5. CASE PassOver \/ UNCHANGED orderVars
  BY <1>5 DEF PassOver, orderVars, Emitted, Visiting
<1> QED
  BY <1>1, <1>2, <1>3, <1>4, <1>5 DEF OrderNext

\* Every step of the ordering keeps the order of the legs.
LEMMA OrderedInvStep ==
    ASSUME OrderedInv, [OrderNext]_orderVars
    PROVE  OrderedInv'
<1>1. OrderInv'
  BY OrderInvStep DEF OrderedInv
<1>2. CASE EmitRepeal
  <2>1. PICK i \in Repeals : emitted' = Append(emitted, i)
    BY <1>2 DEF EmitRepeal
  <2>2. i \in Places /\ ~IsLeg(i) /\ ops' = ops
    BY <1>2, <2>1 DEF EmitRepeal, Repeals, Group, Rest, IsLeg
  <2> QED
    BY <1>1, <2>1, <2>2, NothingForgotten, KeepsVacatedFirst DEF OrderedInv
<1>3. CASE EmitOther
  <2>1. PICK i \in Group : emitted' = Append(emitted, i)
    BY <1>3 DEF EmitOther
  <2>2. i \in Places /\ ~IsLeg(i) /\ ops' = ops
    BY <1>3, <2>1 DEF EmitOther, Legs, Group, Rest
  <2> QED
    BY <1>1, <2>1, <2>2, NothingForgotten, KeepsVacatedFirst DEF OrderedInv
<1>4. CASE EmitLeg
  <2>1. /\ stack # <<>> /\ emitted' = Append(emitted, Top) /\ ops' = ops
        /\ ~ \E j \in Places : Follows(j)
    BY <1>4 DEF EmitLeg
  <2>2. Top \in Places
    BY <2>1, PopStack DEF OrderedInv, OrderInv, StackIsPath, Top
  <2>3. \A j \in Places :
            WaitsFor(Top, j) =>
                \/ \E m \in DOMAIN emitted : WaitsFor(Top, emitted[m])
                \/ InCircle(Top)
    BY <2>1, StopsForReason DEF OrderedInv
  <2> QED
    BY <1>1, <2>1, <2>2, <2>3, NothingForgotten, KeepsVacatedFirst DEF OrderedInv
<1>5. CASE UNCHANGED <<ops, emitted>>
  <2>1. Emitted \cup Visiting \subseteq Emitted' \cup Visiting'
    BY NothingForgotten DEF OrderedInv
  <2> QED
    BY <1>1, <1>5, <2>1, CirclesStay DEF OrderedInv, VacatedFirst, WaitsFor, SameAct, IsLeg
<1> QED
  BY <1>2, <1>3, <1>4, <1>5 DEF OrderNext, orderVars, Visit, PassOver, Follow

-----------------------------------------------------------------------------
(* The legs of an act stay together.                                       *)

\* Of the legs of an act with one target, the search comes to one.
TargetsOnce ==
    \A i, j \in Emitted \cup Visiting :
        /\ IsLeg(i) /\ IsLeg(j)
        /\ ops[i].act = ops[j].act
        /\ ops[i].target = ops[j].target
        => i = j

\* Acts come in their order, and the repeals of an act before its legs.
ActsInTurn ==
    \A i \in Emitted \cup Visiting, r \in Rest :
        /\ ops[i].act <= ops[r].act
        /\ IsLeg(i) /\ ops[i].act = ops[r].act => ops[r].action # "REPEAL"

\* Between two legs of an act nothing else is emitted.
LegsTogether ==
    \A k \in DOMAIN emitted : \A m \in 1..(k - 1) :
        IsLeg(emitted[m]) /\ emitted[k] \notin SameAct(emitted[m]) =>
            \A l \in SameAct(emitted[m]) :
                l \in dropped \/ \E h \in 1..(k - 1) : emitted[h] = l

OrderingInv == OrderedInv /\ TargetsOnce /\ ActsInTurn /\ LegsTogether

\* What the variables of the search hold.
LEMMA PlacesOnly ==
    ASSUME OrderInv
    PROVE  /\ Emitted \subseteq Places /\ Visiting \subseteq Places
           /\ Visiting \subseteq Rest
           /\ \A i \in Visiting : IsLeg(i)
           /\ \A i \in Places : ops[i].act \in Nat
<1>1. Emitted \subseteq Places
  BY DEF OrderInv, Emitted
<1>2. Visiting \subseteq Places /\ Visiting \subseteq Rest /\ \A i \in Visiting : IsLeg(i)
  BY DEF OrderInv, StackIsPath, Visiting, Rest
<1>3. \A i \in Places : ops[i].act \in Nat
  <2>1. \A i \in Places : ops[i].act \in Acts
    BY OpsAreOperations DEF Operation, OrderInv
  <2> QED
    BY <2>1, OrderingAssumption
<1> QED
  BY <1>1, <1>2, <1>3

(***************************************************************************)
(* What a step adds to what was emitted or is being visited: an operation  *)
(* that is left, of the first act with anything left; if it is a leg, no   *)
(* repeal of its act is left and its target was not visited.               *)
(***************************************************************************)
Adds(i) ==
    /\ i \in Rest
    /\ \A r \in Rest : ops[i].act <= ops[r].act
    /\ IsLeg(i) =>
           /\ \A r \in Rest : ops[r].act = ops[i].act => ops[r].action # "REPEAL"
           /\ \/ i \in Visiting
              \/ \A j \in Emitted \cup Visiting :
                     ~(IsLeg(j) /\ ops[j].act = ops[i].act /\ ops[j].target = ops[i].target)

\* Every step of the ordering leaves less, and adds at most one operation.
LEMMA StepAdds ==
    ASSUME OrderingInv, [OrderNext]_orderVars
    PROVE  /\ ops' = ops
           /\ Rest' \subseteq Rest
           /\ dropped \subseteq dropped'
           /\ \/ Emitted' \cup Visiting' \subseteq Emitted \cup Visiting
              \/ \E i : Adds(i) /\ Emitted' \cup Visiting' \subseteq Emitted \cup Visiting \cup {i}
<1> USE DEF OrderingInv, OrderedInv
<1>1. CASE EmitRepeal
  <2>1. PICK i \in Repeals : emitted' = Append(emitted, i)
    BY <1>1 DEF EmitRepeal
  <2>2. UNCHANGED <<ops, dropped, stack>> /\ i \in Group /\ ops[i].action = "REPEAL"
    BY <1>1, <2>1 DEF EmitRepeal, Repeals
  <2>3. i \in Rest /\ \A r \in Rest : ops[i].act <= ops[r].act
    BY <2>2 DEF Group
  <2>4. Emitted' = Emitted \cup {i}
    BY <2>1, <2>2, <2>3, EmittedNext DEF Rest
  <2>5. Adds(i)
    BY <2>2, <2>3 DEF Adds, IsLeg
  <2> QED
    BY <2>2, <2>4, <2>5 DEF Rest, Visiting
<1>2. CASE EmitOther
  <2>1. PICK i \in Group : emitted' = Append(emitted, i)
    BY <1>2 DEF EmitOther
  <2>2. UNCHANGED <<ops, dropped, stack>> /\ ~IsLeg(i)
    BY <1>2, <2>1 DEF EmitOther, Legs
  <2>3. i \in Rest /\ \A r \in Rest : ops[i].act <= ops[r].act
    BY <2>1 DEF Group
  <2>4. Emitted' = Emitted \cup {i}
    BY <2>1, <2>2, <2>3, EmittedNext DEF Rest
  <2>5. Adds(i)
    BY <2>2, <2>3 DEF Adds
  <2> QED
    BY <2>2, <2>4, <2>5 DEF Rest, Visiting
<1>3. CASE Visit
  <2>1. PICK i \in Legs : ~Visited(i) /\ stack' = <<i>>
    BY <1>3 DEF Visit
  <2>2. UNCHANGED <<ops, emitted, dropped>> /\ stack = <<>> /\ Repeals = {}
    BY <1>3 DEF Visit
  <2>3. i \in Rest /\ \A r \in Rest : ops[i].act <= ops[r].act
    BY <2>1 DEF Legs, Group
  <2>4. \A r \in Rest : ops[r].act = ops[i].act => r \in Group
    BY <2>3 DEF Group
  <2>5. Visiting = {} /\ Visiting' = {i} /\ Emitted' = Emitted
    BY <2>1, <2>2 DEF Visiting, Emitted
  <2>6. Adds(i)
    BY <2>1, <2>2, <2>3, <2>4, <2>5 DEF Adds, Repeals, Visited
  <2> QED
    BY <2>2, <2>5, <2>6 DEF Rest
<1>4. CASE Follow
  <2>1. PICK j \in Places : Follows(j) /\ stack' = Append(stack, j)
    BY <1>4 DEF Follow
  <2>2. UNCHANGED <<ops, emitted, dropped>> /\ stack # <<>>
    BY <1>4 DEF Follow
  <2>3. stack \in Seq(Places)
    BY DEF OrderInv, StackIsPath
  <2>4. Top \in Visiting /\ Visiting' \subseteq Visiting \cup {j}
    <3>1. /\ Len(stack) \in DOMAIN stack
          /\ DOMAIN stack' = 1..(Len(stack) + 1) /\ DOMAIN stack = 1..Len(stack)
          /\ \A k \in DOMAIN stack : stack'[k] = stack[k]
          /\ stack'[Len(stack) + 1] = j
      BY <2>1, <2>2, <2>3
    <3>2. Top \in Visiting
      BY <3>1 DEF Visiting, Top
    <3>3. ASSUME NEW k \in DOMAIN stack'
          PROVE  stack'[k] \in Visiting \cup {j}
      <4>1. k \in DOMAIN stack \/ k = Len(stack) + 1
        BY <3>1, <3>3
      <4> QED
        BY <3>1, <4>1 DEF Visiting
    <3> QED
      BY <3>2, <3>3 DEF Visiting
  <2>5. IsLeg(j) /\ ops[j].act = ops[Top].act /\ ~Visited(j) /\ ~BeingVisited(j)
    BY <2>1 DEF Follows, Vacates, SameAct
  <2>6. j \in Rest
    BY <2>1, <2>5 DEF OrderInv, DroppedAreVisited, Visited, Rest
  <2>7. Adds(j)
    BY <2>4, <2>5, <2>6, PlacesOnly DEF Adds, ActsInTurn, Visited, BeingVisited
  <2>8. Emitted' = Emitted
    BY <2>2 DEF Emitted
  <2> QED
    BY <2>2, <2>4, <2>7, <2>8 DEF Rest
<1>5. CASE EmitLeg
  <2>1. /\ stack # <<>> /\ emitted' = Append(emitted, Top) /\ UNCHANGED <<ops, dropped>>
        /\ stack' = SubSeq(stack, 1, Len(stack) - 1)
    BY <1>5 DEF EmitLeg
  <2>2. Top \in Visiting /\ Visiting' \subseteq Visiting
    <3>1. /\ Len(stack) \in DOMAIN stack
          /\ DOMAIN stack' \subseteq DOMAIN stack
          /\ \A k \in DOMAIN stack' : stack'[k] = stack[k]
      BY <2>1, PopStack
    <3> QED
      BY <3>1 DEF Visiting, Top
  <2>3. Top \in Places /\ Top \notin Emitted
    BY <2>2, PlacesOnly DEF Rest
  <2>4. Emitted' = Emitted \cup {Top}
    BY <2>1, <2>3, EmittedNext
  <2> QED
    BY <2>1, <2>2, <2>4 DEF Rest
<1>6. CASE PassOver
  <2>1. UNCHANGED <<ops, emitted, stack>> /\ dropped \subseteq dropped'
    BY <1>6 DEF PassOver
  <2> QED
    BY <2>1 DEF Rest, Emitted, Visiting
<1>7. CASE UNCHANGED orderVars
  BY <1>7 DEF orderVars, Rest, Emitted, Visiting
<1> QED
  BY <1>1, <1>2, <1>3, <1>4, <1>5, <1>6, <1>7 DEF OrderNext

\* The search never comes to two legs of an act with one target.
LEMMA KeepsTargetsOnce ==
    ASSUME OrderingInv, [OrderNext]_orderVars
    PROVE  TargetsOnce'
<1>1. TargetsOnce
  BY DEF OrderingInv
<1>2. /\ ops' = ops
      /\ \/ Emitted' \cup Visiting' \subseteq Emitted \cup Visiting
         \/ \E i : Adds(i) /\ Emitted' \cup Visiting' \subseteq Emitted \cup Visiting \cup {i}
  BY StepAdds
<1>3. CASE Emitted' \cup Visiting' \subseteq Emitted \cup Visiting
  BY <1>1, <1>2, <1>3 DEF TargetsOnce, IsLeg
<1>4. ASSUME NEW i, Adds(i), Emitted' \cup Visiting' \subseteq Emitted \cup Visiting \cup {i}
      PROVE  TargetsOnce'
  BY <1>1, <1>2, <1>4 DEF TargetsOnce, Adds, IsLeg
<1> QED
  BY <1>2, <1>3, <1>4

\* The acts keep their order.
LEMMA KeepsActsInTurn ==
    ASSUME OrderingInv, [OrderNext]_orderVars
    PROVE  ActsInTurn'
<1>1. ActsInTurn
  BY DEF OrderingInv
<1>2. /\ ops' = ops /\ Rest' \subseteq Rest
      /\ \/ Emitted' \cup Visiting' \subseteq Emitted \cup Visiting
         \/ \E i : Adds(i) /\ Emitted' \cup Visiting' \subseteq Emitted \cup Visiting \cup {i}
  BY StepAdds
<1>3. CASE Emitted' \cup Visiting' \subseteq Emitted \cup Visiting
  BY <1>1, <1>2, <1>3 DEF ActsInTurn, IsLeg
<1>4. ASSUME NEW i, Adds(i), Emitted' \cup Visiting' \subseteq Emitted \cup Visiting \cup {i}
      PROVE  ActsInTurn'
  BY <1>1, <1>2, <1>4 DEF ActsInTurn, Adds, IsLeg
<1> QED
  BY <1>2, <1>3, <1>4

\* What is emitted next is of the first act with anything left.
LEMMA FirstActNext ==
    ASSUME OrderingInv, NEW x \in Places, Adds(x) \/ x \in Visiting,
           IsLeg(x) \/ Legs = {} \/ ops[x].action = "REPEAL",
           NEW e \in Emitted, IsLeg(e), x \notin SameAct(e), NEW l \in SameAct(e)
    PROVE  l \in dropped \/ l \in Emitted
<1> USE DEF OrderingInv, OrderedInv
<1>1. SUFFICES ASSUME l \in Rest
               PROVE  FALSE
  BY DEF Rest, SameAct
<1>2. x \in Rest /\ \A r \in Rest : ops[x].act <= ops[r].act
  BY PlacesOnly DEF Adds, ActsInTurn
<1>3. ops[e].act <= ops[x].act /\ ops[x].act <= ops[l].act /\ ops[l].act = ops[e].act
  BY <1>1, <1>2 DEF ActsInTurn, SameAct
<1>4. ops[x].act = ops[e].act
  BY <1>3, PlacesOnly
<1>5. ~IsLeg(x)
  BY <1>4 DEF SameAct
<1>6. ops[x].action # "REPEAL"
  BY <1>2, <1>4 DEF ActsInTurn
<1>7. l \in Legs
  <2>1. \A r \in Rest : ops[l].act <= ops[r].act
    BY <1>2, <1>3, <1>4
  <2> QED
    BY <1>1, <2>1 DEF Legs, Group, SameAct
<1> QED
  BY <1>5, <1>6, <1>7

\* Appending an operation whose turn it is leaves the legs together.
LEMMA AppendTogether ==
    ASSUME OrderingInv, NEW x \in Places, emitted' = Append(emitted, x), ops' = ops,
           dropped \subseteq dropped', Adds(x) \/ x \in Visiting,
           IsLeg(x) \/ Legs = {} \/ ops[x].action = "REPEAL"
    PROVE  LegsTogether'
<1> DEFINE n == Len(emitted)
<1>1. /\ emitted \in Seq(Places) /\ n \in Nat
      /\ DOMAIN emitted = 1..n /\ DOMAIN emitted' = 1..(n + 1)
      /\ \A k \in 1..n : emitted'[k] = emitted[k]
      /\ emitted'[n + 1] = x
  BY DEF OrderingInv, OrderedInv, OrderInv
<1>2. \A a, b : (b \in SameAct(a) <=> b \in SameAct(a)') /\ (IsLeg(a) <=> IsLeg(a)')
  BY DEF SameAct, IsLeg
<1>3. SUFFICES ASSUME NEW k \in 1..(n + 1), NEW m \in 1..(k - 1),
                      IsLeg(emitted'[m]), emitted'[k] \notin SameAct(emitted'[m]),
                      NEW l \in SameAct(emitted'[m])
               PROVE  l \in dropped \/ \E h \in 1..(k - 1) : emitted'[h] = l
  BY <1>1, <1>2 DEF LegsTogether, SameAct, IsLeg
<1>4. m \in 1..n /\ emitted'[m] = emitted[m]
  <2>1. m \in Int /\ k \in Int /\ n \in Int /\ 1 <= m /\ m <= k - 1 /\ k <= n + 1
    BY <1>1, <1>3
  <2>2. m \in 1..n
    BY <2>1
  <2> QED
    BY <1>1, <2>2
<1>5. CASE k = n + 1
  <2>1. emitted[m] \in Emitted
    BY <1>1, <1>4 DEF Emitted
  <2>2. l \in dropped \/ l \in Emitted
    BY <1>1, <1>3, <1>4, <1>5, <2>1, FirstActNext
  <2>3. ASSUME l \in Emitted
        PROVE  \E h \in 1..(k - 1) : emitted'[h] = l
    <3>1. PICK h \in 1..n : emitted[h] = l
      BY <1>1, <2>3 DEF Emitted
    <3>2. h \in 1..(k - 1) /\ emitted'[h] = l
      BY <1>1, <1>5, <3>1
    <3> QED
      BY <3>2
  <2> QED
    BY <2>2, <2>3
<1>6. CASE k # n + 1
  <2>1. k \in 1..n
    <3>1. k \in Int /\ n \in Int /\ 1 <= k /\ k <= n + 1
      BY <1>1, <1>3
    <3> QED
      BY <1>6, <3>1
  <2>2. emitted'[k] = emitted[k] /\ \A h \in 1..(k - 1) : emitted'[h] = emitted[h]
    <3>1. \A h \in 1..(k - 1) : h \in 1..n
      BY <2>1
    <3> QED
      BY <1>1, <2>1, <3>1
  <2>3. l \in dropped \/ \E h \in 1..(k - 1) : emitted[h] = l
    BY <1>1, <1>3, <1>4, <2>1, <2>2 DEF OrderingInv, LegsTogether
  <2> QED
    BY <2>2, <2>3
<1> QED
  BY <1>5, <1>6

\* The legs of an act stay together.
LEMMA KeepsLegsTogether ==
    ASSUME OrderingInv, [OrderNext]_orderVars
    PROVE  LegsTogether'
<1>1. CASE EmitRepeal
  <2>1. PICK i \in Repeals : emitted' = Append(emitted, i)
    BY <1>1 DEF EmitRepeal
  <2>2. ops' = ops /\ dropped' = dropped /\ i \in Group /\ ops[i].action = "REPEAL"
    BY <1>1, <2>1 DEF EmitRepeal, Repeals
  <2>3. i \in Places /\ Adds(i)
    BY <2>2 DEF Group, Adds, IsLeg, Rest
  <2> QED
    BY <2>1, <2>2, <2>3, AppendTogether
<1>2. CASE EmitOther
  <2>1. PICK i \in Group : emitted' = Append(emitted, i)
    BY <1>2 DEF EmitOther
  <2>2. ops' = ops /\ dropped' = dropped /\ Legs = {} /\ ~IsLeg(i)
    BY <1>2, <2>1 DEF EmitOther, Legs
  <2>3. i \in Places /\ Adds(i)
    BY <2>1, <2>2 DEF Group, Adds, Rest
  <2> QED
    BY <2>1, <2>2, <2>3, AppendTogether
<1>3. CASE EmitLeg
  <2>1. /\ stack # <<>> /\ emitted' = Append(emitted, Top) /\ ops' = ops /\ dropped' = dropped
    BY <1>3 DEF EmitLeg
  <2>2. Len(stack) \in DOMAIN stack
    BY <2>1, PopStack DEF OrderingInv, OrderedInv
  <2>3. Top \in Visiting
    BY <2>2 DEF Top, Visiting
  <2>4. Top \in Places /\ IsLeg(Top)
    BY <2>3, PlacesOnly DEF OrderingInv, OrderedInv
  <2> QED
    BY <2>1, <2>3, <2>4, AppendTogether
<1>4. CASE UNCHANGED <<ops, emitted>> /\ dropped \subseteq dropped'
  BY <1>4 DEF OrderingInv, LegsTogether, SameAct, IsLeg
<1>5. ops' = ops /\ dropped \subseteq dropped'
  BY StepAdds
<1> QED
  BY <1>1, <1>2, <1>3, <1>4, <1>5 DEF OrderNext, orderVars, Visit, PassOver, Follow

\* The invariant of the ordering holds in the beginning and is kept.
LEMMA OrderingInvInit == OrderInit => OrderingInv
<1>1. OrderInit => OrderedInv
  BY OrderInvInit DEF OrderInit, OrderedInv, VacatedFirst
<1>2. OrderInit => Emitted = {} /\ Visiting = {} /\ DOMAIN emitted = {}
  BY DEF OrderInit, Emitted, Visiting
<1> QED
  BY <1>1, <1>2 DEF OrderingInv, TargetsOnce, ActsInTurn, LegsTogether

\* One step of it.
LEMMA OrderingInvStep ==
    ASSUME OrderingInv, [OrderNext]_orderVars
    PROVE  OrderingInv'
<1>1. OrderedInv'
  BY OrderedInvStep DEF OrderingInv
<1> QED
  BY <1>1, KeepsTargetsOnce, KeepsActsInTurn, KeepsLegsTogether DEF OrderingInv

(***************************************************************************)
(* In every ordering of every list of operations a leg comes after the one *)
(* that vacates its destination, circles apart.                            *)
(***************************************************************************)
THEOREM LegsAreOrdered == OrderSpec => []VacatedFirst
<1>1. OrderInit => OrderedInv
  BY OrderInvInit DEF OrderInit, OrderedInv, VacatedFirst
<1>2. OrderedInv /\ [OrderNext]_orderVars => OrderedInv'
  BY OrderedInvStep
<1>3. OrderedInv => VacatedFirst
  BY DEF OrderedInv
<1> QED
  BY <1>1, <1>2, <1>3, PTL DEF OrderSpec

=============================================================================
