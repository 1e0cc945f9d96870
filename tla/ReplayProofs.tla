----------------------------- MODULE ReplayProofs -----------------------------
(***************************************************************************)
(* The replay of ordered operations, for every list of operations and      *)
(* every law: types, the order of the legs, that no leg doubles a label    *)
(* and no text is lost, that the verdict on an act is exact, and that the  *)
(* legs of an act are one relabelling.                                     *)
(***************************************************************************)
EXTENDS OrderingProofs

USE DEF Places

-----------------------------------------------------------------------------
(* Types.                                                                  *)

\* Where everything is ordered, the ordering does not go on.
LEMMA OrderingIsOver ==
    ASSUME Ordered, [OrderNext]_orderVars
    PROVE  UNCHANGED orderVars
<1>1. Group = {} /\ stack = <<>>
  BY DEF Ordered, Group
<1> QED
  BY <1>1 DEF OrderNext, EmitRepeal, Visit, PassOver, Follow, EmitLeg, EmitOther, Repeals, Legs

\* A law without a provision, with another, and after a move is a law.
LEMMA LawsStayLaws ==
    ASSUME NEW t \in Law
    PROVE  /\ \A a : Without(t, a) \in Law
           /\ \A a \in Addresses, text \in Texts \cup {NoText} : With(t, a, text) \in Law
           /\ \A from \in Addresses, to \in Addresses : Moved(t, from, to) \in Law
<1>1. \A a : Without(t, a) \in Law
  BY DEF Without, Law
<1>2. ASSUME NEW a \in Addresses, NEW text \in Texts \cup {NoText}
      PROVE  With(t, a, text) \in Law
  <2>1. Without(t, a) \in [Addresses -> Texts \cup {NoText}]
    BY <1>1 DEF Law
  <2> QED
    BY <1>2, <2>1 DEF With, Law
<1>3. ASSUME NEW from \in Addresses, NEW to \in Addresses
      PROVE  Moved(t, from, to) \in Law
  <2> DEFINE there == Without(t, from)
             text(b) == IF b = to THEN t[from]
                        ELSE IF b \in Under(to) /\ ~IsLedd(from) THEN t[<<from[1], b[2]>>]
                        ELSE there[b]
  <2>1. there \in [Addresses -> Texts \cup {NoText}]
    BY <1>1 DEF Law
  <2>2. ASSUME NEW b \in Addresses
        PROVE  text(b) \in Texts \cup {NoText}
    <3>1. t[from] \in Texts \cup {NoText}
      BY <1>3 DEF Law
    <3>2. b \in Under(to) /\ ~IsLedd(from) => <<from[1], b[2]>> \in Addresses
      BY <1>3, <2>2, ReplayAssumption DEF Under
    <3>3. b \in Under(to) /\ ~IsLedd(from) => t[<<from[1], b[2]>>] \in Texts \cup {NoText}
      BY <3>2 DEF Law
    <3>4. there[b] \in Texts \cup {NoText}
      BY <2>1, <2>2
    <3> QED
      BY <3>1, <3>3, <3>4
  <2>3. Moved(t, from, to) = [b \in Addresses |-> text(b)]
    BY DEF Moved
  <2> HIDE DEF text
  <2> QED
    BY <2>2, <2>3 DEF Law
<1> QED
  BY <1>1, <1>2, <1>3

\* The addresses of an operation.
LEMMA OpAddresses ==
    ASSUME ops \in Programs, NEW i \in Places
    PROVE  /\ ops[i].target \in Addresses
           /\ ops[i].payload \in Texts \cup {NoText}
           /\ IsLeg(i) => /\ ops[i].destination \in Addresses
                          /\ IsLedd(ops[i].target) <=> IsLedd(ops[i].destination)
<1>1. ops[i] \in Operation
  BY OpsAreOperations
<1>2. IsLeg(i) => ops[i].destination # NoWhere
  BY OrderingAssumption DEF IsLeg
<1>3. IsLeg(i) => (IsLedd(ops[i].target) <=> IsLedd(ops[i].destination))
  BY ReplayAssumption DEF IsLeg
<1> QED
  BY <1>1, <1>2, <1>3 DEF Operation

\* Where a provision is put is an address: its own, or one under the root.
LEMMA PlacesAreAddresses ==
    ASSUME NEW t, NEW a \in Addresses
    PROVE  /\ PlaceOf(t, a) \in Addresses
           /\ PlaceOf(t, a) # a => IsLedd(a) /\ IsLedd(PlaceOf(t, a))
<1>1. IsLedd(a) => <<0, a[2]>> \in Addresses
  BY ReplayAssumption
<1> QED
  BY <1>1 DEF PlaceOf, IsLedd

ReplayTypes ==
    /\ law \in Law
    /\ done \in 0..Len(emitted)
    /\ answers \in [Places -> Answers \cup {NoAnswer}]
    /\ aborted \in BOOLEAN
    /\ base \in Law
    /\ done > 0 \/ aborted => Ordered

\* The operation whose turn it is.
LEMMA TurnIsEmitted ==
    ASSUME OrderingInv, ReplayTypes, Apply
    PROVE  /\ Turn \in Places /\ Turn \in Emitted /\ ops \in Programs
           /\ Len(emitted) \in Nat /\ done \in Nat /\ done + 1 \in 1..Len(emitted)
           /\ DOMAIN emitted = 1..Len(emitted)
<1>1. emitted \in Seq(Places) /\ ops \in Programs
  BY DEF OrderingInv, OrderedInv, OrderInv
<1>2. /\ Len(emitted) \in Nat /\ DOMAIN emitted = 1..Len(emitted)
      /\ done \in Nat /\ done < Len(emitted)
  <2> HIDE DEF Places
  <2> QED
    BY <1>1 DEF ReplayTypes, Apply
<1>3. done + 1 \in 1..Len(emitted)
  BY <1>2
<1> QED
  BY <1>1, <1>2, <1>3 DEF Turn, Emitted

\* The law an operation leaves.
LEMMA ApplyLeavesLaw ==
    ASSUME OrderingInv, ReplayTypes, Apply
    PROVE  law' \in Law
<1> DEFINE i == Turn
<1>1. /\ i \in Places /\ ops \in Programs
      /\ ops[i].target \in Addresses /\ ops[i].payload \in Texts \cup {NoText}
      /\ IsLeg(i) => ops[i].destination \in Addresses
  BY TurnIsEmitted, OpAddresses
<1>2. law \in Law
  BY DEF ReplayTypes
<1>3. CASE Repeal(i)
  BY <1>1, <1>2, <1>3, LawsStayLaws DEF Repeal, Refuse
<1>4. CASE Insert(i)
  BY <1>1, <1>2, <1>4, LawsStayLaws DEF Insert, InsertOver, InsertNew, Refuse
<1>5. CASE Renumber(i)
  <2>1. IsLeg(i)
    BY <1>5 DEF Renumber
  <2>2. ASSUME NEW t \in Law, NEW how, Land(i, t, how)
        PROVE  law' \in Law
    <3> DEFINE place == PlaceOf(Without(t, ops[i].target), ops[i].destination)
    <3>1. place \in Addresses
      BY <1>1, <2>1, PlacesAreAddresses
    <3>2. Moved(t, ops[i].target, place) \in Law
      BY <1>1, <2>2, <3>1, LawsStayLaws
    <3>3. law' = law \/ law' = Moved(t, ops[i].target, place)
      BY <2>2 DEF Land
    <3> QED
      BY <1>2, <3>2, <3>3
  <2>3. Without(law, ops[i].destination) \in Law
    BY <1>2, LawsStayLaws
  <2>4. \/ law' = law
        \/ \E how : Land(i, law, how)
        \/ \E how : Land(i, Without(law, ops[i].destination), how)
    BY <1>5 DEF Renumber, Refuse
  <2> QED
    BY <1>2, <2>2, <2>3, <2>4
<1> QED
  BY <1>3, <1>4, <1>5 DEF Apply

\* How an operation is answered, or that the replay is aborted.
LEMMA ApplyAnswers ==
    ASSUME Apply
    PROVE  \/ \E how \in Answers : Answer(Turn, how)
           \/ /\ IsLeg(Turn) /\ ~Unprovable(Turn)
              /\ aborted' = TRUE /\ UNCHANGED <<orderVars, law, done, answers, base>>
<1> DEFINE i == Turn
<1>1. CASE Repeal(i)
  BY <1>1 DEF Repeal, Refuse, Answers
<1>2. CASE Insert(i)
  BY <1>2 DEF Insert, InsertOver, InsertNew, Refuse, Answers
<1>3. CASE Renumber(i)
  <2>1. \/ \E how \in {"unprovable", "unresolved", "occupied"} : Refuse(i, how)
        \/ /\ IsLeg(i) /\ ~Unprovable(i)
           /\ \E t, how : how \in {"landed", "cleared"} /\ Land(i, t, how)
    BY <1>3 DEF Renumber
  <2>2. ASSUME NEW t, NEW how \in {"landed", "cleared"}, Land(i, t, how)
        PROVE  \/ Answer(i, how)
               \/ aborted' = TRUE /\ UNCHANGED <<orderVars, law, done, answers, base>>
    BY <2>2 DEF Land
  <2> QED
    BY <2>1, <2>2 DEF Refuse, Answers
<1> QED
  BY <1>1, <1>2, <1>3 DEF Apply

\* Everything has its type after a step.
LEMMA ReplayTypesStep ==
    ASSUME OrderingInv, ReplayTypes, [Next]_vars
    PROVE  ReplayTypes'
<1>1. CASE Order
  <2>1. UNCHANGED replayVars /\ OrderNext
    BY <1>1 DEF Order
  <2>2. done > 0 \/ aborted => UNCHANGED orderVars
    BY <2>1, OrderingIsOver DEF ReplayTypes
  <2>3. ops' = ops
    BY <2>1, StepAdds
  <2>4. Len(emitted) \in Nat /\ Len(emitted)' \in Nat
    <3>1. emitted \in Seq(Places) /\ emitted' \in Seq(Places')
      BY <2>1, OrderingInvStep DEF OrderingInv, OrderedInv, OrderInv
    <3> HIDE DEF Places
    <3> QED
      BY <3>1
  <2>5. done' \in 0..Len(emitted')
    <3>1. CASE done > 0
      BY <2>1, <2>2, <3>1 DEF ReplayTypes, replayVars, orderVars
    <3>2. CASE done = 0
      BY <2>1, <2>4, <3>2 DEF replayVars
    <3>3. done > 0 \/ done = 0
      BY <2>4 DEF ReplayTypes
    <3> QED
      BY <3>1, <3>2, <3>3
  <2>6. (done > 0 \/ aborted => Ordered)'
    BY <2>1, <2>2 DEF ReplayTypes, replayVars, orderVars, Ordered, Rest, Emitted
  <2> QED
    BY <2>1, <2>3, <2>5, <2>6 DEF ReplayTypes, replayVars
<1>2. CASE Apply
  <2>1. law' \in Law
    BY <1>2, ApplyLeavesLaw
  <2>2. UNCHANGED orderVars
    BY <1>2, ApplyAnswers DEF Answer
  <2>3. Ordered'
    BY <1>2, <2>2 DEF Apply, Ordered, Rest, Emitted, orderVars
  <2>4. CASE \E how \in Answers : Answer(Turn, how)
    <3>1. PICK how \in Answers : Answer(Turn, how)
      BY <2>4
    <3>2. done' \in 0..Len(emitted')
      <4>1. done' = done + 1 /\ Len(emitted') = Len(emitted)
        BY <3>1, <2>2 DEF Answer, orderVars
      <4> QED
        BY <4>1, <1>2, TurnIsEmitted
    <3>3. answers' \in [Places' -> Answers \cup {NoAnswer}]
      BY <3>1, <2>2 DEF Answer, ReplayTypes, orderVars
    <3>4. base' \in Law /\ aborted' \in BOOLEAN
      BY <3>1 DEF Answer, ReplayTypes
    <3> QED
      BY <2>1, <2>3, <3>2, <3>3, <3>4 DEF ReplayTypes
  <2>5. CASE aborted' = TRUE /\ UNCHANGED <<orderVars, law, done, answers, base>>
    BY <2>1, <2>3, <2>5 DEF ReplayTypes, orderVars
  <2> QED
    BY <1>2, <2>4, <2>5, ApplyAnswers
<1>3. CASE UNCHANGED vars
  BY <1>3 DEF vars, orderVars, replayVars, ReplayTypes, Ordered, Rest, Emitted
<1> QED
  BY <1>1, <1>2, <1>3 DEF Next

-----------------------------------------------------------------------------
(* What the verdict tells.                                                 *)

\* A leg that was emitted is one of the legs its act is judged by.
LEMMA LegIsJudged ==
    ASSUME NEW i \in Emitted, IsLeg(i)
    PROVE  LET pairs == Pairs(ops[i].act)
           IN  /\ i \in EmittedLegs(ops[i].act)
               /\ <<ops[i].target, ops[i].destination>> \in pairs
               /\ ops[i].target \in Component(pairs, ops[i].target)
               /\ ops[i].destination \in Component(pairs, ops[i].target)
<1> DEFINE pairs == Pairs(ops[i].act)
           pair == <<ops[i].target, ops[i].destination>>
<1>1. i \in EmittedLegs(ops[i].act)
  BY DEF EmittedLegs
<1>2. pair \in pairs
  BY <1>1 DEF Pairs
<1>3. pair[1] = ops[i].target /\ pair[2] = ops[i].destination
  OBVIOUS
<1> HIDE DEF pairs, pair
<1>4. pair[1] \in Ends(pairs) /\ pair[2] \in Ends(pairs)
  BY <1>2 DEF Ends
<1>5. pair[1] \in Component(pairs, pair[1]) /\ pair[2] \in Component(pairs, pair[1])
  BY <1>2, <1>4 DEF Component
<1> QED
  BY <1>1, <1>2, <1>3, <1>5 DEF pairs, pair

\* A leg that waits for another is refused if that one is.
LEMMA WaitingIsRefusedToo ==
    ASSUME NEW i \in Emitted, NEW e \in Emitted, IsLeg(i), WaitsFor(i, e), Unprovable(e)
    PROVE  Unprovable(i)
<1> DEFINE pairs == Pairs(ops[i].act)
<1>1. ops[e].act = ops[i].act /\ ops[e].target = ops[i].destination
  BY DEF WaitsFor, SameAct
<1>2. <<ops[i].target, ops[i].destination>> \in pairs
  BY LegIsJudged
<1>3. Component(pairs, ops[e].target) \cap Conflicts(pairs) # {}
  BY <1>1 DEF Unprovable
<1>4. Component(pairs, ops[i].destination) \subseteq Component(pairs, ops[i].target)
  <2> DEFINE a == ops[i].target
             d == ops[i].destination
  <2>1. <<a, d>> \in pairs /\ <<a, d>>[1] = a /\ <<a, d>>[2] = d
    BY <1>2
  <2> HIDE DEF pairs, a, d
  <2>2. \A S \in SUBSET Ends(pairs) :
            (\A p \in pairs : p[1] \in S <=> p[2] \in S) => (a \in S <=> d \in S)
    BY <2>1
  <2>3. Component(pairs, d) \subseteq Component(pairs, a)
    BY <2>2 DEF Component
  <2> QED
    BY <2>3 DEF a, d
<1> QED
  BY <1>1, <1>3, <1>4 DEF Unprovable

\* Of two legs with one destination none is applied.
LEMMA ContestedIsRefused ==
    ASSUME NEW i \in Emitted, NEW f \in Emitted, IsLeg(i), f \in SameAct(i),
           ops[f].destination = ops[i].destination, ops[f].target # ops[i].target
    PROVE  Unprovable(i)
<1> DEFINE pairs == Pairs(ops[i].act)
           p == <<ops[i].target, ops[i].destination>>
           q == <<ops[f].target, ops[f].destination>>
<1>1. IsLeg(f) /\ ops[f].act = ops[i].act
  BY DEF SameAct
<1>2. p \in pairs /\ ops[i].destination \in Component(pairs, ops[i].target)
  BY LegIsJudged
<1>3. q \in Pairs(ops[f].act)
  BY <1>1, LegIsJudged
<1>4. q \in pairs
  BY <1>1, <1>3
<1>5. p # q /\ p[2] = ops[i].destination /\ q[2] = ops[i].destination
  OBVIOUS
<1> HIDE DEF pairs, p, q
<1>6. ops[i].destination \in Ends(pairs)
  BY <1>2, <1>5 DEF Ends
<1>7. ops[i].destination \in ContestedDestination(pairs)
  BY <1>2, <1>4, <1>5, <1>6 DEF ContestedDestination
<1> QED
  BY <1>2, <1>7 DEF Unprovable, Conflicts, pairs

\* Of legs that wait for each other in a circle none is applied.
LEMMA CircleIsRefused ==
    ASSUME NEW i \in Emitted, IsLeg(i), InCircle(i), Visiting = {}
    PROVE  Unprovable(i)
<1> DEFINE pairs == Pairs(ops[i].act)
<1>1. PICK S \in SUBSET (SameAct(i) \cap Emitted) :
          i \in S /\ \A j \in S : \E k \in S : WaitsFor(j, k)
  BY DEF InCircle
<1> DEFINE T == {ops[j].target : j \in S}
<1>2. \A j \in S : <<ops[j].target, ops[j].destination>> \in pairs
  <2>1. ASSUME NEW j \in S
        PROVE  <<ops[j].target, ops[j].destination>> \in pairs
    <3>1. j \in Emitted /\ IsLeg(j) /\ ops[j].act = ops[i].act
      BY <1>1 DEF SameAct
    <3>2. <<ops[j].target, ops[j].destination>> \in Pairs(ops[j].act)
      BY <3>1, LegIsJudged
    <3> QED
      BY <3>1, <3>2
  <2> QED
    BY <2>1
<1>3. T \in SUBSET {p[1] : p \in pairs}
  <2>1. ASSUME NEW j \in S
        PROVE  ops[j].target \in {p[1] : p \in pairs}
    <3>1. <<ops[j].target, ops[j].destination>>[1] = ops[j].target
      OBVIOUS
    <3> HIDE DEF pairs
    <3> QED
      BY <1>2, <3>1
  <2> QED
    BY <2>1
<1>4. ASSUME NEW a \in T
      PROVE  \E p \in pairs : p[1] = a /\ p[2] \in T
  <2>1. PICK j \in S : a = ops[j].target
    BY <1>4
  <2>2. PICK k \in S : WaitsFor(j, k)
    BY <1>1
  <2>3. ops[j].destination \in T
    BY <2>2 DEF WaitsFor
  <2>4. /\ <<ops[j].target, ops[j].destination>>[1] = a
        /\ <<ops[j].target, ops[j].destination>>[2] = ops[j].destination
    BY <2>1
  <2> HIDE DEF pairs, T
  <2> QED
    BY <1>2, <2>3, <2>4
<1>5. ops[i].target \in T
  BY <1>1
<1>6. ops[i].target \in Circular(pairs)
  <2> HIDE DEF pairs, T
  <2> QED
    BY <1>3, <1>4, <1>5 DEF Circular
<1>7. ops[i].target \in Component(pairs, ops[i].target)
  BY LegIsJudged
<1> HIDE DEF pairs
<1> QED
  BY <1>6, <1>7 DEF Unprovable, Conflicts, pairs

\* A leg that goes nowhere waits for itself.
LEMMA StayingIsRefused ==
    ASSUME NEW i \in Emitted, i \in Places, IsLeg(i), ~Elsewhere(i), Visiting = {}
    PROVE  Unprovable(i)
<1>1. WaitsFor(i, i) /\ i \in SameAct(i)
  BY DEF Elsewhere, WaitsFor, SameAct
<1>2. {i} \in SUBSET (SameAct(i) \cap (Emitted \cup Visiting))
  BY <1>1
<1>3. InCircle(i)
  BY <1>1, <1>2 DEF InCircle
<1> QED
  BY <1>3, CircleIsRefused

-----------------------------------------------------------------------------
(* What has left stays away until something is sent there.                 *)

(***************************************************************************)
(* If a section stands where a leg has taken one away, a later operation   *)
(* has put it there: a leg of the act with that destination, or one that   *)
(* is not a leg of the act.                                                *)
(***************************************************************************)
Vacancy ==
    \A m \in 1..done :
        /\ IsLeg(emitted[m])
        /\ ~IsLedd(ops[emitted[m]].target)
        /\ ~Unprovable(emitted[m])
        /\ Stands(law, ops[emitted[m]].target)
        => \E k \in (m + 1)..done :
               emitted[k] \in SameAct(emitted[m]) =>
                   ops[emitted[k]].destination = ops[emitted[m]].target

ReplayInv == OrderingInv /\ ReplayTypes /\ Vacancy /\ LabelsStayUnique

\* With nothing on the stack nothing is being visited.
LEMMA NothingIsVisited ==
    ASSUME stack = <<>>
    PROVE  Visiting = {}
BY DEF Visiting

(***************************************************************************)
(* A section leg that lands has left its place, and has put a section      *)
(* nowhere but at its destination.                                         *)
(***************************************************************************)
LEMMA LandingSection ==
    ASSUME OrderingInv, ReplayTypes, Apply, Renumber(Turn), law' # law,
           NEW a \in Addresses, ~IsLedd(a), a # ops[Turn].destination,
           law'[a] # NoText
    PROVE  law[a] # NoText /\ a # ops[Turn].target
<1> DEFINE i == Turn
           from == ops[i].target
<1>1. i \in Places /\ ops \in Programs /\ IsLeg(i)
  BY TurnIsEmitted DEF Renumber
<1>2. ops[i].destination \in Addresses
  BY <1>1, OpAddresses
<1>3. ASSUME NEW t, NEW how, Land(i, t, how)
      PROVE  t[a] # NoText /\ a # from
  <2> DEFINE place == PlaceOf(Without(t, from), ops[i].destination)
  <2>1. law' = Moved(t, from, place)
    BY <1>3 DEF Land
  <2>2. a # place
    BY <1>2, PlacesAreAddresses
  <2>3. a \notin Under(place) /\ a \notin Under(from)
    BY DEF Under
  <2>4. law'[a] = Without(t, from)[a]
    BY <2>1, <2>2, <2>3 DEF Moved
  <2> QED
    BY <2>3, <2>4 DEF Without
<1>4. PICK t, how : Land(i, t, how) /\ (t = law \/ t = Without(law, ops[i].destination))
  BY DEF Renumber, Refuse
<1>5. t[a] # NoText /\ a # from
  BY <1>3, <1>4
<1> QED
  BY <1>4, <1>5 DEF Without

(***************************************************************************)
(* After its turn a leg of a section that was not refused for its address  *)
(* has nothing standing at its target.                                     *)
(***************************************************************************)
LEMMA LegHasLeft ==
    ASSUME OrderingInv, ReplayTypes, Apply, IsLeg(Turn), ~IsLedd(ops[Turn].target),
           ~Unprovable(Turn), ~aborted'
    PROVE  ~Stands(law', ops[Turn].target)
<1> DEFINE i == Turn
<1>1. i \in Places /\ i \in Emitted /\ ops \in Programs
  BY TurnIsEmitted
<1>2. Elsewhere(i)
  BY <1>1, StayingIsRefused, NothingIsVisited DEF Apply, Ordered
<1>3. ops[i].target \in Addresses /\ ~IsLedd(ops[i].destination)
  BY <1>1, OpAddresses
<1>4. Renumber(i)
  BY DEF Apply, Repeal, Insert, IsLeg
<1>5. CASE ~Stands(law, ops[i].target)
  BY <1>4, <1>5 DEF Renumber, Refuse
<1>6. CASE Stands(law, ops[i].target)
  <2>1. PICK t, how : Land(i, t, how)
    BY <1>3, <1>4, <1>6 DEF Renumber
  <2> DEFINE from == ops[i].target
             place == PlaceOf(Without(t, from), ops[i].destination)
  <2>2. law' = Moved(t, from, place)
    BY <2>1 DEF Land
  <2>3. place = ops[i].destination
    BY <1>3 DEF PlaceOf
  <2>4. from # place /\ from \notin Under(place)
    BY <1>2, <2>3 DEF Elsewhere, Under
  <2>5. law'[from] = NoText
    BY <1>3, <2>2, <2>4 DEF Moved, Without
  <2> QED
    BY <2>5 DEF Stands
<1> QED
  BY <1>5, <1>6

\* A section comes to stand only where an operation sends it.
LEMMA NewcomerIsSent ==
    ASSUME OrderingInv, ReplayTypes, Apply, IsLeg(Turn),
           NEW a \in Addresses, ~IsLedd(a), ~Stands(law, a), Stands(law', a)
    PROVE  ops[Turn].destination = a
<1>1. Renumber(Turn)
  BY DEF Apply, Repeal, Insert, IsLeg
<1>2. law' # law /\ law'[a] # NoText /\ law[a] = NoText
  BY DEF Stands
<1> QED
  BY <1>1, <1>2, LandingSection

\* The verdict depends on what was emitted only.
LEMMA VerdictStays ==
    ASSUME UNCHANGED orderVars, NEW i
    PROVE  Unprovable(i)' <=> Unprovable(i)
BY DEF Unprovable, Pairs, EmittedLegs, Emitted, IsLeg, orderVars

\* Where nothing changes the vacancies stay.
LEMMA VacancyStays ==
    ASSUME Vacancy, UNCHANGED <<orderVars, law, done>>
    PROVE  Vacancy'
<1>1. ops' = ops /\ emitted' = emitted /\ law' = law /\ done' = done
  BY DEF orderVars
<1>2. \A m : IsLeg(emitted[m])' <=> IsLeg(emitted[m])
  BY <1>1 DEF IsLeg
<1>3. \A m : Unprovable(emitted[m])' <=> Unprovable(emitted[m])
  <2>1. UNCHANGED orderVars
    OBVIOUS
  <2>2. \A i : Unprovable(i)' <=> Unprovable(i)
    BY <2>1, VerdictStays
  <2> QED
    BY <1>1, <2>2 DEF Unprovable, Pairs, EmittedLegs, Emitted, IsLeg
<1>4. \A m, k : (emitted[k] \in SameAct(emitted[m]))' <=> emitted[k] \in SameAct(emitted[m])
  BY <1>1 DEF SameAct, IsLeg
<1>5. \A m : Stands(law, ops[emitted[m]].target)' <=> Stands(law, ops[emitted[m]].target)
  BY <1>1 DEF Stands
<1> QED
  BY <1>1, <1>2, <1>3, <1>4, <1>5 DEF Vacancy

\* And so do the labels.
LEMMA LabelsStay ==
    ASSUME LabelsStayUnique, UNCHANGED <<orderVars, law, done, aborted>>
    PROVE  LabelsStayUnique'
<1>1. ops' = ops /\ emitted' = emitted
  BY DEF orderVars
<1>2. Turn' = Turn
  BY <1>1 DEF Turn
<1> QED
  BY <1>1, <1>2 DEF LabelsStayUnique, PlaceOf, Stands, Parent, IsLedd

\* An answered operation leaves the vacancies.
LEMMA KeepsVacancy ==
    ASSUME ReplayInv, Apply, ~aborted', done' = done + 1, UNCHANGED orderVars
    PROVE  Vacancy'
<1> DEFINE n == done + 1
<1>1. /\ Turn = emitted[n] /\ done \in Nat /\ n \in 1..Len(emitted)
      /\ DOMAIN emitted = 1..Len(emitted) /\ Len(emitted) \in Nat /\ ops \in Programs
  BY TurnIsEmitted DEF ReplayInv, Turn
<1>2. ops' = ops /\ emitted' = emitted
  BY DEF orderVars
<1>3. SUFFICES ASSUME NEW m \in 1..n,
                      IsLeg(emitted[m]), ~IsLedd(ops[emitted[m]].target),
                      ~Unprovable(emitted[m]), Stands(law', ops[emitted[m]].target)
               PROVE  \E k \in (m + 1)..n :
                          emitted[k] \in SameAct(emitted[m]) =>
                              ops[emitted[k]].destination = ops[emitted[m]].target
  <2>1. \A m : IsLeg(emitted[m])' <=> IsLeg(emitted[m])
    BY <1>2 DEF IsLeg
  <2>2. \A m : Unprovable(emitted[m])' <=> Unprovable(emitted[m])
    <3>1. \A i : Unprovable(i)' <=> Unprovable(i)
      BY VerdictStays
    <3> QED
      BY <1>2, <3>1 DEF Unprovable, Pairs, EmittedLegs, Emitted, IsLeg
  <2>3. \A m, k : (emitted[k] \in SameAct(emitted[m]))' <=> emitted[k] \in SameAct(emitted[m])
    BY <1>2 DEF SameAct, IsLeg
  <2> QED
    BY <1>2, <2>1, <2>2, <2>3 DEF Vacancy
<1> DEFINE e == emitted[m]
           a == ops[e].target
<1>4. m \in 1..Len(emitted) /\ e \in Places /\ e \in Emitted
  <2>1. m \in 1..Len(emitted)
    BY <1>1
  <2> QED
    BY <1>1, <2>1, PlacesOnly DEF ReplayInv, OrderingInv, OrderedInv, Emitted
<1>5. a \in Addresses
  BY <1>1, <1>4, OpAddresses
<1>6. m # n
  <2>1. ASSUME m = n
        PROVE  FALSE
    <3>1. e = Turn
      BY <1>1, <2>1
    <3>2. ~Stands(law', ops[Turn].target)
      BY <1>3, <3>1, LegHasLeft DEF ReplayInv
    <3> QED
      BY <1>3, <3>1, <3>2
  <2> QED
    BY <2>1
<1>7. m \in 1..done
  BY <1>1, <1>6
<1>8. CASE Stands(law, a)
  <2>1. PICK k \in (m + 1)..done :
            emitted[k] \in SameAct(e) => ops[emitted[k]].destination = a
    BY <1>3, <1>7, <1>8 DEF ReplayInv, Vacancy
  <2>2. k \in (m + 1)..n
    BY <1>1, <1>7, <2>1
  <2> QED
    BY <2>1, <2>2
<1>9. CASE ~Stands(law, a)
  <2>1. n \in (m + 1)..n
    BY <1>1, <1>7
  <2>2. emitted[n] \in SameAct(e) => ops[emitted[n]].destination = a
    <3>1. ASSUME emitted[n] \in SameAct(e)
          PROVE  ops[emitted[n]].destination = a
      <4>1. IsLeg(Turn)
        BY <1>1, <3>1 DEF SameAct
      <4> QED
        BY <1>1, <1>3, <1>5, <1>9, <4>1, NewcomerIsSent DEF ReplayInv
    <3> QED
      BY <3>1
  <2> QED
    BY <2>1, <2>2
<1> QED
  BY <1>8, <1>9

(***************************************************************************)
(* A section leg that may be applied does not find its destination taken   *)
(* by what another leg of its act should have moved away.                  *)
(***************************************************************************)
LEMMA RoomIsMade ==
    ASSUME ReplayInv, Apply, IsLeg(Turn), ~Unprovable(Turn), IsSource(Turn),
           ~IsLedd(ops[Turn].destination)
    PROVE  ~Stands(law, ops[Turn].destination)
<1> DEFINE n == done + 1
           i == Turn
           d == ops[i].destination
<1>1. /\ i = emitted[n] /\ done \in Nat /\ n \in 1..Len(emitted)
      /\ DOMAIN emitted = 1..Len(emitted) /\ Len(emitted) \in Nat /\ ops \in Programs
      /\ i \in Places /\ i \in Emitted
  BY TurnIsEmitted DEF ReplayInv, Turn
<1>2. SUFFICES ASSUME Stands(law, d)
               PROVE  FALSE
  OBVIOUS
<1>3. PICK j \in EmittedLegs(ops[i].act) : ops[j].target = d
  BY DEF IsSource
<1>4. j \in Places /\ WaitsFor(i, j)
  <2>1. j \in Emitted /\ IsLeg(j) /\ ops[j].act = ops[i].act
    BY <1>3 DEF EmittedLegs
  <2>2. j \in Places
    BY <2>1, PlacesOnly DEF ReplayInv, OrderingInv, OrderedInv
  <2> QED
    BY <1>3, <2>1, <2>2 DEF WaitsFor, SameAct
<1>5. \/ \E m \in 1..(n - 1) : WaitsFor(i, emitted[m])
      \/ InCircle(i)
  BY <1>1, <1>4 DEF ReplayInv, OrderingInv, OrderedInv, VacatedFirst
<1>6. ~InCircle(i)
  BY <1>1, CircleIsRefused, NothingIsVisited DEF Apply, Ordered
<1>7. PICK m \in 1..(n - 1) : WaitsFor(i, emitted[m])
  BY <1>5, <1>6
<1> DEFINE e == emitted[m]
<1>8. m \in 1..done /\ e \in Emitted
  BY <1>1, <1>7 DEF Emitted
<1>9. IsLeg(e) /\ ops[e].target = d /\ ops[e].act = ops[i].act /\ i \in SameAct(e)
  BY <1>1, <1>7 DEF WaitsFor, SameAct
<1>10. ~Unprovable(e)
  BY <1>1, <1>7, <1>8, WaitingIsRefusedToo
<1>11. PICK k \in (m + 1)..done : emitted[k] \in SameAct(e) => ops[emitted[k]].destination = d
  BY <1>2, <1>8, <1>9, <1>10 DEF ReplayInv, Vacancy
<1> DEFINE f == emitted[k]
<1>12. k \in 1..Len(emitted) /\ m \in 1..(k - 1) /\ k < n /\ f \in Emitted
  <2>1. k \in Int /\ m \in Int /\ m + 1 <= k /\ k <= done /\ 1 <= m
    BY <1>1, <1>8, <1>11
  <2>2. k \in 1..Len(emitted) /\ m \in 1..(k - 1) /\ k < n
    BY <1>1, <2>1
  <2> QED
    BY <1>1, <2>2 DEF Emitted
<1>13. f # i
  BY <1>1, <1>12 DEF ReplayInv, OrderingInv, OrderedInv, OrderInv, IsInjective
<1>14. f \in SameAct(e)
  <2>1. ASSUME f \notin SameAct(e)
        PROVE  FALSE
    <3>1. i \in dropped \/ \E h \in 1..(k - 1) : emitted[h] = i
      BY <1>1, <1>9, <1>12, <2>1 DEF ReplayInv, OrderingInv, LegsTogether
    <3>2. i \notin dropped
      BY <1>1 DEF ReplayInv, OrderingInv, OrderedInv, OrderInv
    <3>3. PICK h \in 1..(k - 1) : emitted[h] = i
      BY <3>1, <3>2
    <3>4. h \in 1..Len(emitted) /\ h # n
      BY <1>1, <1>12, <3>3
    <3> QED
      BY <1>1, <3>3, <3>4 DEF ReplayInv, OrderingInv, OrderedInv, OrderInv, IsInjective
  <2> QED
    BY <2>1
<1>15. IsLeg(f) /\ ops[f].act = ops[i].act /\ ops[f].destination = d /\ f \in SameAct(i)
  BY <1>9, <1>11, <1>14 DEF SameAct
<1>16. ops[f].target # ops[i].target
  BY <1>1, <1>12, <1>13, <1>15 DEF ReplayInv, OrderingInv, TargetsOnce
<1> QED
  BY <1>1, <1>12, <1>15, <1>16, ContestedIsRefused

\* Without a ledd a law has the sections it had.
LEMMA SectionsStay ==
    ASSUME NEW t, NEW a, IsLedd(a), NEW b, ~IsLedd(b)
    PROVE  Stands(Without(t, a), b) <=> Stands(t, b)
BY DEF Stands, Without, Under

\* A leg that aborts the replay is a ledd sent to a section that is not there.
LEMMA AbortIsStray ==
    ASSUME ReplayInv, Apply, aborted', UNCHANGED <<orderVars, law, done>>
    PROVE  LabelsStayUnique'
<1> DEFINE i == Turn
           from == ops[i].target
           d == ops[i].destination
<1>1. i \in Places /\ i \in Emitted /\ ops \in Programs
  BY TurnIsEmitted DEF ReplayInv
<1>2. ~aborted
  BY DEF Apply
<1>3. IsLeg(i) /\ ~Unprovable(i) /\ Renumber(i)
  BY <1>2, ApplyAnswers DEF Answer, Apply, Repeal, Insert, IsLeg
<1>4. from \in Addresses /\ d \in Addresses /\ (IsLedd(from) <=> IsLedd(d))
  BY <1>1, <1>3, OpAddresses
<1>5. Elsewhere(i)
  BY <1>1, <1>3, StayingIsRefused, NothingIsVisited DEF Apply, Ordered
<1>6. SUFFICES PlaceOf(law, d) # d
  BY DEF LabelsStayUnique, Turn, PlaceOf, orderVars
<1>7. CASE IsLedd(d)
  <2>1. \E how : Land(i, law, how)
    BY <1>2, <1>3, <1>7 DEF Renumber, Refuse, Answer, Occupied
  <2> DEFINE left == Without(law, from)
             place == PlaceOf(left, d)
  <2>2. Stands(left, place)
    BY <1>2, <2>1 DEF Land, Answer
  <2>3. ~Stands(law, d)
    BY <1>2, <1>3, <1>5, <1>7 DEF Renumber, Refuse, Answer, Occupied
  <2>4. ~Stands(left, d)
    BY <2>3 DEF Stands, Without
  <2>5. place # d
    BY <2>2, <2>4
  <2>6. ~Stands(left, Parent(d))
    BY <1>7, <2>5 DEF PlaceOf
  <2>7. ~IsLedd(Parent(d))
    BY <1>7 DEF Parent, IsLedd
  <2>8. ~Stands(law, Parent(d))
    BY <1>4, <1>7, <2>6, <2>7, SectionsStay
  <2> QED
    BY <1>7, <2>5, <2>6, <2>8 DEF PlaceOf
<1>8. CASE ~IsLedd(d)
  <2>1. PICK t, how : Land(i, t, how) /\ (t = law \/ t = Without(law, d))
    BY <1>2, <1>3 DEF Renumber, Refuse, Answer
  <2>2. Stands(Without(t, from), d)
    BY <1>2, <1>8, <2>1 DEF Land, Answer, PlaceOf
  <2>3. Stands(t, d)
    BY <2>2 DEF Stands, Without
  <2>4. t = law /\ Stands(law, d)
    BY <2>1, <2>3 DEF Stands, Without
  <2>5. ~IsSource(i)
    BY <1>3, <1>8, <2>4, RoomIsMade
  <2>6. Occupied(i)
    BY <1>5, <2>4 DEF Occupied
  <2>7. \E h : Land(i, Without(law, d), h)
    BY <1>2, <1>3, <1>8, <2>5, <2>6 DEF Renumber, Refuse, Answer
  <2>8. Stands(Without(Without(law, d), from), d)
    BY <1>2, <1>8, <2>7 DEF Land, Answer, PlaceOf
  <2> QED
    BY <1>4, <2>8 DEF Stands, Without
<1> QED
  BY <1>7, <1>8

\* The invariant of the replay holds in the beginning.
LEMMA ReplayInvInit == Init => ReplayInv
<1> SUFFICES ASSUME Init PROVE ReplayInv
  OBVIOUS
<1>1. OrderingInv
  BY OrderingInvInit DEF Init
<1>2. ReplayTypes
  <2>1. law \in Law /\ base \in Law
    BY ReplayAssumption DEF Init
  <2>2. done \in 0..Len(emitted) /\ ~(done > 0)
    <3>1. Len(emitted) = 0 /\ done = 0
      BY DEF Init, OrderInit
    <3> QED
      BY <3>1
  <2>3. answers \in [Places -> Answers \cup {NoAnswer}] /\ aborted = FALSE
    BY DEF Init
  <2> QED
    BY <2>1, <2>2, <2>3 DEF ReplayTypes
<1>3. Vacancy
  BY DEF Init, Vacancy
<1>4. LabelsStayUnique
  BY DEF Init, LabelsStayUnique
<1> QED
  BY <1>1, <1>2, <1>3, <1>4 DEF ReplayInv

\* A step of the ordering keeps it.
LEMMA ReplayInvOrder ==
    ASSUME ReplayInv, Order
    PROVE  ReplayInv'
<1>1. OrderNext /\ UNCHANGED replayVars
  BY DEF Order
<1>2. OrderingInv'
  BY <1>1, OrderingInvStep DEF ReplayInv
<1>3. ReplayTypes'
  BY ReplayTypesStep DEF Next, ReplayInv
<1>4. CASE done > 0 \/ aborted
  <2>1. UNCHANGED <<orderVars, replayVars>>
    BY <1>1, <1>4, OrderingIsOver DEF ReplayInv, ReplayTypes
  <2>2. UNCHANGED <<orderVars, law, done, aborted>>
    BY <2>1 DEF replayVars
  <2>3. Vacancy' /\ LabelsStayUnique'
    BY <2>2, VacancyStays, LabelsStay DEF ReplayInv
  <2> QED
    BY <1>2, <1>3, <2>3 DEF ReplayInv
<1>5. CASE ~(done > 0) /\ ~aborted
  <2>1. done' = 0 /\ ~aborted'
    BY <1>1, <1>5 DEF ReplayInv, ReplayTypes, replayVars
  <2>2. Vacancy' /\ LabelsStayUnique'
    BY <2>1 DEF Vacancy, LabelsStayUnique
  <2> QED
    BY <1>2, <1>3, <2>2 DEF ReplayInv
<1> QED
  BY <1>4, <1>5

\* An operation that is applied keeps it.
LEMMA ReplayInvApply ==
    ASSUME ReplayInv, Apply
    PROVE  ReplayInv'
<1>1. ReplayTypes'
  BY ReplayTypesStep DEF Next, ReplayInv
<1>2. \/ \E how \in Answers : Answer(Turn, how)
      \/ aborted' = TRUE /\ UNCHANGED <<orderVars, law, done, answers, base>>
  BY ApplyAnswers
<1>3. UNCHANGED orderVars
  BY <1>2 DEF Answer
<1>4. OrderingInv'
  BY <1>3, OrderingInvStep DEF ReplayInv
<1>5. CASE \E how \in Answers : Answer(Turn, how)
  <2>1. ~aborted' /\ done' = done + 1
    BY <1>5 DEF Answer, Apply
  <2>2. Vacancy'
    BY <1>3, <2>1, KeepsVacancy
  <2> QED
    BY <1>1, <1>4, <2>1, <2>2 DEF ReplayInv, LabelsStayUnique
<1>6. CASE aborted' = TRUE /\ UNCHANGED <<orderVars, law, done, answers, base>>
  <2>1. LabelsStayUnique'
    BY <1>6, AbortIsStray
  <2>2. Vacancy'
    BY <1>6, VacancyStays DEF ReplayInv
  <2> QED
    BY <1>1, <1>4, <2>1, <2>2 DEF ReplayInv
<1> QED
  BY <1>2, <1>5, <1>6

-----------------------------------------------------------------------------
\* The invariant holds of every replay.
THEOREM ReplayInvariant == Spec => []ReplayInv
<1>1. ReplayInv /\ [Next]_vars => ReplayInv'
  <2> SUFFICES ASSUME ReplayInv, [Next]_vars PROVE ReplayInv'
    OBVIOUS
  <2>1. CASE Next
    BY <2>1, ReplayInvOrder, ReplayInvApply DEF Next
  <2>2. CASE UNCHANGED vars
    <3>1. OrderingInv'
      BY <2>2, OrderingInvStep DEF ReplayInv, vars
    <3>2. ReplayTypes'
      BY ReplayTypesStep DEF ReplayInv
    <3>3. UNCHANGED <<orderVars, law, done, aborted>>
      BY <2>2 DEF vars, replayVars
    <3>4. Vacancy' /\ LabelsStayUnique'
      BY <3>3, VacancyStays, LabelsStay DEF ReplayInv
    <3> QED
      BY <3>1, <3>2, <3>4 DEF ReplayInv
  <2> QED
    BY <2>1, <2>2
<1> QED
  BY <1>1, ReplayInvInit, PTL DEF Spec

(***************************************************************************)
(* Every operation is emitted or passed over once, every law is a law, and *)
(* every operation is answered in a way there is.                          *)
(***************************************************************************)
THEOREM ReplayTypeCorrect == Spec => []TypeOK
<1>1. ReplayInv => TypeOK
  <2> SUFFICES ASSUME ReplayInv PROVE TypeOK
    OBVIOUS
  <2>1. ops \in Seq(Operation)
    BY OpsAreOperations DEF ReplayInv, OrderingInv, OrderedInv, OrderInv
  <2>2. stack \in Seq(Places \ Emitted)
    <3>1. stack \in Seq(Places) /\ \A k \in DOMAIN stack : stack[k] \notin Emitted
      BY DEF ReplayInv, OrderingInv, OrderedInv, OrderInv, StackIsPath
    <3> QED
      BY <3>1
  <2>3. /\ emitted \in Seq(Places) /\ IsInjective(emitted) /\ IsInjective(stack)
        /\ dropped \subseteq Places \ Emitted
    BY DEF ReplayInv, OrderingInv, OrderedInv, OrderInv, StackIsPath
  <2> QED
    BY <2>1, <2>2, <2>3 DEF TypeOK, ReplayInv, ReplayTypes
<1> QED
  BY <1>1, ReplayInvariant, PTL

(***************************************************************************)
(* In every replay a leg is applied after the one that makes room for it,  *)
(* circles apart.                                                          *)
(***************************************************************************)
THEOREM ReplayVacatesFirst == Spec => []VacatedFirst
<1>1. ReplayInv => VacatedFirst
  BY DEF ReplayInv, OrderingInv, OrderedInv
<1> QED
  BY <1>1, ReplayInvariant, PTL

(***************************************************************************)
(* No replay puts a provision where its namesake stands, whichever legs    *)
(* were refused or found nothing to move, strays under the root apart.     *)
(***************************************************************************)
THEOREM NoLabelTwice == Spec => []LabelsStayUnique
<1>1. ReplayInv => LabelsStayUnique
  BY DEF ReplayInv
<1> QED
  BY <1>1, ReplayInvariant, PTL

-----------------------------------------------------------------------------
(* Nothing in force is lost.                                               *)

\* A paragraph moved to where nothing stands takes its text with it, and
\* nothing else changes.
LEMMA MoveLosesNothing ==
    ASSUME NEW t \in Law, NEW from \in Addresses, NEW to \in Addresses, IsLedd(from),
           ~Stands(Without(t, from), to)
    PROVE  Shown(t) \subseteq Shown(Moved(t, from, to))
<1> SUFFICES ASSUME NEW a \in Addresses, t[a] # NoText
             PROVE  \E b \in Addresses : Moved(t, from, to)[b] = t[a]
  BY DEF Shown
<1>1. Under(from) = {}
  BY DEF Under
<1>2. CASE a = from
  BY <1>2 DEF Moved
<1>3. CASE a # from
  <2>1. Without(t, from)[a] = t[a]
    BY <1>1, <1>3 DEF Without
  <2>2. a # to
    BY <2>1 DEF Stands
  <2> QED
    BY <2>1, <2>2 DEF Moved
<1> QED
  BY <1>2, <1>3

\* A paragraph written where nothing stands hides nothing.
LEMMA NewTextHidesNothing ==
    ASSUME NEW t \in Law, NEW a \in Addresses, NEW text, IsLedd(a), ~Stands(t, a)
    PROVE  Shown(t) \subseteq Shown(With(t, a, text))
<1> SUFFICES ASSUME NEW b \in Addresses, t[b] # NoText
             PROVE  With(t, a, text)[b] = t[b]
  BY DEF Shown
<1>1. Under(a) = {} /\ b # a
  BY DEF Under, Stands
<1>2. Without(t, a)[b] = t[b]
  BY <1>1 DEF Without
<1> QED
  BY <1>1, <1>2 DEF With, Without

(***************************************************************************)
(* A relabelling of a paragraph, and an insertion of one that needs its    *)
(* address vacated, loses nothing that stands in the law, whatever         *)
(* operations were applied or refused before it.                           *)
(***************************************************************************)
THEOREM LawInForceIsKept == Spec => NothingInForceIsLost
<1>1. ReplayInv /\ [Next]_vars
          => [Apply /\ Harmless(Turn) => Shown(law) \subseteq Shown(law')]_vars
  <2> SUFFICES ASSUME ReplayInv, Apply, Harmless(Turn)
               PROVE  Shown(law) \subseteq Shown(law')
    OBVIOUS
  <2> DEFINE i == Turn
  <2>1. /\ i \in Places /\ ops \in Programs /\ law \in Law /\ ops[i].target \in Addresses
        /\ IsLedd(ops[i].target)
        /\ IsLeg(i) => ops[i].destination \in Addresses /\ IsLedd(ops[i].destination)
    BY TurnIsEmitted, OpAddresses DEF ReplayInv, ReplayTypes, Harmless
  <2>2. CASE Insert(i)
    BY <2>1, <2>2, NewTextHidesNothing DEF Insert, InsertOver, InsertNew, Refuse, Harmless
  <2>3. CASE Renumber(i)
    <3>1. UNCHANGED law \/ \E how : Land(i, law, how)
      BY <2>1, <2>3 DEF Renumber, Refuse
    <3>2. ASSUME NEW how, Land(i, law, how)
          PROVE  Shown(law) \subseteq Shown(law')
      <4> DEFINE left == Without(law, ops[i].target)
                 place == PlaceOf(left, ops[i].destination)
      <4>1. place \in Addresses
        BY <2>1, <2>3, PlacesAreAddresses DEF Renumber
      <4>2. CASE Stands(left, place)
        BY <3>2, <4>2 DEF Land
      <4>3. CASE ~Stands(left, place)
        BY <2>1, <3>2, <4>1, <4>3, MoveLosesNothing DEF Land
      <4> QED
        BY <4>2, <4>3
    <3> QED
      BY <3>1, <3>2
  <2> QED
    BY <2>2, <2>3 DEF Apply, Harmless, Repeal
<1> QED
  BY <1>1, ReplayInvariant, PTL DEF Spec, NothingInForceIsLost

-----------------------------------------------------------------------------
(* The verdict on the legs of an act is exact.                             *)

\* The addresses of a component and the legs between them belong together.
LEMMA ComponentIsClosed ==
    ASSUME NEW pairs, NEW a, NEW p \in pairs
    PROVE  p[1] \in Component(pairs, a) <=> p[2] \in Component(pairs, a)
<1>1. p[1] \in Ends(pairs) /\ p[2] \in Ends(pairs)
  BY DEF Ends
<1> QED
  BY <1>1 DEF Component

\* An order of the legs of a finite set is a sequence that shows each once.
LEMMA OrderShowsAll ==
    ASSUME NEW Q, IsFiniteSet(Q), NEW order \in SetToSeqs(Q)
    PROVE  /\ order \in Seq(Q) /\ Len(order) = Cardinality(Q) /\ Cardinality(Q) \in Nat
           /\ DOMAIN order = 1..Len(order)
           /\ \A m, n \in DOMAIN order : order[m] = order[n] => m = n
           /\ \A p \in Q : \E n \in DOMAIN order : order[n] = p
<1> DEFINE c == Cardinality(Q)
<1>1. c \in Nat
  BY FS_CardinalityType
<1>2. /\ order \in [1..c -> Q]
      /\ \A m, n \in 1..c : order[m] = order[n] => m = n
  BY DEF SetToSeqs
<1>3. IsFiniteSet(1..c) /\ Cardinality(1..c) = c
  BY <1>1, FS_Interval
<1> HIDE DEF c
<1>4. order \in Seq(Q) /\ Len(order) = c /\ DOMAIN order = 1..c
  BY <1>1, <1>2
<1>5. order \in Injection(1..c, Q)
  BY <1>2 DEF Injection, IsInjective
<1>6. order \in Surjection(1..c, Q)
  BY <1>3, <1>5, FS_Injection DEF c
<1>7. \A p \in Q : \E n \in 1..c : order[n] = p
  BY <1>6 DEF Surjection
<1> QED
  BY <1>1, <1>2, <1>4, <1>7 DEF c

\* A set of naturals that is not empty has a least element.
LEMMA LeastExists ==
    ASSUME NEW S, S \subseteq Nat, S # {}
    PROVE  \E n \in S : \A m \in S : n <= m
<1> DEFINE R == OpToRel(<, Nat)
<1>1. IsWellFoundedOn(R, Nat)
  BY NatLessThanWellFounded
<1>2. PICK n \in S : \A m \in S : ~ (<<m, n>> \in R)
  BY <1>1, WFMin
<1>3. \A m \in S : ~ (m < n)
  BY <1>2 DEF OpToRel
<1> QED
  BY <1>3

\* Every subset of these legs has one of which none occupies the source.
AlwaysAnEnd(Q) ==
    \A S \in SUBSET Q : S # {} => \E p \in S : \A q \in S : p[2] # q[1]

\* Legs with one source and one destination each.
OneToOne(Q) ==
    \A p, q \in Q : p[1] = q[1] \/ p[2] = q[2] => p = q

\* The first leg goes where nothing leaves, and the others are in order.
LEMMA OneMoreInOrder ==
    ASSUME NEW Q, IsFiniteSet(Q), OneToOne(Q), NEW q \in Q,
           \A p \in Q : q[2] # p[1], SafelyOrdered(Q \ {q})
    PROVE  SafelyOrdered(Q)
<1>1. PICK rest \in SetToSeqs(Q \ {q}) : NobodyInTheWay(rest)
  BY DEF SafelyOrdered
<1> DEFINE c == Cardinality(Q)
           order == [n \in 1..c |-> IF n = 1 THEN q ELSE rest[n - 1]]
<1>2. IsFiniteSet(Q \ {q}) /\ Cardinality(Q \ {q}) = c - 1
  BY FS_RemoveElement
<1>3. c \in Nat /\ c - 1 \in Nat
  BY <1>2, FS_CardinalityType
<1>4. /\ Len(rest) = c - 1 /\ DOMAIN rest = 1..(c - 1)
      /\ \A m, n \in 1..(c - 1) : rest[m] = rest[n] => m = n
      /\ \A n \in 1..(c - 1) : rest[n] \in Q \ {q}
  <2>1. rest \in Seq(Q \ {q}) /\ Len(rest) = Cardinality(Q \ {q})
        /\ DOMAIN rest = 1..Len(rest)
        /\ \A m, n \in DOMAIN rest : rest[m] = rest[n] => m = n
    BY <1>2, OrderShowsAll
  <2>2. \A n \in 1..Len(rest) : rest[n] \in Q \ {q}
    BY <2>1, ElementOfSeq
  <2> QED
    BY <1>2, <2>1, <2>2
<1> HIDE DEF c
<1>5. \A n \in 1..c : n = 1 \/ n - 1 \in 1..(c - 1)
  BY <1>3
<1>6. order \in [1..c -> Q]
  BY <1>4, <1>5
<1>7. \A m, n \in 1..c : m # n => order[m] # order[n]
  <2> SUFFICES ASSUME NEW m \in 1..c, NEW n \in 1..c, order[m] = order[n]
               PROVE  m = n
    OBVIOUS
  <2>1. CASE m = 1 \/ n = 1
    BY <1>4, <1>5, <2>1
  <2>2. CASE m # 1 /\ n # 1
    <3>1. m - 1 \in 1..(c - 1) /\ n - 1 \in 1..(c - 1)
      BY <1>5, <2>2
    <3>2. rest[m - 1] = rest[n - 1]
      BY <2>2
    <3>3. m - 1 = n - 1
      BY <1>4, <3>1, <3>2
    <3> QED
      BY <3>3
  <2> QED
    BY <2>1, <2>2
<1>8. order \in SetToSeqs(Q)
  BY <1>6, <1>7 DEF SetToSeqs, c
<1>9. Len(order) = c /\ DOMAIN order = 1..c
  BY <1>3, <1>6
<1>10. order[1] = q
  BY <1>2, <1>3, FS_EmptySet DEF c
<1>11. ASSUME NEW n \in 1..c, NEW m \in 1..(n - 1)
       PROVE  order[m][1] # order[n][1] /\ order[m][2] # order[n][2]
  <2>1. m \in 1..c /\ m # n
    BY <1>3, <1>11
  <2>2. order[m] # order[n] /\ order[m] \in Q /\ order[n] \in Q
    BY <1>6, <1>7, <2>1
  <2> HIDE DEF order
  <2> QED
    BY <2>2 DEF OneToOne
<1>12. ASSUME NEW n \in 1..c, NEW m \in (n + 1)..c
       PROVE  order[m][1] # order[n][2]
  <2>1. m \in 1..c
    BY <1>3, <1>12
  <2>2. CASE n = 1
    <3>1. order[m] \in Q /\ order[n] = q
      BY <1>6, <1>10, <2>1, <2>2
    <3> HIDE DEF order
    <3> QED
      BY <3>1
  <2>3. CASE n # 1
    <3>1. n - 1 \in 1..(c - 1) /\ m - 1 \in ((n - 1) + 1)..(c - 1) /\ m # 1
      BY <1>3, <1>12, <2>3
    <3>2. order[n] = rest[n - 1] /\ order[m] = rest[m - 1]
      BY <2>1, <2>3, <3>1
    <3> HIDE DEF order
    <3> QED
      BY <1>1, <1>4, <3>1, <3>2 DEF NobodyInTheWay
  <2> QED
    BY <2>2, <2>3
<1> HIDE DEF order
<1>13. NobodyInTheWay(order)
  BY <1>9, <1>11, <1>12 DEF NobodyInTheWay
<1> QED
  BY <1>8, <1>13 DEF SafelyOrdered

\* Legs that do not meet and do not go round have an order.
LEMMA OrderExists ==
    ASSUME NEW P, IsFiniteSet(P), OneToOne(P), AlwaysAnEnd(P)
    PROVE  SafelyOrdered(P)
<1> DEFINE Unordered == {Q \in SUBSET P : ~SafelyOrdered(Q)}
           Sizes == {Cardinality(Q) : Q \in Unordered}
<1>1. SUFFICES ASSUME P \in Unordered
               PROVE  FALSE
  OBVIOUS
<1>2. \A Q \in SUBSET P : IsFiniteSet(Q) /\ Cardinality(Q) \in Nat
  BY FS_Subset, FS_CardinalityType
<1>3. Sizes \subseteq Nat /\ Sizes # {}
  BY <1>1, <1>2
<1> HIDE DEF Sizes
<1>4. PICK c \in Sizes : \A d \in Sizes : c <= d
  BY <1>3, LeastExists
<1> USE DEF Sizes
<1>5. PICK Q \in Unordered : c = Cardinality(Q)
  BY <1>4
<1>6. Q # {}
  <2>1. ASSUME Q = {}
        PROVE  FALSE
    <3>1. Cardinality({}) = 0 /\ IsFiniteSet({})
      BY FS_EmptySet
    <3>2. <<>> \in SetToSeqs({})
      BY <3>1 DEF SetToSeqs
    <3>3. NobodyInTheWay(<<>>)
      BY DEF NobodyInTheWay
    <3> QED
      BY <1>5, <2>1, <3>2, <3>3 DEF SafelyOrdered
  <2> QED
    BY <2>1
<1>7. PICK q \in Q : \A p \in Q : q[2] # p[1]
  BY <1>5, <1>6 DEF AlwaysAnEnd
<1>8. OneToOne(Q) /\ IsFiniteSet(Q)
  BY <1>2, <1>5 DEF OneToOne
<1>9. Q \ {q} \in Unordered
  <2>1. ~SafelyOrdered(Q \ {q})
    BY <1>5, <1>7, <1>8, OneMoreInOrder
  <2> QED
    BY <1>5, <2>1
<1>10. Cardinality(Q \ {q}) = c - 1 /\ c \in Nat
  BY <1>2, <1>5, <1>7, <1>8, FS_RemoveElement
<1>11. c <= c - 1
  BY <1>4, <1>9, <1>10
<1> QED
  BY <1>10, <1>11

\* Legs that go elsewhere and have an order do not meet and do not go round.
LEMMA OrderedDoNotClash ==
    ASSUME NEW pairs, NEW C, NEW mine, mine = {p \in pairs : p[1] \in C}, IsFiniteSet(mine),
           \A p \in pairs : p[1] \in C <=> p[2] \in C,
           SafelyOrdered(mine), GoElsewhere(mine)
    PROVE  C \cap Conflicts(pairs) = {}
<1>1. PICK order \in SetToSeqs(mine) : NobodyInTheWay(order)
  BY DEF SafelyOrdered
<1> DEFINE c == Len(order)
<1>2. /\ order \in Seq(mine) /\ c \in Nat /\ DOMAIN order = 1..c
      /\ \A p \in mine : \E n \in 1..c : order[n] = p
  BY OrderShowsAll, FS_CardinalityType
<1>3. \A n \in 1..c : order[n] \in mine
  BY <1>2, ElementOfSeq
<1>4. /\ \A n \in 1..c : \A m \in 1..(n - 1) :
            order[m][1] # order[n][1] /\ order[m][2] # order[n][2]
      /\ \A n \in 1..c : \A m \in (n + 1)..c : order[m][1] # order[n][2]
  BY <1>1, <1>2 DEF NobodyInTheWay
<1> HIDE DEF c
<1>5. ASSUME NEW p \in mine, NEW q \in mine, p # q
      PROVE  p[1] # q[1] /\ p[2] # q[2]
  <2>1. PICK n \in 1..c : order[n] = p
    BY <1>2
  <2>2. PICK m \in 1..c : order[m] = q
    BY <1>2
  <2>3. m \in 1..(n - 1) \/ n \in 1..(m - 1)
    BY <1>2, <1>5, <2>1, <2>2
  <2>4. CASE m \in 1..(n - 1)
    BY <1>4, <2>1, <2>2, <2>4
  <2>5. CASE n \in 1..(m - 1)
    BY <1>4, <2>1, <2>2, <2>5
  <2> QED
    BY <2>3, <2>4, <2>5
<1>6. ASSUME NEW x \in C, x \in ContestedDestination(pairs)
      PROVE  FALSE
  <2>1. PICK p, q \in pairs : p # q /\ p[2] = x /\ q[2] = x
    BY <1>6 DEF ContestedDestination
  <2>2. p \in mine /\ q \in mine
    BY <1>6, <2>1
  <2> QED
    BY <1>5, <2>1, <2>2
<1>7. ASSUME NEW x \in C, x \in ContestedSource(pairs)
      PROVE  FALSE
  <2>1. PICK p, q \in pairs : p # q /\ p[1] = x /\ q[1] = x
    BY <1>7 DEF ContestedSource
  <2>2. p \in mine /\ q \in mine
    BY <1>7, <2>1
  <2> QED
    BY <1>5, <2>1, <2>2
<1>8. ASSUME NEW x \in C, x \in Circular(pairs)
      PROVE  FALSE
  <2>1. PICK S \in SUBSET {p[1] : p \in pairs} :
            x \in S /\ \A a \in S : \E p \in pairs : p[1] = a /\ p[2] \in S
    BY <1>8 DEF Circular
  <2> DEFINE N == {n \in 1..c : order[n][1] \in S}
  <2>2. \A a \in S \cap C : \E n \in 1..c : order[n][1] = a /\ order[n][2] \in S \cap C
    <3> SUFFICES ASSUME NEW a \in S \cap C
                 PROVE  \E n \in 1..c : order[n][1] = a /\ order[n][2] \in S \cap C
      OBVIOUS
    <3>1. PICK p \in pairs : p[1] = a /\ p[2] \in S
      BY <2>1
    <3>2. p \in mine /\ p[2] \in C
      BY <3>1
    <3> QED
      BY <1>2, <3>1, <3>2
  <2>3. N \subseteq Nat /\ N # {}
    <3>1. PICK n \in 1..c : order[n][1] = x
      BY <1>8, <2>1, <2>2
    <3>2. n \in N
      BY <2>1, <3>1
    <3> QED
      BY <1>2, <3>2
  <2>4. PICK n \in N : \A m \in N : n <= m
    BY <2>3, LeastExists
  <2>5. order[n] \in mine /\ order[n][1] \in S \cap C
    BY <1>3, <2>4
  <2>6. PICK k \in 1..c : order[k][1] = order[n][1] /\ order[k][2] \in S \cap C
    BY <2>2, <2>5
  <2>7. order[k] = order[n]
    BY <1>3, <1>5, <2>5, <2>6
  <2>8. PICK m \in 1..c : order[m][1] = order[n][2]
    BY <2>2, <2>6, <2>7
  <2>9. m \in N
    BY <2>6, <2>7, <2>8
  <2>10. m # n
    BY <2>5, <2>8 DEF GoElsewhere
  <2>11. m \in (n + 1)..c
    BY <1>2, <2>4, <2>8, <2>9, <2>10
  <2> QED
    BY <1>4, <2>4, <2>8, <2>11
<1> QED
  BY <1>6, <1>7, <1>8 DEF Conflicts

\* Legs that are not refused do not meet and do not go round.
LEMMA NoConflictNoClash ==
    ASSUME NEW pairs, NEW C, NEW mine, mine = {p \in pairs : p[1] \in C},
           \A p \in pairs : p[1] \in C <=> p[2] \in C,
           C \cap Conflicts(pairs) = {}
    PROVE  OneToOne(mine) /\ AlwaysAnEnd(mine)
<1>1. OneToOne(mine)
  <2> SUFFICES ASSUME NEW p \in mine, NEW q \in mine, p # q
               PROVE  p[1] # q[1] /\ p[2] # q[2]
    BY DEF OneToOne
  <2>1. /\ p \in pairs /\ q \in pairs /\ p[1] \in C /\ p[2] \in C
        /\ p[1] \in Ends(pairs) /\ p[2] \in Ends(pairs)
    BY DEF Ends
  <2>2. ASSUME p[1] = q[1]
        PROVE  p[1] \in ContestedSource(pairs)
    BY <2>1, <2>2 DEF ContestedSource
  <2>3. ASSUME p[2] = q[2]
        PROVE  p[2] \in ContestedDestination(pairs)
    BY <2>1, <2>3 DEF ContestedDestination
  <2> QED
    BY <2>1, <2>2, <2>3 DEF Conflicts
<1>2. AlwaysAnEnd(mine)
  <2> SUFFICES ASSUME NEW S \in SUBSET mine, S # {},
                      \A p \in S : \E q \in S : p[2] = q[1]
               PROVE  FALSE
    BY DEF AlwaysAnEnd
  <2> DEFINE T == {p[1] : p \in S}
  <2>1. T \in SUBSET {p[1] : p \in pairs}
    OBVIOUS
  <2>2. \A a \in T : \E p \in pairs : p[1] = a /\ p[2] \in T
    OBVIOUS
  <2>3. T \subseteq Circular(pairs)
    <3> HIDE DEF T
    <3> QED
      BY <2>1, <2>2 DEF Circular
  <2>4. PICK p \in S : p[1] \in T /\ p[1] \in C
    OBVIOUS
  <2> QED
    BY <2>3, <2>4 DEF Conflicts
<1> QED
  BY <1>1, <1>2

\* The legs of an act are finitely many.
LEMMA PairsAreFinite ==
    ASSUME OrderInv, NEW act
    PROVE  IsFiniteSet(Pairs(act))
<1> DEFINE E == EmittedLegs(act)
           f == [i \in E |-> <<ops[i].target, ops[i].destination>>]
<1>1. Places = 1..Len(ops) /\ Len(ops) \in Int
  BY OpsAreOperations DEF OrderInv
<1>2. E \in SUBSET Places
  BY PlacesOnly DEF EmittedLegs
<1>3. IsFiniteSet(E)
  BY <1>1, <1>2, FS_Interval, FS_Subset
<1>4. f \in Surjection(E, Pairs(act))
  BY DEF Pairs, Surjection
<1> QED
  BY <1>3, <1>4, FS_Surjection

\* Among the legs that were emitted and go elsewhere the verdict is exact.
LEMMA JudgedExactly ==
    ASSUME OrderInv, NEW i \in Emitted, IsLeg(i)
    PROVE  LET pairs == Pairs(ops[i].act)
               mine == {p \in pairs : p[1] \in Component(pairs, ops[i].target)}
           IN  GoElsewhere(mine) => (Unprovable(i) <=> ~SafelyOrdered(mine))
<1> DEFINE pairs == Pairs(ops[i].act)
           C == Component(pairs, ops[i].target)
           mine == {p \in pairs : p[1] \in C}
<1>1. IsFiniteSet(pairs)
  BY PairsAreFinite
<1>2. Unprovable(i) <=> C \cap Conflicts(pairs) # {}
  BY DEF Unprovable
<1> HIDE DEF pairs
<1>3. IsFiniteSet(mine)
  BY <1>1, FS_Subset
<1>4. \A p \in pairs : p[1] \in C <=> p[2] \in C
  BY ComponentIsClosed
<1> HIDE DEF C
<1>5. GoElsewhere(mine) /\ SafelyOrdered(mine) => C \cap Conflicts(pairs) = {}
  BY <1>3, <1>4, OrderedDoNotClash
<1>6. C \cap Conflicts(pairs) = {} => OneToOne(mine) /\ AlwaysAnEnd(mine)
  BY <1>4, NoConflictNoClash
<1>7. OneToOne(mine) /\ AlwaysAnEnd(mine) => SafelyOrdered(mine)
  BY <1>3, OrderExists
<1> QED
  BY <1>2, <1>5, <1>6, <1>7 DEF C, pairs

\* No act sends a provision to two places.
OneDestination ==
    \A p \in Programs : \A i, j \in DOMAIN p :
        /\ p[i].action = "RENUMBER" /\ p[j].action = "RENUMBER"
        /\ p[i].act = p[j].act /\ p[i].target = p[j].target
        => p[i].destination = p[j].destination

\* A leg that was passed over is one that was emitted, announced again.
LEMMA EmittedPairsAreAll ==
    ASSUME OneDestination, OrderInv, Ordered, NEW act
    PROVE  LegPairs(act) = Pairs(act)
<1>1. ASSUME NEW i \in Places, IsLeg(i), ops[i].act = act
      PROVE  <<ops[i].target, ops[i].destination>> \in Pairs(act)
  <2>1. CASE i \in Emitted
    BY <1>1, <2>1 DEF Pairs, EmittedLegs
  <2>2. CASE i \notin Emitted
    <3>1. Visited(i)
      BY <1>1, <2>2 DEF Ordered, Rest, OrderInv, DroppedAreVisited
    <3>2. PICK j \in Emitted : IsLeg(j) /\ ops[j].act = act /\ ops[j].target = ops[i].target
      BY <1>1, <3>1 DEF Visited
    <3>3. j \in Places /\ ops \in Programs
      BY PlacesOnly DEF OrderInv
    <3>4. ops[j].destination = ops[i].destination
      BY <1>1, <3>2, <3>3 DEF OneDestination, IsLeg
    <3>5. j \in EmittedLegs(act)
      BY <3>2 DEF EmittedLegs
    <3> QED
      BY <3>2, <3>4, <3>5 DEF Pairs
  <2> QED
    BY <2>1, <2>2
<1>2. ASSUME NEW i \in EmittedLegs(act)
      PROVE  <<ops[i].target, ops[i].destination>> \in LegPairs(act)
  <2>1. i \in Places /\ IsLeg(i) /\ ops[i].act = act
    BY PlacesOnly DEF EmittedLegs
  <2> QED
    BY <2>1 DEF LegPairs
<1> QED
  BY <1>1, <1>2 DEF LegPairs, Pairs

(***************************************************************************)
(* A leg is refused for its addresses exactly if the legs of the input it  *)
(* is connected with have no order in which none is in the way of another, *)
(* for every act that sends a provision to one place, if all those legs go *)
(* elsewhere.                                                              *)
(***************************************************************************)
THEOREM VerdictsAreExact ==
    ASSUME OneDestination
    PROVE  Spec => []VerdictIsExact
<1>1. ReplayInv => VerdictIsExact
  <2> SUFFICES ASSUME ReplayInv, Ordered, NEW i \in Emitted, IsLeg(i)
               PROVE  LET pairs == LegPairs(ops[i].act)
                          mine == {p \in pairs : p[1] \in Component(pairs, ops[i].target)}
                      IN  GoElsewhere(mine) => (Unprovable(i) <=> ~SafelyOrdered(mine))
    BY DEF VerdictIsExact
  <2>1. OrderInv
    BY DEF ReplayInv, OrderingInv, OrderedInv
  <2>2. LegPairs(ops[i].act) = Pairs(ops[i].act)
    BY <2>1, EmittedPairsAreAll
  <2> QED
    BY <2>1, <2>2, JudgedExactly
<1> QED
  BY <1>1, ReplayInvariant, PTL

-----------------------------------------------------------------------------
(* The ledds of an act are moved before its sections.                      *)

\* Once the search has come to a section, its act has no ledd left to move.
SectionsWait ==
    \A i \in Emitted \cup Visiting, r \in Rest :
        /\ IsLeg(i) /\ IsLeg(r) /\ ops[i].act = ops[r].act
        /\ ~IsLedd(ops[i].target)
        => ~IsLedd(ops[r].target)

LeddsFirst ==
    \A m, n \in DOMAIN emitted :
        /\ IsLeg(emitted[m]) /\ IsLeg(emitted[n])
        /\ ops[emitted[m]].act = ops[emitted[n]].act
        /\ ~IsLedd(ops[emitted[m]].target) /\ IsLedd(ops[emitted[n]].target)
        => n < m

KindsInTurn == SectionsWait /\ LeddsFirst

\* A root of the search that is a section has no ledd beside it.
LEMMA RootIsDeepest ==
    ASSUME OrderInv, NEW i \in Legs, Root(i), NEW r \in Legs, ~IsLedd(ops[i].target)
    PROVE  ~IsLedd(ops[r].target)
<1> DEFINE s == Rank(i)
           t == Rank(r)
<1>1. i \in Places /\ r \in Places /\ ops \in Programs
  BY DEF OrderInv, Legs, Group, Rest
<1>2. /\ ops[i].target \in Seq(Nat) /\ ops[r].target \in Seq(Nat)
      /\ Len(ops[i].target) \in {1, 2} /\ Len(ops[r].target) \in {1, 2}
  BY <1>1, OpAddresses, OrderingAssumption, ReplayAssumption
<1>3. s[1] = Len(ops[i].target) /\ t[1] = Len(ops[r].target)
  <2>1. ASSUME NEW a \in Seq(Nat), NEW x
        PROVE  (<<Len(a)>> \o a \o <<x>>)[1] = Len(a)
    <3>1. <<Len(a)>> \in Seq(Nat \cup {x}) /\ a \in Seq(Nat \cup {x}) /\ <<x>> \in Seq(Nat \cup {x})
      BY <2>1
    <3> QED
      BY <3>1
  <2> QED
    BY <1>2, <2>1 DEF Rank
<1>4. i = r \/ Higher(s, t) \/ s = t
  BY DEF Root
<1>5. Higher(s, t) => s[1] > t[1] \/ s[1] = t[1]
  <2> SUFFICES ASSUME Higher(s, t)
               PROVE  s[1] > t[1] \/ s[1] = t[1]
    OBVIOUS
  <2>1. PICK k \in DOMAIN s \cap DOMAIN t : s[k] > t[k] /\ \A m \in 1..(k - 1) : s[m] = t[m]
    BY DEF Higher
  <2>2. k \in Nat /\ k >= 1
    <3>1. s \in Seq(Nat \cup {ops[i].sequence})
      BY <1>2 DEF Rank
    <3> HIDE DEF s
    <3> QED
      BY <2>1, <3>1
  <2> HIDE DEF s, t
  <2>3. CASE k = 1
    BY <2>1, <2>3
  <2>4. CASE k # 1
    <3>1. 1 \in 1..(k - 1)
      BY <2>2, <2>4
    <3> QED
      BY <2>1, <3>1
  <2> QED
    BY <2>3, <2>4
<1> HIDE DEF s, t
<1>6. i # r => Len(ops[i].target) > Len(ops[r].target) \/ Len(ops[i].target) = Len(ops[r].target)
  BY <1>3, <1>4, <1>5
<1> QED
  BY <1>2, <1>6 DEF IsLedd

\* A step of the ordering keeps the sections waiting.
LEMMA KeepsSectionsWait ==
    ASSUME OrderingInv, SectionsWait, [OrderNext]_orderVars
    PROVE  SectionsWait'
<1> USE DEF OrderingInv, OrderedInv
<1>1. ops' = ops /\ Rest' \subseteq Rest
  BY StepAdds
<1>2. ASSUME NEW i, Emitted' \cup Visiting' \subseteq Emitted \cup Visiting \cup {i},
             \/ ~IsLeg(i) \/ IsLedd(ops[i].target)
             \/ \A r \in Rest : IsLeg(r) /\ ops[i].act = ops[r].act => ~IsLedd(ops[r].target)
      PROVE  SectionsWait'
  BY <1>1, <1>2 DEF SectionsWait, IsLeg, IsLedd
<1>3. CASE Emitted' \cup Visiting' \subseteq Emitted \cup Visiting
  BY <1>1, <1>3 DEF SectionsWait, IsLeg, IsLedd
<1>4. CASE EmitRepeal \/ EmitOther
  <2>1. PICK i \in Rest : ~IsLeg(i) /\ emitted' = Append(emitted, i)
    BY <1>4 DEF EmitRepeal, EmitOther, Repeals, Group, Legs, IsLeg
  <2>2. UNCHANGED <<ops, dropped, stack>>
    BY <1>4 DEF EmitRepeal, EmitOther
  <2>3. Emitted' = Emitted \cup {i} /\ Visiting' = Visiting
    BY <2>1, <2>2, EmittedNext DEF Rest, Visiting
  <2> QED
    BY <1>2, <2>1, <2>3
<1>5. CASE Visit
  <2>1. PICK i \in Legs : Root(i) /\ stack' = <<i>>
    BY <1>5 DEF Visit
  <2>2. UNCHANGED <<ops, emitted, dropped>>
    BY <1>5 DEF Visit
  <2>3. Visiting' = {i} /\ Emitted' = Emitted
    BY <2>1, <2>2 DEF Visiting, Emitted
  <2>4. \A r \in Rest : IsLeg(r) /\ ops[i].act = ops[r].act => r \in Legs
    BY <2>1 DEF Legs, Group
  <2>5. \/ IsLedd(ops[i].target)
        \/ \A r \in Rest : IsLeg(r) /\ ops[i].act = ops[r].act => ~IsLedd(ops[r].target)
    BY <2>1, <2>4, RootIsDeepest
  <2> QED
    BY <1>2, <2>3, <2>5
<1>6. CASE Follow
  <2>1. PICK j \in Places : Follows(j) /\ stack' = Append(stack, j)
    BY <1>6 DEF Follow
  <2>2. UNCHANGED <<ops, emitted, dropped>> /\ stack # <<>>
    BY <1>6 DEF Follow
  <2>3. stack \in Seq(Places) /\ ops \in Programs
    BY DEF OrderInv, StackIsPath
  <2>4. Top \in Visiting /\ Visiting' \subseteq Visiting \cup {j}
    <3>1. /\ Len(stack) \in DOMAIN stack
          /\ DOMAIN stack' = 1..(Len(stack) + 1) /\ DOMAIN stack = 1..Len(stack)
          /\ \A k \in DOMAIN stack : stack'[k] = stack[k]
          /\ stack'[Len(stack) + 1] = j
      BY <2>1, <2>2, <2>3
    <3>2. Top \in Visiting
      BY <3>1 DEF Visiting, Top
    <3>3. ASSUME NEW k \in DOMAIN stack'
          PROVE  stack'[k] \in Visiting \cup {j}
      <4>1. k \in DOMAIN stack \/ k = Len(stack) + 1
        BY <3>1, <3>3
      <4> QED
        BY <3>1, <4>1 DEF Visiting
    <3> QED
      BY <3>2, <3>3 DEF Visiting
  <2>5. /\ ops[j].act = ops[Top].act /\ ops[j].target = ops[Top].destination
        /\ IsLeg(Top) /\ Top \in Places
    BY <2>1, <2>4, PlacesOnly DEF Follows, Vacates, SameAct
  <2>6. IsLedd(ops[j].target) <=> IsLedd(ops[Top].target)
    BY <2>3, <2>5, OpAddresses
  <2>7. \/ IsLedd(ops[j].target)
        \/ \A r \in Rest : IsLeg(r) /\ ops[j].act = ops[r].act => ~IsLedd(ops[r].target)
    BY <2>4, <2>5, <2>6 DEF SectionsWait
  <2>8. Emitted' = Emitted
    BY <2>2 DEF Emitted
  <2> QED
    BY <1>2, <2>4, <2>7, <2>8
<1>7. CASE EmitLeg
  <2>1. /\ stack # <<>> /\ emitted' = Append(emitted, Top) /\ UNCHANGED <<ops, dropped>>
        /\ stack' = SubSeq(stack, 1, Len(stack) - 1)
    BY <1>7 DEF EmitLeg
  <2>2. Top \in Visiting /\ Visiting' \subseteq Visiting
    <3>1. /\ Len(stack) \in DOMAIN stack
          /\ DOMAIN stack' \subseteq DOMAIN stack
          /\ \A k \in DOMAIN stack' : stack'[k] = stack[k]
      BY <2>1, PopStack
    <3> QED
      BY <3>1 DEF Visiting, Top
  <2>3. Top \in Places /\ Top \notin Emitted
    BY <2>2, PlacesOnly DEF Rest
  <2>4. Emitted' = Emitted \cup {Top}
    BY <2>1, <2>3, EmittedNext
  <2> QED
    BY <1>3, <2>2, <2>4
<1>8. CASE PassOver \/ UNCHANGED orderVars
  <2>1. UNCHANGED <<emitted, stack>>
    BY <1>8 DEF PassOver, orderVars
  <2> QED
    BY <1>3, <2>1 DEF Emitted, Visiting
<1> QED
  BY <1>4, <1>5, <1>6, <1>7, <1>8 DEF OrderNext

\* And so the ledds stay before the sections.
LEMMA KeepsKindsInTurn ==
    ASSUME OrderingInv, KindsInTurn, [OrderNext]_orderVars
    PROVE  KindsInTurn'
<1> USE DEF OrderingInv, OrderedInv
<1>1. SectionsWait'
  BY KeepsSectionsWait DEF KindsInTurn
<1>2. ops' = ops
  BY StepAdds
<1>3. CASE emitted' = emitted
  BY <1>1, <1>2, <1>3 DEF KindsInTurn, LeddsFirst, IsLeg, IsLedd
<1>4. ASSUME NEW x \in Rest, emitted' = Append(emitted, x)
      PROVE  LeddsFirst'
  <2> DEFINE l == Len(emitted)
  <2>1. /\ emitted \in Seq(Places) /\ l \in Nat
        /\ DOMAIN emitted = 1..l /\ DOMAIN emitted' = 1..(l + 1)
        /\ \A k \in 1..l : emitted'[k] = emitted[k]
        /\ emitted'[l + 1] = x
    BY <1>4 DEF OrderInv, Rest
  <2>2. SUFFICES ASSUME NEW m \in 1..(l + 1), NEW n \in 1..(l + 1),
                        IsLeg(emitted'[m]), IsLeg(emitted'[n]),
                        ops[emitted'[m]].act = ops[emitted'[n]].act,
                        ~IsLedd(ops[emitted'[m]].target), IsLedd(ops[emitted'[n]].target)
                 PROVE  n < m
    BY <1>2, <2>1 DEF LeddsFirst, IsLeg, IsLedd
  <2>3. m # n
    BY <2>2
  <2>4. CASE m \in 1..l /\ n \in 1..l
    BY <2>1, <2>2, <2>4 DEF KindsInTurn, LeddsFirst
  <2>5. CASE m = l + 1
    BY <2>1, <2>3, <2>5
  <2>6. CASE n = l + 1 /\ m \in 1..l
    <3>1. emitted'[m] \in Emitted /\ emitted'[n] = x
      BY <2>1, <2>6 DEF Emitted
    <3> QED
      BY <1>4, <2>2, <3>1 DEF KindsInTurn, SectionsWait
  <2> QED
    BY <2>1, <2>4, <2>5, <2>6
<1>5. \/ emitted' = emitted
      \/ \E x \in Rest : emitted' = Append(emitted, x)
  <2>1. CASE EmitLeg
    <3>1. stack # <<>> /\ emitted' = Append(emitted, Top)
      BY <2>1 DEF EmitLeg
    <3>2. Top \in Visiting
      BY <3>1, PopStack DEF Visiting, Top
    <3> QED
      BY <3>1, <3>2, PlacesOnly
  <2> QED
    BY <2>1 DEF OrderNext, EmitRepeal, Visit, PassOver, Follow, EmitOther, Repeals, Group,
             orderVars
<1> QED
  BY <1>1, <1>3, <1>4, <1>5 DEF KindsInTurn

-----------------------------------------------------------------------------
(* The legs of an act are one relabelling.                                 *)

\* The legs of L that put something at b.
Arriving(t, L, b) == {i \in L : PlaceOf(t, ops[i].destination) = b}

\* The legs of L with which something comes to b.
Following(L, b) == {i \in L : b \in Under(ops[i].destination)}

\* What stands at b leaves with a leg of L.
Leaving(L, b) == \E i \in L : b = ops[i].target \/ b \in Under(ops[i].target)

\* What an address shows after all legs of L.
LEMMA AtOnceShows ==
    ASSUME NEW t, NEW L, NEW b \in Addresses
    PROVE  AtOnce(t, L)[b] =
               IF Arriving(t, L, b) # {}
               THEN t[ops[CHOOSE i \in Arriving(t, L, b) : TRUE].target]
               ELSE IF Following(L, b) # {}
               THEN t[<<ops[CHOOSE i \in Following(L, b) : TRUE].target[1], b[2]>>]
               ELSE IF Leaving(L, b) THEN NoText ELSE t[b]
BY Zenon DEF AtOnce, Arriving, Following, Leaving

\* What only i puts there.
LEMMA ShowsArrival ==
    ASSUME NEW t, NEW L, NEW b \in Addresses, NEW i, Arriving(t, L, b) = {i}
    PROVE  AtOnce(t, L)[b] = t[ops[i].target]
<1>1. (CHOOSE k \in {i} : TRUE) = i
  OBVIOUS
<1>2. AtOnce(t, L)[b] = t[ops[CHOOSE k \in Arriving(t, L, b) : TRUE].target]
  BY AtOnceShows, Zenon
<1> QED
  BY <1>1, <1>2, Zenon

\* What one of its legs puts there.
LEMMA ShowsSomeArrival ==
    ASSUME NEW t, NEW L, NEW b \in Addresses, Arriving(t, L, b) # {}
    PROVE  \E j \in L : AtOnce(t, L)[b] = t[ops[j].target]
<1> DEFINE j == CHOOSE k \in Arriving(t, L, b) : TRUE
<1>1. AtOnce(t, L)[b] = t[ops[j].target]
  BY AtOnceShows, Zenon
<1>2. j \in Arriving(t, L, b)
  BY Zenon
<1> HIDE DEF j
<1>3. j \in L
  BY <1>2 DEF Arriving
<1> QED
  BY <1>1, <1>3

\* What comes there only with i.
LEMMA ShowsFollower ==
    ASSUME NEW t, NEW L, NEW b \in Addresses, NEW i, Arriving(t, L, b) = {}, Following(L, b) = {i}
    PROVE  AtOnce(t, L)[b] = t[<<ops[i].target[1], b[2]>>]
<1>1. (CHOOSE k \in {i} : TRUE) = i
  OBVIOUS
<1>2. AtOnce(t, L)[b] = t[<<ops[CHOOSE k \in Following(L, b) : TRUE].target[1], b[2]>>]
  BY AtOnceShows, Zenon
<1> QED
  BY <1>1, <1>2, Zenon

\* Nothing, where what stood there has left and nothing comes.
LEMMA ShowsNothing ==
    ASSUME NEW t, NEW L, NEW b \in Addresses, Arriving(t, L, b) = {}, Following(L, b) = {},
           Leaving(L, b)
    PROVE  AtOnce(t, L)[b] = NoText
BY AtOnceShows, Zenon

\* What it showed before, where nothing leaves and nothing comes.
LEMMA ShowsAsBefore ==
    ASSUME NEW t, NEW L, NEW b \in Addresses, Arriving(t, L, b) = {}, Following(L, b) = {},
           ~Leaving(L, b)
    PROVE  AtOnce(t, L)[b] = t[b]
BY AtOnceShows, Zenon

\* The same, whatever other legs do elsewhere.
LEMMA ShowsTheSame ==
    ASSUME NEW t, NEW L, NEW M, NEW b \in Addresses, Arriving(t, M, b) = Arriving(t, L, b),
           Following(M, b) = Following(L, b), Leaving(M, b) <=> Leaving(L, b)
    PROVE  AtOnce(t, M)[b] = AtOnce(t, L)[b]
<1>1. CASE Arriving(t, L, b) # {}
  <2>1. AtOnce(t, L)[b] = t[ops[CHOOSE i \in Arriving(t, L, b) : TRUE].target]
    BY <1>1, AtOnceShows, Zenon
  <2>2. AtOnce(t, M)[b] = t[ops[CHOOSE i \in Arriving(t, M, b) : TRUE].target]
    BY <1>1, AtOnceShows, Zenon
  <2> QED
    BY <2>1, <2>2, Zenon
<1>2. CASE Arriving(t, L, b) = {} /\ Following(L, b) # {}
  <2>1. AtOnce(t, L)[b] = t[<<ops[CHOOSE i \in Following(L, b) : TRUE].target[1], b[2]>>]
    BY <1>2, AtOnceShows, Zenon
  <2>2. AtOnce(t, M)[b] = t[<<ops[CHOOSE i \in Following(M, b) : TRUE].target[1], b[2]>>]
    BY <1>2, AtOnceShows, Zenon
  <2> QED
    BY <2>1, <2>2, Zenon
<1>3. CASE Arriving(t, L, b) = {} /\ Following(L, b) = {} /\ Leaving(L, b)
  BY <1>3, ShowsNothing
<1>4. CASE Arriving(t, L, b) = {} /\ Following(L, b) = {} /\ ~Leaving(L, b)
  BY <1>4, ShowsAsBefore
<1> QED
  BY <1>1, <1>2, <1>3, <1>4

\* Two functions on the addresses are equal if they show the same.
LEMMA AtOnceIs ==
    ASSUME NEW t, NEW L, NEW u, u = [b \in Addresses |-> u[b]],
           \A b \in Addresses : u[b] = AtOnce(t, L)[b]
    PROVE  u = AtOnce(t, L)
<1>1. AtOnce(t, L) = [b \in Addresses |-> AtOnce(t, L)[b]]
  BY DEF AtOnce
<1> HIDE DEF AtOnce
<1> QED
  BY <1>1

\* Where nobody moves nothing changes.
LEMMA NobodyMoves ==
    ASSUME NEW t, t = [b \in Addresses |-> t[b]]
    PROVE  t = AtOnce(t, {})
<1>1. \A b \in Addresses : t[b] = AtOnce(t, {})[b]
  <2>1. \A b : Arriving(t, {}, b) = {} /\ Following({}, b) = {} /\ ~Leaving({}, b)
    BY DEF Arriving, Following, Leaving
  <2> QED
    BY <2>1, ShowsAsBefore
<1> QED
  BY <1>1, AtOnceIs

\* After the legs of ledds every section is what it was.
LEMMA LeddsLeaveSections ==
    ASSUME NEW t, NEW L, NEW b \in Addresses, ~IsLedd(b),
           \A j \in L : IsLedd(ops[j].target) /\ IsLedd(ops[j].destination)
    PROVE  AtOnce(t, L)[b] = t[b]
<1>1. Arriving(t, L, b) = {}
  BY DEF Arriving, PlaceOf, IsLedd
<1>2. Following(L, b) = {} /\ ~Leaving(L, b)
  BY DEF Following, Leaving, Under
<1> QED
  BY <1>1, <1>2, ShowsAsBefore

(***************************************************************************)
(* A ledd that no leg of L takes away or puts, moved after them, is moved  *)
(* with them.                                                              *)
(***************************************************************************)
LEMMA OneMoreLedd ==
    ASSUME NEW t, NEW L, NEW i, NEW f \in Addresses, NEW d \in Addresses,
           ops[i].target = f, ops[i].destination = d, IsLedd(f), IsLedd(d), f # d, f[1] # 0,
           \A j \in L : /\ IsLedd(ops[j].target) /\ IsLedd(ops[j].destination)
                        /\ ops[j].target # f /\ ops[j].destination # f
                        /\ t[ops[j].target] # NoText,
           NEW place, place = PlaceOf(Without(AtOnce(t, L), f), d),
           ~Stands(Without(AtOnce(t, L), f), place)
    PROVE  /\ AtOnce(t, L)[f] = t[f]
           /\ Moved(AtOnce(t, L), f, place) = AtOnce(t, L \cup {i})
<1> DEFINE A == AtOnce(t, L)
           M == L \cup {i}
<1>1. \A x, a : a # f => PlaceOf(x, a) # f
  BY DEF PlaceOf
<1>2. Under(f) = {} /\ Under(d) = {} /\ \A j \in L : Under(ops[j].target) = {} /\ Under(ops[j].destination) = {}
  BY DEF Under
<1>3. \A b : Following(L, b) = {} /\ Following(M, b) = {}
  BY <1>2 DEF Following
<1>4. \A b : Leaving(L, b) <=> \E j \in L : b = ops[j].target
  BY <1>2 DEF Leaving
<1>5. \A b : Leaving(M, b) <=> b = f \/ Leaving(L, b)
  BY <1>2 DEF Leaving
<1>6. A[f] = t[f]
  <2>1. Arriving(t, L, f) = {}
    BY <1>1 DEF Arriving
  <2>2. ~Leaving(L, f)
    BY <1>4
  <2> QED
    BY <1>3, <2>1, <2>2, ShowsAsBefore
<1>7. place = PlaceOf(t, d)
  <2>1. ~IsLedd(Parent(d))
    BY DEF Parent, IsLedd
  <2>2. Stands(Without(A, f), Parent(d)) <=> Stands(A, Parent(d))
    BY <2>1, SectionsStay
  <2>3. Parent(d) \in Addresses => A[Parent(d)] = t[Parent(d)]
    BY <2>1, LeddsLeaveSections
  <2>4. Stands(A, Parent(d)) <=> Stands(t, Parent(d))
    BY <2>3 DEF Stands
  <2> HIDE DEF A
  <2> QED
    BY <2>2, <2>4 DEF PlaceOf, A
<1>8. place \in Addresses /\ place # f /\ IsLedd(place) /\ Under(place) = {}
  <2>1. place \in Addresses /\ IsLedd(place)
    BY PlacesAreAddresses
  <2> QED
    BY <1>1, <2>1 DEF Under
<1> HIDE DEF A
<1>9. A[place] = NoText
  BY <1>2, <1>8 DEF Stands, Without, A
<1>10. Arriving(t, L, place) = {}
  <2>1. ASSUME Arriving(t, L, place) # {}
        PROVE  FALSE
    <3>1. PICK j \in L : AtOnce(t, L)[place] = t[ops[j].target]
      BY <1>8, <2>1, ShowsSomeArrival
    <3> QED
      BY <1>9, <3>1 DEF A
  <2> QED
    BY <2>1
<1> DEFINE N == Moved(A, f, place)
<1>11. ASSUME NEW b \in Addresses
       PROVE  N[b] = AtOnce(t, M)[b]
  <2>1. N[b] = IF b = place THEN A[f] ELSE IF b = f THEN NoText ELSE A[b]
    BY <1>2, <1>8 DEF Moved, Without
  <2>2. CASE b = place
    <3>1. Arriving(t, M, b) = {i}
      BY <1>7, <1>10, <2>2 DEF Arriving
    <3>2. AtOnce(t, M)[b] = t[ops[i].target]
      <4> HIDE DEF M
      <4> QED
        BY <3>1, ShowsArrival
    <3> QED
      BY <1>6, <2>1, <2>2, <3>2 DEF A
  <2>3. CASE b = f
    <3>1. Arriving(t, M, f) = {}
      BY <1>1 DEF Arriving
    <3>2. AtOnce(t, M)[f] = NoText
      <4> HIDE DEF M
      <4> QED
        BY <1>3, <1>5, <3>1, ShowsNothing
    <3> QED
      BY <1>8, <2>1, <2>3, <3>2
  <2>4. CASE b # place /\ b # f
    <3>1. Arriving(t, M, b) = Arriving(t, L, b)
      BY <1>7, <2>4 DEF Arriving
    <3>2. Leaving(M, b) <=> Leaving(L, b)
      BY <1>5, <2>4
    <3>3. AtOnce(t, M)[b] = AtOnce(t, L)[b]
      <4> HIDE DEF M
      <4> QED
        BY <1>3, <3>1, <3>2, ShowsTheSame
    <3> QED
      BY <2>1, <2>4, <3>3 DEF A
  <2> QED
    BY <2>2, <2>3, <2>4
<1>12. N = [b \in Addresses |-> N[b]]
  BY DEF Moved
<1> HIDE DEF N, M
<1>13. N = AtOnce(t, M)
  BY <1>11, <1>12, AtOnceIs
<1> QED
  BY <1>6, <1>13 DEF N, M, A

\* The address of a section is its label.
LEMMA SectionsHaveOneLabel ==
    ASSUME NEW a \in Addresses, ~IsLedd(a)
    PROVE  a = <<a[1]>>
<1>1. a \in Seq(Nat) /\ Len(a) = 1
  BY OrderingAssumption, ReplayAssumption DEF IsLedd
<1> QED
  BY <1>1

\* What is cleared away first is overwritten in any case.
LEMMA ClearedFirst ==
    ASSUME NEW t, NEW f \in Addresses, NEW d \in Addresses, ~IsLedd(f), ~IsLedd(d), f # d
    PROVE  Moved(Without(t, d), f, d) = Moved(t, f, d)
<1> DEFINE u == Without(t, d)
<1>1. f \notin Under(d) /\ u[f] = t[f]
  BY DEF Without, Under
<1>2. ASSUME NEW b \in Under(d)
      PROVE  u[<<f[1], b[2]>>] = t[<<f[1], b[2]>>]
  <2>1. <<f[1], b[2]>> \in Addresses
    BY <1>2, ReplayAssumption DEF Under
  <2>2. <<f[1], b[2]>> # d
    BY DEF IsLedd
  <2>3. <<f[1], b[2]>> \notin Under(d)
    BY SectionsHaveOneLabel DEF Under, Parent
  <2> QED
    BY <2>1, <2>2, <2>3 DEF Without
<1>3. \A b \in Addresses : b # d /\ b \notin Under(d) => Without(u, f)[b] = Without(t, f)[b]
  BY DEF Without
<1> HIDE DEF u
<1> DEFINE X == Moved(u, f, d)
           Y == Moved(t, f, d)
<1>4. \A b \in Addresses : X[b] = Y[b]
  BY <1>1, <1>2, <1>3 DEF Moved
<1>5. X = [b \in Addresses |-> X[b]] /\ Y = [b \in Addresses |-> Y[b]]
  BY DEF Moved
<1> HIDE DEF X, Y
<1>6. X = Y
  BY <1>4, <1>5
<1> QED
  BY <1>6 DEF X, Y, u

(***************************************************************************)
(* A section that no leg of L takes away or puts, moved after them to      *)
(* where none of them goes, is moved with them.                            *)
(***************************************************************************)
LEMMA OneMoreSection ==
    ASSUME NEW t, NEW L, NEW i, NEW f \in Addresses, NEW d \in Addresses,
           ops[i].target = f, ops[i].destination = d, ~IsLedd(f), ~IsLedd(d), f # d,
           \A j \in L : /\ ops[j].target \in Addresses /\ ops[j].destination \in Addresses
                        /\ ~IsLedd(ops[j].target) /\ ~IsLedd(ops[j].destination)
                        /\ ops[j].target # f /\ ops[j].destination # f /\ ops[j].destination # d
    PROVE  Moved(AtOnce(t, L), f, d) = AtOnce(t, L \cup {i})
<1> DEFINE A == AtOnce(t, L)
           M == L \cup {i}
<1>1. \A x, a : ~IsLedd(a) => PlaceOf(x, a) = a
  BY DEF PlaceOf
<1>2. /\ \A b : Arriving(t, L, b) = {j \in L : ops[j].destination = b}
      /\ \A b : Arriving(t, M, b) = {j \in M : ops[j].destination = b}
  BY <1>1 DEF Arriving
<1>3. ASSUME NEW a \in Addresses, ~IsLedd(a), NEW b \in Under(a)
      PROVE  /\ IsLedd(b) /\ b \in Addresses
             /\ \A c : b \in Under(c) => c = a
  BY <1>3 DEF Under
<1>4. ASSUME NEW b \in Under(f)
      PROVE  A[b] = t[b]
  <2>1. Arriving(t, L, b) = {}
    BY <1>2, <1>3, <1>4
  <2>2. Following(L, b) = {}
    BY <1>3, <1>4 DEF Following
  <2>3. ~Leaving(L, b)
    BY <1>3, <1>4 DEF Leaving
  <2> QED
    BY <1>3, <1>4, <2>1, <2>2, <2>3, ShowsAsBefore
<1>5. A[f] = t[f]
  <2>1. Arriving(t, L, f) = {}
    BY <1>2
  <2>2. Following(L, f) = {} /\ ~Leaving(L, f)
    BY DEF Following, Leaving, Under
  <2> QED
    BY <2>1, <2>2, ShowsAsBefore
<1> HIDE DEF A
<1> DEFINE N == Moved(A, f, d)
<1>6. ASSUME NEW b \in Addresses
      PROVE  N[b] = AtOnce(t, M)[b]
  <2>1. f \notin Under(d) /\ d \notin Under(f)
    BY DEF Under
  <2>2. CASE b = d
    <3>1. Arriving(t, M, b) = {i}
      BY <1>2, <2>2
    <3>2. AtOnce(t, M)[b] = t[ops[i].target]
      <4> HIDE DEF M
      <4> QED
        BY <3>1, ShowsArrival
    <3>3. N[b] = A[f]
      BY <2>2 DEF Moved
    <3> QED
      BY <1>5, <3>2, <3>3
  <2>3. CASE b \in Under(d)
    <3>1. Arriving(t, M, b) = {}
      <4>1. \A j \in M : ops[j].destination # b
        BY <1>3, <2>3
      <4> HIDE DEF M
      <4> QED
        BY <1>2, <4>1
    <3>2. Following(M, b) = {i}
      BY <1>3, <2>3 DEF Following
    <3>3. AtOnce(t, M)[b] = t[<<f[1], b[2]>>]
      <4> HIDE DEF M
      <4>1. AtOnce(t, M)[b] = t[<<ops[i].target[1], b[2]>>]
        BY <1>3, <2>3, <3>1, <3>2, ShowsFollower
      <4> QED
        BY <4>1
    <3>4. N[b] = A[<<f[1], b[2]>>]
      BY <1>3, <2>3 DEF Moved
    <3>5. <<f[1], b[2]>> \in Under(f)
      <4>1. <<f[1], b[2]>> \in Addresses
        BY <2>3, ReplayAssumption DEF Under
      <4> QED
        BY <4>1, SectionsHaveOneLabel DEF Under, Parent, IsLedd
    <3> QED
      BY <1>4, <3>3, <3>4, <3>5
  <2>4. CASE b # d /\ b \notin Under(d) /\ (b = f \/ b \in Under(f))
    <3>1. N[b] = NoText
      BY <2>4 DEF Moved, Without
    <3>2. Arriving(t, M, b) = {}
      <4>1. \A j \in M : ops[j].destination # b
        BY <1>3, <2>4
      <4> HIDE DEF M
      <4> QED
        BY <1>2, <4>1
    <3>3. Following(M, b) = {}
      BY <1>3, <2>4 DEF Following, Under
    <3>4. Leaving(M, b)
      BY <2>4 DEF Leaving
    <3> HIDE DEF M
    <3>5. AtOnce(t, M)[b] = NoText
      BY <3>2, <3>3, <3>4, ShowsNothing
    <3> QED
      BY <3>1, <3>5
  <2>5. CASE b # d /\ b \notin Under(d) /\ b # f /\ b \notin Under(f)
    <3>1. N[b] = A[b]
      BY <2>5 DEF Moved, Without
    <3>2. Arriving(t, M, b) = Arriving(t, L, b)
      BY <1>2, <2>5
    <3>3. Following(M, b) = Following(L, b)
      BY <2>5 DEF Following
    <3>4. Leaving(M, b) <=> Leaving(L, b)
      BY <2>5 DEF Leaving
    <3>5. AtOnce(t, M)[b] = AtOnce(t, L)[b]
      <4> HIDE DEF M
      <4> QED
        BY <3>2, <3>3, <3>4, ShowsTheSame
    <3> QED
      BY <3>1, <3>5 DEF A
  <2> QED
    BY <2>2, <2>3, <2>4, <2>5
<1>7. N = [b \in Addresses |-> N[b]]
  BY DEF Moved
<1> HIDE DEF N, M
<1>8. N = AtOnce(t, M)
  BY <1>6, <1>7, AtOnceIs
<1> QED
  BY <1>8 DEF N, M, A

-----------------------------------------------------------------------------
(* The replay so far.                                                      *)

LeddMoves(act) == {i \in MovedLegs(act) : IsLedd(ops[i].target)}

SectionMoves(act) == {i \in MovedLegs(act) : ~IsLedd(ops[i].target)}

MovedBy(t, ledds, sections) == AtOnce(AtOnce(t, ledds), sections)

\* What is answered has been applied.
AnswersInTurn ==
    \A i \in Places : answers[i] # NoAnswer => \E n \in 1..done : emitted[n] = i

\* What was moved was not refused for its address.
MovesAreProvable ==
    \A i \in Places : IsLeg(i) /\ answers[i] \in {"landed", "cleared"} => ~Unprovable(i)

\* While legs of an act are applied the law is as if they moved at once.
MovedSoFar ==
    \A act, t, ledds, sections :
        /\ done > 0 /\ IsLeg(emitted[done]) /\ ops[emitted[done]].act = act
        /\ t = base /\ ledds = LeddMoves(act) /\ sections = SectionMoves(act)
        => /\ law = MovedBy(t, ledds, sections)
           /\ \A i \in ledds : t[ops[i].target] # NoText

MovingInv == ReplayInv /\ KindsInTurn /\ AnswersInTurn /\ MovesAreProvable /\ MovedSoFar

\* The same legs make the same of the same law.
LEMMA MovedByStays ==
    ASSUME ops' = ops, NEW t, NEW ledds, NEW sections
    PROVE  MovedBy(t, ledds, sections)' = MovedBy(t, ledds, sections)
BY DEF MovedBy, AtOnce, PlaceOf, Stands, Parent, Under, IsLedd

\* Where the operations and the law are the same, so is what has moved.
LEMMA MovesStay ==
    ASSUME UNCHANGED <<orderVars, answers>>, NEW act
    PROVE  /\ MovedLegs(act)' = MovedLegs(act)
           /\ LeddMoves(act)' = LeddMoves(act)
           /\ SectionMoves(act)' = SectionMoves(act)
BY DEF MovedLegs, LeddMoves, SectionMoves, EmittedLegs, Emitted, IsLeg, IsLedd, orderVars

LEMMA MovedSoFarStays ==
    ASSUME MovedSoFar, UNCHANGED <<orderVars, answers, law, done, base>>
    PROVE  MovedSoFar'
<1>1. ops' = ops /\ emitted' = emitted
  BY DEF orderVars
<1>2. SUFFICES ASSUME NEW act, NEW t, NEW ledds, NEW sections,
                      done > 0, IsLeg(emitted[done]), ops[emitted[done]].act = act,
                      t = base, ledds = LeddMoves(act), sections = SectionMoves(act)
               PROVE  /\ law = MovedBy(t, ledds, sections)'
                      /\ \A i \in ledds : t[ops[i].target] # NoText
  BY <1>1, MovesStay DEF MovedSoFar, IsLeg
<1>3. MovedBy(t, ledds, sections)' = MovedBy(t, ledds, sections)
  BY <1>1, MovedByStays
<1> QED
  BY <1>2, <1>3 DEF MovedSoFar

\* The verdicts on what has moved stay.
LEMMA MovesStayProvable ==
    ASSUME MovesAreProvable, UNCHANGED <<orderVars, answers>>
    PROVE  MovesAreProvable'
<1>1. \A i : Unprovable(i)' <=> Unprovable(i)
  BY VerdictStays
<1> QED
  BY <1>1 DEF MovesAreProvable, IsLeg, orderVars

\* What holds of a leg that has moved when another of its act has its turn.
LEMMA MovedBefore ==
    ASSUME MovingInv, Apply, IsLeg(Turn), NEW j \in MovedLegs(ops[Turn].act)
    PROVE  /\ j \in Places /\ j \in Emitted /\ IsLeg(j) /\ ops[j].act = ops[Turn].act
           /\ ops[j].target \in Addresses /\ ops[j].destination \in Addresses
           /\ IsLedd(ops[j].target) <=> IsLedd(ops[j].destination)
           /\ ~FirstLeg(Turn)
           /\ ops[j].target # ops[Turn].target
           /\ ops[j].destination # ops[Turn].target
           /\ ~Unprovable(Turn) => ops[j].destination # ops[Turn].destination
           /\ IsLedd(ops[Turn].target) => IsLedd(ops[j].target)
<1> DEFINE i == Turn
           n == done + 1
<1>1. /\ i = emitted[n] /\ done \in Nat /\ n \in 1..Len(emitted)
      /\ DOMAIN emitted = 1..Len(emitted) /\ Len(emitted) \in Nat /\ ops \in Programs
      /\ i \in Places /\ i \in Emitted
  BY TurnIsEmitted DEF MovingInv, ReplayInv, Turn
<1>2. /\ j \in Emitted /\ IsLeg(j) /\ ops[j].act = ops[i].act
      /\ answers[j] \in {"landed", "cleared"}
  BY DEF MovedLegs, EmittedLegs
<1>3. j \in Places
  BY <1>2, PlacesOnly DEF MovingInv, ReplayInv, OrderingInv, OrderedInv
<1>4. ~Unprovable(j)
  BY <1>2, <1>3 DEF MovingInv, MovesAreProvable
<1>5. PICK m \in 1..done : emitted[m] = j
  <2>1. NoAnswer \notin {"landed", "cleared"}
    BY ReplayAssumption DEF Answers
  <2> QED
    BY <1>2, <1>3, <2>1 DEF MovingInv, AnswersInTurn
<1>6. m \in 1..Len(emitted) /\ m # n /\ m \in 1..(n - 1)
  BY <1>1, <1>5
<1>7. i # j
  BY <1>1, <1>5, <1>6 DEF MovingInv, ReplayInv, OrderingInv, OrderedInv, OrderInv, IsInjective
<1>8. ops[j].target # ops[i].target
  BY <1>1, <1>2, <1>7 DEF MovingInv, ReplayInv, OrderingInv, TargetsOnce
<1>9. ops[j].destination # ops[i].target
  <2> SUFFICES ASSUME ops[j].destination = ops[i].target
               PROVE  FALSE
    OBVIOUS
  <2>1. WaitsFor(j, i)
    BY <1>1, <1>2 DEF WaitsFor, SameAct
  <2>2. ~InCircle(j)
    BY <1>2, <1>4, CircleIsRefused, NothingIsVisited DEF Apply, Ordered
  <2>3. PICK h \in 1..(m - 1) : WaitsFor(j, emitted[h])
    BY <1>1, <1>2, <1>5, <1>6, <2>1, <2>2
       DEF MovingInv, ReplayInv, OrderingInv, OrderedInv, VacatedFirst
  <2>4. h \in 1..Len(emitted) /\ h # n
    BY <1>1, <1>5, <2>3
  <2>5. emitted[h] \in Emitted
    BY <1>1, <2>4 DEF Emitted
  <2>6. IsLeg(emitted[h]) /\ ops[emitted[h]].act = ops[i].act /\ ops[emitted[h]].target = ops[i].target
    BY <1>2, <2>3 DEF WaitsFor, SameAct
  <2>7. emitted[h] = i
    BY <1>1, <2>5, <2>6 DEF MovingInv, ReplayInv, OrderingInv, TargetsOnce
  <2> QED
    BY <1>1, <2>4, <2>7 DEF MovingInv, ReplayInv, OrderingInv, OrderedInv, OrderInv, IsInjective
<1>10. ~FirstLeg(i)
  <2>1. done # 0 /\ done \in 1..Len(emitted)
    BY <1>1, <1>5
  <2>2. i \in SameAct(j) /\ emitted[m] = j
    BY <1>1, <1>2, <1>5 DEF SameAct
  <2>3. emitted[done] \in SameAct(j)
    <3> SUFFICES ASSUME emitted[done] \notin SameAct(j)
                 PROVE  FALSE
      OBVIOUS
    <3>1. m # done
      BY <1>2, <1>3, <1>5 DEF SameAct
    <3>2. m \in 1..(done - 1)
      BY <1>1, <1>5, <3>1
    <3>3. i \in dropped \/ \E h \in 1..(done - 1) : emitted[h] = i
      BY <1>1, <1>2, <2>1, <2>2, <3>2 DEF MovingInv, ReplayInv, OrderingInv, LegsTogether
    <3>4. i \notin dropped
      BY <1>1 DEF MovingInv, ReplayInv, OrderingInv, OrderedInv, OrderInv
    <3>5. PICK h \in 1..(done - 1) : emitted[h] = i
      BY <3>3, <3>4
    <3>6. h \in 1..Len(emitted) /\ h # n
      BY <1>1, <2>1, <3>5
    <3> QED
      BY <1>1, <3>5, <3>6 DEF MovingInv, ReplayInv, OrderingInv, OrderedInv, OrderInv, IsInjective
  <2> QED
    BY <1>2, <2>1, <2>3 DEF FirstLeg, SameAct
<1>11. ~Unprovable(i) => ops[j].destination # ops[i].destination
  <2>1. j \in SameAct(i)
    BY <1>2, <1>3 DEF SameAct
  <2> QED
    BY <1>1, <1>2, <1>8, <2>1, ContestedIsRefused
<1>12. IsLedd(ops[i].target) => IsLedd(ops[j].target)
  <2> SUFFICES ASSUME IsLedd(ops[i].target), ~IsLedd(ops[j].target)
               PROVE  FALSE
    OBVIOUS
  <2>1. n < m
    BY <1>1, <1>2, <1>5, <1>6 DEF MovingInv, KindsInTurn, LeddsFirst
  <2> QED
    BY <1>1, <1>5, <2>1
<1>13. /\ ops[j].target \in Addresses /\ ops[j].destination \in Addresses
       /\ IsLedd(ops[j].target) <=> IsLedd(ops[j].destination)
  BY <1>1, <1>2, <1>3, OpAddresses
<1> QED
  BY <1>2, <1>3, <1>8, <1>9, <1>10, <1>11, <1>12, <1>13

\* Before a leg its act has moved what it moved, from the law it found.
LEMMA BeforeTheLeg ==
    ASSUME MovingInv, Apply, IsLeg(Turn), NEW t, t = IF FirstLeg(Turn) THEN law ELSE base,
           NEW ledds, ledds = LeddMoves(ops[Turn].act),
           NEW sections, sections = SectionMoves(ops[Turn].act)
    PROVE  /\ law = MovedBy(t, ledds, sections)
           /\ \A j \in ledds : t[ops[j].target] # NoText
<1>1. CASE FirstLeg(Turn)
  <2>1. ledds = {} /\ sections = {} /\ t = law
    BY <1>1, MovedBefore DEF LeddMoves, SectionMoves
  <2>2. t = [b \in Addresses |-> t[b]]
    BY <2>1 DEF MovingInv, ReplayInv, ReplayTypes, Law
  <2>3. t = AtOnce(t, {})
    BY <2>2, NobodyMoves
  <2> QED
    BY <2>1, <2>3 DEF MovedBy
<1>2. CASE ~FirstLeg(Turn)
  <2>1. done # 0 /\ IsLeg(emitted[done]) /\ ops[emitted[done]].act = ops[Turn].act /\ t = base
    BY <1>2 DEF FirstLeg
  <2>2. done > 0
    BY <2>1, TurnIsEmitted DEF MovingInv, ReplayInv
  <2> QED
    BY <2>1, <2>2 DEF MovingInv, MovedSoFar
<1> QED
  BY <1>1, <1>2

\* No leg takes a ledd from under the root of the body.
NoLegFromRoot ==
    \A p \in Programs : \A i \in DOMAIN p :
        p[i].action = "RENUMBER" /\ IsLedd(p[i].target) => p[i].target[1] # 0

\* A leg that finds what it is to move moves it together with the others.
LEMMA LegMovesToo ==
    ASSUME NoLegFromRoot, MovingInv, Apply, IsLeg(Turn), ~Unprovable(Turn),
           NEW f, f = ops[Turn].target, NEW d, d = ops[Turn].destination, Stands(law, f),
           NEW u, u = law \/ (~IsLedd(d) /\ u = Without(law, d)),
           NEW place, place = PlaceOf(Without(u, f), d), ~Stands(Without(u, f), place),
           NEW t, t = IF FirstLeg(Turn) THEN law ELSE base,
           NEW ledds, ledds = LeddMoves(ops[Turn].act),
           NEW sections, sections = SectionMoves(ops[Turn].act)
    PROVE  /\ IsLedd(f) => /\ Moved(u, f, place) = MovedBy(t, ledds \cup {Turn}, sections)
                           /\ t[f] # NoText
           /\ ~IsLedd(f) => Moved(u, f, place) = MovedBy(t, ledds, sections \cup {Turn})
<1> DEFINE i == Turn
<1>1. i \in Places /\ i \in Emitted /\ ops \in Programs
  BY TurnIsEmitted DEF MovingInv, ReplayInv
<1>2. f \in Addresses /\ d \in Addresses /\ (IsLedd(f) <=> IsLedd(d))
  BY <1>1, OpAddresses
<1>3. f # d
  BY <1>1, StayingIsRefused, NothingIsVisited DEF Apply, Ordered, Elsewhere
<1>4. law = MovedBy(t, ledds, sections) /\ \A j \in ledds : t[ops[j].target] # NoText
  BY BeforeTheLeg
<1>5. /\ \A j \in ledds \cup sections : j \in MovedLegs(ops[i].act)
      /\ \A j \in ledds : IsLedd(ops[j].target)
      /\ \A j \in sections : ~IsLedd(ops[j].target)
  BY DEF LeddMoves, SectionMoves
<1>6. ASSUME NEW j \in ledds \cup sections
      PROVE  /\ ops[j].target \in Addresses /\ ops[j].destination \in Addresses
             /\ IsLedd(ops[j].target) <=> IsLedd(ops[j].destination)
             /\ ops[j].target # f /\ ops[j].destination # f /\ ops[j].destination # d
             /\ IsLedd(f) => IsLedd(ops[j].target)
  BY <1>5, <1>6, MovedBefore
<1>7. CASE IsLedd(f)
  <2>1. sections = {}
    BY <1>5, <1>6, <1>7
  <2>2. law = AtOnce(t, ledds)
    <3> DEFINE v == AtOnce(t, ledds)
    <3>1. v = [b \in Addresses |-> v[b]]
      BY DEF AtOnce
    <3> HIDE DEF v
    <3>2. v = AtOnce(v, {})
      BY <3>1, NobodyMoves
    <3> QED
      BY <1>4, <2>1, <3>2 DEF MovedBy, v
  <2>3. u = law
    BY <1>2, <1>7
  <2>4. f[1] # 0
    BY <1>1, <1>7 DEF NoLegFromRoot, IsLeg
  <2>5. law[f] = t[f] /\ Moved(law, f, place) = AtOnce(t, ledds \cup {i})
    <3>1. \A j \in ledds : /\ IsLedd(ops[j].target) /\ IsLedd(ops[j].destination)
                           /\ ops[j].target # f /\ ops[j].destination # f
                           /\ t[ops[j].target] # NoText
      BY <1>4, <1>6, <1>7
    <3> HIDE DEF i
    <3> QED
      BY <1>2, <1>3, <1>7, <2>2, <2>3, <2>4, <3>1, OneMoreLedd DEF i
  <2>6. t[f] # NoText
    BY <2>5 DEF Stands
  <2>7. Moved(u, f, place) = MovedBy(t, ledds \cup {i}, {})
    <3> DEFINE v == AtOnce(t, ledds \cup {i})
    <3>1. v = [b \in Addresses |-> v[b]]
      BY DEF AtOnce
    <3> HIDE DEF v
    <3>2. v = AtOnce(v, {})
      BY <3>1, NobodyMoves
    <3> QED
      BY <2>3, <2>5, <3>2 DEF MovedBy, v
  <2> QED
    BY <1>7, <2>1, <2>6, <2>7
<1>8. CASE ~IsLedd(f)
  <2>1. place = d
    BY <1>2, <1>8 DEF PlaceOf
  <2>2. Moved(u, f, place) = Moved(law, f, d)
    BY <1>2, <1>3, <1>8, <2>1, ClearedFirst
  <2>3. Moved(AtOnce(AtOnce(t, ledds), sections), f, d)
            = AtOnce(AtOnce(t, ledds), sections \cup {i})
    <3>1. \A j \in sections :
              /\ ops[j].target \in Addresses /\ ops[j].destination \in Addresses
              /\ ~IsLedd(ops[j].target) /\ ~IsLedd(ops[j].destination)
              /\ ops[j].target # f /\ ops[j].destination # f /\ ops[j].destination # d
      BY <1>5, <1>6
    <3>2. ops[i].target = f /\ ops[i].destination = d
      OBVIOUS
    <3> DEFINE v == AtOnce(t, ledds)
    <3> HIDE DEF v, i
    <3>3. Moved(AtOnce(v, sections), f, d) = AtOnce(v, sections \cup {i})
      BY <1>2, <1>3, <1>8, <3>1, <3>2, OneMoreSection
    <3> QED
      BY <3>3 DEF v
  <2> QED
    BY <1>4, <1>8, <2>2, <2>3 DEF MovedBy
<1> QED
  BY <1>7, <1>8

\* How the turn of a leg ends.
LEMMA HowLegsEnd ==
    ASSUME Apply, IsLeg(Turn)
    PROVE  LET f == ops[Turn].target
               d == ops[Turn].destination
           IN  \/ \E why \in {"unprovable", "unresolved", "occupied"} : Refuse(Turn, why)
               \/ /\ ~Unprovable(Turn) /\ Stands(law, f)
                  /\ \/ Land(Turn, law, "landed")
                     \/ ~IsLedd(d) /\ Land(Turn, Without(law, d), "cleared")
<1>1. Renumber(Turn)
  BY DEF Apply, Repeal, Insert, IsLeg
<1> QED
  BY <1>1 DEF Renumber

\* The operation whose turn it is has no answer, and then it has one.
LEMMA TurnIsAnswered ==
    ASSUME MovingInv, Apply, NEW how, Answer(Turn, how)
    PROVE  /\ answers[Turn] = NoAnswer
           /\ answers'[Turn] = how
           /\ \A i \in Places : i # Turn => answers'[i] = answers[i]
           /\ AnswersInTurn'
           /\ \A act : MovedLegs(act)' =
                  IF how \in {"landed", "cleared"} /\ IsLeg(Turn) /\ act = ops[Turn].act
                  THEN MovedLegs(act) \cup {Turn} ELSE MovedLegs(act)
<1> DEFINE n == done + 1
<1>1. /\ Turn = emitted[n] /\ done \in Nat /\ n \in 1..Len(emitted)
      /\ DOMAIN emitted = 1..Len(emitted) /\ Len(emitted) \in Nat
      /\ Turn \in Places /\ Turn \in Emitted
  BY TurnIsEmitted DEF MovingInv, ReplayInv, Turn
<1>2. answers[Turn] = NoAnswer
  <2> SUFFICES ASSUME answers[Turn] # NoAnswer
               PROVE  FALSE
    OBVIOUS
  <2>1. PICK m \in 1..done : emitted[m] = Turn
    BY <1>1 DEF MovingInv, AnswersInTurn
  <2>2. m \in 1..Len(emitted) /\ m # n
    BY <1>1, <2>1
  <2> QED
    BY <1>1, <2>1, <2>2 DEF MovingInv, ReplayInv, OrderingInv, OrderedInv, OrderInv, IsInjective
<1>3. /\ answers' = [answers EXCEPT ![Turn] = how] /\ done' = n
      /\ ops' = ops /\ emitted' = emitted
  BY DEF Answer, orderVars
<1>4. DOMAIN answers = Places
  BY DEF MovingInv, ReplayInv, ReplayTypes
<1>5. answers'[Turn] = how /\ \A i \in Places : i # Turn => answers'[i] = answers[i]
  BY <1>1, <1>3, <1>4
<1>6. AnswersInTurn'
  <2> SUFFICES ASSUME NEW i \in Places, answers'[i] # NoAnswer
               PROVE  \E m \in 1..n : emitted[m] = i
    BY <1>3 DEF AnswersInTurn
  <2>1. CASE i = Turn
    BY <1>1, <2>1
  <2>2. CASE i # Turn
    <3>1. PICK m \in 1..done : emitted[m] = i
      BY <1>5, <2>2 DEF MovingInv, AnswersInTurn
    <3>2. m \in 1..n
      BY <1>1, <3>1
    <3> QED
      BY <3>1, <3>2
  <2> QED
    BY <2>1, <2>2
<1>7. ASSUME NEW act
      PROVE  MovedLegs(act)' =
                 IF how \in {"landed", "cleared"} /\ IsLeg(Turn) /\ act = ops[Turn].act
                 THEN MovedLegs(act) \cup {Turn} ELSE MovedLegs(act)
  <2>1. EmittedLegs(act)' = EmittedLegs(act) /\ EmittedLegs(act) \subseteq Places
    BY <1>3, PlacesOnly
       DEF EmittedLegs, Emitted, IsLeg, MovingInv, ReplayInv, OrderingInv, OrderedInv
  <2>2. MovedLegs(act)' = {i \in EmittedLegs(act) : answers'[i] \in {"landed", "cleared"}}
    BY <2>1 DEF MovedLegs
  <2>3. NoAnswer \notin {"landed", "cleared"}
    BY ReplayAssumption DEF Answers
  <2>4. Turn \in EmittedLegs(act) <=> IsLeg(Turn) /\ act = ops[Turn].act
    BY <1>1 DEF EmittedLegs
  <2> QED
    BY <1>2, <1>5, <2>1, <2>2, <2>3, <2>4 DEF MovedLegs
<1> QED
  BY <1>2, <1>5, <1>6, <1>7

\* An operation that is answered keeps the law as if its act moved at once.
LEMMA AnswerKeepsMoves ==
    ASSUME NoLegFromRoot, MovingInv, Apply, NEW how, Answer(Turn, how)
    PROVE  MovedSoFar'
<1> DEFINE i == Turn
<1>1. /\ ops' = ops /\ emitted' = emitted /\ done' = done + 1
      /\ base' = IF FirstLeg(i) THEN law ELSE base
  BY DEF Answer, orderVars
<1>2. \A t, ledds, sections : MovedBy(t, ledds, sections)' = MovedBy(t, ledds, sections)
  BY <1>1, MovedByStays
<1>3. SUFFICES ASSUME NEW a, a = ops[i].act, NEW t, NEW ledds, NEW sections,
                      IsLeg(i), t = base',
                      ledds = LeddMoves(a)', sections = SectionMoves(a)'
               PROVE  /\ law' = MovedBy(t, ledds, sections)
                      /\ \A j \in ledds : t[ops[j].target] # NoText
  <2>1. IsLeg(emitted[done])' <=> IsLeg(i)
    BY <1>1 DEF IsLeg, Turn
  <2>2. ops'[emitted'[done']].act = ops[i].act
    BY <1>1 DEF Turn
  <2> QED
    BY <1>1, <1>2, <2>1, <2>2 DEF MovedSoFar
<1>4. t = IF FirstLeg(i) THEN law ELSE base
  BY <1>1, <1>3
<1>5. MovedLegs(a)' = IF how \in {"landed", "cleared"} THEN MovedLegs(a) \cup {i} ELSE MovedLegs(a)
  BY <1>3, TurnIsAnswered
<1>6. /\ ledds = {j \in MovedLegs(a)' : IsLedd(ops[j].target)}
      /\ sections = {j \in MovedLegs(a)' : ~IsLedd(ops[j].target)}
  BY <1>1, <1>3 DEF LeddMoves, SectionMoves, IsLedd
<1>7. CASE \E why \in {"unprovable", "unresolved", "occupied"} : Refuse(i, why)
  <2>1. law' = law /\ how \notin {"landed", "cleared"}
    BY <1>7, TurnIsAnswered DEF Refuse
  <2>2. ledds = LeddMoves(a) /\ sections = SectionMoves(a)
    BY <1>5, <1>6, <2>1 DEF LeddMoves, SectionMoves
  <2> QED
    BY <1>3, <1>4, <2>1, <2>2, BeforeTheLeg
<1>8. ASSUME NEW u, NEW word \in {"landed", "cleared"}, Land(i, u, word),
             ~Unprovable(i), Stands(law, ops[i].target),
             u = law \/ (~IsLedd(ops[i].destination) /\ u = Without(law, ops[i].destination))
      PROVE  /\ law' = MovedBy(t, ledds, sections)
             /\ \A j \in ledds : t[ops[j].target] # NoText
  <2> DEFINE f == ops[i].target
             d == ops[i].destination
             place == PlaceOf(Without(u, f), d)
             ledds0 == LeddMoves(a)
             sections0 == SectionMoves(a)
  <2>1. ~aborted'
    BY DEF Answer, Apply
  <2>2. ~Stands(Without(u, f), place) /\ law' = Moved(u, f, place) /\ Answer(i, word)
    BY <1>8, <2>1 DEF Land
  <2>3. how = word
    BY <2>2, TurnIsAnswered
  <2>4. /\ IsLedd(f) => /\ Moved(u, f, place) = MovedBy(t, ledds0 \cup {i}, sections0)
                        /\ t[f] # NoText
        /\ ~IsLedd(f) => Moved(u, f, place) = MovedBy(t, ledds0, sections0 \cup {i})
    BY <1>3, <1>4, <1>8, <2>2, LegMovesToo
  <2>5. \A j \in ledds0 : t[ops[j].target] # NoText
    BY <1>3, <1>4, BeforeTheLeg
  <2>6. CASE IsLedd(f)
    <3>1. ledds = ledds0 \cup {i} /\ sections = sections0
      BY <1>5, <1>6, <2>3, <2>6 DEF LeddMoves, SectionMoves
    <3> QED
      BY <2>2, <2>4, <2>5, <2>6, <3>1
  <2>7. CASE ~IsLedd(f)
    <3>1. ledds = ledds0 /\ sections = sections0 \cup {i}
      BY <1>5, <1>6, <2>3, <2>7 DEF LeddMoves, SectionMoves
    <3> QED
      BY <2>2, <2>4, <2>5, <2>7, <3>1
  <2> QED
    BY <2>6, <2>7
<1> QED
  BY <1>3, <1>7, <1>8, HowLegsEnd

\* And what is moved was not refused.
LEMMA AnswerKeepsProvable ==
    ASSUME MovingInv, Apply, NEW how, Answer(Turn, how)
    PROVE  MovesAreProvable'
<1>1. UNCHANGED orderVars /\ ops' = ops
  BY DEF Answer, orderVars
<1>2. \A i : Unprovable(i)' <=> Unprovable(i)
  BY <1>1, VerdictStays
<1>3. SUFFICES ASSUME NEW i \in Places, IsLeg(i), answers'[i] \in {"landed", "cleared"}
               PROVE  ~Unprovable(i)
  BY <1>1, <1>2 DEF MovesAreProvable, IsLeg
<1>4. CASE i = Turn
  BY <1>3, <1>4, HowLegsEnd, TurnIsAnswered DEF Refuse
<1>5. CASE i # Turn
  <2>1. answers'[i] = answers[i]
    BY <1>5, TurnIsAnswered
  <2> QED
    BY <1>3, <2>1 DEF MovingInv, MovesAreProvable
<1> QED
  BY <1>4, <1>5

\* The invariant holds in the beginning, and is kept.
LEMMA MovingInvInit == Init => MovingInv
<1> SUFFICES ASSUME Init PROVE MovingInv
  OBVIOUS
<1>1. Emitted = {} /\ Visiting = {} /\ DOMAIN emitted = {}
  BY DEF Init, OrderInit, Emitted, Visiting
<1>2. KindsInTurn
  BY <1>1 DEF KindsInTurn, SectionsWait, LeddsFirst
<1>3. \A i \in Places : answers[i] = NoAnswer
  BY DEF Init
<1>4. AnswersInTurn
  BY <1>3 DEF AnswersInTurn
<1>5. MovesAreProvable
  <2>1. NoAnswer \notin {"landed", "cleared"}
    BY ReplayAssumption DEF Answers
  <2> QED
    BY <1>3, <2>1 DEF MovesAreProvable
<1>6. MovedSoFar
  <2>1. ~(done > 0)
    BY DEF Init
  <2> QED
    BY <2>1 DEF MovedSoFar
<1> QED
  BY <1>2, <1>4, <1>5, <1>6, ReplayInvInit DEF MovingInv

\* A step of the ordering, or none.
LEMMA MovingInvOrder ==
    ASSUME MovingInv, ReplayInv', [OrderNext]_orderVars, UNCHANGED replayVars
    PROVE  MovingInv'
<1>1. KindsInTurn'
  BY KeepsKindsInTurn DEF MovingInv, ReplayInv
<1>2. done \in Nat
  <2>1. emitted \in Seq(Places)
    BY DEF MovingInv, ReplayInv, OrderingInv, OrderedInv, OrderInv
  <2>2. Len(emitted) \in Nat
    <3> HIDE DEF Places
    <3> QED
      BY <2>1
  <2> QED
    BY <2>2 DEF MovingInv, ReplayInv, ReplayTypes
<1>3. CASE done > 0
  <2>1. UNCHANGED orderVars
    BY <1>3, OrderingIsOver DEF MovingInv, ReplayInv, ReplayTypes
  <2>2. UNCHANGED <<orderVars, answers, law, done, base>>
    BY <2>1 DEF replayVars
  <2>3. MovedSoFar' /\ MovesAreProvable'
    BY <2>2, MovedSoFarStays, MovesStayProvable DEF MovingInv
  <2>4. AnswersInTurn'
    BY <2>2 DEF MovingInv, AnswersInTurn, orderVars
  <2> QED
    BY <1>1, <2>3, <2>4 DEF MovingInv
<1>4. CASE done = 0
  <2>1. ops' = ops /\ done' = 0 /\ answers' = answers
    BY <1>4, StepAdds DEF MovingInv, ReplayInv, replayVars
  <2>2. \A i \in Places : answers[i] = NoAnswer
    BY <1>4 DEF MovingInv, AnswersInTurn
  <2>3. AnswersInTurn'
    BY <2>1, <2>2 DEF AnswersInTurn
  <2>4. MovesAreProvable'
    <3>1. NoAnswer \notin {"landed", "cleared"}
      BY ReplayAssumption DEF Answers
    <3> QED
      BY <2>1, <2>2, <3>1 DEF MovesAreProvable
  <2>5. MovedSoFar'
    <3>1. ~(done' > 0)
      BY <2>1
    <3> QED
      BY <3>1 DEF MovedSoFar
  <2> QED
    BY <1>1, <2>3, <2>4, <2>5 DEF MovingInv
<1> QED
  BY <1>2, <1>3, <1>4

\* An operation that is applied.
LEMMA MovingInvApply ==
    ASSUME NoLegFromRoot, MovingInv, ReplayInv', Apply
    PROVE  MovingInv'
<1>1. \/ \E how \in Answers : Answer(Turn, how)
      \/ UNCHANGED <<orderVars, law, done, answers, base>>
  BY ApplyAnswers
<1>2. UNCHANGED orderVars
  BY <1>1 DEF Answer
<1>3. KindsInTurn'
  BY <1>2, KeepsKindsInTurn DEF MovingInv, ReplayInv
<1>4. CASE \E how \in Answers : Answer(Turn, how)
  BY <1>3, <1>4, TurnIsAnswered, AnswerKeepsMoves, AnswerKeepsProvable DEF MovingInv
<1>5. CASE UNCHANGED <<orderVars, law, done, answers, base>>
  <2>1. MovedSoFar' /\ MovesAreProvable'
    BY <1>5, MovedSoFarStays, MovesStayProvable DEF MovingInv
  <2>2. AnswersInTurn'
    BY <1>5 DEF MovingInv, AnswersInTurn, orderVars
  <2> QED
    BY <1>3, <2>1, <2>2 DEF MovingInv
<1> QED
  BY <1>1, <1>4, <1>5

(***************************************************************************)
(* The legs of an act, replayed one after the other, leave the law that    *)
(* moving all of them at once would have left, whichever were refused or   *)
(* found nothing to move, for acts that take no stray from under the root. *)
(***************************************************************************)
THEOREM LegsAreOneRelabelling ==
    ASSUME NoLegFromRoot
    PROVE  Spec => []LegsMoveAtOnce
<1>1. MovingInv /\ ReplayInv' /\ [Next]_vars => MovingInv'
  <2> SUFFICES ASSUME MovingInv, ReplayInv', [Next]_vars PROVE MovingInv'
    OBVIOUS
  <2>1. CASE Order
    BY <2>1, MovingInvOrder DEF Order
  <2>2. CASE Apply
    BY <2>2, MovingInvApply
  <2>3. CASE UNCHANGED vars
    BY <2>3, MovingInvOrder DEF vars
  <2> QED
    BY <2>1, <2>2, <2>3 DEF Next
<1>2. MovingInv => LegsMoveAtOnce
  <2> SUFFICES ASSUME MovingInv, done > 0, IsLeg(emitted[done])
               PROVE  LET act == ops[emitted[done]].act
                      IN  law = MovedBy(base, LeddMoves(act), SectionMoves(act))
    BY DEF LegsMoveAtOnce, MovedBy, LeddMoves, SectionMoves
  <2> QED
    BY DEF MovingInv, MovedSoFar
<1> QED
  BY <1>1, <1>2, MovingInvInit, ReplayInvariant, PTL DEF Spec

=============================================================================
