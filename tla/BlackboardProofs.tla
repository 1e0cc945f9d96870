---------------------------- MODULE BlackboardProofs ----------------------------
(***************************************************************************)
(* What the blackboard composer promises, for any regions, sources and     *)
(* budget: types, one owner for each node, no decision lost for nothing,   *)
(* and no fixpoint with a conflict unseen.                                 *)
(***************************************************************************)
EXTENDS BlackboardLaws, SequenceTheorems, FiniteSetTheorems, TLAPS

Rounds == {"detect", "schedule"}

\* Until the rounds are over there is no result, and a next round only if
\* the budget has one.
RoundsRun ==
    /\ phase = "detect" => round < MaxRounds
    /\ phase \in Rounds => ending = "none" /\ ledger = <<>> /\ owned = {} /\ emitted = <<>> /\ next = 1

\* Whoever is scheduled sees every conflict.
ConflictsMarked ==
    phase = "schedule" \/ ending = "fixpoint" => InConflict \subseteq Contested

\* The nodes that are owned are those of the ledger's claims.
OwnedIsClaimed ==
    /\ \A c \in DOMAIN ledger : ledger[c].nodes \subseteq owned
    /\ \A x \in owned : \E c \in DOMAIN ledger : x \in ledger[c].nodes

\* A claim of the ledger stands for a decision that has had its turn.
ClaimsHadTheirTurn ==
    phase = "promote" => \A c \in DOMAIN ledger : ledger[c].by \in 1..(next - 1)

\* And every decision that has had its turn was heard.
TurnsAreHeard ==
    /\ phase = "promote" => \A i \in DOMAIN decisions : i < next => Overtaken(i)
    /\ DecisionsAreHeard

BlackboardInv ==
    /\ TypeOK /\ RoundsRun /\ ConflictsMarked
    /\ OwnedIsClaimed /\ OneOwner
    /\ ClaimsHadTheirTurn /\ TurnsAreHeard

-----------------------------------------------------------------------------
\* What was heard stays heard while the ledger grows.
LEMMA HeardStays ==
    ASSUME NEW i, Overtaken(i), marks' = marks, decisions' = decisions,
           \A c \in DOMAIN ledger : c \in DOMAIN ledger' /\ ledger'[c] = ledger[c]
    PROVE  Overtaken(i)'
  BY DEF Overtaken, Contested

\* A claim to free nodes keeps the ledger's claims apart.
LEMMA OwningKeepsApart ==
    ASSUME TypeOK, OwnedIsClaimed, Disjoint(ledger),
           NEW claim \in Claim, Own(claim), Free(claim.nodes)
    PROVE  /\ ledger' \in Seq(Claim) /\ owned' \subseteq UNION Regions
           /\ OwnedIsClaimed' /\ Disjoint(ledger)'
           /\ DOMAIN ledger' = 1..(Len(ledger) + 1)
           /\ \A c \in DOMAIN ledger : c \in DOMAIN ledger' /\ ledger'[c] = ledger[c]
           /\ ledger'[Len(ledger) + 1] = claim
<1>1. ledger \in Seq(Claim) /\ ledger' = Append(ledger, claim) /\ owned' = owned \cup claim.nodes
  BY DEF TypeOK, Own
<1>2. /\ ledger' \in Seq(Claim) /\ DOMAIN ledger' = 1..(Len(ledger) + 1)
      /\ DOMAIN ledger = 1..Len(ledger) /\ Len(ledger) \in Nat
      /\ \A c \in 1..Len(ledger) : ledger'[c] = ledger[c]
      /\ ledger'[Len(ledger) + 1] = claim
  BY <1>1
<1>3. owned' \subseteq UNION Regions
  <2>1. claim.nodes \subseteq UNION Regions
    BY DEF Claim
  <2> QED
    BY <1>1, <2>1 DEF TypeOK
<1>4. \A c \in DOMAIN ledger' : c \in DOMAIN ledger \/ c = Len(ledger) + 1
  BY <1>2
<1>5. OwnedIsClaimed'
  BY <1>1, <1>2, <1>4 DEF OwnedIsClaimed
<1>6. Disjoint(ledger)'
  <2> SUFFICES ASSUME NEW i \in DOMAIN ledger', NEW j \in DOMAIN ledger', i # j
               PROVE  ledger'[i].nodes \cap ledger'[j].nodes = {}
    BY DEF Disjoint
  <2>1. \A c \in DOMAIN ledger : ledger'[c].nodes \cap claim.nodes = {}
    BY <1>2 DEF OwnedIsClaimed, Free
  <2>2. CASE i \in DOMAIN ledger /\ j \in DOMAIN ledger
    BY <1>2, <2>2 DEF Disjoint
  <2>3. CASE i = Len(ledger) + 1 /\ j \in DOMAIN ledger
    BY <1>2, <2>1, <2>3
  <2>4. CASE i \in DOMAIN ledger /\ j = Len(ledger) + 1
    BY <1>2, <2>1, <2>4
  <2> QED
    BY <1>4, <2>2, <2>3, <2>4
<1> QED
  BY <1>2, <1>3, <1>5, <1>6

\* The regions that are live, contested or in conflict are regions.
LEMMA LiveAreRegions ==
    ASSUME TypeOK
    PROVE  Live \subseteq Regions /\ InConflict \subseteq Regions
<1>1. \A m \in marks : m.region \in Regions
  BY DEF TypeOK, Mark
<1>2. \A d \in Journal : d.region \in Regions
  <2>1. decisions \in Seq(Decision)
    BY DEF TypeOK
  <2>2. \A i \in DOMAIN decisions : decisions[i] \in Decision
    BY <2>1
  <2> QED
    BY <2>2 DEF Journal, Decision
<1> QED
  BY <1>1, <1>2 DEF Live, InConflict, Decided

\* What is contested and in conflict is read off the board.
LEMMA SameBoardSameConflicts ==
    ASSUME UNCHANGED board
    PROVE  UNCHANGED <<InConflict, Contested>>
<1>1. decisions' = decisions /\ marks' = marks
  BY DEF board
<1>2. Journal' = Journal
  BY <1>1 DEF Journal
<1>3. Decided' = Decided
  BY <1>2 DEF Decided
<1>4. InConflict' = InConflict
  BY <1>2, <1>3 DEF InConflict
<1>5. Contested' = Contested
  BY <1>1 DEF Contested
<1> QED
  BY <1>4, <1>5

\* The fallback is a ledger of claims that are apart.
LEMMA FallbackIsApart == Fallback \in Seq(Claim) /\ Disjoint(Fallback)
<1>1. Chains \in Seq(SUBSET UNION Regions)
  BY BlackboardAssumption
<1>2. /\ DOMAIN Chains = 1..Len(Chains) /\ Len(Chains) \in Nat
      /\ \A i \in DOMAIN Chains : Chains[i] \in SUBSET UNION Regions
  BY <1>1
<1>3. \A i \in DOMAIN Chains : Rejoin(i) \in Claim
  BY <1>2 DEF Rejoin, Claim
<1>4. Fallback \in [1..Len(Chains) -> Claim]
  BY <1>2, <1>3 DEF Fallback
<1>5. Fallback \in Seq(Claim)
  BY <1>2, <1>4
<1>6. \A i \in DOMAIN Fallback : i \in DOMAIN Chains /\ Fallback[i].nodes = Chains[i]
  BY DEF Fallback, Rejoin
<1> QED
  BY <1>5, <1>6, BlackboardAssumption DEF Disjoint

-----------------------------------------------------------------------------
\* The invariant holds when the workspace is seeded.
LEMMA BlackboardInit == Init => BlackboardInv
<1> SUFFICES ASSUME Init PROVE BlackboardInv
  OBVIOUS
<1>1. PICK seed \in Seeds :
          marks = {[kind |-> s.kind, region |-> s.region, producer |-> Preseed] : s \in seed}
  BY DEF Init
<1>2. seed \subseteq [kind : {"candidate", "open", "garble"}, region : Regions]
  BY <1>1, BlackboardAssumption
<1>3. marks \subseteq Mark
  BY <1>1, <1>2 DEF Mark, MarkKinds, Preseed
<1>4. TypeOK
  <2>1. decisions \in Seq(Decision) /\ ledger \in Seq(Claim) /\ emitted \in Seq(Claim)
    BY DEF Init
  <2>2. widened \in [Regions -> SUBSET Pages]
    BY DEF Init
  <2>3. expansions \in 0..MaxExpansions /\ round \in 0..MaxRounds /\ next \in Nat \ {0}
    BY BlackboardAssumption DEF Init
  <2> QED
    BY <1>3, <2>1, <2>2, <2>3 DEF Init, TypeOK, Phases
<1>5. RoundsRun /\ ConflictsMarked /\ OwnedIsClaimed /\ ClaimsHadTheirTurn
  BY BlackboardAssumption
  DEF Init, RoundsRun, ConflictsMarked, OwnedIsClaimed, ClaimsHadTheirTurn
<1>6. OneOwner /\ TurnsAreHeard
  BY DEF Init, OneOwner, Disjoint, TurnsAreHeard, DecisionsAreHeard
<1> QED
  BY <1>4, <1>5, <1>6 DEF BlackboardInv

\* Where the result is untouched and the rounds run on or end, the result's
\* part of the invariant holds.
LEMMA RoundsLeaveResult ==
    ASSUME BlackboardInv, TypeOK', phase \in Rounds, UNCHANGED result,
           phase' \in Rounds \cup {"promote"}
    PROVE  OwnedIsClaimed' /\ OneOwner' /\ ClaimsHadTheirTurn' /\ TurnsAreHeard'
<1>1. ledger' = <<>> /\ owned' = {} /\ emitted' = <<>> /\ next' = 1
  BY DEF BlackboardInv, RoundsRun, result
<1>2. OwnedIsClaimed' /\ OneOwner' /\ ClaimsHadTheirTurn'
  BY <1>1 DEF OwnedIsClaimed, OneOwner, Disjoint, ClaimsHadTheirTurn
<1>3. TurnsAreHeard'
  <2>1. DecisionsAreHeard'
    BY DEF DecisionsAreHeard, Rounds
  <2>2. (phase = "promote" => \A i \in DOMAIN decisions : i < next => Overtaken(i))'
    <3>1. decisions' \in Seq(Decision)
      BY DEF TypeOK
    <3>2. DOMAIN decisions' = 1..Len(decisions') /\ Len(decisions') \in Nat
      BY <3>1
    <3>3. \A i \in DOMAIN decisions' : ~(i < next')
      BY <1>1, <3>2
    <3> QED
      BY <3>3
  <2> QED
    BY <2>1, <2>2 DEF TurnsAreHeard
<1> QED
  BY <1>2, <1>3
\* How a round may end.
LEMMA RoundEnds ==
    ASSUME NEW moved \in BOOLEAN, EndRound(moved), TypeOK
    PROVE  /\ phase' \in {"detect", "promote"} /\ ending' \in {ending, "fixpoint", "budget_exhausted"}
           /\ phase' = "detect" => ending' = ending /\ round < MaxRounds
           /\ moved => ending' \in {ending, "budget_exhausted"}
  BY BlackboardAssumption DEF EndRound, End, TypeOK

\* Detecting conflicts.
LEMMA DetectKeeps ==
    ASSUME BlackboardInv, Detect
    PROVE  BlackboardInv'
<1>1. TypeOK /\ RoundsRun /\ phase = "detect"
  BY DEF BlackboardInv, Detect
<1>2. TypeOK'
  <2>1. Contests \subseteq Mark
    BY <1>1, LiveAreRegions DEF Contests, Mark, MarkKinds, Detector
  <2>2. round' \in 0..MaxRounds
    BY <1>1, BlackboardAssumption DEF RoundsRun, TypeOK, Detect
  <2>3. phase' \in Phases /\ ending' \in {"none", "fixpoint", "budget_exhausted"}
    BY <1>1 DEF Detect, End, TypeOK, Phases
  <2> QED
    BY <1>1, <2>1, <2>2, <2>3 DEF TypeOK, Detect, result
<1>3. phase' \in {"schedule", "promote"} /\ (phase' = "schedule" => ending' = "none")
  BY <1>1 DEF Detect, End, RoundsRun, Rounds
<1>4. RoundsRun'
  BY <1>1, <1>3 DEF RoundsRun, Rounds, Detect, result
<1>5. ConflictsMarked'
  <2>1. InConflict' = InConflict
    BY DEF Detect, InConflict, Decided, Journal
  <2>2. \A r \in InConflict : r \in Contested'
    <3> SUFFICES ASSUME NEW r \in InConflict PROVE r \in Contested'
      OBVIOUS
    <3> DEFINE m == [kind |-> "contested", region |-> r, producer |-> Detector]
    <3>1. m \in marks' /\ m.kind = "contested" /\ m.region = r
      BY DEF Detect, Contests
    <3> HIDE DEF m
    <3> QED
      BY <3>1 DEF Contested
  <2> QED
    BY <2>1, <2>2 DEF ConflictsMarked
<1>6. UNCHANGED result
  BY DEF Detect
<1> QED
  BY <1>1, <1>2, <1>3, <1>4, <1>5, <1>6, RoundsLeaveResult DEF BlackboardInv, Rounds

\* No source wants the region.
LEMMA DeclineKeeps ==
    ASSUME BlackboardInv, Decline
    PROVE  BlackboardInv'
<1>1. TypeOK /\ RoundsRun /\ ConflictsMarked /\ phase = "schedule" /\ added \in BOOLEAN
  BY DEF BlackboardInv, Decline, TypeOK
<1>2. /\ phase' \in {"detect", "promote"} /\ ending' \in {ending, "fixpoint", "budget_exhausted"}
      /\ phase' = "detect" => ending' = ending /\ round < MaxRounds
  BY <1>1, RoundEnds DEF Decline
<1>3. TypeOK'
  BY <1>1, <1>2 DEF TypeOK, Decline, board, result, Phases
<1>4. RoundsRun'
  BY <1>1, <1>2 DEF RoundsRun, Rounds, Decline, result
<1>5. ConflictsMarked'
  BY <1>1 DEF ConflictsMarked, Decline, board, InConflict, Contested, Decided, Journal
<1>6. UNCHANGED result
  BY DEF Decline
<1> QED
  BY <1>1, <1>2, <1>3, <1>4, <1>5, <1>6, RoundsLeaveResult DEF BlackboardInv, Rounds

\* A source has been run.
LEMMA RunSourceKeeps ==
    ASSUME BlackboardInv, NEW s \in Sources, RunSource(s)
    PROVE  BlackboardInv'
<1>1. TypeOK /\ RoundsRun /\ ConflictsMarked /\ phase = "schedule" /\ ending = "none"
  BY DEF BlackboardInv, RunSource, RoundsRun, Rounds
<1>2. PICK r \in Regions, asks \in SUBSET Asked, n \in {k \in 0..MaxPosted : k <= Room} :
      \E ds \in Reply(s, n), said \in Raise(s) :
           /\ Expand(r)
           /\ decisions' = decisions \o ds
           /\ marks' = marks \cup said
                             \cup {[kind |-> a, region |-> r, producer |-> Affordance] : a \in asks}
           /\ added' = (added \/ Moved(ds, said))
  BY DEF RunSource
<1>3. PICK ds \in Reply(s, n), said \in Raise(s) :
           /\ Expand(r)
           /\ decisions' = decisions \o ds
           /\ marks' = marks \cup said
                             \cup {[kind |-> a, region |-> r, producer |-> Affordance] : a \in asks}
           /\ added' = (added \/ Moved(ds, said))
  BY <1>2
<1>4. UNCHANGED <<seeded, round>> /\ UNCHANGED result
  BY DEF RunSource
<1>5. added' \in BOOLEAN
  BY <1>3, <1>1 DEF TypeOK, Moved
<1>6. /\ phase' \in {"detect", "promote"} /\ ending' \in {ending, "fixpoint", "budget_exhausted"}
      /\ phase' = "detect" => ending' = ending /\ round < MaxRounds
      /\ added' => ending' \in {ending, "budget_exhausted"}
  <2>1. EndRound(added')
    BY DEF RunSource
  <2> QED
    BY <1>1, <1>5, <2>1, BlackboardAssumption DEF EndRound, End, TypeOK
<1>7. decisions' \in Seq(Decision)
  <2>1. n \in Nat /\ ds \in [1..n -> [op : Ops, region : Regions, producer : {s}] \ Journal]
    BY <1>2, <1>3, BlackboardAssumption DEF Reply
  <2>2. [op : Ops, region : Regions, producer : {s}] \subseteq Decision
    BY DEF Decision
  <2>3. ds \in [1..n -> Decision]
    BY <2>1, <2>2
  <2>4. ds \in Seq(Decision)
    BY <2>1, <2>3
  <2> QED
    BY <1>1, <1>3, <2>4 DEF TypeOK
<1>8. marks' \subseteq Mark /\ marks \subseteq marks'
  <2>1. said \subseteq Mark
    BY BlackboardAssumption DEF Raise, Mark, MarkKinds
  <2>2. {[kind |-> a, region |-> r, producer |-> Affordance] : a \in asks} \subseteq Mark
    BY BlackboardAssumption DEF Mark, MarkKinds, Affordance
  <2> QED
    BY <1>1, <1>3, <2>1, <2>2 DEF TypeOK
<1>9. widened' \in [Regions -> SUBSET Pages] /\ expansions' \in 0..MaxExpansions
  <2>1. PICK k \in 0..MaxExpansions, W \in SUBSET Windows :
            /\ k <= Left
            /\ expansions' = expansions + k
            /\ widened' = [widened EXCEPT ![r] = @ \cup UNION W]
    BY <1>3 DEF Expand
  <2>2. UNION W \subseteq Pages
    BY <2>1 DEF Windows
  <2>3. widened \in [Regions -> SUBSET Pages] /\ expansions \in 0..MaxExpansions
    BY <1>1 DEF TypeOK
  <2>4. widened' \in [Regions -> SUBSET Pages]
    BY <2>1, <2>2, <2>3
  <2> QED
    BY <2>1, <2>3, <2>4, BlackboardAssumption DEF Left
<1>10. TypeOK'
  BY <1>1, <1>4, <1>5, <1>6, <1>7, <1>8, <1>9 DEF TypeOK, result, Phases
<1>11. RoundsRun'
  BY <1>1, <1>4, <1>6 DEF RoundsRun, Rounds, result
<1>12. ConflictsMarked'
  <2> SUFFICES ASSUME ending' = "fixpoint" PROVE InConflict' \subseteq Contested'
    BY <1>6 DEF ConflictsMarked
  <2>1. ds = <<>>
    BY <1>1, <1>3, <1>6 DEF Moved
  <2>2. decisions' = decisions
    BY <1>1, <1>3, <2>1 DEF TypeOK
  <2>3. InConflict' = InConflict
    BY <2>2 DEF InConflict, Decided, Journal
  <2>4. Contested \subseteq Contested'
    BY <1>8 DEF Contested
  <2> QED
    BY <1>1, <2>3, <2>4 DEF ConflictsMarked
<1> QED
  BY <1>1, <1>4, <1>6, <1>10, <1>11, <1>12, RoundsLeaveResult DEF BlackboardInv, Rounds

-----------------------------------------------------------------------------
\* A decision is promoted.
LEMMA PromoteKeeps ==
    ASSUME BlackboardInv, Promote
    PROVE  BlackboardInv'
<1>1. TypeOK /\ OwnedIsClaimed /\ OneOwner /\ ClaimsHadTheirTurn /\ TurnsAreHeard
      /\ ConflictsMarked /\ phase = "promote"
  BY DEF BlackboardInv, Promote
<1>2. next \in 1..Len(decisions) /\ Free(decisions[next].region) /\ next' = next + 1
      /\ UNCHANGED <<board, round, added, phase, ending, exhausted, emitted>>
  BY <1>1 DEF Promote, Promotable, TypeOK
<1>3. DOMAIN decisions = 1..Len(decisions) /\ Len(decisions) \in Nat /\ decisions[next] \in Decision
  BY <1>1, <1>2 DEF TypeOK
<1>4. PICK claim :
          claim = [op |-> decisions[next].op, nodes |-> decisions[next].region, by |-> next]
  OBVIOUS
<1>5. claim \in Claim /\ claim.by = next /\ claim.nodes = decisions[next].region
  BY <1>2, <1>3, <1>4 DEF Claim, Decision
<1>6. /\ ledger' \in Seq(Claim) /\ owned' \subseteq UNION Regions
      /\ OwnedIsClaimed' /\ Disjoint(ledger)'
      /\ DOMAIN ledger' = 1..(Len(ledger) + 1)
      /\ \A c \in DOMAIN ledger : c \in DOMAIN ledger' /\ ledger'[c] = ledger[c]
      /\ ledger'[Len(ledger) + 1] = claim
  <2>1. Own(claim)
    BY <1>4 DEF Promote
  <2>2. Free(claim.nodes)
    BY <1>2, <1>5
  <2> QED
    BY <1>1, <1>5, <2>1, <2>2, OwningKeepsApart DEF OneOwner
<1>7. TypeOK'
  BY <1>1, <1>2, <1>6 DEF TypeOK, board
<1>8. RoundsRun' /\ ConflictsMarked'
  <2>1. phase' = "promote"
    BY <1>1, <1>2
  <2>2. ConflictsMarked'
    BY <1>1, <1>2, SameBoardSameConflicts DEF ConflictsMarked
  <2> QED
    BY <2>1, <2>2 DEF RoundsRun, Rounds
<1>9. OneOwner'
  BY <1>1, <1>2, <1>6 DEF OneOwner, Disjoint
<1>10. DOMAIN ledger = 1..Len(ledger) /\ Len(ledger) \in Nat
  BY <1>1 DEF TypeOK
<1>11. ClaimsHadTheirTurn'
  <2> SUFFICES ASSUME NEW c \in DOMAIN ledger' PROVE ledger'[c].by \in 1..(next' - 1)
    BY DEF ClaimsHadTheirTurn
  <2>1. CASE c \in DOMAIN ledger
    BY <1>1, <1>2, <1>6, <2>1 DEF ClaimsHadTheirTurn
  <2>2. CASE c = Len(ledger) + 1
    BY <1>2, <1>5, <1>6, <2>2
  <2> QED
    BY <1>6, <1>10, <2>1, <2>2
<1>12. TurnsAreHeard'
  <2> SUFFICES ASSUME NEW i \in DOMAIN decisions', i < next' PROVE Overtaken(i)'
    BY <1>1, <1>2 DEF TurnsAreHeard, DecisionsAreHeard
  <2>1. i \in DOMAIN decisions /\ (i < next \/ i = next)
    BY <1>2, <1>3 DEF board
  <2>2. CASE i < next
    <3>1. Overtaken(i)
      BY <1>1, <2>1, <2>2 DEF TurnsAreHeard
    <3> QED
      BY <1>2, <1>6, <3>1, HeardStays DEF board
  <2>3. CASE i = next
    <3>1. decisions'[i] = decisions[next] /\ decisions[next].region # {}
      BY <1>2, <1>3, <2>3, BlackboardAssumption DEF board, Decision
    <3>2. Len(ledger) + 1 \in DOMAIN ledger'
      BY <1>6, <1>10
    <3>3. ledger'[Len(ledger) + 1].by \in 1..i
      BY <1>2, <1>5, <1>6, <2>3
    <3>4. ledger'[Len(ledger) + 1].nodes \cap decisions'[i].region # {}
      BY <1>5, <1>6, <3>1
    <3> QED
      BY <3>2, <3>3, <3>4 DEF Overtaken
  <2> QED
    BY <2>1, <2>2, <2>3
<1> QED
  BY <1>6, <1>7, <1>8, <1>9, <1>11, <1>12 DEF BlackboardInv

\* A decision is passed over.
LEMMA PassOverKeeps ==
    ASSUME BlackboardInv, PassOver
    PROVE  BlackboardInv'
<1>1. TypeOK /\ OwnedIsClaimed /\ OneOwner /\ ClaimsHadTheirTurn /\ TurnsAreHeard
      /\ ConflictsMarked /\ phase = "promote"
  BY DEF BlackboardInv, PassOver
<1>2. next \in 1..Len(decisions) /\ ~Promotable(next) /\ next' = next + 1
      /\ UNCHANGED <<board, round, added, phase, ending, ledger, owned, exhausted, emitted>>
  BY <1>1 DEF PassOver, TypeOK
<1>3. DOMAIN decisions = 1..Len(decisions) /\ Len(decisions) \in Nat
  BY <1>1 DEF TypeOK
<1>4. TypeOK'
  BY <1>1, <1>2 DEF TypeOK, board
<1>5. RoundsRun' /\ ConflictsMarked'
  BY <1>1, <1>2 DEF RoundsRun, Rounds, ConflictsMarked, board, InConflict, Contested, Decided, Journal
<1>6. OwnedIsClaimed' /\ OneOwner'
  BY <1>1, <1>2 DEF OwnedIsClaimed, OneOwner, Disjoint
<1>7. ClaimsHadTheirTurn'
  BY <1>1, <1>2 DEF ClaimsHadTheirTurn
<1>8. Overtaken(next)
  <2>1. CASE Superseded(next)
    BY <1>2, <1>3, <2>1 DEF Superseded, Overtaken
  <2>2. CASE ~Free(decisions[next].region)
    <3>1. PICK x : x \in decisions[next].region /\ x \in owned
      BY <2>2 DEF Free
    <3>2. PICK c \in DOMAIN ledger : x \in ledger[c].nodes
      BY <1>1, <3>1 DEF OwnedIsClaimed
    <3>3. ledger[c].by \in 1..next
      BY <1>1, <1>2, <3>2 DEF ClaimsHadTheirTurn
    <3> QED
      BY <3>1, <3>2, <3>3 DEF Overtaken
  <2> QED
    BY <1>2, <2>1, <2>2 DEF Promotable
<1>9. TurnsAreHeard'
  <2> SUFFICES ASSUME NEW i \in DOMAIN decisions', i < next' PROVE Overtaken(i)'
    BY <1>1, <1>2 DEF TurnsAreHeard, DecisionsAreHeard
  <2>1. i \in DOMAIN decisions /\ (i < next \/ i = next)
    BY <1>2, <1>3 DEF board
  <2>2. Overtaken(i)
    BY <1>1, <1>8, <2>1 DEF TurnsAreHeard
  <2> QED
    BY <1>2, <2>2, HeardStays DEF board
<1> QED
  BY <1>4, <1>5, <1>6, <1>7, <1>9 DEF BlackboardInv

\* The regions that are left are told.
LEMMA ExhaustKeeps ==
    ASSUME BlackboardInv, Exhaust
    PROVE  BlackboardInv'
<1>1. TypeOK /\ OwnedIsClaimed /\ OneOwner /\ TurnsAreHeard /\ ConflictsMarked /\ phase = "promote"
  BY DEF BlackboardInv, Exhaust
<1>2. /\ next > Len(decisions) /\ exhausted' = Live /\ phase' = "residue" /\ next' = 1
      /\ UNCHANGED <<board, round, added, ending, ledger, owned, emitted>>
  BY DEF Exhaust
<1>3. TypeOK'
  BY <1>1, <1>2, LiveAreRegions DEF TypeOK, board, Phases
<1>4. RoundsRun' /\ ConflictsMarked' /\ ClaimsHadTheirTurn'
  <2>1. ConflictsMarked'
    BY <1>1, <1>2, SameBoardSameConflicts DEF ConflictsMarked
  <2> QED
    BY <1>2, <2>1 DEF RoundsRun, Rounds, ClaimsHadTheirTurn
<1>5. OwnedIsClaimed' /\ OneOwner'
  BY <1>1, <1>2 DEF OwnedIsClaimed, OneOwner, Disjoint
<1>6. TurnsAreHeard'
  <2> SUFFICES ASSUME NEW i \in DOMAIN decisions' PROVE Overtaken(i)'
    BY <1>2 DEF TurnsAreHeard, DecisionsAreHeard
  <2>1. i \in DOMAIN decisions /\ i < next
    BY <1>1, <1>2 DEF TypeOK, board
  <2>2. Overtaken(i)
    BY <1>1, <2>1 DEF TurnsAreHeard
  <2> QED
    BY <1>2, <2>2, HeardStays DEF board
<1> QED
  BY <1>3, <1>4, <1>5, <1>6 DEF BlackboardInv

\* A chain of the fallback is taken or passed over.
LEMMA FallBackKeeps ==
    ASSUME BlackboardInv, FallBack
    PROVE  BlackboardInv'
<1>1. TypeOK /\ OwnedIsClaimed /\ OneOwner /\ TurnsAreHeard /\ ConflictsMarked /\ phase = "residue"
  BY DEF BlackboardInv, FallBack
<1>2. next \in 1..Len(Chains) /\ next' = next + 1
      /\ UNCHANGED <<board, round, added, phase, ending, exhausted, emitted>>
  BY <1>1 DEF FallBack, TypeOK
<1>3. /\ ledger' \in Seq(Claim) /\ owned' \subseteq UNION Regions
      /\ OwnedIsClaimed' /\ Disjoint(ledger)'
      /\ \A c \in DOMAIN ledger : c \in DOMAIN ledger' /\ ledger'[c] = ledger[c]
  <2>1. CASE FallsBack(next) /\ Own(Rejoin(next))
    <3>1. PICK claim : claim = Rejoin(next)
      OBVIOUS
    <3>2. Chains \in Seq(SUBSET UNION Regions)
      BY BlackboardAssumption
    <3>3. Chains[next] \in SUBSET UNION Regions
      BY <1>2, <3>2
    <3>4. claim \in Claim /\ claim.nodes = Chains[next]
      BY <3>1, <3>3 DEF Rejoin, Claim
    <3>5. Own(claim) /\ Free(claim.nodes)
      BY <2>1, <3>1, <3>4 DEF FallsBack
    <3> QED
      BY <1>1, <3>4, <3>5, OwningKeepsApart DEF OneOwner
  <2>2. CASE UNCHANGED <<ledger, owned>>
    BY <1>1, <2>2 DEF TypeOK, OwnedIsClaimed, OneOwner, Disjoint
  <2> QED
    BY <2>1, <2>2 DEF FallBack
<1>4. TypeOK'
  BY <1>1, <1>2, <1>3 DEF TypeOK, board
<1>5. RoundsRun' /\ ConflictsMarked' /\ ClaimsHadTheirTurn'
  BY <1>1, <1>2 DEF RoundsRun, Rounds, ConflictsMarked, board, InConflict, Contested, Decided, Journal,
     ClaimsHadTheirTurn
<1>6. OneOwner'
  BY <1>1, <1>2, <1>3 DEF OneOwner, Disjoint
<1>7. TurnsAreHeard'
  <2> SUFFICES ASSUME NEW i \in DOMAIN decisions' PROVE Overtaken(i)'
    BY <1>1, <1>2 DEF TurnsAreHeard, DecisionsAreHeard
  <2>1. Overtaken(i)
    BY <1>1, <1>2 DEF TurnsAreHeard, DecisionsAreHeard, board
  <2> QED
    BY <1>2, <1>3, <2>1, HeardStays DEF board
<1> QED
  BY <1>3, <1>4, <1>5, <1>6, <1>7 DEF BlackboardInv

\* The end of the residue, the gate, and no step at all.
LEMMA EndKeeps ==
    ASSUME BlackboardInv, EndResidue \/ Gate \/ UNCHANGED vars
    PROVE  BlackboardInv'
<1>1. TypeOK /\ OwnedIsClaimed /\ OneOwner /\ TurnsAreHeard /\ ConflictsMarked /\ RoundsRun
      /\ ClaimsHadTheirTurn
  BY DEF BlackboardInv
<1>2. UNCHANGED <<board, round, added, ending, next, ledger, owned, exhausted>>
  BY DEF EndResidue, Gate, vars, result
<1>3. \/ UNCHANGED phase /\ UNCHANGED emitted
      \/ phase = "residue" /\ phase' = "gate" /\ UNCHANGED emitted
      \/ phase = "gate" /\ phase' = "done" /\ emitted' \in {ledger, Fallback, <<>>}
  BY DEF EndResidue, Gate, vars, result
<1>4. emitted' \in Seq(Claim) /\ Disjoint(emitted)'
  <2>1. ledger \in Seq(Claim) /\ emitted \in Seq(Claim) /\ Disjoint(ledger) /\ Disjoint(emitted)
    BY <1>1 DEF TypeOK, OneOwner
  <2>2. emitted' \in {emitted, ledger, Fallback, <<>>}
    BY <1>3
  <2>3. emitted' \in Seq(Claim)
    <3>1. <<>> \in Seq(Claim)
      OBVIOUS
    <3> QED
      BY <2>1, <2>2, <3>1, FallbackIsApart
  <2> QED
    BY <2>1, <2>2, <2>3, FallbackIsApart DEF Disjoint
<1>5. TypeOK'
  BY <1>1, <1>2, <1>3, <1>4 DEF TypeOK, board, Phases
<1>6. RoundsRun' /\ ConflictsMarked' /\ ClaimsHadTheirTurn'
  BY <1>1, <1>2, <1>3 DEF RoundsRun, Rounds, ConflictsMarked, board, InConflict, Contested, Decided,
     Journal, ClaimsHadTheirTurn
<1>7. OwnedIsClaimed' /\ OneOwner'
  BY <1>1, <1>2, <1>4 DEF OwnedIsClaimed, OneOwner, Disjoint
<1>8. TurnsAreHeard'
  BY <1>1, <1>2, <1>3 DEF TurnsAreHeard, DecisionsAreHeard, Overtaken, Contested, board
<1> QED
  BY <1>5, <1>6, <1>7, <1>8 DEF BlackboardInv

-----------------------------------------------------------------------------
(***************************************************************************)
(* The inductive invariant of the blackboard: what the rounds leave, what  *)
(* is owned, and whose turn has come.                                      *)
(***************************************************************************)
THEOREM BlackboardInvariant == Spec => []BlackboardInv
<1>1. BlackboardInv /\ [Next]_vars => BlackboardInv'
  BY DetectKeeps, DeclineKeeps, RunSourceKeeps, PromoteKeeps, PassOverKeeps, ExhaustKeeps,
     FallBackKeeps, EndKeeps DEF Next
<1> QED
  BY <1>1, BlackboardInit, PTL DEF Spec

\* Journal, budget and result have their types.
THEOREM BlackboardTypeCorrect == Spec => []TypeOK
<1>1. BlackboardInv => TypeOK
  BY DEF BlackboardInv
<1> QED
  BY <1>1, BlackboardInvariant, PTL

\* No node is claimed twice, in the ledger that is built and in the one that
\* passes the gate.
THEOREM NodesHaveOneOwner == Spec => []OneOwner
<1>1. BlackboardInv => OneOwner
  BY DEF BlackboardInv
<1> QED
  BY <1>1, BlackboardInvariant, PTL

\* A decision that is not promoted gave way to an earlier one on its nodes or
\* to a later one on its contested region.
THEOREM EveryDecisionIsHeard == Spec => []DecisionsAreHeard
<1>1. BlackboardInv => DecisionsAreHeard
  BY DEF BlackboardInv, TurnsAreHeard
<1> QED
  BY <1>1, BlackboardInvariant, PTL

\* The rounds do not come to a fixpoint with a conflict unseen.
THEOREM FixpointSeesContests == Spec => []ContestsAreSeen
<1>1. BlackboardInv => ContestsAreSeen
  BY DEF BlackboardInv, ConflictsMarked, ContestsAreSeen
<1> QED
  BY <1>1, BlackboardInvariant, PTL

-----------------------------------------------------------------------------
(* The rounds are paid for.                                                *)

\* There are finitely many marks.
LEMMA MarksAreFinite == IsFiniteSet(Mark)
<1> DEFINE P == Sources \cup {Preseed, Detector, Affordance}
           T == (MarkKinds \X Regions) \X P
           f == [x \in T |-> [kind |-> x[1][1], region |-> x[1][2], producer |-> x[2]]]
<1>1. IsFiniteSet(MarkKinds)
  <2>1. IsFiniteSet({"candidate"} \cup {"open"} \cup {"contested"})
    BY FS_Singleton, FS_AddElement, Zenon
  <2>2. IsFiniteSet({"candidate"} \cup {"open"} \cup {"contested"} \cup {"defer"} \cup {"garble"} \cup {"escalate"})
    BY <2>1, FS_AddElement, Zenon
  <2>3. MarkKinds = {"candidate"} \cup {"open"} \cup {"contested"} \cup {"defer"} \cup {"garble"} \cup {"escalate"}
    BY DEF MarkKinds
  <2> QED
    BY <2>2, <2>3
<1>2. IsFiniteSet(P)
  <2>1. IsFiniteSet(Sources \cup {Preseed} \cup {Detector} \cup {Affordance})
    BY BlackboardAssumption, FS_AddElement, Zenon
  <2>2. P = Sources \cup {Preseed} \cup {Detector} \cup {Affordance}
    OBVIOUS
  <2> QED
    BY <2>1, <2>2
<1>3. IsFiniteSet(T)
  BY <1>1, <1>2, FS_Product, BlackboardAssumption, Zenon
<1>4. f \in Surjection(T, Mark)
  <2>1. f \in [T -> Mark]
    BY DEF Mark
  <2>2. ASSUME NEW m \in Mark
        PROVE  \E x \in T : f[x] = m
    <3>1. m.kind \in MarkKinds /\ m.region \in Regions /\ m.producer \in P
      BY DEF Mark
    <3>2. <<<<m.kind, m.region>>, m.producer>> \in T
      BY <3>1
    <3>3. f[<<<<m.kind, m.region>>, m.producer>>] = m
      BY <3>2 DEF Mark
    <3> QED
      BY <3>2, <3>3
  <2> HIDE DEF f, T
  <2> QED
    BY <2>1, <2>2 DEF Surjection
<1> QED
  BY <1>3, <1>4, FS_Surjection

\* A finite set that grows has at least one element more.
LEMMA GrownIsLarger ==
    ASSUME NEW S, NEW T, IsFiniteSet(T), S \subseteq T
    PROVE  /\ Cardinality(S) \in Nat /\ Cardinality(T) \in Nat
           /\ Cardinality(S) <= Cardinality(T)
           /\ S # T => Cardinality(S) + 1 <= Cardinality(T)
<1>1. /\ IsFiniteSet(S) /\ Cardinality(S) <= Cardinality(T)
      /\ Cardinality(S) = Cardinality(T) => S = T
  BY FS_Subset, Zenon
<1>2. Cardinality(S) \in Nat /\ Cardinality(T) \in Nat
  BY <1>1, FS_CardinalityType
<1> QED
  BY <1>1, <1>2

\* The windows of all regions, page by page.
Widened == {x \in Regions \X Pages : x[2] \in widened[x[1]]}

\* Progress is a number.
LEMMA ProgressIsNatural == TypeOK => Progress \in Nat
<1> SUFFICES ASSUME TypeOK PROVE Progress \in Nat
  OBVIOUS
<1>1. marks \ seeded \in SUBSET Mark /\ Widened \in SUBSET (Regions \X Pages)
  BY DEF TypeOK, Widened
<1>2. IsFiniteSet(marks \ seeded)
  BY <1>1, MarksAreFinite, FS_Subset, Zenon
<1>3. IsFiniteSet(Widened)
  BY <1>1, BlackboardAssumption, FS_Product, FS_Subset, Zenon
<1>4. Cardinality(marks \ seeded) \in Nat /\ Cardinality(Widened) \in Nat
  BY <1>2, <1>3, FS_CardinalityType
<1>5. Len(decisions) \in Nat
  BY DEF TypeOK
<1> QED
  BY <1>4, <1>5 DEF Progress, Widened

(***************************************************************************)
(* While marks are posted, decisions added and windows widened, progress   *)
(* is never undone, and whatever is new adds to it.                        *)
(***************************************************************************)
LEMMA ProgressGrows ==
    ASSUME TypeOK, TypeOK', seeded' = seeded, marks \subseteq marks',
           Len(decisions) <= Len(decisions'),
           \A r \in Regions : widened[r] \subseteq widened'[r]
    PROVE  /\ Progress \in Nat /\ Progress' \in Nat /\ Progress <= Progress'
           /\ marks' # marks \/ Len(decisions) < Len(decisions') \/ widened' # widened
                  => Progress + 1 <= Progress'
<1> DEFINE M == Cardinality(marks \ seeded)
           D == Len(decisions)
           W == Cardinality(Widened)
<1>1. /\ M \in Nat /\ M' \in Nat /\ M <= M'
      /\ marks' # marks => M + 1 <= M'
  <2>1. marks' \subseteq Mark /\ seeded \subseteq marks
    BY DEF TypeOK
  <2>2. IsFiniteSet(marks' \ seeded)
    BY <2>1, MarksAreFinite, FS_Subset, Zenon
  <2>3. /\ marks \ seeded \subseteq marks' \ seeded
        /\ marks' # marks => marks \ seeded # marks' \ seeded
    BY <2>1
  <2> QED
    BY <2>2, <2>3, GrownIsLarger, Zenon
<1>2. /\ W \in Nat /\ W' \in Nat /\ W <= W'
      /\ widened' # widened => W + 1 <= W'
  <2>1. Widened' = {x \in Regions \X Pages : x[2] \in widened'[x[1]]}
    BY DEF Widened
  <2>2. IsFiniteSet(Regions \X Pages)
    BY BlackboardAssumption, FS_Product, Zenon
  <2>3. Widened' \in SUBSET (Regions \X Pages)
    BY <2>1
  <2>4. IsFiniteSet(Widened')
    BY <2>2, <2>3, FS_Subset, Zenon
  <2>5. Widened \subseteq Widened'
    BY <2>1 DEF Widened
  <2>6. ASSUME widened' # widened
        PROVE  Widened # Widened'
    <3>1. widened \in [Regions -> SUBSET Pages] /\ widened' \in [Regions -> SUBSET Pages]
      BY DEF TypeOK
    <3>2. PICK r \in Regions : widened[r] # widened'[r]
      BY <2>6, <3>1
    <3>3. PICK p : p \in widened'[r] /\ p \notin widened[r]
      BY <3>2
    <3>4. p \in Pages
      BY <3>1, <3>3
    <3>5. <<r, p>> \in Widened' /\ <<r, p>> \notin Widened
      BY <2>1, <3>3, <3>4 DEF Widened
    <3> QED
      BY <3>5
  <2> QED
    BY <2>4, <2>5, <2>6, GrownIsLarger, Zenon
<1>3. D \in Nat /\ D' \in Nat /\ D <= D'
  BY DEF TypeOK
<1>4. Progress = M + D + W /\ Progress' = M' + D' + W'
  BY DEF Progress, Widened
<1> HIDE DEF M, D, W
<1>5. Len(decisions) < Len(decisions') => D + 1 <= D'
  BY <1>3 DEF D
<1> QED
  BY <1>1, <1>2, <1>3, <1>4, <1>5

(***************************************************************************)
(* A round that is followed by another, or has added something so far, is  *)
(* paid for; only the last round may have added nothing.                   *)
(***************************************************************************)
Paid ==
    /\ phase = "detect" => round <= Progress
    /\ phase = "schedule" /\ added => round <= Progress
    /\ RoundsArePaid

\* What has been paid for is paid for while the board is untouched.
LEMMA PaidStays ==
    ASSUME Paid, UNCHANGED <<board, round>>,
           phase' \notin Rounds \/ UNCHANGED <<phase, added>>
    PROVE  Paid'
<1>1. Progress' = Progress
  BY DEF Progress, board
<1> QED
  BY <1>1 DEF Paid, RoundsArePaid, Rounds

\* A new round is paid for by the contests it marks.
LEMMA DetectIsPaid ==
    ASSUME BlackboardInv, BlackboardInv', Paid, Detect
    PROVE  Paid'
<1>1. /\ TypeOK /\ TypeOK' /\ round \in Nat /\ round' = round + 1 /\ round <= Progress
      /\ marks' = marks \cup Contests /\ added' = (Contests \ marks # {})
      /\ UNCHANGED <<decisions, widened, seeded>>
  BY BlackboardAssumption DEF BlackboardInv, TypeOK, Detect, Paid
<1>2. Len(decisions) <= Len(decisions') /\ \A r \in Regions : widened[r] \subseteq widened'[r]
  BY <1>1 DEF TypeOK
<1>3. /\ Progress \in Nat /\ Progress' \in Nat /\ Progress <= Progress'
      /\ marks' # marks => Progress + 1 <= Progress'
  BY <1>1, <1>2, ProgressGrows
<1>4. added' => marks' # marks
  BY <1>1
<1>5. phase' # "detect"
  BY DEF Detect, End
<1>6. round' <= Progress' + 1
  <2>1. PICK p \in Nat : p = Progress
    BY <1>3
  <2>2. PICK q \in Nat : q = Progress'
    BY <1>3
  <2>3. round <= p /\ p <= q /\ round \in Nat /\ round' = round + 1
    BY <1>1, <1>3, <2>1, <2>2, Zenon
  <2>4. round' <= q + 1
    BY <2>3
  <2> QED
    BY <2>2, <2>4
<1>7. marks' # marks => round' <= Progress'
  BY <1>1, <1>3
<1> QED
  BY <1>4, <1>5, <1>6, <1>7 DEF Paid, RoundsArePaid

\* A round in which nobody wants the region is followed by another only if
\* it marked a contest.
LEMMA DeclineIsPaid ==
    ASSUME BlackboardInv, Paid, Decline
    PROVE  Paid'
<1>1. UNCHANGED <<board, round, added>> /\ phase = "schedule"
  BY DEF Decline
<1>2. Progress' = Progress
  BY <1>1 DEF Progress, board
<1>3. phase' = "promote" \/ (phase' = "detect" /\ added)
  <2>1. EndRound(added)
    BY DEF Decline
  <2> QED
    BY <2>1, Zenon DEF EndRound, End
<1> QED
  BY <1>1, <1>2, <1>3 DEF Paid, RoundsArePaid

\* And what a source adds pays for the round it was run in.
LEMMA RunSourceIsPaid ==
    ASSUME BlackboardInv, BlackboardInv', Paid, NEW s \in Sources, RunSource(s)
    PROVE  Paid'
<1>1. /\ TypeOK /\ TypeOK' /\ phase = "schedule" /\ round \in Nat
      /\ UNCHANGED <<seeded, round>>
  BY BlackboardAssumption DEF BlackboardInv, TypeOK, RunSource
<1>2. PICK r \in Regions, asks \in SUBSET Asked, n \in {k \in 0..MaxPosted : k <= Room} :
      \E ds \in Reply(s, n), said \in Raise(s) :
           /\ Expand(r)
           /\ decisions' = decisions \o ds
           /\ marks' = marks \cup said
                             \cup {[kind |-> a, region |-> r, producer |-> Affordance] : a \in asks}
           /\ added' = (added \/ Moved(ds, said))
  BY DEF RunSource
<1>3. PICK ds \in Reply(s, n), said \in Raise(s) :
           /\ Expand(r)
           /\ decisions' = decisions \o ds
           /\ marks' = marks \cup said
                             \cup {[kind |-> a, region |-> r, producer |-> Affordance] : a \in asks}
           /\ added' = (added \/ Moved(ds, said))
  BY <1>2
<1>4. /\ Len(decisions) <= Len(decisions')
      /\ ds # <<>> => Len(decisions) < Len(decisions')
  <2>1. n \in Nat /\ ds \in [1..n -> [op : Ops, region : Regions, producer : {s}] \ Journal]
    BY <1>2, <1>3, BlackboardAssumption DEF Reply
  <2>2. ds \in Seq(Decision) /\ Len(ds) = n
    <3>1. [op : Ops, region : Regions, producer : {s}] \subseteq Decision
      BY DEF Decision
    <3>2. ds \in [1..n -> Decision]
      BY <2>1, <3>1
    <3> QED
      BY <2>1, <3>2
  <2>3. decisions \in Seq(Decision)
    BY <1>1 DEF TypeOK
  <2>4. Len(decisions') = Len(decisions) + n /\ Len(decisions) \in Nat
    <3>1. decisions' = decisions \o ds
      BY <1>3
    <3>2. Len(decisions \o ds) = Len(decisions) + Len(ds)
      BY <2>2, <2>3, ConcatProperties, Zenon
    <3>3. Len(decisions) \in Nat
      BY <2>3
    <3> QED
      BY <2>2, <3>1, <3>2, <3>3, Zenon
  <2>5. ds # <<>> => n # 0
    BY <2>2
  <2> QED
    BY <2>1, <2>4, <2>5
<1>5. marks \subseteq marks' /\ (said # {} => marks' # marks)
  BY <1>3 DEF Raise
<1>6. \A q \in Regions : widened[q] \subseteq widened'[q]
  <2>1. PICK W : widened' = [widened EXCEPT ![r] = @ \cup UNION W]
    BY <1>3 DEF Expand
  <2>2. widened \in [Regions -> SUBSET Pages]
    BY <1>1 DEF TypeOK
  <2> QED
    BY <2>1, <2>2
<1>7. /\ Progress \in Nat /\ Progress' \in Nat /\ Progress <= Progress'
      /\ marks' # marks \/ Len(decisions) < Len(decisions') \/ widened' # widened
             => Progress + 1 <= Progress'
  BY <1>1, <1>4, <1>5, <1>6, ProgressGrows
<1>8. added' => added \/ Progress + 1 <= Progress'
  BY <1>3, <1>4, <1>5, <1>7 DEF Moved
<1>9. phase' = "promote" \/ (phase' = "detect" /\ added')
  <2>1. EndRound(added')
    BY DEF RunSource
  <2> QED
    BY <2>1, Zenon DEF EndRound, End
<1>10. added' => round' <= Progress'
  BY <1>1, <1>7, <1>8 DEF Paid, RoundsArePaid
<1>11. round' <= Progress' + 1
  <2>1. round <= Progress + 1 /\ round' = round
    BY <1>1 DEF Paid, RoundsArePaid
  <2>2. PICK p \in Nat : p = Progress
    BY <1>7
  <2>3. PICK q \in Nat : q = Progress'
    BY <1>7
  <2>4. round <= p + 1 /\ p <= q /\ round \in Nat /\ round' = round
    BY <1>1, <1>7, <2>1, <2>2, <2>3, Zenon
  <2>5. round' <= q + 1
    BY <2>4
  <2> QED
    BY <2>3, <2>5
<1> QED
  BY <1>9, <1>10, <1>11 DEF Paid, RoundsArePaid

(***************************************************************************)
(* The sources cannot keep the controller busy for nothing: whatever the   *)
(* bound on rounds, there is at most one round more than what the run has  *)
(* added to the journal and the windows.                                   *)
(***************************************************************************)
THEOREM EveryRoundIsPaid == Spec => []RoundsArePaid
<1>1. Init => Paid
  <2> SUFFICES ASSUME Init PROVE Paid
    OBVIOUS
  <2>1. TypeOK /\ round = 0 /\ phase = "detect"
    BY BlackboardInit DEF BlackboardInv, Init
  <2>2. Progress \in Nat
    BY <2>1, ProgressIsNatural
  <2> QED
    BY <2>1, <2>2 DEF Paid, RoundsArePaid
<1>2. BlackboardInv /\ BlackboardInv' /\ Paid /\ [Next]_vars => Paid'
  <2> SUFFICES ASSUME BlackboardInv, BlackboardInv', Paid, [Next]_vars PROVE Paid'
    OBVIOUS
  <2>1. CASE Promote \/ PassOver \/ Exhaust \/ FallBack \/ EndResidue \/ Gate
    <3>1. UNCHANGED <<board, round>> /\ phase' \notin Rounds
      BY <2>1 DEF Promote, PassOver, Exhaust, FallBack, EndResidue, Gate, Rounds
    <3> QED
      BY <3>1, PaidStays
  <2>2. CASE UNCHANGED vars
    BY <2>2, PaidStays DEF vars
  <2> QED
    BY <2>1, <2>2, DetectIsPaid, DeclineIsPaid, RunSourceIsPaid DEF Next
<1>3. Paid => RoundsArePaid
  BY DEF Paid
<1> QED
  BY <1>1, <1>2, <1>3, BlackboardInvariant, PTL DEF Spec

=============================================================================
