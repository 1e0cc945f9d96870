------------------------------- MODULE ReplayLaws -------------------------------
(***************************************************************************)
(* What the ordering and the replay of operations must not do.             *)
(***************************************************************************)
EXTENDS NorwayReplay, FiniteSets, SequencesExt

\* Every variable has its type; an operation is emitted or dropped once.
TypeOK ==
    /\ ops \in Seq(Operation)
    /\ emitted \in Seq(Places) /\ IsInjective(emitted)
    /\ dropped \subseteq Places \ Emitted
    /\ stack \in Seq(Places \ Emitted) /\ IsInjective(stack)
    /\ law \in Law
    /\ done \in 0..Len(emitted)
    /\ answers \in [Places -> Answers \cup {NoAnswer}]
    /\ aborted \in BOOLEAN
    /\ base \in Law

-----------------------------------------------------------------------------
\* Leg j occupies what leg i vacates.
WaitsFor(j, i) == i \in SameAct(j) /\ ops[i].target = ops[j].destination

\* Legs the search has seen, of which each waits for another of them, and i.
InCircle(i) ==
    \E S \in SUBSET (SameAct(i) \cap (Emitted \cup Visiting)) :
        /\ i \in S
        /\ \A j \in S : \E k \in S : WaitsFor(j, k)

(***************************************************************************)
(* "The DFS preserves the vacate dependency": if any leg of the act        *)
(* vacates the destination of a leg, one that does is emitted before it,   *)
(* wherever the search is started, unless legs wait for each other in a    *)
(* circle.                                                                 *)
(***************************************************************************)
VacatedFirst ==
    \A n \in DOMAIN emitted : \A j \in Places :
        IsLeg(emitted[n]) /\ WaitsFor(emitted[n], j) =>
            \/ \E m \in 1..(n - 1) : WaitsFor(emitted[n], emitted[m])
            \/ InCircle(emitted[n])

-----------------------------------------------------------------------------
(***************************************************************************)
(* No relabelling puts a provision where its namesake stands, whichever    *)
(* legs were refused or found nothing to move: only paragraphs sent to     *)
(* sections that are not there can meet, under the root of the body, and   *)
(* end the replay.                                                         *)
(***************************************************************************)
LabelsStayUnique ==
    aborted => PlaceOf(law, ops[Turn].destination) # ops[Turn].destination

\* The legs of an act that moved something.
MovedLegs(act) == {i \in EmittedLegs(act) : answers[i] \in {"landed", "cleared"}}

(***************************************************************************)
(* All legs of L at once: every address shows what stood at the source of  *)
(* its leg, or nothing if what stood there left, or what it showed before. *)
(***************************************************************************)
AtOnce(t, L) ==
    LET comes(b) == {i \in L : PlaceOf(t, ops[i].destination) = b}
        follows(b) == {i \in L : b \in Under(ops[i].destination)}
        leaves(b) == \E i \in L : b = ops[i].target \/ b \in Under(ops[i].target)
    IN  [b \in Addresses |->
            IF comes(b) # {}
            THEN t[ops[CHOOSE i \in comes(b) : TRUE].target]
            ELSE IF follows(b) # {}
            THEN t[<<ops[CHOOSE i \in follows(b) : TRUE].target[1], b[2]>>]
            ELSE IF leaves(b) THEN NoText ELSE t[b]]

(***************************************************************************)
(* The legs of an act are one relabelling: replayed one after the other    *)
(* they leave the law that moving all of them at once would have left, the *)
(* paragraphs first and the sections with them.                            *)
(***************************************************************************)
LegsMoveAtOnce ==
    LET act == ops[emitted[done]].act
        L == MovedLegs(act)
    IN  /\ Ordered /\ ~aborted /\ done > 0
        /\ IsLeg(emitted[done])
        /\ done = Len(emitted) \/ ~IsLeg(Turn) \/ ops[Turn].act # act
        => law = AtOnce(AtOnce(base, {i \in L : IsLedd(ops[i].target)}),
                        {i \in L : ~IsLedd(ops[i].target)})

-----------------------------------------------------------------------------
\* The legs of one act in the input, repeated ones taken once.
LegPairs(act) ==
    {<<ops[i].target, ops[i].destination>> :
        i \in {j \in Places : IsLeg(j) /\ ops[j].act = act}}

(***************************************************************************)
(* The legs in this order, applied where only their sources are occupied:  *)
(* each of them finds what it is to move, and nothing of another leg at    *)
(* its destination.                                                        *)
(***************************************************************************)
NobodyInTheWay(order) ==
    \A n \in DOMAIN order :
        /\ \A m \in 1..(n - 1) : order[m][1] # order[n][1] /\ order[m][2] # order[n][2]
        /\ \A m \in (n + 1)..Len(order) : order[m][1] # order[n][2]

SafelyOrdered(pairs) ==
    \E order \in SetToSeqs(pairs) : NobodyInTheWay(order)

GoElsewhere(pairs) == \A p \in pairs : p[1] # p[2]

(***************************************************************************)
(* "No permutation of these legs satisfies the constraint": a leg is       *)
(* refused for its addresses exactly if the legs it is connected with have *)
(* no order in which none is in the way of another.  Legs that go nowhere  *)
(* are apart: StayingConflictsWithNothing.                                 *)
(***************************************************************************)
VerdictIsExact ==
    Ordered /\ done = 0 =>
        \A i \in Emitted :
            IsLeg(i) =>
                LET pairs == LegPairs(ops[i].act)
                    mine == {p \in pairs : p[1] \in Component(pairs, ops[i].target)}
                IN  GoElsewhere(mine) => (Unprovable(i) <=> ~SafelyOrdered(mine))

(***************************************************************************)
(* Relabellings of paragraphs, and insertions of paragraphs at an address  *)
(* that must have been vacated.  A section leg may clear its destination,  *)
(* and other insertions replace what they find.                            *)
(***************************************************************************)
Harmless(i) ==
    /\ IsLedd(ops[i].target)
    /\ ops[i].action = "INSERT" => ops[i].refusing
    /\ ops[i].action # "REPEAL"

Shown(t) == {t[a] : a \in Addresses} \ {NoText}

(***************************************************************************)
(* "Over-applying destroys law that is in force": such an operation loses  *)
(* nothing that stands in the law, even if the law has been amended by the *)
(* same act before.                                                        *)
(***************************************************************************)
NothingInForceIsLost ==
    [][Apply /\ Harmless(Turn) => Shown(law) \subseteq Shown(law')]_vars

\* The replay ends, and then every operation has its answer.
ReplayEnds ==
    <>(Finished /\ (aborted \/ \A i \in Emitted : answers[i] # NoAnswer))

-----------------------------------------------------------------------------
(***************************************************************************)
(* "A source sent to two different destinations is UNSATISFIABLE": legs    *)
(* that move the same provision to different places are not applied.       *)
(***************************************************************************)
ContestedSourceRefused ==
    \A i, j \in Places :
        /\ IsLeg(i) /\ IsLeg(j) /\ ops[i].act = ops[j].act
        /\ ops[i].target = ops[j].target /\ ops[i].destination # ops[j].destination
        /\ Elsewhere(i) /\ Elsewhere(j)
        => answers[i] # "landed"

(***************************************************************************)
(* "A leg that goes nowhere joins its component but conflicts with         *)
(* nothing": a leg to its own address is not refused for its addresses     *)
(* where no other leg of its act leaves or enters that address.            *)
(***************************************************************************)
StayingConflictsWithNothing ==
    \A i \in Places :
        /\ IsLeg(i) /\ ~Elsewhere(i)
        /\ \A j \in SameAct(i) : ops[i].target \in {ops[j].target, ops[j].destination} => ~Elsewhere(j)
        => answers[i] # "unprovable"

=============================================================================
