----------------------------- MODULE BlackboardLaws -----------------------------
(***************************************************************************)
(* What the blackboard composer promises.                                  *)
(***************************************************************************)
EXTENDS Blackboard

\* Journal, budget and result have their types.
TypeOK ==
    /\ marks \subseteq Mark /\ seeded \subseteq marks
    /\ decisions \in Seq(Decision)
    /\ widened \in [Regions -> SUBSET Pages]
    /\ expansions \in 0..MaxExpansions
    /\ round \in 0..MaxRounds
    /\ added \in BOOLEAN
    /\ phase \in Phases /\ ending \in {"none", "fixpoint", "budget_exhausted"}
    /\ next \in Nat \ {0}
    /\ ledger \in Seq(Claim) /\ emitted \in Seq(Claim)
    /\ owned \subseteq UNION Regions
    /\ exhausted \subseteq Regions

(***************************************************************************)
(* No node is claimed twice, whatever overlapping regions the sources      *)
(* decide on and whatever the fallback adds: "exactly one claim owns each  *)
(* node".                                                                  *)
(***************************************************************************)
Disjoint(claims) ==
    \A i, j \in DOMAIN claims : i # j => claims[i].nodes \cap claims[j].nodes = {}

OneOwner == Disjoint(ledger) /\ Disjoint(emitted)

(***************************************************************************)
(* A decision is promoted, or an earlier decision that was promoted has    *)
(* one of its nodes, or it lies in a contested region and a later one has  *)
(* been taken on it: none is lost for nothing.                             *)
(***************************************************************************)
Overtaken(i) ==
    \/ \E c \in DOMAIN ledger :
           /\ ledger[c].by \in 1..i
           /\ ledger[c].nodes \cap decisions[i].region # {}
    \/ /\ decisions[i].region \in Contested
       /\ \E j \in (i + 1)..Len(decisions) : decisions[j].region = decisions[i].region

DecisionsAreHeard ==
    phase \in {"residue", "gate", "done"} => \A i \in DOMAIN decisions : Overtaken(i)

(***************************************************************************)
(* At a fixpoint every conflict has been seen: the rounds do not stop      *)
(* between a contradicting decision and its detection.                     *)
(***************************************************************************)
ContestsAreSeen == ending = "fixpoint" => InConflict \subseteq Contested

(***************************************************************************)
(* Every round but the last has added a mark, a decision or a page: with a *)
(* finite vocabulary the sources cannot keep the controller busy for ever, *)
(* whatever MaxRounds.                                                     *)
(***************************************************************************)
Progress ==
    Cardinality(marks \ seeded) + Len(decisions)
        + Cardinality({x \in Regions \X Pages : x[2] \in widened[x[1]]})

RoundsArePaid == round <= Progress + 1

=============================================================================
