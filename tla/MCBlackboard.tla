------------------------------ MODULE MCBlackboard ------------------------------
(***************************************************************************)
(* Values of the constants of Blackboard for model checking: two nodes,    *)
(* alone and as the seam between them.                                     *)
(***************************************************************************)
EXTENDS BlackboardLaws, TLC

CONSTANTS Upper, Lower, Adjudicator, Resolver

SeamRegions == {{Upper}, {Lower}, {Upper, Lower}}

SeamRank == ({Upper} :> 1) @@ ({Upper, Lower} :> 2) @@ ({Lower} :> 3)

SeamChains == <<{Upper, Lower}>>

Candidate(r) == [kind |-> "candidate", region |-> r]

SeamSeeds ==
    {{[kind |-> "open", region |-> {Upper, Lower}]},
     {[kind |-> "open", region |-> {Upper, Lower}], Candidate({Upper})},
     {Candidate({Upper}), Candidate({Lower})},
     {[kind |-> "garble", region |-> {Lower}]}}

SeamSources == {Adjudicator, Resolver}

\* Nothing depends on which source is which.
Alike == Permutations(SeamSources)

DropOfSeam == {<<"drop", {Upper, Lower}>>}

=============================================================================
