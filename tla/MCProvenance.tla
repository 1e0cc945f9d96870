------------------------------ MODULE MCProvenance ------------------------------
(***************************************************************************)
(* Values of the constants of ProvenanceStore for model checking.          *)
(***************************************************************************)
EXTENDS ProvenanceLaws, TLC

CONSTANTS a1, a2, b1

\* The record that relies on less comes first in the directory.
BySize == [r \in Recording |->
    2 * Cardinality(r.consumed) + (IF a2 \in r.consumed THEN 1 ELSE 0)]

RecordOne == [do |-> "record", recording |-> [build |-> b1, consumed |-> {a1}]]
RecordBoth == [do |-> "record", recording |-> [build |-> b1, consumed |-> {a1, a2}]]

On(do, a) == [do |-> do, about |-> a]

RaceDrawn == {RecordOne, On("propose", a1), On("retract", a1)}

ClaimsDrawn == {RecordOne, RecordBoth, On("retract", a1), On("report", a1),
                [do |-> "supersede", about |-> a1, with |-> a2]}

SymmetricRecorders == Permutations(Recorders)

=============================================================================
