------------------------------- MODULE FreshIndex -------------------------------
(***************************************************************************)
(* What the amendment index promises its callers                           *)
(* (finland/amendment_index.py, get_amendment_children): an answer shows   *)
(* every amendment that was in the archive when the call was made.         *)
(*                                                                         *)
(* An index is described by the oldest version of the archive that any     *)
(* part of it was read from.  Two things excuse a stale answer: the        *)
(* worker could not read the archive's fingerprint, or an index of unknown *)
(* origin was taken for that of the version asked for.                     *)
(***************************************************************************)
EXTENDS Naturals

CONSTANTS
    Workers,     \* processes that ask
    MaxVersion,  \* bound: changes of the archive
    NoCall,      \* a worker that is not calling
    NoAnswer     \* a worker that was given no answer

Versions == 0..MaxVersion

VARIABLES
    source,    \* the version of the archive
    asked,     \* worker |-> version of the archive when it called
    answer,    \* worker |-> index its last call returned
    blind,     \* worker |-> it has not always known which version it asked for
    doubtful   \* versions an older index was taken for

vars == <<source, asked, answer, blind, doubtful>>

\* The index shows what version v holds, as far as anyone may expect.
Shows(index, v) == \A u \in Versions : index < u /\ u <= v => u \in doubtful

Init ==
    /\ source \in Versions
    /\ asked = [w \in Workers |-> NoCall]
    /\ answer = [w \in Workers |-> NoAnswer]
    /\ blind = [w \in Workers |-> FALSE]
    /\ doubtful = {}

Change ==
    /\ source < MaxVersion
    /\ source' = source + 1
    /\ UNCHANGED <<asked, answer, blind, doubtful>>

Ask(w) ==
    /\ asked[w] = NoCall
    /\ asked' = [asked EXCEPT ![w] = source]
    /\ answer' = [answer EXCEPT ![w] = NoAnswer]
    /\ UNCHANGED <<source, blind, doubtful>>

AskBlindly(w) ==
    /\ asked[w] = NoCall
    /\ asked' = [asked EXCEPT ![w] = source]
    /\ answer' = [answer EXCEPT ![w] = NoAnswer]
    /\ blind' = [blind EXCEPT ![w] = TRUE]
    /\ UNCHANGED <<source, doubtful>>

LoseSight(w) ==
    /\ blind' = [blind EXCEPT ![w] = TRUE]
    /\ UNCHANGED <<source, asked, answer, doubtful>>

Doubt ==
    /\ \E old \in SUBSET (0..source) : doubtful' = doubtful \cup old
    /\ UNCHANGED <<source, asked, answer, blind>>

Answer(w) ==
    /\ asked[w] # NoCall
    /\ \E index \in 0..source :
           /\ blind[w] \/ Shows(index, asked[w])
           /\ answer' = [answer EXCEPT ![w] = index]
    /\ asked' = [asked EXCEPT ![w] = NoCall]
    /\ UNCHANGED <<source, blind, doubtful>>

\* The call raises, or its process dies and another takes its place.
Fail(w) ==
    /\ asked' = [asked EXCEPT ![w] = NoCall]
    /\ answer' = [answer EXCEPT ![w] = NoAnswer]
    /\ blind' = [blind EXCEPT ![w] = FALSE] \/ blind' = blind
    /\ UNCHANGED <<source, doubtful>>

Next ==
    \/ Change
    \/ Doubt
    \/ \E w \in Workers :
           \/ Ask(w) \/ AskBlindly(w) \/ LoseSight(w)
           \/ Answer(w) \/ Fail(w)

Spec == Init /\ [][Next]_vars

=============================================================================
