------------------------------ MODULE TaintLedger ------------------------------
(***************************************************************************)
(* What the provenance store promises to whoever asks "which builds are    *)
(* tainted by this retraction?" (core/build_consumption.py): a known build *)
(* that relied on a retracted assertion is never passed over in silence    *)
(* and never called clean.                                                 *)
(*                                                                         *)
(* Publications and retractions are single steps here.  A question sees    *)
(* those made before it was asked; it may see later ones.                  *)
(***************************************************************************)
CONSTANTS
    Assertions,  \* provenance assertions, by id
    Builds,      \* build identities: content roots
    Operators,   \* who asks
    NoQuestion   \* an operator has no open question

Recording == [build : Builds, consumed : SUBSET Assertions]

Statuses == {"unknown", "uninstrumented", "invalid", "clean", "tainted"}

NoAnswer     == [outcome |-> "none", builds |-> {}]
Raised       == [outcome |-> "raised", builds |-> {}]
Given(found) == [outcome |-> "given", builds |-> found]

VARIABLES
    published,  \* recordings whose recorder has returned
    retracted,  \* assertions with a retraction on record
    asked,      \* operator |-> the open question, with what had happened by then
    answer      \* operator |-> the answer to its last question

(***************************************************************************)
(* An answer may be refused (raised).  A given one lists every build that  *)
(* relied on the assertion asked about, once that is retracted, and calls  *)
(* no build clean that relied on anything retracted.                       *)
(***************************************************************************)
SoundAnswer(q, found) ==
    \A r \in q.published :
        /\ q.about \in r.consumed \cap q.retracted =>
               \E f \in found : f.build = r.build
        /\ r.consumed \cap q.retracted # {} =>
               [build |-> r.build, status |-> "clean"] \notin found

Init ==
    /\ published = {}
    /\ retracted = {}
    /\ asked = [o \in Operators |-> NoQuestion]
    /\ answer = [o \in Operators |-> NoAnswer]

Publish ==
    /\ \E r \in Recording : published' = published \cup {r}
    /\ UNCHANGED <<retracted, asked, answer>>

Retract ==
    /\ \E a \in Assertions : retracted' = retracted \cup {a}
    /\ UNCHANGED <<published, asked, answer>>

Ask(o) ==
    /\ asked[o] = NoQuestion
    /\ \E a \in Assertions :
           asked' = [asked EXCEPT ![o] = [about |-> a, published |-> published,
                                          retracted |-> retracted]]
    /\ answer' = [answer EXCEPT ![o] = NoAnswer]
    /\ UNCHANGED <<published, retracted>>

Answer(o) ==
    /\ asked[o] # NoQuestion
    /\ \/ answer' = [answer EXCEPT ![o] = Raised]
       \/ \E found \in SUBSET [build : Builds, status : Statuses] :
              /\ SoundAnswer(asked[o], found)
              /\ answer' = [answer EXCEPT ![o] = Given(found)]
    /\ asked' = [asked EXCEPT ![o] = NoQuestion]
    /\ UNCHANGED <<published, retracted>>

\* The asker dies, or turns to something else.
Forget(o) ==
    /\ asked' = [asked EXCEPT ![o] = NoQuestion]
    /\ answer' = [answer EXCEPT ![o] = NoAnswer]
    /\ UNCHANGED <<published, retracted>>

Next ==
    \/ Publish
    \/ Retract
    \/ \E o \in Operators : Ask(o) \/ Answer(o) \/ Forget(o)

vars == <<published, retracted, asked, answer>>

Spec == Init /\ [][Next]_vars

=============================================================================
