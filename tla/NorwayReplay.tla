----------------------------- MODULE NorwayReplay -----------------------------
(***************************************************************************)
(* The replay of ordered operations on a law (norway/grafter.py,           *)
(* apply_no_ops): repeals, relabellings and insertions.                    *)
(*                                                                         *)
(* The law is a function from addresses to texts.  A section may contain   *)
(* paragraphs (ledd), which go where it goes.  Section 0 is the root of    *)
(* the body: a paragraph whose new section is not there is put under it.   *)
(*                                                                         *)
(* Every operation is answered: it lands, with the recovery it needed, or  *)
(* it is refused with its reason and the law is as it was.  A second       *)
(* provision with the same label ends the replay with an exception.        *)
(***************************************************************************)
EXTENDS OpOrdering

CONSTANTS
    Laws,     \* the laws the operations may be applied to
    NoAnswer  \* the answer to an operation not yet applied

Answers ==
    {"landed", "replaced", "cleared",                      \* something was written
     "unprovable", "unresolved", "occupied"}               \* nothing was

IsLedd(a) == Len(a) = 2

Law == [Addresses -> Texts \cup {NoText}]

ASSUME ReplayAssumption ==
    /\ Laws \subseteq Law
    /\ NoText \notin Texts
    /\ NoAnswer \notin Answers
    /\ \A a \in Addresses : Len(a) \in {1, 2}
    /\ \A a, b \in Addresses : IsLedd(a) /\ ~IsLedd(b) => <<b[1], a[2]>> \in Addresses
    /\ \A a \in Addresses : IsLedd(a) => <<0, a[2]>> \in Addresses
    \* A leg makes a section of a section and a ledd of a ledd.
    /\ \A p \in Programs : \A i \in DOMAIN p :
           p[i].action = "RENUMBER" => (IsLedd(p[i].target) <=> IsLedd(p[i].destination))

VARIABLES
    law,      \* address |-> text
    done,     \* operations applied so far
    answers,  \* place |-> how the operation was answered
    aborted,  \* an exception ended the replay
    base      \* history: the law before the legs of the act in hand

replayVars == <<law, done, answers, aborted, base>>

vars == <<orderVars, replayVars>>

-----------------------------------------------------------------------------
(* Addresses and texts.                                                    *)

Root0 == <<0>>

Parent(a) == IF IsLedd(a) THEN <<a[1]>> ELSE Root0

Under(a) == {b \in Addresses : IsLedd(b) /\ ~IsLedd(a) /\ Parent(b) = a}

Stands(t, a) == a \in Addresses /\ t[a] # NoText

\* Without a and all that is under it.
Without(t, a) == [b \in Addresses |-> IF b = a \/ b \in Under(a) THEN NoText ELSE t[b]]

With(t, a, text) == [Without(t, a) EXCEPT ![a] = text]

\* Where a provision is put that is sent to a.
PlaceOf(t, a) == IF IsLedd(a) /\ ~Stands(t, Parent(a)) THEN <<0, a[2]>> ELSE a

\* What stands at from, moved to to together with what is under it.
Moved(t, from, to) ==
    LET there == Without(t, from)
    IN  [b \in Addresses |->
            IF b = to THEN t[from]
            ELSE IF b \in Under(to) /\ ~IsLedd(from) THEN t[<<from[1], b[2]>>]
            ELSE there[b]]

-----------------------------------------------------------------------------
(***************************************************************************)
(* The verdict on the legs of an act, from their addresses alone           *)
(* (_no_unprovable_relocation_targets).  The legs are those the ordering   *)
(* emitted, in that order, the repeated ones taken once.                   *)
(***************************************************************************)
EmittedLegs(act) == {i \in Emitted : IsLeg(i) /\ ops[i].act = act}

Pairs(act) == {<<ops[i].target, ops[i].destination>> : i \in EmittedLegs(act)}

Ends(pairs) == {p[1] : p \in pairs} \cup {p[2] : p \in pairs}

\* The addresses that legs connect with a, directly or not.
Component(pairs, a) ==
    {b \in Ends(pairs) :
        \A S \in SUBSET Ends(pairs) :
            a \in S /\ (\A p \in pairs : p[1] \in S <=> p[2] \in S) => b \in S}

ContestedDestination(pairs) ==
    {a \in Ends(pairs) : \E p, q \in pairs : p # q /\ p[2] = a /\ q[2] = a}

ContestedSource(pairs) ==
    {a \in Ends(pairs) : \E p, q \in pairs : p # q /\ p[1] = a /\ q[1] = a}

\* Sources from which following the legs never leads out of the sources.
Circular(pairs) ==
    UNION {S \in SUBSET {p[1] : p \in pairs} :
               \A a \in S : \E p \in pairs : p[1] = a /\ p[2] \in S}

\* Variant: contested destinations are not looked for.
WithoutDestinations(pairs) == ContestedSource(pairs) \cup Circular(pairs)

Conflicts(pairs) ==
    ContestedDestination(pairs) \cup ContestedSource(pairs) \cup Circular(pairs)

Unprovable(i) ==
    LET pairs == Pairs(ops[i].act)
    IN  Component(pairs, ops[i].target) \cap Conflicts(pairs) # {}

-----------------------------------------------------------------------------
Init ==
    /\ OrderInit
    /\ law \in Laws
    /\ done = 0
    /\ answers = [i \in DOMAIN ops |-> NoAnswer]
    /\ aborted = FALSE
    /\ base = law

Order == OrderNext /\ UNCHANGED replayVars

\* The operation whose turn it is.
Turn == emitted[done + 1]

FirstLeg(i) ==
    /\ IsLeg(i)
    /\ done = 0 \/ ~IsLeg(emitted[done]) \/ ops[emitted[done]].act # ops[i].act

Answer(i, how) ==
    /\ answers' = [answers EXCEPT ![i] = how]
    /\ done' = done + 1
    /\ base' = IF FirstLeg(i) THEN law ELSE base
    /\ UNCHANGED <<orderVars, aborted>>

\* Variant: an operation that is refused is tried again.
RefuseAndRetry(i, why) ==
    /\ answers' = [answers EXCEPT ![i] = why]
    /\ UNCHANGED <<orderVars, law, done, aborted, base>>

\* Nothing lands, and what was prepared for the operation is discarded.
Refuse(i, why) == Answer(i, why) /\ UNCHANGED law

Repeal(i) ==
    /\ ops[i].action = "REPEAL"
    /\ \/ Stands(law, ops[i].target) /\ law' = Without(law, ops[i].target) /\ Answer(i, "landed")
       \/ ~Stands(law, ops[i].target) /\ Refuse(i, "unresolved")

\* Variant: every insertion replaces what stands at its address.
InsertOverAlways(i) ==
    /\ Stands(law, ops[i].target)
    /\ law' = With(law, ops[i].target, ops[i].payload)
    /\ Answer(i, "replaced")

(***************************************************************************)
(* An insertion at an address where something stands replaces it, unless   *)
(* the operation says its address must have been vacated.                  *)
(***************************************************************************)
InsertOver(i) ==
    /\ Stands(law, ops[i].target)
    /\ \/ ops[i].refusing /\ Refuse(i, "occupied")
       \/ /\ ~ops[i].refusing
          /\ law' = With(law, ops[i].target, ops[i].payload)
          /\ Answer(i, "replaced")

InsertNew(i) ==
    /\ ~Stands(law, ops[i].target)
    /\ \/ IsLedd(ops[i].target) /\ ~Stands(law, Parent(ops[i].target)) /\ Refuse(i, "unresolved")
       \/ /\ ~IsLedd(ops[i].target) \/ Stands(law, Parent(ops[i].target))
          /\ law' = With(law, ops[i].target, ops[i].payload)
          /\ Answer(i, "landed")

Insert(i) ==
    /\ ops[i].action = "INSERT"
    /\ InsertOver(i) \/ InsertNew(i)

Elsewhere(i) == ops[i].destination # ops[i].target

\* Some leg of the act has the destination of i as its target.
IsSource(i) == \E j \in EmittedLegs(ops[i].act) : ops[j].target = ops[i].destination

\* Variant: what stands at a source of the act is taken to have left.
OccupiedOutside(i) ==
    Stands(law, ops[i].destination) /\ Elsewhere(i) /\ ~IsSource(i)

Occupied(i) == Stands(law, ops[i].destination) /\ Elsewhere(i)

(***************************************************************************)
(* A leg lands, after what stands at its destination has been removed.  If *)
(* something stands where it is put in the end, its label is there twice.  *)
(***************************************************************************)
Land(i, t, how) ==
    LET left == Without(t, ops[i].target)
        place == PlaceOf(left, ops[i].destination)
    IN  IF Stands(left, place)
        THEN aborted' = TRUE /\ UNCHANGED <<orderVars, law, done, answers, base>>
        ELSE law' = Moved(t, ops[i].target, place) /\ Answer(i, how)

Renumber(i) ==
    /\ IsLeg(i)
    /\ \/ Unprovable(i) /\ Refuse(i, "unprovable")
       \/ ~Unprovable(i) /\ ~Stands(law, ops[i].target) /\ Refuse(i, "unresolved")
       \/ /\ ~Unprovable(i) /\ Stands(law, ops[i].target)
          /\ IF ~Occupied(i) THEN Land(i, law, "landed")
             ELSE IF IsLedd(ops[i].destination) THEN Refuse(i, "occupied")
             ELSE IF IsSource(i) THEN Land(i, law, "landed")
             ELSE Land(i, Without(law, ops[i].destination), "cleared")

Apply ==
    /\ Ordered
    /\ ~aborted
    /\ done < Len(emitted)
    /\ Repeal(Turn) \/ Insert(Turn) \/ Renumber(Turn)

Next == Order \/ Apply

Finished == Ordered /\ (aborted \/ done = Len(emitted))

Spec == Init /\ [][Next]_vars

FairSpec == Spec /\ WF_vars(Next)

=============================================================================
