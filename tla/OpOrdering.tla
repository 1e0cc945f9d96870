------------------------------ MODULE OpOrdering ------------------------------
(***************************************************************************)
(* The order in which the operations of a law are applied                  *)
(* (core/op_ordering.py, order_ops), under the profile of the Norwegian    *)
(* frontend, the one that orders relabellings structurally.                *)
(*                                                                         *)
(* An amending act repeals provisions, relabels some ("section 2 becomes   *)
(* section 3") and states new ones.  The operations are grouped by act;    *)
(* within an act repeals come first, then the relabellings, called legs,   *)
(* such that a label is vacated before it is occupied, then the others.    *)
(* The legs are ordered by a depth-first search, which follows a leg to    *)
(* the leg of the same act that vacates its destination.                   *)
(*                                                                         *)
(* An address is a sequence of labels: a section, or a section and one of  *)
(* its paragraphs (ledd).  An operation is known by its place in the       *)
(* input.  No operation is gated and no conflict reorders anything here.   *)
(***************************************************************************)
EXTENDS Naturals, Sequences

CONSTANTS
    Programs,  \* the lists of operations that may be ordered
    Addresses, \* addresses of provisions, sequences of labels
    Acts,      \* moments of amending acts: effective, enacted, identifier
    Texts,     \* what the payload of an operation may say
    NoWhere,   \* the destination of an operation that moves nothing
    NoText     \* the payload of an operation that states nothing

Operation ==
    [action : {"REPEAL", "RENUMBER", "INSERT"}, act : Acts, sequence : Nat,
     target : Addresses, destination : Addresses \cup {NoWhere},
     payload : Texts \cup {NoText}, refusing : BOOLEAN]

ASSUME OrderingAssumption ==
    /\ Acts \subseteq Nat
    /\ Addresses \subseteq Seq(Nat)
    /\ NoWhere \notin Addresses
    /\ Programs \subseteq Seq(Operation)
    /\ \A p \in Programs : \A i \in DOMAIN p :
           p[i].action = "RENUMBER" <=> p[i].destination # NoWhere

VARIABLES
    ops,     \* the operations, in the order of the input
    emitted, \* places of the operations ordered so far
    dropped, \* places of the legs the search has passed over
    stack    \* places of the legs the search is visiting

orderVars == <<ops, emitted, dropped, stack>>

-----------------------------------------------------------------------------
Places == DOMAIN ops

IsLeg(i) == ops[i].action = "RENUMBER"

Emitted == {emitted[k] : k \in DOMAIN emitted}

Visiting == {stack[k] : k \in DOMAIN stack}

\* What is left; a leg that is being visited is still to be emitted.
Rest == Places \ (Emitted \cup dropped)

\* The temporal sort, which is stable.
Before(i, j) ==
    \/ ops[i].act < ops[j].act
    \/ /\ ops[i].act = ops[j].act
       /\ \/ ops[i].sequence < ops[j].sequence
          \/ ops[i].sequence = ops[j].sequence /\ i < j

\* The group that is being ordered: that of the first act with anything left.
Group == {i \in Rest : \A j \in Rest : ops[i].act <= ops[j].act}

Repeals == {i \in Group : ops[i].action = "REPEAL"}

Legs == {i \in Group : IsLeg(i)}

First(S, i) == i \in S /\ \A j \in S \ {i} : Before(i, j)

Rank(i) == <<Len(ops[i].target)>> \o ops[i].target \o <<ops[i].sequence>>

Higher(s, t) ==
    \E k \in DOMAIN s \cap DOMAIN t :
        s[k] > t[k] /\ \A m \in 1..(k - 1) : s[m] = t[m]

\* Variant: the roots in ascending order.
LowestRoot(i) ==
    /\ i \in Legs
    /\ \A j \in Legs \ {i} :
           \/ Higher(Rank(j), Rank(i))
           \/ Rank(i) = Rank(j) /\ Before(i, j)

(***************************************************************************)
(* The order of the roots of the search, deepest address and highest label *)
(* first; equal ones keep their order.                                     *)
(***************************************************************************)
Root(i) ==
    /\ i \in Legs
    /\ \A j \in Legs \ {i} :
           \/ Higher(Rank(i), Rank(j))
           \/ Rank(i) = Rank(j) /\ Before(i, j)

SameAct(i) == {j \in Places : IsLeg(j) /\ ops[j].act = ops[i].act}

(***************************************************************************)
(* The leg that vacates the destination of i, if j is it: the last of its  *)
(* act with that target, since by_target keeps the last one.               *)
(***************************************************************************)
Vacates(j, i) ==
    /\ j \in SameAct(i)
    /\ ops[j].target = ops[i].destination
    /\ \A k \in SameAct(i) :
           k # j /\ ops[k].target = ops[i].destination => Before(k, j)

\* The search marks the targets of legs, not the legs.
Visited(i) == \E j \in Emitted : IsLeg(j) /\ ops[j].act = ops[i].act /\ ops[j].target = ops[i].target

\* Variant: the search does not mark what it is visiting.
NeverMarked(i) == FALSE

BeingVisited(i) == \E j \in Visiting : ops[j].target = ops[i].target

OrderInit ==
    /\ ops \in Programs
    /\ emitted = <<>>
    /\ dropped = {}
    /\ stack = <<>>

EmitRepeal ==
    /\ stack = <<>>
    /\ \E i \in Repeals :
           /\ First(Repeals, i)
           /\ emitted' = Append(emitted, i)
    /\ UNCHANGED <<ops, dropped, stack>>

Visit ==
    /\ stack = <<>>
    /\ Repeals = {}
    /\ \E i \in Legs :
           /\ Root(i)
           /\ ~Visited(i)
           /\ stack' = <<i>>
    /\ UNCHANGED <<ops, emitted, dropped>>

\* A leg whose target was visited before is left out of the result.
PassOver ==
    /\ stack = <<>>
    /\ Repeals = {}
    /\ \E i \in Legs :
           /\ Root(i)
           /\ Visited(i)
           /\ dropped' = dropped \cup {i}
    /\ UNCHANGED <<ops, emitted, stack>>

Top == stack[Len(stack)]

\* Variant: a leg is emitted as soon as it is visited.
FollowsNobody(j) == FALSE

\* The search goes on to j before it emits the leg it is at.
Follows(j) == Vacates(j, Top) /\ ~Visited(j) /\ ~BeingVisited(j)

Follow ==
    /\ stack # <<>>
    /\ \E j \in Places :
           /\ Follows(j)
           /\ stack' = Append(stack, j)
    /\ UNCHANGED <<ops, emitted, dropped>>

EmitLeg ==
    /\ stack # <<>>
    /\ ~ \E j \in Places : Follows(j)
    /\ emitted' = Append(emitted, Top)
    /\ stack' = SubSeq(stack, 1, Len(stack) - 1)
    /\ UNCHANGED <<ops, dropped>>

EmitOther ==
    /\ stack = <<>>
    /\ Repeals = {} /\ Legs = {}
    /\ \E i \in Group :
           /\ First(Group, i)
           /\ emitted' = Append(emitted, i)
    /\ UNCHANGED <<ops, dropped, stack>>

OrderNext ==
    \/ EmitRepeal \/ Visit \/ PassOver
    \/ Follow \/ EmitLeg \/ EmitOther

Ordered == stack = <<>> /\ Rest = {}

OrderSpec == OrderInit /\ [][OrderNext]_orderVars

=============================================================================
