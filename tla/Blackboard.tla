------------------------------- MODULE Blackboard -------------------------------
(***************************************************************************)
(* The blackboard composer (ingest/blackboard.py): knowledge sources read  *)
(* a journal of marks about regions of a document and post new ones, until *)
(* a round adds nothing or the rounds run out; then the decisions in the   *)
(* journal are promoted to a ledger of claims, the undecided regions fall  *)
(* back on the deterministic composer, and a gate checks the result.       *)
(*                                                                         *)
(* A region is a set of nodes.  The journal is kept in two parts: the      *)
(* decisions in the order of posting, which counts, and the other marks,   *)
(* whose order nothing reads.  Posting a mark again is no step, so that    *)
(* the marks drawn are those that are new.  A decision carries a claim to  *)
(* the nodes of its region, as those of the seam adjudicator do.           *)
(***************************************************************************)
EXTENDS Naturals, Sequences, FiniteSets

CONSTANTS
    Regions,         \* regions that may be marked: sets of nodes
    Rank,            \* region |-> its place among the keys
    Sources,         \* producers of marks
    Ops,             \* kinds of decisions they take
    Raised,          \* kinds of marks they post besides: "candidate", "open"
    Asked,           \* control lines that post a mark: "defer", "escalate"
    Seeds,           \* sets of [kind, region] the metadata may give
    Pages,           \* numbers of the pages
    Chains,          \* sets of nodes the deterministic composer joins
    Unsound,         \* <<op, nodes>> of the claims the gate refuses
    MaxRounds, MaxExpansions, MaxContextPages,  \* the budget
    MaxPosted        \* bound: decisions and marks the sources post in a run

MarkKinds == {"candidate", "open", "contested", "defer", "garble", "escalate"}

Preseed   == "preseed"     \* the producer of the seeds
Detector  == "detector"    \* the producer of contests
Affordance == "affordance" \* the producer of what control lines post

Mark == [kind : MarkKinds, region : Regions,
         producer : Sources \cup {Preseed, Detector, Affordance}]

Decision == [op : Ops, region : Regions, producer : Sources]

\* A claim to nodes; by is the decision it stands for, or 0.
Claim == [op : Ops \cup {"rejoin"}, nodes : SUBSET UNION Regions, by : Nat]

Phases == {"detect", "schedule", "promote", "residue", "gate", "done"}

ASSUME BlackboardAssumption ==
    \* A document and the vocabulary of its marks are finite.
    /\ IsFiniteSet(Regions) /\ IsFiniteSet(Pages) /\ IsFiniteSet(Sources)
    /\ \A r \in Regions : r # {}
    /\ Rank \in [Regions -> Nat]
    /\ \A r, q \in Regions : Rank[r] = Rank[q] => r = q
    /\ Raised \subseteq {"candidate", "open"}
    /\ Asked \subseteq {"defer", "escalate"}
    /\ Seeds \subseteq SUBSET [kind : {"candidate", "open", "garble"}, region : Regions]
    /\ Pages \subseteq Nat
    /\ Chains \in Seq(SUBSET UNION Regions)
    /\ \A i, j \in DOMAIN Chains : i # j => Chains[i] \cap Chains[j] = {}
    /\ MaxRounds \in Nat \ {0}
    /\ MaxExpansions \in Nat /\ MaxContextPages \in Nat /\ MaxPosted \in Nat

VARIABLES
    marks,     \* the marks that are no decisions
    decisions, \* the decisions, in the order of the journal
    widened,   \* region |-> pages its window was widened to
    expansions,\* expansions used
    round,     \* number of the round
    added,     \* something was added in this round
    phase,     \* where the controller is
    ending,    \* how the rounds ended
    next,      \* what is promoted next
    ledger,    \* claims promoted so far
    owned,     \* nodes they own
    exhausted, \* regions left undecided
    emitted,   \* the ledger that passed the gate
    seeded     \* history: the marks of the beginning

board  == <<marks, decisions, widened, expansions, seeded>>
result == <<next, ledger, owned, exhausted, emitted>>
vars   == <<board, round, added, phase, ending, result>>

-----------------------------------------------------------------------------
(* What the journal says.                                                  *)

Journal == {decisions[i] : i \in DOMAIN decisions}

Decided == {d.region : d \in Journal}

Contested == {m.region : m \in {n \in marks : n.kind = "contested"}}

\* Regions on which two kinds of decision have been taken.
InConflict == {r \in Decided : \E d, e \in Journal : d.region = r /\ e.region = r /\ d.op # e.op}

Contests == {[kind |-> "contested", region |-> r, producer |-> Detector] : r \in InConflict}

\* An open, contested or candidate mark, or a deferral, that no decision closes.
Live == {m.region : m \in {n \in marks :
                              /\ n.kind \in {"contested", "open", "candidate", "defer"}
                              /\ n.region \notin Decided \/ n.region \in Contested}}

Priority(r) ==
    IF r \in Contested THEN 0
    ELSE IF \E m \in marks : m.region = r /\ m.kind = "open" THEN 1
    ELSE 2

Before(r, q) == Priority(r) < Priority(q) \/ (Priority(r) = Priority(q) /\ Rank[r] < Rank[q])

\* The region that is scheduled: one a round.
IsTarget(r) == r \in Live /\ \A q \in Live \ {r} : Before(r, q)

-----------------------------------------------------------------------------
Init ==
    /\ \E seed \in Seeds :
           marks = {[kind |-> s.kind, region |-> s.region, producer |-> Preseed] : s \in seed}
    /\ seeded = marks
    /\ decisions = <<>>
    /\ widened = [r \in Regions |-> {}]
    /\ expansions = 0 /\ round = 0 /\ added = FALSE
    /\ phase = "detect" /\ ending = "none"
    /\ next = 1 /\ ledger = <<>> /\ owned = {} /\ exhausted = {} /\ emitted = <<>>

\* The rounds are over.
End(how) == phase' = "promote" /\ ending' = how

(***************************************************************************)
(* A round begins: conflicts are marked, and if nothing is live the rounds *)
(* are over.  (A conflict just marked is live, so that there is no round   *)
(* that adds contests and schedules nothing.)                              *)
(***************************************************************************)
Detect ==
    /\ phase = "detect"
    /\ round' = round + 1
    /\ marks' = marks \cup Contests
    /\ added' = (Contests \ marks # {})
    /\ UNCHANGED <<decisions, widened, expansions, seeded, result>>
    /\ \/ Live' = {} /\ End("fixpoint")
       \/ Live' # {} /\ phase' = "schedule" /\ UNCHANGED ending

\* Another round if this one has moved anything and one is left.
EndRound(moved) ==
    \/ ~moved /\ End("fixpoint")
    \/ moved /\ round = MaxRounds /\ End("budget_exhausted")
    \/ moved /\ round < MaxRounds /\ phase' = "detect" /\ UNCHANGED ending

\* No source wants the region.
Decline ==
    /\ phase = "schedule"
    /\ EndRound(added)
    /\ UNCHANGED <<board, round, added, result>>

\* EXPAND lo hi: at most so many pages a time, so many times a run.
LeftOneMore == MaxExpansions + 1 - expansions
Left == MaxExpansions - expansions

Windows == {{p \in Pages : lo <= p /\ p <= hi /\ p < lo + MaxContextPages} : lo, hi \in Pages}

\* The control lines of a reply widen the window of r k times.
Expand(r) ==
    \E k \in 0..MaxExpansions, W \in SUBSET Windows :
        /\ k <= Left
        /\ Cardinality(W) <= k /\ (k > 0 => W # {})
        /\ expansions' = expansions + k
        /\ widened' = [widened EXCEPT ![r] = @ \cup UNION W]

\* What the sources may post still.
Room == MaxPosted - Len(decisions) - Cardinality({m \in marks : m.producer \in Sources})

\* What s may decide that the journal does not hold, in the order of its reply.
Reply(s, n) ==
    {ds \in [1..n -> [op : Ops, region : Regions, producer : {s}] \ Journal] :
        \A i, j \in 1..n : ds[i] = ds[j] => i = j}

Raise(s) == SUBSET ([kind : Raised, region : Regions, producer : {s}] \ marks)

\* What counts as progress of a round; the last is the one of the code.
MovedByMarks(ds, said) == said # {} \/ widened' # widened
MovedByAsking(ds, said) == ds # <<>> \/ said # {} \/ expansions' # expansions
Moved(ds, said) == ds # <<>> \/ said # {} \/ widened' # widened

(***************************************************************************)
(* The first source that wants the region is run on it.  Its control lines *)
(* come first; what they post is not counted, only that a window has       *)
(* grown.  Then its marks are posted, on whatever regions they name.       *)
(***************************************************************************)
RunSource(s) ==
    /\ phase = "schedule"
    /\ \E r \in Regions, asks \in SUBSET Asked, n \in {k \in 0..MaxPosted : k <= Room} :
       \E ds \in Reply(s, n), said \in Raise(s) :
           /\ IsTarget(r)
           /\ n + Cardinality(said) <= Room
           /\ Expand(r)
           /\ decisions' = decisions \o ds
           /\ marks' = marks \cup said
                             \cup {[kind |-> a, region |-> r, producer |-> Affordance] : a \in asks}
           /\ added' = (added \/ Moved(ds, said))
    /\ EndRound(added')
    /\ UNCHANGED <<seeded, round, result>>

-----------------------------------------------------------------------------
\* In a contested region the latest decision counts.
SupersededAnywhere(i) ==
    \E j \in DOMAIN decisions : j > i /\ decisions[j].region = decisions[i].region

Superseded(i) ==
    /\ decisions[i].region \in Contested
    /\ \E j \in DOMAIN decisions : j > i /\ decisions[j].region = decisions[i].region

\* The first claim to a node owns it.
FreeAsRegion(nodes) == \A c \in DOMAIN ledger : ledger[c].nodes # nodes
Free(nodes) == nodes \cap owned = {}

Promotable(i) == ~Superseded(i) /\ Free(decisions[i].region)

Own(claim) == ledger' = Append(ledger, claim) /\ owned' = owned \cup claim.nodes

Promote ==
    /\ phase = "promote" /\ next <= Len(decisions)
    /\ Promotable(next)
    /\ Own([op |-> decisions[next].op, nodes |-> decisions[next].region, by |-> next])
    /\ next' = next + 1
    /\ UNCHANGED <<board, round, added, phase, ending, exhausted, emitted>>

PassOver ==
    /\ phase = "promote" /\ next <= Len(decisions)
    /\ ~Promotable(next)
    /\ next' = next + 1
    /\ UNCHANGED <<board, round, added, phase, ending, ledger, owned, exhausted, emitted>>

\* The regions that are live still are told, and fall back.
Exhaust ==
    /\ phase = "promote" /\ next > Len(decisions)
    /\ exhausted' = Live
    /\ phase' = "residue" /\ next' = 1
    /\ UNCHANGED <<board, round, added, ending, ledger, owned, emitted>>

Rejoin(i) == [op |-> "rejoin", nodes |-> Chains[i], by |-> 0]

FallsBack(i) == Free(Chains[i]) /\ Chains[i] \cap UNION exhausted # {}

FallBack ==
    /\ phase = "residue" /\ next <= Len(Chains)
    /\ \/ FallsBack(next) /\ Own(Rejoin(next))
       \/ ~FallsBack(next) /\ UNCHANGED <<ledger, owned>>
    /\ next' = next + 1
    /\ UNCHANGED <<board, round, added, phase, ending, exhausted, emitted>>

EndResidue ==
    /\ phase = "residue" /\ next > Len(Chains)
    /\ phase' = "gate"
    /\ UNCHANGED <<board, round, added, ending, result>>

\* The ledger of the deterministic composer alone.
Fallback == [i \in DOMAIN Chains |-> Rejoin(i)]

Sound(claims) == \A i \in DOMAIN claims : <<claims[i].op, claims[i].nodes>> \notin Unsound

\* A ledger that is refused is replaced as a whole; if that one is refused
\* too, the call fails.
Gate ==
    /\ phase = "gate"
    /\ emitted' = IF Sound(ledger) THEN ledger
                  ELSE IF Sound(Fallback) THEN Fallback ELSE <<>>
    /\ phase' = "done"
    /\ UNCHANGED <<board, round, added, ending, next, ledger, owned, exhausted>>

Next ==
    \/ Detect \/ Decline \/ (\E s \in Sources : RunSource(s))
    \/ Promote \/ PassOver \/ Exhaust \/ FallBack \/ EndResidue \/ Gate

Spec == Init /\ [][Next]_vars

=============================================================================
