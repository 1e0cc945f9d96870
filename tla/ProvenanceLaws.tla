----------------------------- MODULE ProvenanceLaws -----------------------------
(***************************************************************************)
(* What the provenance store promises.                                     *)
(***************************************************************************)
EXTENDS ProvenanceStore

WellFormed ==
    \A n \in DOMAIN disk :
        \/ [dir |-> n.dir, key |-> n.key, content |-> disk[n]] \in Files
        \/ disk[n] = Torn

\* Every file and every variable has its type.
TypeOK ==
    /\ WellFormed
    /\ at \in [Procs -> Places]
    /\ todo \in [Procs -> SUBSET Files]
    /\ file \in [Procs -> Files \cup {NoFile}]
    /\ cmd \in [Procs -> Commands \cup {NoCommand}]
    /\ graph \in [Operators -> Graphs \cup {NoGraph}]
    /\ retracted \in [Operators -> SUBSET Assertions]
    /\ stamp \in 0..MaxStamp
    /\ crashes \in 0..MaxCrashes
    /\ published \subseteq Recording
    /\ asked \in [Operators -> Questions \cup {NoQuestion}]
    /\ answer \in [Operators -> Answers]

(***************************************************************************)
(* The store implements the ledger: whatever is written, cut short or read *)
(* half-way, no answer passes over a build that was published before the   *)
(* question and relied on the retracted assertion, and none calls a build  *)
(* clean that relied on anything retracted before the question.            *)
(***************************************************************************)
Ledger == INSTANCE TaintLedger WITH retracted <- RetractedOnDisk

ImplementsLedger == Ledger!Spec

(***************************************************************************)
(* "Every write is idempotent: writing the same content twice is safe"     *)
(* (GraphStore): a recording that returned, were it a retry, has its files *)
(* whole once nobody writes.                                               *)
(***************************************************************************)
RetryCompletes ==
    (\A p \in Procs : at[p] = "idle") =>
        \A r \in published :
            /\ Holds(Same("builds", r))
            /\ \A e \in EdgesOf(r) : Holds(Same("edges", e))

(***************************************************************************)
(* When nobody is running and nobody died, and no build was recorded with  *)
(* two different sets of assertions, the store is whole and every status   *)
(* is exact: no race between recorders of one build, or between recorders  *)
(* and operators, leaves a build unreadable or invalid.                    *)
(***************************************************************************)
StoredGraph ==
    [nodes |-> {ObjectNode(x) : x \in Contents("objects")}
               \cup {BuildNode(r) : r \in RecordIndex},
     edges |-> Contents("edges")]

ExactStatus(r) == IF r.consumed \cap RetractedOnDisk # {} THEN "tainted" ELSE "clean"

QuietStoreIsExact ==
    /\ \A p \in Procs : at[p] = "idle"
    /\ crashes = 0
    /\ \A r, s \in published : r.build = s.build => r = s
    => /\ \A n \in DOMAIN disk : disk[n] # Torn
       /\ \A r \in published :
             /\ Status(StoredGraph, RecordIndex, RetractedOnDisk, r.build) = ExactStatus(r)
             /\ Holds(BuildNode(r))

(***************************************************************************)
(* A command of an operator fails to read for a cause only: another        *)
(* process has a file open, somebody died, or a build was recorded with    *)
(* two different sets of assertions.                                       *)
(***************************************************************************)
Recorded == published \cup {cmd[p].recording : p \in {q \in Recorders : cmd[q] # NoCommand}}

RecordedTwice(b) == \E r, s \in Recorded : r # s /\ r.build = b /\ s.build = b

RaisesForCause ==
    \A o \in Operators : CannotRead(o) =>
        \/ \E p \in Procs : at[p] = "close"
        \/ crashes > 0
        \/ \E b \in Builds : RecordedTwice(b)

(***************************************************************************)
(* Once a build is published and an assertion it relied on is retracted,   *)
(* an operator who keeps asking is told so, or told that the build's       *)
(* records contradict each other.                                          *)
(***************************************************************************)
Told(b) ==
    \E o \in Operators : \E f \in answer[o].builds :
        /\ f.build = b
        /\ \/ f.status = "tainted"
           \/ f.status = "invalid" /\ RecordedTwice(b)

RetractionIsReported ==
    \A b \in Builds, a \in Assertions :
        (a \in RetractedOnDisk /\ \E r \in published : r.build = b /\ a \in r.consumed)
            ~> Told(b)

=============================================================================
