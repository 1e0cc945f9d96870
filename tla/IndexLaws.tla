------------------------------- MODULE IndexLaws -------------------------------
(***************************************************************************)
(* What the amendment index promises.                                      *)
(***************************************************************************)
EXTENDS AmendmentIndex

\* Every file and every variable has its type; nothing is newer than the archive.
TypeOK ==
    /\ source \in Versions
    /\ csv \in 0..source \cup {Missing, OldSchema}
    /\ meta \in 0..source \cup {Unknown, Missing}
    /\ lock \in Workers \cup {NoWorker}
    /\ at \in [Workers -> Places]
    /\ key \in [Workers -> 0..source \cup {Unknown}]
    /\ print \in [Workers -> 0..source \cup {Unknown}]
    /\ since \in [Workers -> 0..source]
    /\ memo \in [Workers -> [Prints -> 0..source \cup {Missing}]]
    /\ faults \in 0..MaxFaults
    /\ asked \in [Workers -> 0..source \cup {NoCall}]
    /\ answer \in [Workers -> 0..source \cup {NoAnswer}]
    /\ blind \in [Workers -> BOOLEAN]
    /\ doubtful \subseteq 1..source

(***************************************************************************)
(* The cache implements the promise: whoever builds, dies between the two  *)
(* files, labels late or looks half-way, no call returns an index older    *)
(* than the archive it was made for, unless its worker could not read a    *)
(* fingerprint or an older CSV had been adopted for that version.          *)
(***************************************************************************)
Promise == INSTANCE FreshIndex

ImplementsPromise == Promise!Spec

(***************************************************************************)
(* The sidecar tells the truth: the CSV shows all that the archive held    *)
(* in the version the sidecar names, adopted versions apart.               *)
(***************************************************************************)
LabelIsTrue == meta \in Versions => csv \in Versions /\ Promise!Shows(csv, meta)

(***************************************************************************)
(* A CSV is never replaced by an older one, however long ago the worker    *)
(* that replaces it read its fingerprint.                                  *)
(***************************************************************************)
IndexNeverGoesBack ==
    [][(csv \in Versions) => (csv' \in Versions /\ csv <= csv')]_vars

(***************************************************************************)
(* Every call ends, whoever holds the lock and whoever dies.               *)
(***************************************************************************)
CallEnds == \A w \in Workers : at[w] # "idle" ~> at[w] = "idle"

=============================================================================
