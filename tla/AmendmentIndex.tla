----------------------------- MODULE AmendmentIndex -----------------------------
(***************************************************************************)
(* The cached amendment index (finland/amendment_index.py): a CSV built    *)
(* from the whole archive, which takes minutes, and beside it a sidecar    *)
(* naming the fingerprint of the archive it was built for.                 *)
(*                                                                         *)
(* Workers are processes.  Each keeps the indexes it has read, under the   *)
(* fingerprint it asked with (lru_cache).  They rebuild under a file lock  *)
(* but look at the cache without it; each of the two files is replaced     *)
(* atomically, one after the other; the archive changes under them; a      *)
(* worker may die at any step, and the kernel then frees its lock.         *)
(*                                                                         *)
(* A fingerprint (path, size, mtime) stands for the version of the archive *)
(* it was taken of.  An index is described by the oldest version any part  *)
(* of it was read from: it is exact if that is the archive's version.      *)
(***************************************************************************)
EXTENDS Naturals

CONSTANTS
    Workers,     \* processes that use the index
    MaxVersion,  \* bound: changes of the archive
    MaxFaults,   \* bound: deaths, failed builds, unreadable fingerprints
    Starts,      \* the archive and the files there may be in the beginning
    Missing,     \* a file that does not exist, an index not remembered
    OldSchema,   \* a CSV with another header
    Unknown,     \* the fingerprint of an archive that cannot be read
    NoWorker, NoCall, NoAnswer

Versions == 0..MaxVersion

Prints == Versions \cup {Unknown}

Places == {"idle", "call", "look", "adopt", "wait", "recheck", "build", "label", "read"}

\* The values that stand for nothing are no values of the kind.
ASSUME IndexAssumption ==
    /\ MaxVersion \in Nat /\ MaxFaults \in Nat
    /\ {Missing, OldSchema, Unknown, NoCall, NoAnswer} \cap Versions = {}
    /\ Missing # OldSchema /\ Missing # Unknown /\ NoCall # Unknown
    /\ NoWorker \notin Workers
    \* No file is newer than the archive; a sidecar says no more than is true.
    /\ \A s \in Starts :
           /\ s.source \in Versions
           /\ s.csv \in 0..s.source \cup {Missing, OldSchema}
           /\ \/ s.meta \in {Unknown, Missing}
              \/ s.csv \in Versions /\ s.meta \in 0..s.csv

VARIABLES
    source,    \* version of the archive
    csv, meta, \* the two files
    lock,      \* holder of the file lock
    at,        \* worker |-> the step it is at
    key,       \* worker |-> fingerprint it asked with
    print,     \* worker |-> fingerprint it compares the sidecar with
    since,     \* worker |-> version of the archive when its build began
    memo,      \* worker |-> fingerprint |-> index remembered for it
    faults,    \* faults so far
    asked,     \* history: worker |-> version of the archive when it called
    answer,    \* history: worker |-> index its last call returned
    blind,     \* history: worker |-> it has met an unreadable fingerprint
    doubtful   \* history: versions an older CSV was adopted for

files   == <<csv, meta, lock>>
history == <<asked, answer, blind, doubtful>>
vars    == <<source, files, at, key, print, since, memo, faults, history>>

\* Variant: nothing is remembered for an archive without a fingerprint.
ForgottenForGood == [p \in Versions |-> Missing]

Forgotten == [p \in Prints |-> Missing]

Init ==
    /\ \E s \in Starts : source = s.source /\ csv = s.csv /\ meta = s.meta
    /\ lock = NoWorker
    /\ at = [w \in Workers |-> "idle"]
    /\ key = [w \in Workers |-> Unknown]
    /\ print = [w \in Workers |-> Unknown]
    /\ since = [w \in Workers |-> 0]
    /\ memo = [w \in Workers |-> Forgotten]
    /\ faults = 0
    /\ asked = [w \in Workers |-> NoCall]
    /\ answer = [w \in Workers |-> NoAnswer]
    /\ blind = [w \in Workers |-> FALSE]
    /\ doubtful = {}

-----------------------------------------------------------------------------
Goto(w, place) == at' = [at EXCEPT ![w] = place]

\* What the call of w knew is gone with it.
Leave(w) ==
    /\ Goto(w, "idle")
    /\ key' = [key EXCEPT ![w] = Unknown]
    /\ print' = [print EXCEPT ![w] = Unknown]
    /\ since' = [since EXCEPT ![w] = 0]
    /\ asked' = [asked EXCEPT ![w] = NoCall]

Fault == faults < MaxFaults /\ faults' = faults + 1

(***************************************************************************)
(* The fingerprint of the archive, or none if it could not be read, in     *)
(* which case the sidecar is not consulted.                                *)
(***************************************************************************)
Fingerprint(w, p) ==
    \/ p = source /\ UNCHANGED <<faults, blind>>
    \/ p = Unknown /\ Fault /\ blind' = [blind EXCEPT ![w] = TRUE]

(***************************************************************************)
(* The two verdicts of _amendment_index_cache_is_current that are not      *)
(* "rebuild".  It reads the CSV's header and then the sidecar, but a CSV   *)
(* with the right header keeps it and a sidecar is never removed, so what  *)
(* it finds holds when it reads the last of them.                          *)
(***************************************************************************)
Current(w) ==
    /\ csv \in Versions
    /\ print[w] = Unknown \/ meta = print[w]

Adoptable(w) ==
    /\ csv \in Versions
    /\ print[w] # Unknown
    /\ meta = Missing

-----------------------------------------------------------------------------
\* The archive is updated.
Change ==
    /\ source < MaxVersion
    /\ source' = source + 1
    /\ UNCHANGED <<files, at, key, print, since, memo, faults, history>>

\* get_amendment_children: the fingerprint is the key of the remembered index.
Call(w) ==
    /\ at[w] = "idle"
    /\ \E p \in Prints :
           /\ Fingerprint(w, p)
           /\ key' = [key EXCEPT ![w] = p]
    /\ Goto(w, "call")
    /\ asked' = [asked EXCEPT ![w] = source]
    /\ answer' = [answer EXCEPT ![w] = NoAnswer]
    /\ UNCHANGED <<source, files, print, since, memo, doubtful>>

\* Variant: the index is remembered whatever the fingerprint.
RememberedAlways(w) ==
    LET known == {p \in Prints : memo[w][p] # Missing}
    IN  IF known = {} THEN Missing ELSE memo[w][CHOOSE p \in known : TRUE]

Remembered(w) == memo[w][key[w]]

\* lru_cache: an index read for this key before is returned as it is.
Recall(w) ==
    /\ at[w] = "call"
    /\ Remembered(w) # Missing
    /\ answer' = [answer EXCEPT ![w] = Remembered(w)]
    /\ Leave(w)
    /\ UNCHANGED <<source, files, memo, faults, blind, doubtful>>

\* ensure_amendment_index takes a fingerprint of its own.
Probe(w) ==
    /\ at[w] = "call"
    /\ Remembered(w) = Missing
    /\ \E p \in Prints :
           /\ Fingerprint(w, p)
           /\ print' = [print EXCEPT ![w] = p]
    /\ Goto(w, "look")
    /\ UNCHANGED <<source, files, key, since, memo, asked, answer, doubtful>>

\* The first look at the cache, without the lock.
Look(w) ==
    /\ at[w] = "look"
    /\ \/ Current(w) /\ Goto(w, "read")
       \/ Adoptable(w) /\ Goto(w, "adopt")
       \/ ~Current(w) /\ ~Adoptable(w) /\ Goto(w, "wait")
    /\ UNCHANGED <<source, files, key, print, since, memo, faults, history>>

Release(w) == lock' = IF lock = w THEN NoWorker ELSE lock

(***************************************************************************)
(* A CSV without a sidecar is taken for the index of the version the       *)
(* worker knows, with the lock or without it; by now another sidecar may   *)
(* be there, and is replaced.                                              *)
(***************************************************************************)
Adopt(w) ==
    /\ at[w] = "adopt"
    /\ meta' = print[w]
    /\ doubtful' = doubtful \cup {v \in Versions : csv < v /\ v <= print[w]}
    /\ Release(w)
    /\ Goto(w, "read")
    /\ UNCHANGED <<source, csv, key, print, since, memo, faults, asked, answer, blind>>

\* Variant: the lock is shared.
AcquireShared(w) ==
    /\ at[w] = "wait"
    /\ lock' = w
    /\ Goto(w, "recheck")
    /\ UNCHANGED <<source, csv, meta, key, print, since, memo, faults, history>>

Acquire(w) ==
    /\ at[w] = "wait"
    /\ lock = NoWorker
    /\ lock' = w
    /\ Goto(w, "recheck")
    /\ UNCHANGED <<source, csv, meta, key, print, since, memo, faults, history>>

\* The second look, with the lock: somebody else may have built the index.
Recheck(w) ==
    /\ at[w] = "recheck"
    /\ \/ Current(w) /\ Release(w) /\ Goto(w, "read") /\ UNCHANGED since
       \/ Adoptable(w) /\ Goto(w, "adopt") /\ UNCHANGED <<lock, since>>
       \/ /\ ~Current(w) /\ ~Adoptable(w)
          /\ Goto(w, "build")
          /\ since' = [since EXCEPT ![w] = source]
          /\ UNCHANGED lock
    /\ UNCHANGED <<source, csv, meta, key, print, memo, faults, history>>

\* The archive is read, for minutes, and the CSV replaced.
ReplaceCsv(w) ==
    /\ at[w] = "build"
    /\ csv' \in since[w]..source
    /\ Goto(w, "label")
    /\ UNCHANGED <<source, meta, lock, key, print, since, memo, faults, history>>

\* Variant: the sidecar names the archive as it is when the build ends.
LabelOfEnd(w) == source

\* The sidecar names the archive as it was before the build.
Label(w) == print[w]

\* Variant: having built, the worker looks again until the cache is current.
ReplaceMetaAndLook(w) ==
    /\ at[w] = "label"
    /\ meta' = Label(w)
    /\ Release(w)
    /\ Goto(w, "look")
    /\ UNCHANGED <<source, csv, key, print, since, memo, faults, history>>

ReplaceMeta(w) ==
    /\ at[w] = "label"
    /\ meta' = Label(w)
    /\ Release(w)
    /\ Goto(w, "read")
    /\ UNCHANGED <<source, csv, key, print, since, memo, faults, history>>

\* The CSV is read without the lock, and remembered.
Read(w) ==
    /\ at[w] = "read"
    /\ memo' = [memo EXCEPT ![w][key[w]] = csv]
    /\ answer' = [answer EXCEPT ![w] = csv]
    /\ Leave(w)
    /\ UNCHANGED <<source, files, faults, blind, doubtful>>

\* A build raises: the lock is released and nothing is remembered.
FailBuild(w) ==
    /\ at[w] = "build"
    /\ Fault
    /\ Release(w)
    /\ Leave(w)
    /\ UNCHANGED <<source, csv, meta, memo, answer, blind, doubtful>>

\* The worker dies, and a new process takes its place.
Die(w) ==
    /\ at[w] # "idle"
    /\ Fault
    /\ Release(w)
    /\ Leave(w)
    /\ memo' = [memo EXCEPT ![w] = Forgotten]
    /\ blind' = [blind EXCEPT ![w] = FALSE]
    /\ UNCHANGED <<source, csv, meta, answer, doubtful>>

Step(w) ==
    \/ Recall(w) \/ Probe(w)
    \/ Look(w) \/ Adopt(w)
    \/ Acquire(w) \/ Recheck(w)
    \/ ReplaceCsv(w) \/ ReplaceMeta(w)
    \/ Read(w)

Next ==
    \/ Change
    \/ \E w \in Workers : Call(w) \/ Step(w) \/ FailBuild(w) \/ Die(w)

Spec == Init /\ [][Next]_vars

\* A worker that runs goes on running; nobody has to call.
FairSpec == Spec /\ \A w \in Workers : WF_vars(Step(w))

=============================================================================
