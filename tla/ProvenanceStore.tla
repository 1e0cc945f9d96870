---------------------------- MODULE ProvenanceStore ----------------------------
(***************************************************************************)
(* The provenance graph store and the retraction taint it answers for:     *)
(* core/provenance_graph_storage.py (files), core/build_consumption.py     *)
(* (recording what a build relied on), tools/cmd_claim.py (the operator's  *)
(* commands).                                                              *)
(*                                                                         *)
(* Recorders and operators are processes that share a directory tree and   *)
(* take no lock.  Every file is named by what it holds, written once if it *)
(* is not there yet, in two visible steps: opening truncates it, closing   *)
(* completes it.  A process may die between any two steps.                 *)
(*                                                                         *)
(* A file is [dir, key, content]; the key stands for its name.  The        *)
(* content is the key again, except that a build's node also carries the   *)
(* hash of its record.                                                     *)
(***************************************************************************)
EXTENDS Naturals, FiniteSets

CONSTANTS
    Assertions,  \* ids of assertions
    Builds,      \* build ids: the roots of what the builds emitted
    Recorders,   \* processes that emit builds
    Operators,   \* processes that run `lawvm claim'
    Drawn,       \* bound: the commands drawn
    Filed,       \* assertions in the store from the beginning
    HashOrder,   \* recording |-> place of its record in the sorted directory
    MaxStamp,    \* bound: attestations written
    MaxCrashes,  \* bound: processes that die
    Torn,        \* content of a file cut short
    NoQuestion, NoFile, NoGraph, NoCommand

Procs == Recorders \cup Operators

Recording == [build : Builds, consumed : SUBSET Assertions]

Edge == [subject : Assertions, build : Builds]

AttestationKinds == {"claim_submitted", "reviewed", "retracted", "superseded"}

\* Assertions have stamp 0; the time of an attestation is part of its id.
Object ==
    [kind : {"assertion"}, subject : Assertions, stamp : {0}]
    \cup [kind : AttestationKinds, subject : Assertions, stamp : 1..MaxStamp]

Graphs == [nodes : SUBSET ([dir : {"nodes"}, key : Object \cup Builds,
                            content : Object \cup Recording]),
           edges : SUBSET Edge]

Files ==
    [dir : {"objects"}, key : Object, content : Object]
    \cup [dir : {"builds"}, key : Recording, content : Recording]
    \cup [dir : {"nodes"}, key : Object \cup Builds, content : Object \cup Recording]
    \cup [dir : {"edges"}, key : Edge, content : Edge]
    \cup [dir : {"snapshots"}, key : Graphs, content : Graphs]

Commands ==
    [do : {"record"}, recording : Recording]
    \cup [do : {"propose", "review", "retract", "report"}, about : Assertions]
    \cup [do : {"supersede"}, about : Assertions, with : Assertions]

Places == {"idle", "check", "open", "close",
           "objects", "builds", "edges", "attestations", "records"}

Questions == [about : Assertions, published : SUBSET Recording,
              retracted : SUBSET Assertions]

Statuses == {"unknown", "uninstrumented", "invalid", "clean", "tainted"}

Answers == [outcome : {"none", "raised", "given"},
            builds  : SUBSET [build : Builds, status : Statuses]]

\* The values that stand for nothing are no values of the kind.
ASSUME SentinelAssumption ==
    /\ Torn \notin Object \cup Recording \cup Edge \cup Graphs
    /\ NoFile \notin Files
    /\ NoGraph \notin Graphs
    /\ NoCommand \notin Commands
    /\ NoQuestion \notin Questions

ASSUME StoreAssumption ==
    /\ MaxStamp \in Nat /\ MaxCrashes \in Nat
    /\ IsFiniteSet(Assertions)
    /\ Recorders \cap Operators = {}
    /\ Builds \cap Object = {}
    /\ Drawn \subseteq Commands /\ Filed \subseteq Assertions
    /\ HashOrder \in [Recording -> Nat]
    /\ \A r, s \in Recording : r.build = s.build /\ HashOrder[r] = HashOrder[s] => r = s

VARIABLES
    disk,       \* [dir, key] |-> content, for the files that exist
    at,         \* process |-> the step it is at
    todo,       \* process |-> files it has still to write
    file,       \* process |-> file it is writing
    cmd,        \* process |-> command it runs
    graph,      \* operator |-> the graph it has put together
    retracted,  \* operator |-> assertions it has read a retraction of
    stamp,      \* attestations written so far: the clock
    crashes,    \* processes that have died so far
    published,  \* history: recordings whose recorder has returned
    asked,      \* history: operator |-> what had happened when it began to read
    answer      \* operator |-> the answer of its last report

reading == <<graph, retracted>>
vars == <<disk, at, todo, file, cmd, reading, stamp, crashes, published, asked, answer>>

-----------------------------------------------------------------------------
(***************************************************************************)
(* Files and what they hold.                                               *)
(***************************************************************************)
Name(f) == [dir |-> f.dir, key |-> f.key]

Same(dir, key) == [dir |-> dir, key |-> key, content |-> key]

AssertionObject(a) == [kind |-> "assertion", subject |-> a, stamp |-> 0]

AssertionFile(a) == Same("objects", AssertionObject(a))

AttestationFile(kind, a, time) ==
    Same("objects", [kind |-> kind, subject |-> a, stamp |-> time])

ObjectNode(o) == Same("nodes", o)

\* The node of a build: build_node_for_record.
BuildNode(r) == [dir |-> "nodes", key |-> r.build, content |-> r]

\* Variant: source and destination swapped.
EdgesOfSwapped(r) == {[subject |-> r.build, build |-> a] : a \in r.consumed}

EdgesOf(r) == {[subject |-> a, build |-> r.build] : a \in r.consumed}

\* What write_graph writes: nodes, edges, then the snapshot.
GraphFiles(g) ==
    g.nodes \cup {Same("edges", e) : e \in g.edges} \cup {Same("snapshots", g)}

\* Variant: the graph is written before its edges are added.
RecordFilesEarly(r) ==
    {Same("builds", r)} \cup GraphFiles([nodes |-> {BuildNode(r)}, edges |-> {}])

RecordFiles(r) ==
    {Same("builds", r)}
    \cup GraphFiles([nodes |-> {BuildNode(r)}, edges |-> EdgesOf(r)])

\* Files are written in this order, those of one kind in the order of their
\* hashes, whatever that is.
Stage(f) ==
    CASE f.dir = "objects"   -> f.key.stamp
      [] f.dir = "builds"    -> 0
      [] f.dir = "nodes"     -> 1
      [] f.dir = "edges"     -> 2
      [] f.dir = "snapshots" -> 3

NextOf(S) == CHOOSE f \in S : \A g \in S : Stage(f) <= Stage(g)

In(dir) == {n \in DOMAIN disk : n.dir = dir}

Readable(dir) == \A n \in In(dir) : disk[n] # Torn

Contents(dir) == {disk[n] : n \in In(dir)}

Holds(f) == Name(f) \in DOMAIN disk /\ disk[Name(f)] = f.content

Put(f, content) ==
    [n \in DOMAIN disk \cup {Name(f)} |-> IF n = Name(f) THEN content ELSE disk[n]]

-----------------------------------------------------------------------------
NoAnswer     == [outcome |-> "none", builds |-> {}]
Raised       == [outcome |-> "raised", builds |-> {}]
Given(found) == [outcome |-> "given", builds |-> found]

Init ==
    /\ disk = [n \in {Name(AssertionFile(a)) : a \in Filed} |-> n.key]
    /\ at = [p \in Procs |-> "idle"]
    /\ todo = [p \in Procs |-> {}]
    /\ file = [p \in Procs |-> NoFile]
    /\ cmd = [p \in Procs |-> NoCommand]
    /\ graph = [o \in Operators |-> NoGraph]
    /\ retracted = [o \in Operators |-> {}]
    /\ stamp = 0
    /\ crashes = 0
    /\ published = {}
    /\ asked = [o \in Operators |-> NoQuestion]
    /\ answer = [o \in Operators |-> NoAnswer]

-----------------------------------------------------------------------------
(***************************************************************************)
(* Writing: _write_json.                                                   *)
(***************************************************************************)
\* The file is already there: nothing is written, whatever it holds.
Skip(p) ==
    /\ at[p] = "check"
    /\ todo[p] # {}
    /\ Name(NextOf(todo[p])) \in DOMAIN disk
    /\ todo' = [todo EXCEPT ![p] = @ \ {NextOf(todo[p])}]
    /\ UNCHANGED <<disk, at, file, cmd, reading, stamp, crashes, published, asked, answer>>

FindMissing(p) ==
    /\ at[p] = "check"
    /\ todo[p] # {}
    /\ Name(NextOf(todo[p])) \notin DOMAIN disk
    /\ file' = [file EXCEPT ![p] = NextOf(todo[p])]
    /\ at' = [at EXCEPT ![p] = "open"]
    /\ UNCHANGED <<disk, todo, cmd, reading, stamp, crashes, published, asked, answer>>

\* Opening for writing truncates what another process may have put there since.
Open(p) ==
    /\ at[p] = "open"
    /\ disk' = Put(file[p], Torn)
    /\ at' = [at EXCEPT ![p] = "close"]
    /\ UNCHANGED <<todo, file, cmd, reading, stamp, crashes, published, asked, answer>>

\* Variant: a node keeps its name only, not the hash of what it stands for.
CloseNameOnly(p) ==
    /\ at[p] = "close"
    /\ disk' = Put(file[p], file[p].key)
    /\ todo' = [todo EXCEPT ![p] = @ \ {file[p]}]
    /\ file' = [file EXCEPT ![p] = NoFile]
    /\ at' = [at EXCEPT ![p] = "check"]
    /\ UNCHANGED <<cmd, reading, stamp, crashes, published, asked, answer>>

Close(p) ==
    /\ at[p] = "close"
    /\ disk' = Put(file[p], file[p].content)
    /\ todo' = [todo EXCEPT ![p] = @ \ {file[p]}]
    /\ file' = [file EXCEPT ![p] = NoFile]
    /\ at' = [at EXCEPT ![p] = "check"]
    /\ UNCHANGED <<cmd, reading, stamp, crashes, published, asked, answer>>

Written(p) == at[p] = "check" /\ todo[p] = {}

-----------------------------------------------------------------------------
(***************************************************************************)
(* record_build_in_store.  The build is published when it returns.         *)
(***************************************************************************)
BeginRecord(p, c) ==
    /\ c.do = "record"
    /\ at[p] = "idle"
    /\ cmd' = [cmd EXCEPT ![p] = c]
    /\ todo' = [todo EXCEPT ![p] = RecordFiles(c.recording)]
    /\ at' = [at EXCEPT ![p] = "check"]
    /\ UNCHANGED <<disk, file, reading, stamp, crashes, published, asked, answer>>

\* Variant: the build is published as soon as its record is there.
PublishEarly(p) ==
    /\ at[p] = "check"
    /\ \A f \in todo[p] : f.dir # "builds"
    /\ published' = published \cup {cmd[p].recording}
    /\ todo' = [todo EXCEPT ![p] = {}]
    /\ cmd' = [cmd EXCEPT ![p] = NoCommand]
    /\ at' = [at EXCEPT ![p] = "idle"]
    /\ UNCHANGED <<disk, file, reading, stamp, crashes, asked, answer>>

Publish(p) ==
    /\ Written(p)
    /\ published' = published \cup {cmd[p].recording}
    /\ cmd' = [cmd EXCEPT ![p] = NoCommand]
    /\ at' = [at EXCEPT ![p] = "idle"]
    /\ UNCHANGED <<disk, todo, file, reading, stamp, crashes, asked, answer>>

-----------------------------------------------------------------------------
(***************************************************************************)
(* The operator's commands: cmd_propose, cmd_accept and cmd_reject (which  *)
(* differ in the payload), cmd_retract, cmd_supersede, cmd_taint_report.   *)
(***************************************************************************)
OwnFiles(c) ==
    CASE c.do = "propose"   -> {AssertionFile(c.about),
                                AttestationFile("claim_submitted", c.about, stamp + 1)}
      [] c.do = "review"    -> {AttestationFile("reviewed", c.about, stamp + 1)}
      [] c.do = "retract"   -> {AttestationFile("retracted", c.about, stamp + 1)}
      [] c.do = "supersede" -> {AssertionFile(c.with),
                                AttestationFile("claim_submitted", c.with, stamp + 1),
                                AttestationFile("superseded", c.about, stamp + 2)}
      [] c.do = "report"    -> {}

Attestations(c) ==
    CASE c.do = "supersede" -> 2
      [] c.do = "report"    -> 0
      [] OTHER              -> 1

\* An attestation is made about an assertion that can be read.
Begin(o, c) ==
    /\ c.do # "record"
    /\ at[o] = "idle"
    /\ c.do \in {"review", "retract", "supersede"} => Holds(AssertionFile(c.about))
    /\ stamp + Attestations(c) <= MaxStamp
    /\ stamp' = stamp + Attestations(c)
    /\ cmd' = [cmd EXCEPT ![o] = c]
    /\ todo' = [todo EXCEPT ![o] = OwnFiles(c)]
    /\ at' = [at EXCEPT ![o] = "check"]
    /\ answer' = [answer EXCEPT ![o] = NoAnswer]
    /\ UNCHANGED <<disk, file, reading, crashes, published, asked>>

Asks(c) == c.do \in {"retract", "report"}

RetractedOnDisk ==
    {x.subject : x \in {y \in Contents("objects") \ {Torn} : y.kind = "retracted"}}

Question(a) == [about |-> a, published |-> published, retracted |-> RetractedOnDisk]

StartReading(o) ==
    /\ Written(o)
    /\ graph[o] = NoGraph
    /\ at' = [at EXCEPT ![o] = "objects"]
    /\ asked' = IF Asks(cmd[o]) THEN [asked EXCEPT ![o] = Question(cmd[o].about)]
                ELSE asked
    /\ UNCHANGED <<disk, todo, file, cmd, reading, stamp, crashes, published, answer>>

\* _build_live_snapshot.  A directory is listed and read in one step; a file
\* that is open for writing then, or was cut short earlier, is no JSON.
LoadObjects(o) ==
    /\ at[o] = "objects"
    /\ Readable("objects")
    /\ graph' = [graph EXCEPT ![o] = [nodes |-> {ObjectNode(x) : x \in Contents("objects")},
                                      edges |-> {}]]
    /\ at' = [at EXCEPT ![o] = "builds"]
    /\ UNCHANGED <<disk, todo, file, cmd, retracted, stamp, crashes, published, asked, answer>>

\* load_build_record_index: of several records of one build the last in
\* directory order remains.
RecordIndex ==
    {r \in Contents("builds") :
        \A s \in Contents("builds") : s.build = r.build => HashOrder[s] <= HashOrder[r]}

LoadBuilds(o) ==
    /\ at[o] = "builds"
    /\ Readable("builds")
    /\ graph' = [graph EXCEPT ![o].nodes = @ \cup {BuildNode(r) : r \in RecordIndex}]
    /\ at' = [at EXCEPT ![o] = "edges"]
    /\ UNCHANGED <<disk, todo, file, cmd, retracted, stamp, crashes, published, asked, answer>>

\* A report works on the graph as loaded; the others write it first.
LoadEdges(o) ==
    LET loaded == [graph[o] EXCEPT !.edges = Contents("edges")]
    IN  /\ at[o] = "edges"
        /\ Readable("edges")
        /\ graph' = [graph EXCEPT ![o] = loaded]
        /\ IF cmd[o].do = "report"
           THEN at' = [at EXCEPT ![o] = "attestations"] /\ UNCHANGED todo
           ELSE /\ at' = [at EXCEPT ![o] = "check"]
                /\ todo' = [todo EXCEPT ![o] = GraphFiles(loaded)]
        /\ UNCHANGED <<disk, file, cmd, retracted, stamp, crashes, published, asked, answer>>

EndCommand(o, given) ==
    /\ at' = [at EXCEPT ![o] = "idle"]
    /\ todo' = [todo EXCEPT ![o] = {}]
    /\ file' = [file EXCEPT ![o] = NoFile]
    /\ cmd' = [cmd EXCEPT ![o] = NoCommand]
    /\ graph' = [graph EXCEPT ![o] = NoGraph]
    /\ retracted' = [retracted EXCEPT ![o] = {}]
    /\ asked' = [asked EXCEPT ![o] = NoQuestion]
    /\ answer' = [answer EXCEPT ![o] = given]

SnapshotWritten(o) ==
    /\ Written(o)
    /\ graph[o] # NoGraph
    /\ cmd[o].do # "retract"
    /\ EndCommand(o, NoAnswer)
    /\ UNCHANGED <<disk, stamp, crashes, published>>

\* read_graph: the snapshot hash commits to every node and edge.
ReadBack(o) ==
    /\ Written(o)
    /\ graph[o] # NoGraph
    /\ cmd[o].do = "retract"
    /\ \A f \in GraphFiles(graph[o]) : Holds(f)
    /\ at' = [at EXCEPT ![o] = "attestations"]
    /\ UNCHANGED <<disk, todo, file, cmd, reading, stamp, crashes, published, asked, answer>>

LoadAttestations(o) ==
    /\ at[o] = "attestations"
    /\ Readable("objects")
    /\ retracted' = [retracted EXCEPT ![o] = RetractedOnDisk]
    /\ at' = [at EXCEPT ![o] = "records"]
    /\ UNCHANGED <<disk, todo, file, cmd, graph, stamp, crashes, published, asked, answer>>

-----------------------------------------------------------------------------
(***************************************************************************)
(* The report: project_retraction_taint and build_consumption_status.      *)
(***************************************************************************)
Relied(g, b) == {e \in g.edges : e.build = b}

\* The builds an edge ties to the assertion asked about.
ListedBuilds(g, a) == {e.build : e \in {x \in g.edges : x.subject = a}}

\* Variant: tainted only if nothing it relied on still stands.
StatusAllRetracted(g, index, seen, b) ==
    LET record == CHOOSE r \in index : r.build = b
    IN  IF \A n \in g.nodes : n.key # b THEN "unknown"
        ELSE IF \A r \in index : r.build # b THEN "uninstrumented"
        ELSE IF Cardinality(Relied(g, b)) # Cardinality(record.consumed) THEN "invalid"
        ELSE IF \A e \in Relied(g, b) : e.subject \in seen THEN "tainted"
        ELSE "clean"

\* Variant: retracted assertions are not counted.
StatusLiveCount(g, index, seen, b) ==
    LET record == CHOOSE r \in index : r.build = b
    IN  IF \A n \in g.nodes : n.key # b THEN "unknown"
        ELSE IF \A r \in index : r.build # b THEN "uninstrumented"
        ELSE IF Cardinality(Relied(g, b)) # Cardinality(record.consumed \ seen) THEN "invalid"
        ELSE IF \E e \in Relied(g, b) : e.subject \in seen THEN "tainted"
        ELSE "clean"

Status(g, index, seen, b) ==
    LET record == CHOOSE r \in index : r.build = b
    IN  IF \A n \in g.nodes : n.key # b THEN "unknown"
        ELSE IF \A r \in index : r.build # b THEN "uninstrumented"
        ELSE IF Cardinality(Relied(g, b)) # Cardinality(record.consumed) THEN "invalid"
        ELSE IF \E e \in Relied(g, b) : e.subject \in seen THEN "tainted"
        ELSE "clean"

\* The node commits to another record of the build than the index holds.
Mismatched(g, index, b) ==
    \E n \in g.nodes, r \in index : n.key = b /\ r.build = b /\ n.content # r

Report(o) ==
    LET listed == ListedBuilds(graph[o], cmd[o].about)
    IN  /\ at[o] = "records"
        /\ Readable("builds")
        /\ \A b \in listed : ~ Mismatched(graph[o], RecordIndex, b)
        /\ EndCommand(o, Given({[build |-> b,
                                 status |-> Status(graph[o], RecordIndex, retracted[o], b)] :
                                    b \in listed}))
        /\ UNCHANGED <<disk, stamp, crashes, published>>

\* A read that finds a file cut short, or hashes that disagree, raises.
CannotRead(o) ==
    \/ at[o] \in {"objects", "attestations"} /\ ~ Readable("objects")
    \/ at[o] \in {"builds", "records"} /\ ~ Readable("builds")
    \/ at[o] = "edges" /\ ~ Readable("edges")
    \/ /\ Written(o)
       /\ graph[o] # NoGraph
       /\ cmd[o].do = "retract"
       /\ \E f \in GraphFiles(graph[o]) : ~ Holds(f)
    \/ /\ at[o] = "records"
       /\ Readable("builds")
       /\ \E b \in ListedBuilds(graph[o], cmd[o].about) :
              Mismatched(graph[o], RecordIndex, b)

Raise(o) ==
    /\ CannotRead(o)
    /\ EndCommand(o, IF Asks(cmd[o]) THEN Raised ELSE NoAnswer)
    /\ UNCHANGED <<disk, stamp, crashes, published>>

-----------------------------------------------------------------------------
CrashOperator(o) ==
    /\ at[o] # "idle"
    /\ crashes < MaxCrashes
    /\ crashes' = crashes + 1
    /\ EndCommand(o, NoAnswer)
    /\ UNCHANGED <<disk, stamp, published>>

CrashRecorder(p) ==
    /\ at[p] # "idle"
    /\ crashes < MaxCrashes
    /\ crashes' = crashes + 1
    /\ at' = [at EXCEPT ![p] = "idle"]
    /\ todo' = [todo EXCEPT ![p] = {}]
    /\ file' = [file EXCEPT ![p] = NoFile]
    /\ cmd' = [cmd EXCEPT ![p] = NoCommand]
    /\ UNCHANGED <<disk, reading, stamp, published, asked, answer>>

Write(p) == Skip(p) \/ FindMissing(p) \/ Open(p) \/ Close(p)

Read(o) ==
    \/ StartReading(o)
    \/ LoadObjects(o)
    \/ LoadBuilds(o)
    \/ LoadEdges(o)
    \/ SnapshotWritten(o)
    \/ ReadBack(o)
    \/ LoadAttestations(o)
    \/ Report(o)
    \/ Raise(o)

Next ==
    \/ \E p \in Procs : Write(p)
    \/ \E p \in Recorders : \E c \in Drawn : BeginRecord(p, c)
    \/ \E p \in Recorders : Publish(p)
    \/ \E p \in Recorders : CrashRecorder(p)
    \/ \E o \in Operators : \E c \in Drawn : Begin(o, c)
    \/ \E o \in Operators : Read(o)
    \/ \E o \in Operators : CrashOperator(o)

Spec == Init /\ [][Next]_vars

(***************************************************************************)
(* A process that has begun keeps running unless it dies; an operator who  *)
(* is free again and again asks about each assertion again and again.      *)
(***************************************************************************)
Fairness ==
    /\ \A p \in Procs : WF_vars(Write(p))
    /\ \A p \in Recorders : WF_vars(Publish(p))
    /\ \A o \in Operators : WF_vars(Read(o))
    /\ \A o \in Operators : \A c \in Drawn :
           c.do = "report" => SF_vars(Begin(o, c))

FairSpec == Spec /\ Fairness

=============================================================================
