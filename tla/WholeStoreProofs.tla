---------------------------- MODULE WholeStoreProofs ----------------------------
(***************************************************************************)
(* For any number of recorders and operators, assertions and builds: while *)
(* nobody has died, the store holds nothing but what somebody recorded or  *)
(* filed, a file is cut short only while its writer has it open, and a     *)
(* command that returned left no file behind.  Hence a read fails for a    *)
(* cause only, and a store at rest is exact.                               *)
(***************************************************************************)
EXTENDS ProvenanceProofs, FiniteSetTheorems

-----------------------------------------------------------------------------
(***************************************************************************)
(* What holds as long as nobody died.                                      *)
(***************************************************************************)
\* A file's content is what its name stands for, and a build's record, node
\* or edge is of a build that was recorded, or is being recorded.
Founded(f) ==
    /\ f.dir # "nodes" => f.content = f.key
    /\ f.dir = "builds" => f.content \in Recorded
    /\ f.dir = "edges" => \E r \in Recorded : f.content \in EdgesOf(r)
    /\ f.dir = "nodes" =>
           \/ f.content = f.key /\ f.key \in Object
           \/ f.content \in Recorded /\ f.key = f.content.build

\* A file cut short is open for writing.
TornIsOpen ==
    \A n \in DOMAIN disk : disk[n] = Torn =>
        \E p \in Procs : at[p] = "close" /\ Name(file[p]) = n

DiskIsFounded ==
    \A n \in DOMAIN disk : disk[n] # Torn =>
        Founded([dir |-> n.dir, key |-> n.key, content |-> disk[n]])

TodoIsFounded == \A p \in Procs : \A f \in todo[p] : Founded(f)

GraphsAreFounded ==
    \A o \in Operators : graph[o] # NoGraph =>
        /\ \A f \in graph[o].nodes : Founded(f)
        /\ \A e \in graph[o].edges : Founded(Same("edges", e))

Kept(p, F) == \A f \in F : f \in todo[p] \/ Name(f) \in DOMAIN disk

\* What a process set out to write is on the disk, or on its way.
FilesAreKept ==
    /\ \A r \in published : \A f \in RecordFiles(r) : Name(f) \in DOMAIN disk
    /\ \A p \in Recorders : at[p] # "idle" => Kept(p, RecordFiles(cmd[p].recording))
    /\ \A o \in Operators : at[o] \in Writes /\ graph[o] # NoGraph =>
           Kept(o, GraphFiles(graph[o]))

IdleIsFree == \A p \in Procs : at[p] = "idle" => cmd[p] = NoCommand

Whole == TornIsOpen /\ DiskIsFounded /\ TodoIsFounded /\ GraphsAreFounded /\ FilesAreKept

WholeInv == IInv /\ IdleIsFree /\ (crashes = 0 => Whole)

-----------------------------------------------------------------------------
(***************************************************************************)
(* Files and recordings.                                                   *)
(***************************************************************************)
\* What was founded stays so while nothing recorded is lost.
LEMMA FoundedStays ==
    ASSUME Recorded \subseteq Recorded', NEW f, Founded(f)
    PROVE  Founded(f)'
  BY DEF Founded

\* What a recording writes is founded once it is under way.
LEMMA RecordFilesFounded ==
    \A r \in Recorded : \A f \in RecordFiles(r) : Founded(f)
<1> SUFFICES ASSUME NEW r \in Recorded
             PROVE  \A f \in RecordFiles(r) : Founded(f)
  OBVIOUS
<1>1. \A f \in RecordFiles(r) :
          \/ f = Same("builds", r)
          \/ f = BuildNode(r)
          \/ \E e \in EdgesOf(r) : f = Same("edges", e)
          \/ \E g : f = Same("snapshots", g)
  BY DEF RecordFiles, GraphFiles
<1>2. Founded(Same("builds", r))
  BY DEF Founded, Same
<1>3. Founded(BuildNode(r))
  BY DEF Founded, BuildNode
<1>4. \A e \in EdgesOf(r) : Founded(Same("edges", e))
  BY DEF Founded, Same
<1>5. \A g : Founded(Same("snapshots", g))
  BY DEF Founded, Same
<1> QED
  BY <1>1, <1>2, <1>3, <1>4, <1>5

\* What a founded graph is written to is founded.
LEMMA GraphFilesFounded ==
    ASSUME NEW g, \A f \in g.nodes : Founded(f),
           \A e \in g.edges : Founded(Same("edges", e))
    PROVE  \A f \in GraphFiles(g) : Founded(f)
<1>1. \A f \in GraphFiles(g) :
          f \in g.nodes \/ f = Same("snapshots", g) \/ \E e \in g.edges : f = Same("edges", e)
  BY DEF GraphFiles
<1>2. Founded(Same("snapshots", g))
  BY DEF Founded, Same
<1> QED
  BY <1>1, <1>2

\* What is recorded is a recording.
LEMMA RecordedType ==
    ASSUME IInv, IdleIsFree
    PROVE  Recorded \subseteq Recording /\ \A r \in Recorded : r.build \in Builds
<1>1. ASSUME NEW p \in Recorders, cmd[p] # NoCommand
      PROVE  cmd[p].recording \in Recording
  <2>1. p \in Procs /\ at[p] # "idle"
    BY <1>1 DEF IdleIsFree, Procs
  <2> QED
    BY <2>1, RecordCommand DEF IInv, Roles
<1>2. published \subseteq Recording
  BY DEF IInv, TypeOK
<1> QED
  BY <1>1, <1>2 DEF Recorded, Recording

\* A file that is there is whole, unless somebody has it open: its content is
\* founded, and only a build's node may differ from what another would put there.
LEMMA WholeFile ==
    ASSUME IInv, IdleIsFree, Whole, NEW f, Founded(f), Name(f) \in DOMAIN disk,
           disk[Name(f)] # Torn, ~ Holds(f)
    PROVE  /\ f.dir = "nodes"
           /\ f.content \in Recorded /\ disk[Name(f)] \in Recorded
           /\ f.content.build = disk[Name(f)].build
<1> DEFINE g == [dir |-> f.dir, key |-> f.key, content |-> disk[Name(f)]]
<1>1. Founded(g)
  BY DEF Whole, DiskIsFounded, Name
<1>2. g.content # f.content /\ g.key = f.key /\ g.dir = f.dir /\ g.content = disk[Name(f)]
  BY DEF Holds
<1> HIDE DEF g
<1>3. f.dir = "nodes"
  BY <1>1, <1>2 DEF Founded
<1>4. \A r \in Recorded : r.build \notin Object
  BY RecordedType, StoreAssumption
<1> QED
  BY <1>1, <1>2, <1>3, <1>4 DEF Founded

-----------------------------------------------------------------------------
(***************************************************************************)
(* What steps leave alone.                                                 *)
(***************************************************************************)
\* Only recorders change what is recorded.
LEMMA SameRecorded ==
    ASSUME UNCHANGED published, \A p \in Recorders : cmd'[p] = cmd[p]
    PROVE  Recorded' = Recorded
  BY DEF Recorded

\* While no file changes, what is cut short is open for as long as its writer is.
LEMMA DiskStays ==
    ASSUME Whole, UNCHANGED disk, Recorded \subseteq Recorded',
           \A p \in Procs : at[p] = "close" => at'[p] = "close" /\ file'[p] = file[p]
    PROVE  TornIsOpen' /\ DiskIsFounded'
<1>1. TornIsOpen'
  BY DEF Whole, TornIsOpen
<1>2. DiskIsFounded'
  <2> SUFFICES ASSUME NEW n \in DOMAIN disk, disk[n] # Torn
               PROVE  Founded([dir |-> n.dir, key |-> n.key, content |-> disk[n]])'
    BY DEF DiskIsFounded
  <2> DEFINE f == [dir |-> n.dir, key |-> n.key, content |-> disk[n]]
  <2>1. Founded(f)
    BY DEF Whole, DiskIsFounded
  <2> QED
    BY <2>1 DEF Founded
<1> QED
  BY <1>1, <1>2

\* Lists that only shrink, and graphs that stay, remain founded.
LEMMA ListsStay ==
    ASSUME Whole, Recorded \subseteq Recorded',
           \A p \in Procs : todo'[p] \subseteq todo[p]
    PROVE  TodoIsFounded'
  BY FoundedStays DEF Whole, TodoIsFounded

\* A graph that is neither replaced nor added to remains founded.
LEMMA GraphsStay ==
    ASSUME Whole, Recorded \subseteq Recorded',
           \A o \in Operators : graph'[o] \in {graph[o], NoGraph}
    PROVE  GraphsAreFounded'
<1> SUFFICES ASSUME NEW o \in Operators, graph'[o] # NoGraph
             PROVE  /\ \A f \in graph[o].nodes : Founded(f)'
                    /\ \A e \in graph[o].edges : Founded(Same("edges", e))'
  BY DEF GraphsAreFounded
<1>1. /\ \A f \in graph[o].nodes : Founded(f)
      /\ \A e \in graph[o].edges : Founded(Same("edges", e))
  BY DEF Whole, GraphsAreFounded
<1> QED
  BY <1>1, FoundedStays

\* What a process has to write stays kept while every file it drops from its
\* list is there, and it sets out to write nothing else.
LEMMA FilesStayKept ==
    ASSUME IInv, Whole, UNCHANGED published, DOMAIN disk \subseteq DOMAIN disk',
           \A p \in Procs : \A f \in todo[p] : f \in todo'[p] \/ Name(f) \in DOMAIN disk',
           \A p \in Recorders : at'[p] # "idle" => at[p] # "idle" /\ cmd'[p] = cmd[p],
           \A o \in Operators : at'[o] \in Writes /\ graph'[o] # NoGraph =>
               at[o] \in Writes /\ graph'[o] = graph[o]
    PROVE  FilesAreKept'
<1>1. \A r \in published : \A f \in RecordFiles(r) : Name(f) \in DOMAIN disk'
  BY DEF Whole, FilesAreKept
<1>2. ASSUME NEW p \in Procs, NEW f, f \in todo[p] \/ Name(f) \in DOMAIN disk
      PROVE  f \in todo'[p] \/ Name(f) \in DOMAIN disk'
  BY <1>2
<1>3. ASSUME NEW p \in Recorders, at'[p] # "idle", NEW f \in RecordFiles(cmd'[p].recording)
      PROVE  f \in todo'[p] \/ Name(f) \in DOMAIN disk'
  <2>1. f \in todo[p] \/ Name(f) \in DOMAIN disk
    BY <1>3 DEF Whole, FilesAreKept, Kept
  <2> QED
    BY <1>2, <2>1 DEF Procs
<1>4. ASSUME NEW o \in Operators, at'[o] \in Writes, graph'[o] # NoGraph,
             NEW f \in GraphFiles(graph'[o])
      PROVE  f \in todo'[o] \/ Name(f) \in DOMAIN disk'
  <2>1. f \in todo[o] \/ Name(f) \in DOMAIN disk
    BY <1>4 DEF Whole, FilesAreKept, Kept
  <2> QED
    BY <1>2, <2>1 DEF Procs
<1> QED
  BY <1>1, <1>3, <1>4 DEF FilesAreKept, Kept, RecordFiles, GraphFiles

-----------------------------------------------------------------------------
(***************************************************************************)
(* The steps.                                                              *)
(***************************************************************************)
\* A process drops a file from its list because the file is there.
LEMMA SkipWhole ==
    ASSUME IInv, IdleIsFree, Whole, NEW p \in Procs, Skip(p)
    PROVE  Whole'
<1> USE DEF Skip, reading
<1>1. TypeOK
  BY DEF IInv
<1>2. /\ todo'[p] = todo[p] \ {NextOf(todo[p])}
      /\ \A q \in Procs \ {p} : todo'[q] = todo[q]
      /\ Name(NextOf(todo[p])) \in DOMAIN disk
  BY <1>1 DEF TypeOK
<1>3. Recorded' = Recorded
  BY SameRecorded
<1>4. TornIsOpen' /\ DiskIsFounded'
  BY <1>3, DiskStays
<1>5. TodoIsFounded'
  BY <1>2, <1>3, ListsStay
<1>6. GraphsAreFounded'
  BY <1>3, GraphsStay
<1>7. FilesAreKept'
  <2>1. \A q \in Procs : \A f \in todo[q] : f \in todo'[q] \/ Name(f) \in DOMAIN disk'
    BY <1>2
  <2> QED
    BY <2>1, FilesStayKept
<1> QED
  BY <1>4, <1>5, <1>6, <1>7 DEF Whole

\* Looking for a file changes nothing that was kept.
LEMMA FindMissingWhole ==
    ASSUME IInv, IdleIsFree, Whole, NEW p \in Procs, FindMissing(p)
    PROVE  Whole'
<1> USE DEF FindMissing, reading
<1>1. TypeOK
  BY DEF IInv
<1>2. at[p] = "check" /\ at'[p] = "open" /\ \A q \in Procs \ {p} :
          at'[q] = at[q] /\ file'[q] = file[q]
  BY <1>1 DEF TypeOK
<1>3. Recorded' = Recorded
  BY SameRecorded
<1>4. TornIsOpen' /\ DiskIsFounded'
  BY <1>2, <1>3, DiskStays
<1>5. TodoIsFounded'
  BY <1>3, ListsStay
<1>6. GraphsAreFounded'
  BY <1>3, GraphsStay
<1>7. FilesAreKept'
  BY <1>2, FilesStayKept DEF Writes, Procs
<1> QED
  BY <1>4, <1>5, <1>6, <1>7 DEF Whole

\* The file that an opening cuts short is open, and stays on the list.
LEMMA OpenWhole ==
    ASSUME IInv, IdleIsFree, Whole, NEW p \in Procs, Open(p)
    PROVE  Whole'
<1> USE DEF Open, reading
<1>1. TypeOK
  BY DEF IInv
<1>2. at[p] = "open" /\ at'[p] = "close" /\ \A q \in Procs \ {p} : at'[q] = at[q]
  BY <1>1 DEF TypeOK
<1>3. Recorded' = Recorded
  BY SameRecorded
<1>4. /\ DOMAIN disk' = DOMAIN disk \cup {Name(file[p])}
      /\ disk'[Name(file[p])] = Torn
      /\ \A n \in DOMAIN disk' : n # Name(file[p]) => n \in DOMAIN disk /\ disk'[n] = disk[n]
  BY DEF Put
<1>5. TornIsOpen'
  BY <1>2, <1>4 DEF Whole, TornIsOpen
<1>6. DiskIsFounded'
  <2> SUFFICES ASSUME NEW n \in DOMAIN disk', disk'[n] # Torn
               PROVE  Founded([dir |-> n.dir, key |-> n.key, content |-> disk[n]])'
    BY DEF DiskIsFounded
  <2>1. Founded([dir |-> n.dir, key |-> n.key, content |-> disk[n]]) /\ disk'[n] = disk[n]
    BY <1>4 DEF Whole, DiskIsFounded
  <2> QED
    BY <1>3, <2>1 DEF Founded
<1>7. TodoIsFounded'
  BY <1>3, ListsStay
<1>8. GraphsAreFounded'
  BY <1>3, GraphsStay
<1>9. FilesAreKept'
  BY <1>2, <1>4, FilesStayKept DEF Writes, Procs
<1> QED
  BY <1>5, <1>6, <1>7, <1>8, <1>9 DEF Whole

\* Closing completes the file, also for others who have it open.
LEMMA CloseWhole ==
    ASSUME IInv, IdleIsFree, Whole, NEW p \in Procs, Close(p)
    PROVE  Whole'
<1> USE DEF Close, reading
<1>1. TypeOK
  BY DEF IInv
<1>2. /\ at[p] = "close" /\ at'[p] = "check"
      /\ \A q \in Procs \ {p} : at'[q] = at[q] /\ file'[q] = file[q] /\ todo'[q] = todo[q]
      /\ todo'[p] = todo[p] \ {file[p]}
  BY <1>1 DEF TypeOK
<1>3. Recorded' = Recorded
  BY SameRecorded
<1>4. /\ DOMAIN disk' = DOMAIN disk \cup {Name(file[p])}
      /\ disk'[Name(file[p])] = file[p].content
      /\ \A n \in DOMAIN disk' : n # Name(file[p]) => n \in DOMAIN disk /\ disk'[n] = disk[n]
  BY DEF Put
<1>5. file[p] \in Files /\ Founded(file[p])
  BY <1>1, <1>2 DEF IInv, Roles, TypeOK, Whole, TodoIsFounded
<1>6. TornIsOpen'
  <2>1. file[p].content # Torn
    BY <1>5, SentinelAssumption DEF Files
  <2> SUFFICES ASSUME NEW n \in DOMAIN disk', disk'[n] = Torn
               PROVE  \E q \in Procs : at'[q] = "close" /\ Name(file'[q]) = n
    BY DEF TornIsOpen
  <2>2. PICK q \in Procs : at[q] = "close" /\ Name(file[q]) = n
    BY <1>4, <2>1 DEF Whole, TornIsOpen
  <2> QED
    BY <1>2, <1>4, <2>1, <2>2
<1>7. DiskIsFounded'
  <2> SUFFICES ASSUME NEW n \in DOMAIN disk', disk'[n] # Torn
               PROVE  Founded([dir |-> n.dir, key |-> n.key, content |-> disk[n]])'
    BY DEF DiskIsFounded
  <2>1. CASE n = Name(file[p])
    <3>1. [dir |-> n.dir, key |-> n.key, content |-> disk'[n]] = file[p]
      BY <1>4, <1>5, <2>1, FileIsNameAndContent DEF Name
    <3> QED
      BY <1>3, <1>5, <3>1 DEF Founded
  <2>2. CASE n # Name(file[p])
    <3>1. Founded([dir |-> n.dir, key |-> n.key, content |-> disk[n]]) /\ disk'[n] = disk[n]
      BY <1>4, <2>2 DEF Whole, DiskIsFounded
    <3> QED
      BY <1>3, <3>1 DEF Founded
  <2> QED
    BY <2>1, <2>2
<1>8. TodoIsFounded'
  BY <1>2, <1>3, ListsStay
<1>9. GraphsAreFounded'
  BY <1>3, GraphsStay
<1>10. FilesAreKept'
  <2>1. \A q \in Procs : \A f \in todo[q] : f \in todo'[q] \/ Name(f) \in DOMAIN disk'
    BY <1>2, <1>4
  <2> QED
    BY <1>2, <1>4, <2>1, FilesStayKept DEF Writes, Procs
<1> QED
  BY <1>6, <1>7, <1>8, <1>9, <1>10 DEF Whole

\* A recorder that begins adds its recording, and has all its files to write.
LEMMA BeginRecordWhole ==
    ASSUME IInv, IdleIsFree, Whole, NEW p \in Recorders, NEW c \in Drawn, BeginRecord(p, c)
    PROVE  Whole'
<1> USE DEF BeginRecord, reading
<1>1. /\ p \in Procs /\ c \in Commands /\ c # NoCommand /\ p \notin Operators
      /\ cmd[p] = NoCommand
  BY StoreAssumption, SentinelAssumption DEF Procs, IdleIsFree
<1>2. /\ at[p] = "idle" /\ at'[p] = "check"
      /\ cmd'[p] = c /\ todo'[p] = RecordFiles(c.recording)
      /\ \A q \in Procs \ {p} :
             at'[q] = at[q] /\ cmd'[q] = cmd[q] /\ todo'[q] = todo[q]
  BY <1>1 DEF IInv, TypeOK
<1>3. Recorded \subseteq Recorded' /\ c.recording \in Recorded'
  BY <1>1, <1>2 DEF Recorded, Procs
<1>4. TornIsOpen' /\ DiskIsFounded'
  <2>1. \A q \in Procs : at[q] = "close" => at'[q] = "close" /\ file'[q] = file[q]
    BY <1>2
  <2> QED
    BY <1>3, <2>1, DiskStays
<1>5. TodoIsFounded'
  <2>1. \A f \in RecordFiles(c.recording) : Founded(f)'
    <3>1. (\A r \in Recorded : \A f \in RecordFiles(r) : Founded(f))'
      BY RecordFilesFounded, PTL
    <3> QED
      BY <1>3, <3>1
  <2>2. \A q \in Procs \ {p} : \A f \in todo[q] : Founded(f)'
    BY <1>3, FoundedStays DEF Whole, TodoIsFounded
  <2> QED
    BY <1>2, <2>1, <2>2 DEF TodoIsFounded
<1>6. GraphsAreFounded'
  BY <1>3, GraphsStay
<1>7. FilesAreKept'
  <2>1. ASSUME NEW q \in Recorders, at'[q] # "idle"
        PROVE  Kept(q, RecordFiles(cmd[q].recording))'
    <3>1. CASE q = p
      BY <1>2, <3>1 DEF Kept
    <3>2. CASE q # p
      <4>1. q \in Procs /\ Kept(q, RecordFiles(cmd[q].recording))
        BY <1>2, <2>1, <3>2 DEF Whole, FilesAreKept, Procs
      <4> QED
        BY <1>2, <3>2, <4>1 DEF Kept
    <3> QED
      BY <3>1, <3>2
  <2>2. ASSUME NEW o \in Operators, at'[o] \in Writes, graph'[o] # NoGraph
        PROVE  Kept(o, GraphFiles(graph[o]))'
    <3>1. o \in Procs \ {p}
      BY <1>1 DEF Procs
    <3>2. Kept(o, GraphFiles(graph[o]))
      BY <1>2, <2>2, <3>1 DEF Whole, FilesAreKept
    <3> QED
      BY <1>2, <3>1, <3>2 DEF Kept
  <2> QED
    BY <2>1, <2>2 DEF Whole, FilesAreKept
<1> QED
  BY <1>4, <1>5, <1>6, <1>7 DEF Whole

\* What is published has all its files: nothing is left to write.
LEMMA PublishWhole ==
    ASSUME IInv, IdleIsFree, Whole, NEW p \in Recorders, Publish(p)
    PROVE  Whole'
<1> USE DEF Publish, Written, reading
<1>1. p \in Procs /\ p \notin Operators /\ cmd[p] \in Commands
  BY StoreAssumption DEF Procs, IInv, Roles
<1>2. /\ at'[p] = "idle" /\ at[p] = "check"
      /\ \A q \in Procs \ {p} : at'[q] = at[q] /\ cmd'[q] = cmd[q]
  BY <1>1 DEF IInv, TypeOK
<1>3. Recorded \subseteq Recorded'
  BY <1>1, <1>2 DEF Recorded, Procs
<1>4. TornIsOpen' /\ DiskIsFounded'
  <2>1. \A q \in Procs : at[q] = "close" => at'[q] = "close" /\ file'[q] = file[q]
    BY <1>2
  <2> QED
    BY <1>3, <2>1, DiskStays
<1>5. TodoIsFounded'
  BY <1>3, ListsStay
<1>6. GraphsAreFounded'
  BY <1>3, GraphsStay
<1>7. FilesAreKept'
  <2>1. \A f \in RecordFiles(cmd[p].recording) : Name(f) \in DOMAIN disk
    BY <1>2 DEF Whole, FilesAreKept, Kept
  <2>2. \A r \in published' : \A f \in RecordFiles(r) : Name(f) \in DOMAIN disk
    BY <2>1 DEF Whole, FilesAreKept
  <2>3. ASSUME NEW q \in Recorders, at'[q] # "idle"
        PROVE  Kept(q, RecordFiles(cmd[q].recording))'
    <3>1. q \in Procs \ {p} /\ Kept(q, RecordFiles(cmd[q].recording))
      BY <1>2, <2>3 DEF Whole, FilesAreKept, Procs
    <3> QED
      BY <1>2, <3>1 DEF Kept
  <2>4. ASSUME NEW o \in Operators, at'[o] \in Writes, graph'[o] # NoGraph
        PROVE  Kept(o, GraphFiles(graph[o]))'
    <3>1. o \in Procs \ {p}
      BY <1>1 DEF Procs
    <3>2. Kept(o, GraphFiles(graph[o]))
      BY <1>2, <2>4, <3>1 DEF Whole, FilesAreKept
    <3> QED
      BY <3>2 DEF Kept
  <2> QED
    BY <2>2, <2>3, <2>4 DEF FilesAreKept
<1> QED
  BY <1>4, <1>5, <1>6, <1>7 DEF Whole

\* A step of an operator that reads, or ends: what has to be shown of it.
LEMMA OperatorWhole ==
    ASSUME IInv, Whole, NEW o \in Operators, at[o] # "close", Others(o), OtherFiles(o),
           UNCHANGED <<disk, published>>,
           \A f \in todo'[o] : Founded(f),
           graph'[o] # NoGraph => /\ \A f \in graph'[o].nodes : Founded(f)
                                  /\ \A e \in graph'[o].edges : Founded(Same("edges", e)),
           at'[o] \in Writes /\ graph'[o] # NoGraph =>
               \A f \in GraphFiles(graph'[o]) : f \in todo'[o] \/ Name(f) \in DOMAIN disk
    PROVE  Whole'
<1> USE DEF OtherFiles
<1>1. o \in Procs /\ \A q \in Recorders : q \in Procs \ {o}
  BY StoreAssumption DEF Procs
<1>2. Recorded' = Recorded
  BY <1>1, SameRecorded
<1>3. TornIsOpen' /\ DiskIsFounded'
  <2>1. \A q \in Procs : at[q] = "close" => at'[q] = "close" /\ file'[q] = file[q]
    OBVIOUS
  <2> QED
    BY <1>2, <2>1, DiskStays
<1>4. TodoIsFounded'
  <2>1. \A q \in Procs : \A f \in todo'[q] : Founded(f)
    BY DEF Whole, TodoIsFounded
  <2> QED
    BY <1>2, <2>1, FoundedStays DEF TodoIsFounded
<1>5. GraphsAreFounded'
  <2> SUFFICES ASSUME NEW q \in Operators, graph'[q] # NoGraph
               PROVE  /\ \A f \in graph'[q].nodes : Founded(f)'
                      /\ \A e \in graph'[q].edges : Founded(Same("edges", e))'
    BY DEF GraphsAreFounded, Same
  <2>1. /\ \A f \in graph'[q].nodes : Founded(f)
        /\ \A e \in graph'[q].edges : Founded(Same("edges", e))
    BY DEF Others, Whole, GraphsAreFounded
  <2> QED
    BY <1>2, <2>1, FoundedStays
<1>6. FilesAreKept'
  <2>1. ASSUME NEW q \in Recorders, at'[q] # "idle"
        PROVE  Kept(q, RecordFiles(cmd[q].recording))'
    <3>1. Kept(q, RecordFiles(cmd[q].recording))
      BY <1>1, <2>1 DEF Whole, FilesAreKept
    <3> QED
      BY <1>1, <3>1 DEF Kept
  <2>2. ASSUME NEW q \in Operators, at'[q] \in Writes, graph'[q] # NoGraph
        PROVE  Kept(q, GraphFiles(graph[q]))'
    <3>1. CASE q = o
      BY <2>2, <3>1 DEF Kept
    <3>2. CASE q # o
      <4>1. Kept(q, GraphFiles(graph[q]))
        BY <2>2, <3>2 DEF Whole, FilesAreKept, Others
      <4> QED
        BY <3>2, <4>1 DEF Kept, Others, Procs
    <3> QED
      BY <3>1, <3>2
  <2> QED
    BY <2>1, <2>2 DEF Whole, FilesAreKept
<1> QED
  BY <1>3, <1>4, <1>5, <1>6 DEF Whole

\* A command begins with objects to write, each named by what it holds.
LEMMA BeginWhole ==
    ASSUME IInv, IdleIsFree, Whole, NEW o \in Operators, NEW c \in Drawn, Begin(o, c)
    PROVE  Whole'
<1> USE DEF Begin, reading
<1>1. /\ o \in Procs /\ c \in Commands /\ stamp \in Nat
      /\ graph[o] = NoGraph /\ todo'[o] = OwnFiles(c)
  BY StoreAssumption DEF Procs, IInv, TypeOK, Stages
<1>2. \A f \in OwnFiles(c) : f.dir = "objects" /\ f.content = f.key
  BY <1>1, OwnFilesType
<1>3. \A f \in todo'[o] : Founded(f)
  BY <1>1, <1>2 DEF Founded
<1>4. Others(o) /\ OtherFiles(o)
  BY <1>1 DEF IInv, Others, OtherFiles, Procs, TypeOK
<1> QED
  BY <1>1, <1>3, <1>4, OperatorWhole

\* Reading that adds nothing to the graph.
LEMMA ReadingWhole ==
    ASSUME IInv, IdleIsFree, Whole, NEW o \in Operators,
           StartReading(o) \/ ReadBack(o) \/ LoadAttestations(o)
    PROVE  Whole'
<1> USE DEF StartReading, ReadBack, LoadAttestations, Written, reading
<1>1. o \in Procs
  BY DEF Procs
<1>2. /\ at[o] # "close" /\ at'[o] \notin Writes
      /\ todo'[o] = todo[o] /\ graph'[o] = graph[o]
  BY <1>1 DEF IInv, TypeOK, Writes
<1>3. \A f \in todo'[o] : Founded(f)
  BY <1>1, <1>2 DEF Whole, TodoIsFounded
<1>4. graph'[o] # NoGraph => /\ \A f \in graph'[o].nodes : Founded(f)
                             /\ \A e \in graph'[o].edges : Founded(Same("edges", e))
  BY <1>2 DEF Whole, GraphsAreFounded
<1>5. Others(o) /\ OtherFiles(o)
  BY <1>1 DEF IInv, Others, OtherFiles, Procs, TypeOK
<1> QED
  BY <1>2, <1>3, <1>4, <1>5, OperatorWhole

\* What can be read is founded.
LEMMA ContentsFounded ==
    ASSUME IInv, Whole
    PROVE  /\ Readable("objects") => \A x \in Contents("objects") : Founded(ObjectNode(x))
           /\ Readable("builds") => /\ Contents("builds") \subseteq Recorded
                                    /\ \A r \in RecordIndex : Founded(BuildNode(r))
           /\ Readable("edges") => \A e \in Contents("edges") : Founded(Same("edges", e))
<1>1. \A n \in DOMAIN disk : disk[n] # Torn =>
          /\ n.dir = "builds" => disk[n] \in Recorded
          /\ n.dir = "edges" => \E r \in Recorded : disk[n] \in EdgesOf(r)
  BY DEF Whole, DiskIsFounded, Founded
<1>2. Readable("objects") => \A x \in Contents("objects") : Founded(ObjectNode(x))
  <2>1. Readable("objects") => Contents("objects") \subseteq Object
    BY ContentsType DEF IInv, TypeOK
  <2>2. \A x \in Object : Founded(ObjectNode(x))
    BY DEF Founded, ObjectNode, Same
  <2> QED
    BY <2>1, <2>2
<1>3. Readable("builds") => Contents("builds") \subseteq Recorded
  BY <1>1 DEF Readable, Contents, In
<1>4. \A r \in Recorded : Founded(BuildNode(r))
  BY DEF Founded, BuildNode
<1>5. RecordIndex \subseteq Contents("builds")
  BY DEF RecordIndex
<1>6. Readable("edges") => \A e \in Contents("edges") : Founded(Same("edges", e))
  BY <1>1 DEF Readable, Contents, In, Founded, Same
<1> QED
  BY <1>2, <1>3, <1>4, <1>5, <1>6

\* The objects that can be read make a founded graph.
LEMMA LoadObjectsWhole ==
    ASSUME IInv, IdleIsFree, Whole, NEW o \in Operators, LoadObjects(o)
    PROVE  Whole'
<1> USE DEF LoadObjects, reading
<1>1. o \in Procs /\ at'[o] \notin Writes /\ todo'[o] = todo[o]
  BY DEF IInv, TypeOK, Writes, Procs
<1>2. /\ graph'[o].nodes = {ObjectNode(x) : x \in Contents("objects")}
      /\ graph'[o].edges = {}
  BY DEF IInv, TypeOK
<1>3. \A f \in graph'[o].nodes : Founded(f)
  BY <1>2, ContentsFounded
<1>4. \A f \in todo'[o] : Founded(f)
  BY <1>1 DEF Whole, TodoIsFounded
<1>5. Others(o) /\ OtherFiles(o)
  BY <1>1 DEF IInv, Others, OtherFiles, Procs, TypeOK
<1> QED
  BY <1>1, <1>2, <1>3, <1>4, <1>5, OperatorWhole

\* The records that can be read are of builds that were recorded.
LEMMA LoadBuildsWhole ==
    ASSUME IInv, IdleIsFree, Whole, NEW o \in Operators, LoadBuilds(o)
    PROVE  Whole'
<1> USE DEF LoadBuilds, reading
<1>1. o \in Procs /\ at'[o] \notin Writes /\ todo'[o] = todo[o]
  BY DEF IInv, TypeOK, Writes, Procs
<1>2. graph[o] # NoGraph /\ graph[o] \in Graphs
  BY DEF IInv, TypeOK, Stages, Reads
<1>3. /\ graph'[o].nodes = graph[o].nodes \cup {BuildNode(r) : r \in RecordIndex}
      /\ graph'[o].edges = graph[o].edges
  BY <1>2 DEF IInv, TypeOK, Graphs
<1>4. /\ \A f \in graph'[o].nodes : Founded(f)
      /\ \A e \in graph'[o].edges : Founded(Same("edges", e))
  BY <1>2, <1>3, ContentsFounded DEF Whole, GraphsAreFounded
<1>5. \A f \in todo'[o] : Founded(f)
  BY <1>1 DEF Whole, TodoIsFounded
<1>6. Others(o) /\ OtherFiles(o)
  BY <1>1 DEF IInv, Others, OtherFiles, Procs, TypeOK
<1> QED
  BY <1>1, <1>4, <1>5, <1>6, OperatorWhole

\* The graph is complete: it is what the operator sets out to write.
LEMMA LoadEdgesWhole ==
    ASSUME IInv, IdleIsFree, Whole, NEW o \in Operators, LoadEdges(o)
    PROVE  Whole'
<1> USE DEF LoadEdges, reading
<1> DEFINE g == [graph[o] EXCEPT !.edges = Contents("edges")]
<1>1. o \in Procs /\ graph[o] # NoGraph /\ graph[o] \in Graphs
  BY DEF IInv, TypeOK, Stages, Reads, Procs
<1>2. graph'[o] = g /\ g.nodes = graph[o].nodes /\ g.edges = Contents("edges")
  BY <1>1 DEF IInv, TypeOK, Graphs
<1>3. \/ at'[o] \notin Writes /\ todo'[o] = todo[o]
      \/ todo'[o] = GraphFiles(g)
  BY <1>1 DEF IInv, TypeOK, Writes
<1>4. Others(o) /\ OtherFiles(o)
  BY <1>1 DEF IInv, Others, OtherFiles, Procs, TypeOK
<1> HIDE DEF g
<1>5. (\A f \in g.nodes : Founded(f)) /\ \A e \in g.edges : Founded(Same("edges", e))
  BY <1>1, <1>2, ContentsFounded DEF Whole, GraphsAreFounded
<1>6. \A f \in GraphFiles(g) : Founded(f)
  BY <1>5, GraphFilesFounded
<1>7. \A f \in todo'[o] : Founded(f)
  BY <1>1, <1>3, <1>6 DEF Whole, TodoIsFounded
<1> QED
  BY <1>2, <1>3, <1>4, <1>5, <1>7, OperatorWhole

\* A command that ends leaves nothing to write and no graph.
LEMMA EndWhole ==
    ASSUME IInv, IdleIsFree, Whole, NEW o \in Operators,
           SnapshotWritten(o) \/ Report(o) \/ Raise(o)
    PROVE  Whole'
<1>1. /\ at[o] \in Reads \cup {"check"} /\ UNCHANGED <<disk, published>>
      /\ \E given : EndCommand(o, given)
  BY DEF SnapshotWritten, Report, Raise, CannotRead, Written, Reads
<1>2. /\ o \in Procs /\ todo'[o] = {} /\ graph'[o] = NoGraph
      /\ Others(o) /\ OtherFiles(o)
  BY <1>1 DEF EndCommand, IInv, Others, OtherFiles, Procs, TypeOK
<1> QED
  BY <1>1, <1>2, OperatorWhole DEF Reads

\* A process without a command is idle.
LEMMA IdleStaysFree ==
    ASSUME IInv, IdleIsFree, [Next]_vars
    PROVE  IdleIsFree'
<1> USE DEF IInv, TypeOK, IdleIsFree, Procs
<1>1. ASSUME NEW p \in Procs, Write(p)
      PROVE  IdleIsFree'
  BY <1>1 DEF Write, Skip, FindMissing, Open, Close
<1>2. ASSUME NEW p \in Recorders, NEW c \in Drawn, BeginRecord(p, c)
      PROVE  IdleIsFree'
  BY <1>2 DEF BeginRecord
<1>3. ASSUME NEW p \in Recorders, Publish(p) \/ CrashRecorder(p)
      PROVE  IdleIsFree'
  BY <1>3 DEF Publish, CrashRecorder
<1>4. ASSUME NEW o \in Operators, NEW c \in Drawn, Begin(o, c)
      PROVE  IdleIsFree'
  BY <1>4 DEF Begin
<1>5. ASSUME NEW o \in Operators, NEW given, EndCommand(o, given)
      PROVE  IdleIsFree'
  BY <1>5 DEF EndCommand
<1>6. ASSUME NEW o \in Operators, Read(o)
      PROVE  IdleIsFree'
  <2>1. CASE StartReading(o) \/ LoadObjects(o) \/ LoadBuilds(o)
    BY <2>1 DEF StartReading, LoadObjects, LoadBuilds
  <2>2. CASE LoadEdges(o) \/ ReadBack(o) \/ LoadAttestations(o)
    BY <2>2 DEF LoadEdges, ReadBack, LoadAttestations
  <2>3. CASE SnapshotWritten(o) \/ Report(o) \/ Raise(o)
    BY <1>5, <2>3 DEF SnapshotWritten, Report, Raise
  <2> QED
    BY <1>6, <2>1, <2>2, <2>3 DEF Read
<1>7. ASSUME NEW o \in Operators, CrashOperator(o)
      PROVE  IdleIsFree'
  BY <1>5, <1>7 DEF CrashOperator
<1>8. CASE UNCHANGED vars
  BY <1>8 DEF vars
<1> QED
  BY <1>1, <1>2, <1>3, <1>4, <1>6, <1>7, <1>8 DEF Next

\* As long as nobody dies, every step keeps the store whole.
LEMMA StepWhole ==
    ASSUME IInv, IdleIsFree, crashes = 0 => Whole, [Next]_vars, crashes' = 0
    PROVE  Whole'
<1>1. ASSUME NEW p, CrashRecorder(p) \/ CrashOperator(p)
      PROVE  FALSE
  <2>1. crashes' = crashes + 1 /\ crashes \in Nat
    BY <1>1, StoreAssumption DEF CrashRecorder, CrashOperator, IInv, TypeOK
  <2> QED
    BY <2>1
<1>2. CASE UNCHANGED vars
  <2>1. Whole
    BY <1>2 DEF vars
  <2>2. Recorded' = Recorded
    BY <1>2 DEF vars, Recorded
  <2>3. TornIsOpen' /\ DiskIsFounded'
    BY <1>2, <2>1, <2>2, DiskStays DEF vars
  <2>4. TodoIsFounded' /\ GraphsAreFounded'
    BY <1>2, <2>1, <2>2, ListsStay, GraphsStay DEF vars, reading
  <2>5. FilesAreKept'
    BY <1>2, <2>1, FilesStayKept DEF vars, reading
  <2> QED
    BY <2>3, <2>4, <2>5 DEF Whole
<1>3. CASE Next
  <2>1. crashes = 0
    BY <1>1, <1>3 DEF Next, Write, Skip, FindMissing, Open, Close, BeginRecord, Publish, Begin,
       Read, StartReading, LoadObjects, LoadBuilds, LoadEdges, SnapshotWritten, ReadBack,
       LoadAttestations, Report, Raise
  <2>2. Whole
    BY <2>1
  <2>3. ASSUME NEW p \in Procs, Write(p)
        PROVE  Whole'
    BY <2>2, <2>3, SkipWhole, FindMissingWhole, OpenWhole, CloseWhole DEF Write
  <2>4. ASSUME NEW p \in Recorders, (\E c \in Drawn : BeginRecord(p, c)) \/ Publish(p)
        PROVE  Whole'
    BY <2>2, <2>4, BeginRecordWhole, PublishWhole
  <2>5. ASSUME NEW o \in Operators, (\E c \in Drawn : Begin(o, c)) \/ Read(o)
        PROVE  Whole'
    BY <2>2, <2>5, BeginWhole, ReadingWhole, LoadObjectsWhole, LoadBuildsWhole,
       LoadEdgesWhole, EndWhole DEF Read
  <2> QED
    BY <1>1, <1>3, <2>3, <2>4, <2>5 DEF Next
<1> QED
  BY <1>2, <1>3

\* In the beginning there are the filed assertions only.
LEMMA InitWhole ==
    ASSUME Init
    PROVE  WholeInv
<1>1. IInv
  BY InitIInv
<1>2. \A n \in DOMAIN disk : n.dir = "objects" /\ disk[n] = n.key /\ n.key \in Object
  BY StoreAssumption DEF Init, Name, AssertionFile, AssertionObject, Same, Object
<1>3. TornIsOpen
  BY <1>2, SentinelAssumption DEF TornIsOpen
<1>4. DiskIsFounded
  BY <1>2 DEF DiskIsFounded, Founded
<1>5. TodoIsFounded /\ GraphsAreFounded
  BY DEF Init, TodoIsFounded, GraphsAreFounded
<1>6. FilesAreKept /\ IdleIsFree
  BY DEF Init, FilesAreKept, IdleIsFree, Procs
<1> QED
  BY <1>1, <1>3, <1>4, <1>5, <1>6 DEF WholeInv, Whole

(***************************************************************************)
(* In every reachable state, if nobody has died, the store is whole.       *)
(***************************************************************************)
THEOREM StoreIsWhole == Spec => []WholeInv
<1>1. Init => WholeInv
  BY InitWhole
<1>2. WholeInv /\ [Next]_vars => WholeInv'
  <2> SUFFICES ASSUME WholeInv, [Next]_vars
               PROVE  WholeInv'
    OBVIOUS
  <2>1. IInv'
    BY NextIInv DEF WholeInv
  <2>2. IdleIsFree'
    BY IdleStaysFree DEF WholeInv
  <2>3. crashes' = 0 => Whole'
    BY StepWhole DEF WholeInv
  <2> QED
    BY <2>1, <2>2, <2>3 DEF WholeInv
<1> QED
  BY <1>1, <1>2, PTL DEF Spec

-----------------------------------------------------------------------------
(***************************************************************************)
(* What the store promises.                                                *)
(***************************************************************************)
\* Nothing is cut short while nobody has a file open.
LEMMA NothingTorn ==
    ASSUME Whole, \A p \in Procs : at[p] # "close"
    PROVE  /\ \A n \in DOMAIN disk : disk[n] # Torn
           /\ \A dir : Readable(dir)
<1>1. \A n \in DOMAIN disk : disk[n] # Torn
  BY DEF Whole, TornIsOpen
<1> QED
  BY <1>1 DEF Readable, In

\* Two recordings of one build are what a read stumbles on.
LEMMA CauseOfRaise ==
    ASSUME WholeInv, crashes = 0, \A p \in Procs : at[p] # "close",
           NEW o \in Operators, CannotRead(o)
    PROVE  \E b \in Builds : RecordedTwice(b)
<1>1. IInv /\ IdleIsFree /\ Whole
  BY DEF WholeInv
<1>2. (\A n \in DOMAIN disk : disk[n] # Torn) /\ \A dir : Readable(dir)
  BY <1>1, NothingTorn
<1>3. SUFFICES \E r, s \in Recorded : r # s /\ r.build = s.build
  BY <1>1, RecordedType DEF RecordedTwice
<1>4. CASE /\ Written(o) /\ graph[o] # NoGraph
           /\ \E f \in GraphFiles(graph[o]) : ~ Holds(f)
  <2>1. PICK f \in GraphFiles(graph[o]) : ~ Holds(f)
    BY <1>4
  <2>2. Founded(f)
    BY <1>1, <1>4, GraphFilesFounded DEF Whole, GraphsAreFounded
  <2>3. Name(f) \in DOMAIN disk
    BY <1>1, <1>4 DEF Written, Writes, Whole, FilesAreKept, Kept
  <2>4. disk[Name(f)] # f.content
    BY <2>1, <2>3 DEF Holds
  <2> QED
    BY <1>1, <1>2, <2>1, <2>2, <2>3, <2>4, WholeFile
<1>5. CASE at[o] = "records" /\ \E b \in ListedBuilds(graph[o], cmd[o].about) :
                                    Mismatched(graph[o], RecordIndex, b)
  <2>1. graph[o] # NoGraph /\ graph[o] \in Graphs
    BY <1>1, <1>5 DEF IInv, TypeOK, Stages, Reads
  <2>2. PICK n \in graph[o].nodes, r \in RecordIndex : n.key = r.build /\ n.content # r
    BY <1>5 DEF Mismatched
  <2>3. n.dir = "nodes" /\ Founded(n)
    BY <1>1, <2>1 DEF Graphs, Whole, GraphsAreFounded
  <2>4. r \in Recorded
    BY <1>1, <1>2, ContentsFounded DEF RecordIndex
  <2>5. n.key \notin Object
    BY <1>1, <2>2, <2>4, RecordedType, StoreAssumption
  <2>6. n.content \in Recorded /\ n.content.build = r.build
    BY <2>2, <2>3, <2>5 DEF Founded
  <2> QED
    BY <2>2, <2>4, <2>6
<1> QED
  BY <1>2, <1>4, <1>5 DEF CannotRead

(***************************************************************************)
(* A command fails to read for a cause only: another process has a file    *)
(* open, somebody died, or a build was recorded with two different sets of *)
(* assertions.                                                             *)
(***************************************************************************)
THEOREM ReadsFailForCause == Spec => []RaisesForCause
<1>1. WholeInv => RaisesForCause
  <2> SUFFICES ASSUME WholeInv, NEW o \in Operators, CannotRead(o),
                      \A p \in Procs : at[p] # "close", ~ crashes > 0
               PROVE  \E b \in Builds : RecordedTwice(b)
    BY DEF RaisesForCause
  <2>1. crashes = 0
    BY StoreAssumption DEF WholeInv, IInv, TypeOK
  <2> QED
    BY <2>1, CauseOfRaise
<1> QED
  BY <1>1, StoreIsWhole, PTL

\* A recording has as many edges as it relied on assertions.
LEMMA OneEdgeEach ==
    ASSUME NEW r \in Recording
    PROVE  Cardinality(EdgesOf(r)) = Cardinality(r.consumed)
<1> DEFINE g == [a \in r.consumed |-> [subject |-> a, build |-> r.build]]
<1>1. r.consumed \subseteq Assertions
  BY DEF Recording
<1>2. IsFiniteSet(r.consumed)
  BY <1>1, StoreAssumption, FS_Subset
<1>3. g \in Bijection(r.consumed, EdgesOf(r))
  BY DEF Bijection, Injection, Surjection, IsInjective, EdgesOf
<1>4. ExistsBijection(r.consumed, EdgesOf(r))
  BY <1>3 DEF ExistsBijection
<1> QED
  BY <1>2, <1>4, FS_Bijection

\* At rest, a build recorded in one way only has its record, its node and its
\* edges, and no others.
LEMMA AtRest ==
    ASSUME WholeInv, crashes = 0, \A p \in Procs : at[p] = "idle",
           \A r, s \in published : r.build = s.build => r = s,
           NEW r \in published
    PROVE  /\ Holds(BuildNode(r))
           /\ r \in RecordIndex /\ \A s \in RecordIndex : s.build = r.build => s = r
           /\ Relied(StoredGraph, r.build) = EdgesOf(r)
<1>1. IInv /\ IdleIsFree /\ Whole
  BY DEF WholeInv
<1>2. (\A n \in DOMAIN disk : disk[n] # Torn) /\ \A dir : Readable(dir)
  BY <1>1, NothingTorn
<1>3. Recorded = published
  BY <1>1 DEF Recorded, IdleIsFree, Procs
<1>4. published \subseteq Recording
  BY <1>1 DEF IInv, TypeOK
<1>5. \A f \in RecordFiles(r) : Holds(f)
  <2> SUFFICES ASSUME NEW f \in RecordFiles(r), ~ Holds(f)
               PROVE  FALSE
    OBVIOUS
  <2>1. Founded(f) /\ Name(f) \in DOMAIN disk
    BY <1>1, <1>3, RecordFilesFounded DEF Whole, FilesAreKept
  <2>2. f.content \in published /\ disk[Name(f)] \in published
        /\ f.content.build = disk[Name(f)].build
    BY <1>1, <1>2, <1>3, <2>1, WholeFile
  <2>3. f.content = disk[Name(f)]
    BY <2>2
  <2> QED
    BY <2>1, <2>3 DEF Holds
<1>6. Holds(BuildNode(r))
  BY <1>5 DEF RecordFiles, GraphFiles
<1>7. Contents("builds") \subseteq published
  BY <1>1, <1>2, <1>3, ContentsFounded
<1>8. r \in Contents("builds")
  <2>1. Holds(Same("builds", r))
    BY <1>5 DEF RecordFiles
  <2>2. Name(Same("builds", r)) \in In("builds") /\ disk[Name(Same("builds", r))] = r
    BY <2>1 DEF Holds, Name, Same, In
  <2> QED
    BY <2>2 DEF Contents
<1>9. r \in RecordIndex /\ \A s \in RecordIndex : s.build = r.build => s = r
  <2>1. \A s \in Contents("builds") : s.build = r.build => s = r
    BY <1>7
  <2>2. HashOrder[r] <= HashOrder[r]
    BY <1>4, StoreAssumption
  <2> QED
    BY <1>8, <2>1, <2>2 DEF RecordIndex
<1>10. Relied(StoredGraph, r.build) = {e \in Contents("edges") : e.build = r.build}
  BY DEF Relied, StoredGraph
<1>11. ASSUME NEW e \in Contents("edges"), e.build = r.build
       PROVE  e \in EdgesOf(r)
  <2>1. Founded(Same("edges", e))
    BY <1>1, <1>2, ContentsFounded
  <2>2. PICK s \in published : e \in EdgesOf(s)
    BY <1>3, <2>1 DEF Founded, Same
  <2>3. s.build = e.build
    BY <2>2 DEF EdgesOf
  <2>4. s = r
    BY <1>11, <2>3
  <2> QED
    BY <2>2, <2>4
<1>12. ASSUME NEW e \in EdgesOf(r)
       PROVE  e \in Contents("edges") /\ e.build = r.build
  <2>1. Holds(Same("edges", e))
    BY <1>5 DEF RecordFiles, GraphFiles
  <2>2. Name(Same("edges", e)) \in In("edges") /\ disk[Name(Same("edges", e))] = e
    BY <2>1 DEF Holds, Name, Same, In
  <2> QED
    BY <2>2 DEF Contents, EdgesOf
<1> QED
  BY <1>6, <1>9, <1>10, <1>11, <1>12

(***************************************************************************)
(* At rest, if nobody died and no build was recorded with two different    *)
(* sets of assertions, no file is cut short, every published build has its *)
(* node, and its status says exactly whether it relied on anything         *)
(* retracted.                                                              *)
(***************************************************************************)
THEOREM StoreAtRestIsExact == Spec => []QuietStoreIsExact
<1>1. WholeInv => QuietStoreIsExact
  <2> SUFFICES ASSUME WholeInv, crashes = 0, \A p \in Procs : at[p] = "idle",
                      \A r, s \in published : r.build = s.build => r = s
               PROVE  /\ \A n \in DOMAIN disk : disk[n] # Torn
                      /\ \A r \in published :
                            /\ Status(StoredGraph, RecordIndex, RetractedOnDisk, r.build)
                                   = ExactStatus(r)
                            /\ Holds(BuildNode(r))
    BY DEF QuietStoreIsExact
  <2>1. \A n \in DOMAIN disk : disk[n] # Torn
    BY NothingTorn DEF WholeInv
  <2>2. ASSUME NEW r \in published
        PROVE  /\ Status(StoredGraph, RecordIndex, RetractedOnDisk, r.build) = ExactStatus(r)
               /\ Holds(BuildNode(r))
    <3> DEFINE record == CHOOSE s \in RecordIndex : s.build = r.build
    <3>1. /\ Holds(BuildNode(r)) /\ r \in RecordIndex
          /\ \A s \in RecordIndex : s.build = r.build => s = r
          /\ Relied(StoredGraph, r.build) = EdgesOf(r)
      BY <2>2, AtRest
    <3>2. record = r
      BY <3>1
    <3>3. \E n \in StoredGraph.nodes : n.key = r.build
      BY <3>1 DEF StoredGraph, BuildNode
    <3>4. Cardinality(Relied(StoredGraph, r.build)) = Cardinality(record.consumed)
      BY <3>1, <3>2, OneEdgeEach DEF WholeInv, IInv, TypeOK
    <3>5. (\E e \in Relied(StoredGraph, r.build) : e.subject \in RetractedOnDisk)
              <=> r.consumed \cap RetractedOnDisk # {}
      <4>1. \A e \in EdgesOf(r) : e.subject \in r.consumed
        BY DEF EdgesOf
      <4>2. ASSUME NEW a \in r.consumed
            PROVE  \E e \in EdgesOf(r) : e.subject = a
        <5>1. [subject |-> a, build |-> r.build] \in EdgesOf(r)
          BY DEF EdgesOf
        <5> QED
          BY <5>1
      <4> QED
        BY <3>1, <4>1, <4>2
    <3> HIDE DEF record
    <3>6. Status(StoredGraph, RecordIndex, RetractedOnDisk, r.build) =
              IF \E e \in Relied(StoredGraph, r.build) : e.subject \in RetractedOnDisk
              THEN "tainted" ELSE "clean"
      BY <3>1, <3>3, <3>4 DEF Status, record
    <3> QED
      BY <3>1, <3>5, <3>6 DEF ExactStatus
  <2> QED
    BY <2>1, <2>2
<1> QED
  BY <1>1, StoreIsWhole, PTL

=============================================================================
