---------------------------- MODULE ProvenanceProofs ----------------------------
(***************************************************************************)
(* For any number of recorders and operators, assertions and builds, and   *)
(* whatever dies: the provenance store implements the taint ledger.        *)
(***************************************************************************)
EXTENDS ProvenanceLaws, WellFoundedInduction, TLAPS

-----------------------------------------------------------------------------
(***************************************************************************)
(* What holds in every reachable state and carries the refinement.         *)
(***************************************************************************)
Writes == {"check", "open", "close"}

Reads == {"objects", "builds", "edges", "attestations", "records"}

\* A recorder runs recordings and only writes; an operator runs the others.
Roles ==
    /\ \A p \in Procs : at[p] # "idle" => cmd[p] \in Commands
    /\ \A p \in Recorders : at[p] # "idle" => cmd[p].do = "record" /\ at[p] \in Writes
    /\ \A o \in Operators : at[o] # "idle" => cmd[o].do # "record"
    /\ \A p \in Procs : at[p] \in {"open", "close"} => file[p] \in todo[p]
    /\ \A o \in Operators : at[o] \in Reads => todo[o] = {}

\* The place of an operator and the graph it has.
Stages ==
    \A o \in Operators :
        /\ at[o] \in {"idle", "objects"} => graph[o] = NoGraph
        /\ at[o] \in Reads \ {"objects"} => graph[o] # NoGraph
        /\ at[o] \in {"attestations", "records"} => Asks(cmd[o])
        /\ at[o] # "idle" => answer[o] = NoAnswer

\* Objects and edges hold what their names say, or are cut short.
NamesHold ==
    /\ \A n \in DOMAIN disk :
           n.dir \in {"objects", "edges"} => disk[n] \in {n.key, Torn}
    /\ \A p \in Procs : \A f \in todo[p] :
           f.dir \in {"objects", "edges"} => f.content = f.key

IsRetraction(n) == n.dir = "objects" /\ n.key.kind = "retracted"

\* A retraction is written once, by one process.
RetractionsAreFresh ==
    /\ \A n \in DOMAIN disk : IsRetraction(n) => n.key.stamp \in 0..stamp
    /\ \A p \in Procs : \A f \in todo[p] : IsRetraction(f) =>
           /\ f.key.stamp \in 0..stamp
           /\ Name(f) \in DOMAIN disk => at[p] = "close" /\ Name(file[p]) = Name(f)
           /\ \A q \in Procs \ {p} : \A g \in todo[q] : Name(g) # Name(f)

HasEdges(r) == \A e \in EdgesOf(r) : Name(Same("edges", e)) \in DOMAIN disk

\* The edges of a recording are there, or on their way.
EdgesAreKept ==
    /\ \A r \in published : HasEdges(r)
    /\ \A p \in Recorders : at[p] # "idle" =>
           \A e \in EdgesOf(cmd[p].recording) :
               \/ Name(Same("edges", e)) \in DOMAIN disk
               \/ Same("edges", e) \in todo[p]

HasRead(o) == at[o] \in Reads \/ graph[o] # NoGraph

EdgesLoaded(o) == graph[o] # NoGraph /\ at[o] \notin {"objects", "builds", "edges"}

\* A question is open while its operator reads.
QuestionsAreOpen ==
    \A o \in Operators :
        /\ asked[o] # NoQuestion <=> HasRead(o) /\ Asks(cmd[o])
        /\ asked[o] # NoQuestion => at[o] # "idle" /\ asked[o].about = cmd[o].about

\* What had happened when the question was asked is still so, and what the
\* operator has read since shows it.
QuestionsAreServed ==
    \A o \in Operators : asked[o] # NoQuestion =>
        /\ asked[o].published \subseteq published
        /\ asked[o].retracted \subseteq RetractedOnDisk
        /\ EdgesLoaded(o) =>
               \A r \in asked[o].published : EdgesOf(r) \subseteq graph[o].edges
        /\ at[o] = "records" => asked[o].retracted \subseteq retracted[o]

IInv ==
    /\ TypeOK
    /\ Roles
    /\ Stages
    /\ NamesHold
    /\ RetractionsAreFresh
    /\ EdgesAreKept
    /\ QuestionsAreOpen
    /\ QuestionsAreServed

-----------------------------------------------------------------------------
(***************************************************************************)
(* Files.                                                                  *)
(***************************************************************************)
\* A file is its name and its content.
LEMMA FileIsNameAndContent ==
    ASSUME NEW f \in Files
    PROVE  /\ f = [dir |-> f.dir, key |-> f.key, content |-> f.content]
           /\ f.dir \in {"objects", "builds", "nodes", "edges", "snapshots"}
           /\ f.dir = "objects" => f.key \in Object /\ f.content \in Object
           /\ f.dir = "edges" => f.key \in Edge /\ f.content \in Edge
           /\ f.dir = "builds" => f.content \in Recording
  BY DEF Files

\* The stamp of an object is a number.
LEMMA StampsAreNumbers ==
    ASSUME NEW x \in Object
    PROVE  x.stamp \in 0..MaxStamp /\ x.subject \in Assertions
  BY StoreAssumption DEF Object

\* Files have stages, numbers up to a bound.
LEMMA StagesAreNumbers ==
    ASSUME NEW f \in Files
    PROVE  Stage(f) \in Nat
<1>1. CASE f.dir = "objects"
  BY <1>1, FileIsNameAndContent, StampsAreNumbers DEF Stage
<1>2. CASE f.dir # "objects"
  BY <1>2, FileIsNameAndContent DEF Stage
<1> QED
  BY <1>1, <1>2

\* The next file of a list that is not empty is one of the list.
LEMMA NextIsInList ==
    ASSUME NEW S \in SUBSET Files, S # {}
    PROVE  NextOf(S) \in S
<1> DEFINE T == {Stage(f) : f \in S}
           R == {ss \in Nat \X Nat : ss[1] < ss[2]}
<1>0. IsWellFoundedOn(R, Nat)
  BY NatLessThanWellFounded, Zenon DEF OpToRel
<1>1. T \subseteq Nat /\ T # {}
  BY StagesAreNumbers
<1>2. PICK x \in T : \A y \in T : ~ (<<y, x>> \in R)
  <2> HIDE DEF T, R
  <2> QED
    BY <1>0, <1>1, WFMin, Zenon
<1>3. \A y \in T : x <= y
  <2> SUFFICES ASSUME NEW y \in T, y < x
               PROVE  FALSE
    BY <1>1
  <2>1. <<y, x>> \in R
    BY <1>1
  <2> QED
    BY <1>2, <2>1
<1>4. \E f \in S : \A g \in S : Stage(f) <= Stage(g)
  BY <1>3
<1> QED
  BY <1>4 DEF NextOf

\* What write_graph writes: no objects, and edges named by what they are.
LEMMA GraphFilesType ==
    ASSUME NEW g \in Graphs
    PROVE  /\ GraphFiles(g) \subseteq Files
           /\ \A f \in GraphFiles(g) : f.dir # "objects"
           /\ \A f \in GraphFiles(g) : f.dir = "edges" => f.content = f.key
           /\ \A e \in g.edges : Same("edges", e) \in GraphFiles(g)
<1>1. g.nodes \subseteq Files /\ \A f \in g.nodes : f.dir = "nodes"
  BY DEF Graphs, Files
<1>2. \A e \in g.edges : Same("edges", e) \in Files
  BY DEF Graphs, Files, Same
<1>3. Same("snapshots", g) \in Files
  BY DEF Files, Same
<1>4. \A f \in GraphFiles(g) :
          f \in g.nodes \/ f = Same("snapshots", g) \/ \E e \in g.edges : f = Same("edges", e)
  BY DEF GraphFiles
<1>5. \A dir, key : Same(dir, key).dir = dir /\ Same(dir, key).content = Same(dir, key).key
  BY DEF Same
<1>6. \A e \in g.edges : Same("edges", e) \in GraphFiles(g)
  BY DEF GraphFiles
<1>7. GraphFiles(g) \subseteq Files
  BY <1>1, <1>2, <1>3, <1>4
<1>8. \A f \in GraphFiles(g) : f.dir # "objects" /\ (f.dir = "edges" => f.content = f.key)
  BY <1>1, <1>4, <1>5
<1> QED
  BY <1>6, <1>7, <1>8

\* What a recording writes.
LEMMA RecordFilesType ==
    ASSUME NEW r \in Recording
    PROVE  /\ RecordFiles(r) \subseteq Files
           /\ \A f \in RecordFiles(r) : f.dir # "objects"
           /\ \A f \in RecordFiles(r) : f.dir = "edges" => f.content = f.key
           /\ \A e \in EdgesOf(r) : Same("edges", e) \in RecordFiles(r)
           /\ EdgesOf(r) \subseteq Edge
<1> DEFINE g == [nodes |-> {BuildNode(r)}, edges |-> EdgesOf(r)]
<1>1. EdgesOf(r) \subseteq Edge
  BY DEF EdgesOf, Edge, Recording
<1>2. BuildNode(r) \in [dir : {"nodes"}, key : Object \cup Builds,
                        content : Object \cup Recording]
  BY DEF BuildNode, Recording
<1>3. g \in Graphs
  BY <1>1, <1>2 DEF Graphs
<1>4. Same("builds", r) \in Files /\ Same("builds", r).dir = "builds"
  BY DEF Same, Files
<1> QED
  BY <1>1, <1>3, <1>4, GraphFilesType DEF RecordFiles

\* What the operators' commands write before they read: objects, with the
\* stamps that follow the clock.
LEMMA OwnFilesType ==
    ASSUME NEW c \in Commands, c.do # "record",
           stamp \in Nat, stamp + Attestations(c) <= MaxStamp
    PROVE  /\ OwnFiles(c) \subseteq Files
           /\ Attestations(c) \in Nat
           /\ \A f \in OwnFiles(c) : f.dir = "objects" /\ f.content = f.key
           /\ \A f \in OwnFiles(c) : IsRetraction(f) =>
                  f.key.stamp = stamp + 1 /\ f.key.stamp <= stamp + Attestations(c)
<1>1. \A a \in Assertions : AssertionFile(a) \in Files
  BY DEF AssertionFile, AssertionObject, Same, Files, Object
<1>2. \A a \in Assertions, k \in AttestationKinds, t \in 1..MaxStamp :
          AttestationFile(k, a, t) \in Files
  BY DEF AttestationFile, Same, Files, Object
<1>3. \A a \in Assertions : /\ AssertionFile(a).dir = "objects"
                            /\ AssertionFile(a).content = AssertionFile(a).key
                            /\ ~ IsRetraction(AssertionFile(a))
  BY DEF AssertionFile, AssertionObject, Same, IsRetraction
<1>4. \A a, k, t : /\ AttestationFile(k, a, t).dir = "objects"
                   /\ AttestationFile(k, a, t).content = AttestationFile(k, a, t).key
                   /\ AttestationFile(k, a, t).key.stamp = t
                   /\ AttestationFile(k, a, t).key.kind = k
  BY DEF AttestationFile, Same
<1>5. CASE c.do \in {"propose", "review", "retract"}
  <2>1. c.about \in Assertions /\ Attestations(c) = 1 /\ stamp + 1 \in 1..MaxStamp
    BY <1>5, StoreAssumption DEF Commands, Attestations
  <2> QED
    BY <1>1, <1>2, <1>3, <1>4, <1>5, <2>1 DEF OwnFiles, AttestationKinds
<1>6. CASE c.do = "supersede"
  <2>1. /\ c.about \in Assertions /\ c.with \in Assertions /\ Attestations(c) = 2
        /\ stamp + 1 \in 1..MaxStamp /\ stamp + 2 \in 1..MaxStamp
    BY <1>6, StoreAssumption DEF Commands, Attestations
  <2> QED
    BY <1>1, <1>2, <1>3, <1>4, <1>6, <2>1 DEF OwnFiles, AttestationKinds, IsRetraction
<1>7. CASE c.do = "report"
  BY <1>7 DEF OwnFiles, Attestations
<1> QED
  BY <1>5, <1>6, <1>7 DEF Commands

\* Putting a file changes what its name holds and nothing else.
LEMMA PutEffect ==
    ASSUME NEW f, NEW content, disk' = Put(f, content)
    PROVE  /\ DOMAIN disk' = DOMAIN disk \cup {Name(f)}
           /\ disk'[Name(f)] = content
           /\ \A n \in DOMAIN disk : n # Name(f) => disk'[n] = disk[n]
  BY DEF Put

\* Putting what a file may hold keeps every file well formed.
LEMMA PutIsWellFormed ==
    ASSUME WellFormed, NEW f \in Files, NEW content \in {f.content, Torn},
           disk' = Put(f, content)
    PROVE  WellFormed'
<1>1. f = [dir |-> Name(f).dir, key |-> Name(f).key, content |-> f.content]
  BY FileIsNameAndContent DEF Name
<1>2. SUFFICES ASSUME NEW n \in DOMAIN disk'
               PROVE  \/ [dir |-> n.dir, key |-> n.key, content |-> disk'[n]] \in Files
                      \/ disk'[n] = Torn
  BY DEF WellFormed
<1>3. CASE n = Name(f)
  BY <1>1, <1>3, PutEffect
<1>4. CASE n # Name(f)
  <2>1. DOMAIN disk' = DOMAIN disk \cup {Name(f)}
    BY PutEffect
  <2>2. n \in DOMAIN disk
    BY <1>4, <2>1
  <2>3. disk'[n] = disk[n]
    BY <1>4, <2>2 DEF Put
  <2> QED
    BY <2>2, <2>3 DEF WellFormed
<1> QED
  BY <1>3, <1>4

\* What can be read has its type.
LEMMA ContentsType ==
    ASSUME WellFormed
    PROVE  /\ Readable("objects") => Contents("objects") \subseteq Object
           /\ Readable("builds") => Contents("builds") \subseteq Recording
           /\ Readable("edges") => Contents("edges") \subseteq Edge
           /\ Contents("objects") \ {Torn} \subseteq Object
<1>1. \A n \in DOMAIN disk : disk[n] # Torn =>
          /\ n.dir = "objects" => disk[n] \in Object
          /\ n.dir = "builds" => disk[n] \in Recording
          /\ n.dir = "edges" => disk[n] \in Edge
  <2> SUFFICES ASSUME NEW n \in DOMAIN disk, disk[n] # Torn
               PROVE  /\ n.dir = "objects" => disk[n] \in Object
                      /\ n.dir = "builds" => disk[n] \in Recording
                      /\ n.dir = "edges" => disk[n] \in Edge
    OBVIOUS
  <2>1. [dir |-> n.dir, key |-> n.key, content |-> disk[n]] \in Files
    BY DEF WellFormed
  <2> QED
    BY <2>1, FileIsNameAndContent
<1> QED
  BY <1>1 DEF Readable, Contents, In

\* What is retracted on disk are assertions.
LEMMA RetractedType ==
    ASSUME WellFormed
    PROVE  RetractedOnDisk \subseteq Assertions
  BY ContentsType, StampsAreNumbers DEF RetractedOnDisk

\* As long as no file changes, no retraction does.
LEMMA SameDisk ==
    ASSUME UNCHANGED disk
    PROVE  /\ RetractedOnDisk' = RetractedOnDisk
           /\ WellFormed' <=> WellFormed
  BY DEF RetractedOnDisk, Contents, In, WellFormed

\* A recording and what is known of it.
LEMMA RecordCommand ==
    ASSUME NEW c \in Commands, c.do = "record"
    PROVE  c.recording \in Recording
  BY DEF Commands

\* The commands that ask are about an assertion.
LEMMA OperatorCommand ==
    ASSUME NEW c \in Commands, c.do # "record"
    PROVE  c.about \in Assertions
  BY DEF Commands

-----------------------------------------------------------------------------
(***************************************************************************)
(* The initial state, and the steps of a process that writes.              *)
(***************************************************************************)
LEMMA InitIInv ==
    ASSUME Init
    PROVE  IInv
<1>1. \A n \in DOMAIN disk : \E a \in Assertions :
          n = Name(AssertionFile(a)) /\ disk[n] = n.key
  BY StoreAssumption DEF Init
<1>2. \A n \in DOMAIN disk : /\ n.dir = "objects" /\ n.key.kind = "assertion"
                            /\ disk[n] = n.key
                            /\ [dir |-> n.dir, key |-> n.key, content |-> disk[n]] \in Files
  BY <1>1 DEF Name, AssertionFile, AssertionObject, Same, Files, Object
<1>3. TypeOK
  <2>1. WellFormed
    BY <1>2 DEF WellFormed
  <2>2. NoAnswer \in Answers
    BY DEF NoAnswer, Answers
  <2>3. "idle" \in Places
    BY DEF Places
  <2> QED
    BY <2>1, <2>2, <2>3, StoreAssumption DEF Init, TypeOK
<1>4. Roles /\ Stages
  BY DEF Init, Roles, Stages, Procs, Reads
<1>5. NamesHold /\ RetractionsAreFresh
  BY <1>2 DEF Init, NamesHold, RetractionsAreFresh, IsRetraction
<1>6. EdgesAreKept
  BY DEF Init, EdgesAreKept, Procs
<1>7. QuestionsAreOpen /\ QuestionsAreServed
  BY DEF Init, QuestionsAreOpen, QuestionsAreServed, HasRead, Reads, Procs
<1> QED
  BY <1>3, <1>4, <1>5, <1>6, <1>7 DEF IInv

\* A process that goes on writing disturbs no reader: what an operator knows
\* depends on whether it writes, not on how far it is.
LEMMA WritingKeepsReaders ==
    ASSUME IInv, NEW p \in Procs, at[p] \in Writes,
           at' \in [Procs -> Places], at'[p] \in Writes,
           \A q \in Procs \ {p} : at'[q] = at[q],
           UNCHANGED <<cmd, graph, retracted, published, asked, answer>>,
           RetractedOnDisk \subseteq RetractedOnDisk'
    PROVE  Stages' /\ QuestionsAreOpen' /\ QuestionsAreServed'
<1>1. \A o \in Operators :
          at'[o] = at[o] \/ (at[o] \in Writes /\ at'[o] \in Writes)
  <2> SUFFICES ASSUME NEW o \in Operators
               PROVE  at'[o] = at[o] \/ (at[o] \in Writes /\ at'[o] \in Writes)
    OBVIOUS
  <2>1. o \in Procs
    BY DEF Procs
  <2> QED
    BY <2>1
<1>2. Stages'
  BY <1>1 DEF IInv, Stages, Writes, Reads
<1>3. QuestionsAreOpen'
  BY <1>1 DEF IInv, QuestionsAreOpen, HasRead, Writes, Reads
<1>4. ASSUME NEW o \in Operators, asked[o] # NoQuestion
      PROVE  /\ asked[o].published \subseteq published
             /\ asked[o].retracted \subseteq RetractedOnDisk'
             /\ EdgesLoaded(o)' =>
                    \A r \in asked[o].published : EdgesOf(r) \subseteq graph[o].edges
             /\ at'[o] = "records" => asked[o].retracted \subseteq retracted[o]
  BY <1>1, <1>4 DEF IInv, QuestionsAreServed, EdgesLoaded, Writes
<1>5. QuestionsAreServed'
  BY <1>4 DEF QuestionsAreServed
<1> QED
  BY <1>2, <1>3, <1>5

\* Passing over a file that exists keeps the invariant.
LEMMA SkipStep ==
    ASSUME IInv, NEW p \in Procs, Skip(p)
    PROVE  IInv'
<1> USE DEF IInv, Skip, reading
<1>1. todo[p] \in SUBSET Files /\ NextOf(todo[p]) \in todo[p]
  BY NextIsInList DEF TypeOK
<1>2. todo'[p] = todo[p] \ {NextOf(todo[p])} /\ \A q \in Procs : todo'[q] \subseteq todo[q]
  BY DEF TypeOK
<1>3. TypeOK'
  BY <1>1, SameDisk DEF TypeOK
<1>4. Roles'
  BY DEF Roles, TypeOK
<1>5. Stages' /\ QuestionsAreOpen' /\ QuestionsAreServed'
  BY WritingKeepsReaders, SameDisk DEF TypeOK, Writes
<1>6. NamesHold'
  BY <1>2 DEF NamesHold
<1>7. RetractionsAreFresh'
  BY <1>2 DEF RetractionsAreFresh
<1>8. EdgesAreKept'
  <2>1. \A r \in published : HasEdges(r)'
    BY DEF EdgesAreKept, HasEdges
  <2>2. ASSUME NEW q \in Recorders, at[q] # "idle", NEW e \in EdgesOf(cmd[q].recording)
        PROVE  \/ Name(Same("edges", e)) \in DOMAIN disk
               \/ Same("edges", e) \in todo'[q]
    BY <1>2, <2>2 DEF EdgesAreKept, TypeOK, Procs
  <2> QED
    BY <2>1, <2>2 DEF EdgesAreKept
<1> QED
  BY <1>3, <1>4, <1>5, <1>6, <1>7, <1>8

\* Finding a path free keeps the invariant.
LEMMA FindMissingStep ==
    ASSUME IInv, NEW p \in Procs, FindMissing(p)
    PROVE  IInv'
<1> USE DEF IInv, FindMissing, reading
<1>1. todo[p] \in SUBSET Files /\ NextOf(todo[p]) \in todo[p]
  BY NextIsInList DEF TypeOK
<1>3. TypeOK'
  BY <1>1, SameDisk DEF TypeOK, Places
<1>4. Roles'
  BY <1>1 DEF Roles, TypeOK, Writes, Reads, Procs
<1>5. Stages' /\ QuestionsAreOpen' /\ QuestionsAreServed'
  <2>1. at' \in [Procs -> Places] /\ at'[p] = "open" /\ \A q \in Procs \ {p} : at'[q] = at[q]
    BY DEF TypeOK, Places
  <2> QED
    BY <2>1, WritingKeepsReaders, SameDisk DEF Writes
<1>6. NamesHold'
  BY DEF NamesHold
<1>7. RetractionsAreFresh'
  BY DEF RetractionsAreFresh, TypeOK
<1>8. EdgesAreKept'
  BY DEF EdgesAreKept, HasEdges, TypeOK
<1> QED
  BY <1>3, <1>4, <1>5, <1>6, <1>7, <1>8

\* The retractions a disk holds, and the names that say so.
RetractedIn(d) ==
    {x.subject : x \in {y \in {d[n] : n \in {m \in DOMAIN d : m.dir = "objects"}} \ {Torn} :
                           y.kind = "retracted"}}

RetractionNames(d) == {m \in DOMAIN d : IsRetraction(m) /\ d[m] # Torn}

\* Where objects hold what their names say, the two agree.
LEMMA RetractedByName ==
    ASSUME NEW d, \A n \in DOMAIN d : n.dir = "objects" => d[n] \in {n.key, Torn}
    PROVE  RetractedIn(d) = {n.key.subject : n \in RetractionNames(d)}
<1> DEFINE Names == {m \in DOMAIN d : IsRetraction(m) /\ d[m] # Torn}
           Found == {y \in {d[n] : n \in {m \in DOMAIN d : m.dir = "objects"}} \ {Torn} :
                        y.kind = "retracted"}
<1>1. \A y \in Found : \E n \in Names : y = n.key
  BY DEF IsRetraction
<1>2. \A n \in Names : n.key \in Found
  BY DEF IsRetraction
<1> HIDE DEF Names, Found
<1>3. {x.subject : x \in Found} = {n.key.subject : n \in Names}
  BY <1>1, <1>2
<1> QED
  BY <1>3 DEF Names, Found, RetractedIn, RetractionNames

\* The same of the disk before and after a step.
LEMMA RetractedOnDiskByName ==
    /\ NamesHold => RetractedOnDisk = {n.key.subject : n \in RetractionNames(disk)}
    /\ NamesHold' => RetractedOnDisk' = {n.key.subject : n \in RetractionNames(disk')}
<1>1. RetractedOnDisk = RetractedIn(disk) /\ RetractedOnDisk' = RetractedIn(disk')
  BY DEF RetractedOnDisk, RetractedIn, Contents, In
<1>2. NamesHold => \A n \in DOMAIN disk : n.dir = "objects" => disk[n] \in {n.key, Torn}
  BY DEF NamesHold
<1>3. NamesHold' => \A n \in DOMAIN disk' : n.dir = "objects" => disk'[n] \in {n.key, Torn}
  BY DEF NamesHold
<1> QED
  BY <1>1, <1>2, <1>3, RetractedByName

\* Opening a file loses no retraction: nobody opens one that is there.
LEMMA OpenKeepsRetractions ==
    ASSUME IInv, NEW p \in Procs, Open(p)
    PROVE  /\ file[p] \in Files
           /\ NamesHold'
           /\ RetractedOnDisk' = RetractedOnDisk
<1> USE DEF IInv, Open
<1>1. file[p] \in todo[p] /\ file[p] \in Files
  BY DEF Roles, TypeOK
<1>2. /\ DOMAIN disk' = DOMAIN disk \cup {Name(file[p])}
      /\ disk'[Name(file[p])] = Torn
      /\ \A n \in DOMAIN disk : n # Name(file[p]) => disk'[n] = disk[n]
  BY DEF Put
<1>3. NamesHold'
  BY <1>2 DEF NamesHold
<1>4. IsRetraction(Name(file[p])) => Name(file[p]) \notin DOMAIN disk
  BY <1>1 DEF RetractionsAreFresh, IsRetraction, Name
<1>5. RetractionNames(disk') = RetractionNames(disk)
  BY <1>2, <1>4 DEF RetractionNames
<1> QED
  BY <1>1, <1>3, <1>5, RetractedOnDiskByName

\* Closing a file adds one retraction at most.
LEMMA CloseAddsRetraction ==
    ASSUME IInv, NEW p \in Procs, Close(p)
    PROVE  /\ file[p] \in Files
           /\ NamesHold'
           /\ \/ RetractedOnDisk' = RetractedOnDisk
              \/ \E a \in Assertions : RetractedOnDisk' = RetractedOnDisk \cup {a}
<1> USE DEF IInv, Close
<1> DEFINE f == file[p]
           Names == RetractionNames(disk)
           NewNames == RetractionNames(disk')
<1>1. f \in todo[p] /\ f \in Files
  BY DEF Roles, TypeOK
<1>2. /\ DOMAIN disk' = DOMAIN disk \cup {Name(f)}
      /\ disk'[Name(f)] = f.content
      /\ \A n \in DOMAIN disk : n # Name(f) => disk'[n] = disk[n]
  BY PutEffect
<1>3. f.dir \in {"objects", "edges"} => f.content = f.key
  BY <1>1 DEF NamesHold
<1>4. \A q \in Procs : todo'[q] \subseteq todo[q]
  BY DEF TypeOK
<1>5. NamesHold'
  <2>1. \A n \in DOMAIN disk' : n.dir \in {"objects", "edges"} => disk'[n] \in {n.key, Torn}
    BY <1>2, <1>3 DEF NamesHold, Name
  <2> QED
    BY <1>4, <2>1 DEF NamesHold
<1>6. RetractedOnDisk = {n.key.subject : n \in Names}
  BY RetractedOnDiskByName
<1>7. RetractedOnDisk' = {n.key.subject : n \in NewNames}
  BY <1>5, RetractedOnDiskByName
<1>8. CASE IsRetraction(f)
  <2>1. Name(f) \in NewNames
    <3>1. f.content \in Object /\ f.content # Torn
      BY <1>1, <1>8, FileIsNameAndContent, SentinelAssumption DEF IsRetraction
    <3> QED
      BY <1>2, <1>8, <3>1 DEF IsRetraction, Name, RetractionNames
  <2>2. NewNames = Names \cup {Name(f)}
    BY <1>2, <2>1 DEF RetractionNames
  <2>3. Name(f).key.subject = f.key.subject /\ f.key.subject \in Assertions
    BY <1>1, <1>8, FileIsNameAndContent, StampsAreNumbers DEF IsRetraction, Name
  <2> QED
    BY <1>1, <1>5, <1>6, <1>7, <2>2, <2>3
<1>9. CASE ~ IsRetraction(f)
  <2>1. NewNames = Names
    BY <1>2, <1>9 DEF IsRetraction, Name, RetractionNames
  <2> QED
    BY <1>1, <1>5, <1>6, <1>7, <2>1
<1> QED
  BY <1>8, <1>9

\* Truncating a file keeps the invariant.
LEMMA OpenStep ==
    ASSUME IInv, NEW p \in Procs, Open(p)
    PROVE  IInv'
<1> USE DEF IInv, Open, reading
<1>1. /\ DOMAIN disk' = DOMAIN disk \cup {Name(file[p])}
      /\ file[p] \in Files /\ file[p] \in todo[p]
  BY PutEffect, OpenKeepsRetractions DEF Roles
<1>2. /\ at' \in [Procs -> Places] /\ at'[p] = "close"
      /\ \A q \in Procs \ {p} : at'[q] = at[q]
  BY DEF TypeOK, Places
<1>3. TypeOK'
  BY <1>1, <1>2, PutIsWellFormed DEF TypeOK
<1>4. Roles'
  BY <1>1, <1>2 DEF Roles, Writes, Reads, Procs
<1>5. Stages' /\ QuestionsAreOpen' /\ QuestionsAreServed'
  BY <1>2, WritingKeepsReaders, OpenKeepsRetractions DEF Writes
<1>6. NamesHold'
  BY OpenKeepsRetractions
<1>7. RetractionsAreFresh'
  <2>1. IsRetraction(Name(file[p])) => Name(file[p]).key.stamp \in 0..stamp
    BY <1>1 DEF RetractionsAreFresh, IsRetraction, Name
  <2>2. \A n \in DOMAIN disk' : IsRetraction(n) => n.key.stamp \in 0..stamp
    BY <1>1, <2>1 DEF RetractionsAreFresh
  <2>3. ASSUME NEW q \in Procs, NEW f \in todo[q], IsRetraction(f)
        PROVE  /\ f.key.stamp \in 0..stamp
               /\ Name(f) \in DOMAIN disk' => at'[q] = "close" /\ Name(file[q]) = Name(f)
               /\ \A r \in Procs \ {q} : \A g \in todo[r] : Name(g) # Name(f)
    BY <1>1, <1>2, <2>3 DEF RetractionsAreFresh
  <2> QED
    BY <2>2, <2>3 DEF RetractionsAreFresh
<1>8. EdgesAreKept'
  <2>1. \A q \in Recorders : at'[q] # "idle" => at[q] # "idle"
    BY <1>2 DEF Procs
  <2>2. \A r \in published : HasEdges(r)'
    BY <1>1 DEF EdgesAreKept, HasEdges
  <2> QED
    BY <1>1, <2>1, <2>2 DEF EdgesAreKept
<1> QED
  BY <1>3, <1>4, <1>5, <1>6, <1>7, <1>8

\* Completing a file keeps the invariant.
LEMMA CloseStep ==
    ASSUME IInv, NEW p \in Procs, Close(p)
    PROVE  IInv'
<1> USE DEF IInv, Close, reading
<1>1. /\ DOMAIN disk' = DOMAIN disk \cup {Name(file[p])}
      /\ file[p] \in Files /\ file[p] \in todo[p]
  BY PutEffect, CloseAddsRetraction DEF Roles
<1>2. /\ at' \in [Procs -> Places] /\ at'[p] = "check"
      /\ \A q \in Procs \ {p} : at'[q] = at[q] /\ file'[q] = file[q] /\ todo'[q] = todo[q]
      /\ todo'[p] = todo[p] \ {file[p]}
  BY DEF TypeOK, Places
<1>3. TypeOK'
  BY <1>1, <1>2, PutIsWellFormed DEF TypeOK
<1>4. Roles'
  BY <1>1, <1>2 DEF Roles, Writes, Reads, Procs
<1>5. Stages' /\ QuestionsAreOpen' /\ QuestionsAreServed'
  BY <1>2, WritingKeepsReaders, CloseAddsRetraction DEF Writes
<1>6. NamesHold'
  BY CloseAddsRetraction
<1>7. RetractionsAreFresh'
  <2>1. IsRetraction(Name(file[p])) => Name(file[p]).key.stamp \in 0..stamp
    BY <1>1 DEF RetractionsAreFresh, IsRetraction, Name
  <2>2. \A n \in DOMAIN disk' : IsRetraction(n) => n.key.stamp \in 0..stamp
    BY <1>1, <2>1 DEF RetractionsAreFresh
  <2>3. \A f \in todo[p] : IsRetraction(f) /\ Name(f) = Name(file[p]) => f = file[p]
    <3> SUFFICES ASSUME NEW f \in todo[p], IsRetraction(f), Name(f) = Name(file[p])
                 PROVE  f = file[p]
      OBVIOUS
    <3>1. f \in Files /\ f.dir = file[p].dir /\ f.key = file[p].key
      BY DEF TypeOK, Name
    <3>2. f.content = f.key /\ file[p].content = file[p].key
      BY <1>1, <3>1 DEF NamesHold, IsRetraction
    <3> QED
      BY <1>1, <3>1, <3>2, FileIsNameAndContent
  <2>4. ASSUME NEW q \in Procs, NEW f \in todo'[q], IsRetraction(f)
        PROVE  /\ f.key.stamp \in 0..stamp
               /\ Name(f) \in DOMAIN disk' => at'[q] = "close" /\ Name(file'[q]) = Name(f)
               /\ \A r \in Procs \ {q} : \A g \in todo'[r] : Name(g) # Name(f)
    BY <1>1, <1>2, <2>3, <2>4 DEF RetractionsAreFresh
  <2> QED
    BY <2>2, <2>4 DEF RetractionsAreFresh
<1>8. EdgesAreKept'
  <2>1. \A r \in published : HasEdges(r)'
    BY <1>1 DEF EdgesAreKept, HasEdges
  <2>2. ASSUME NEW q \in Recorders, at'[q] # "idle", NEW e \in EdgesOf(cmd[q].recording)
        PROVE  \/ Name(Same("edges", e)) \in DOMAIN disk'
               \/ Same("edges", e) \in todo'[q]
    BY <1>1, <1>2, <2>2 DEF EdgesAreKept, Procs
  <2> QED
    BY <2>1, <2>2 DEF EdgesAreKept
<1> QED
  BY <1>3, <1>4, <1>5, <1>6, <1>7, <1>8

-----------------------------------------------------------------------------
(***************************************************************************)
(* Recorders.                                                              *)
(***************************************************************************)
\* What a recorder does disturbs no operator.
LEMMA RecorderKeepsReaders ==
    ASSUME IInv, NEW p \in Recorders,
           \A q \in Procs \ {p} : at'[q] = at[q] /\ cmd'[q] = cmd[q],
           UNCHANGED <<disk, graph, retracted, asked, answer>>,
           published \subseteq published'
    PROVE  Stages' /\ QuestionsAreOpen' /\ QuestionsAreServed'
<1>1. \A o \in Operators : at'[o] = at[o] /\ cmd'[o] = cmd[o]
  BY StoreAssumption DEF Procs
<1>2. Stages'
  BY <1>1 DEF IInv, Stages
<1>3. QuestionsAreOpen'
  BY <1>1 DEF IInv, QuestionsAreOpen, HasRead
<1>4. QuestionsAreServed'
  BY <1>1, SameDisk DEF IInv, QuestionsAreServed, EdgesLoaded
<1> QED
  BY <1>2, <1>3, <1>4

\* A recorder that begins has all its edges to write.
LEMMA BeginRecordStep ==
    ASSUME IInv, NEW p \in Recorders, NEW c \in Drawn, BeginRecord(p, c)
    PROVE  IInv'
<1> USE DEF IInv, BeginRecord, reading
<1>1. /\ p \in Procs /\ c \in Commands /\ c.recording \in Recording
      /\ RecordFiles(c.recording) \subseteq Files
  BY StoreAssumption, RecordCommand, RecordFilesType DEF Procs
<1>2. /\ at' \in [Procs -> Places] /\ at'[p] = "check"
      /\ cmd'[p] = c /\ todo'[p] = RecordFiles(c.recording)
      /\ \A q \in Procs \ {p} :
             at'[q] = at[q] /\ cmd'[q] = cmd[q] /\ todo'[q] = todo[q]
  BY <1>1 DEF TypeOK, Places
<1>3. TypeOK'
  BY <1>1, <1>2, SameDisk DEF TypeOK
<1>4. Roles'
  BY <1>1, <1>2, StoreAssumption DEF Roles, Writes, Procs
<1>5. Stages' /\ QuestionsAreOpen' /\ QuestionsAreServed'
  BY <1>2, RecorderKeepsReaders
<1>6. NamesHold'
  BY <1>1, <1>2, RecordFilesType DEF NamesHold
<1>7. RetractionsAreFresh'
  <2>1. \A f \in todo'[p] : f.dir # "objects"
    BY <1>1, <1>2, RecordFilesType
  <2>2. ASSUME NEW q \in Procs, NEW f \in todo'[q], IsRetraction(f)
        PROVE  /\ f.key.stamp \in 0..stamp
               /\ Name(f) \in DOMAIN disk => at'[q] = "close" /\ Name(file[q]) = Name(f)
               /\ \A r \in Procs \ {q} : \A g \in todo'[r] : Name(g) # Name(f)
    <3>1. q # p /\ f \in todo[q] /\ at'[q] = at[q]
      BY <1>2, <2>1, <2>2 DEF IsRetraction
    <3>2. \A g \in todo'[p] : Name(g) # Name(f)
      BY <2>1, <2>2 DEF IsRetraction, Name
    <3> QED
      BY <1>2, <2>2, <3>1, <3>2 DEF RetractionsAreFresh
  <2> QED
    BY <2>2 DEF RetractionsAreFresh
<1>8. EdgesAreKept'
  <2>1. \A r \in published : HasEdges(r)'
    BY DEF EdgesAreKept, HasEdges
  <2>2. ASSUME NEW q \in Recorders, at'[q] # "idle", NEW e \in EdgesOf(cmd'[q].recording)
        PROVE  \/ Name(Same("edges", e)) \in DOMAIN disk
               \/ Same("edges", e) \in todo'[q]
    BY <1>1, <1>2, <2>2, RecordFilesType DEF EdgesAreKept, Procs
  <2> QED
    BY <2>1, <2>2 DEF EdgesAreKept
<1> QED
  BY <1>3, <1>4, <1>5, <1>6, <1>7, <1>8

\* What is published has its edges: nothing is left to write.
LEMMA PublishStep ==
    ASSUME IInv, NEW p \in Recorders, Publish(p)
    PROVE  IInv' /\ cmd[p].recording \in Recording
<1> USE DEF IInv, Publish, Written, reading
<1>1. p \in Procs /\ cmd[p] \in Commands /\ cmd[p].recording \in Recording
  BY RecordCommand DEF Procs, Roles
<1>2. /\ at' \in [Procs -> Places] /\ at'[p] = "idle"
      /\ \A q \in Procs \ {p} : at'[q] = at[q] /\ cmd'[q] = cmd[q]
  BY <1>1 DEF TypeOK, Places
<1>3. TypeOK'
  BY <1>1, <1>2, SameDisk DEF TypeOK
<1>4. Roles'
  BY <1>1, <1>2 DEF Roles, Procs
<1>5. Stages' /\ QuestionsAreOpen' /\ QuestionsAreServed'
  BY <1>2, RecorderKeepsReaders
<1>6. NamesHold'
  BY DEF NamesHold
<1>7. RetractionsAreFresh'
  BY <1>1, <1>2 DEF RetractionsAreFresh
<1>8. EdgesAreKept'
  <2>1. HasEdges(cmd[p].recording)
    BY DEF EdgesAreKept, HasEdges
  <2>2. \A r \in published' : HasEdges(r)'
    BY <2>1 DEF EdgesAreKept, HasEdges
  <2>3. \A q \in Recorders : at'[q] # "idle" => at'[q] = at[q] /\ cmd'[q] = cmd[q]
    BY <1>2 DEF Procs
  <2> QED
    BY <2>2, <2>3 DEF EdgesAreKept
<1> QED
  BY <1>1, <1>3, <1>4, <1>5, <1>6, <1>7, <1>8

\* A recorder that dies leaves the invariant as it is: what it published
\* had its edges before.
LEMMA CrashRecorderStep ==
    ASSUME IInv, NEW p \in Recorders, CrashRecorder(p)
    PROVE  IInv'
<1> USE DEF IInv, CrashRecorder, reading
<1>1. p \in Procs
  BY DEF Procs
<1>2. /\ at' \in [Procs -> Places] /\ at'[p] = "idle" /\ todo'[p] = {}
      /\ \A q \in Procs \ {p} : /\ at'[q] = at[q] /\ cmd'[q] = cmd[q]
                                /\ todo'[q] = todo[q] /\ file'[q] = file[q]
  BY <1>1 DEF TypeOK, Places
<1>3. TypeOK'
  BY <1>1, <1>2, SameDisk, StoreAssumption DEF TypeOK
<1>4. Roles'
  BY <1>1, <1>2 DEF Roles, Procs
<1>5. Stages' /\ QuestionsAreOpen' /\ QuestionsAreServed'
  BY <1>2, RecorderKeepsReaders
<1>6. NamesHold'
  BY <1>2 DEF NamesHold
<1>7. RetractionsAreFresh'
  BY <1>1, <1>2 DEF RetractionsAreFresh
<1>8. EdgesAreKept'
  <2>1. \A r \in published : HasEdges(r)'
    BY DEF EdgesAreKept, HasEdges
  <2>2. \A q \in Recorders : at'[q] # "idle" =>
            at'[q] = at[q] /\ cmd'[q] = cmd[q] /\ todo'[q] = todo[q]
    BY <1>2 DEF Procs
  <2> QED
    BY <2>1, <2>2 DEF EdgesAreKept
<1> QED
  BY <1>3, <1>4, <1>5, <1>6, <1>7, <1>8

-----------------------------------------------------------------------------
(***************************************************************************)
(* Operators.                                                              *)
(***************************************************************************)
\* What an operator does disturbs no other operator, as long as nothing that
\* was published or retracted is lost.
Others(o) ==
    \A q \in Operators \ {o} :
        /\ at'[q] = at[q] /\ cmd'[q] = cmd[q] /\ graph'[q] = graph[q]
        /\ retracted'[q] = retracted[q] /\ asked'[q] = asked[q] /\ answer'[q] = answer[q]

\* No recorder is touched, and no list of files grows but the operator's own.
OtherFiles(o) ==
    \A q \in Procs \ {o} :
        /\ at'[q] = at[q] /\ cmd'[q] = cmd[q]
        /\ todo'[q] = todo[q] /\ file'[q] = file[q]

\* What has to be shown of the operator itself.
StageOf(o) ==
    /\ at[o] \in {"idle", "objects"} => graph[o] = NoGraph
    /\ at[o] \in Reads \ {"objects"} => graph[o] # NoGraph
    /\ at[o] \in {"attestations", "records"} => Asks(cmd[o])
    /\ at[o] # "idle" => answer[o] = NoAnswer

QuestionOf(o) ==
    /\ asked[o] # NoQuestion <=> HasRead(o) /\ Asks(cmd[o])
    /\ asked[o] # NoQuestion => at[o] # "idle" /\ asked[o].about = cmd[o].about

ServedOf(o) ==
    asked[o] # NoQuestion =>
        /\ asked[o].published \subseteq published
        /\ asked[o].retracted \subseteq RetractedOnDisk
        /\ EdgesLoaded(o) =>
               \A r \in asked[o].published : EdgesOf(r) \subseteq graph[o].edges
        /\ at[o] = "records" => asked[o].retracted \subseteq retracted[o]

\* What has to be shown of all operators follows from what is shown of one.
LEMMA OperatorStep ==
    ASSUME IInv, NEW o \in Operators, Others(o), UNCHANGED <<disk, published>>,
           StageOf(o)', QuestionOf(o)', ServedOf(o)'
    PROVE  Stages' /\ QuestionsAreOpen' /\ QuestionsAreServed'
<1>1. ASSUME NEW q \in Operators
      PROVE  StageOf(q)' /\ QuestionOf(q)' /\ ServedOf(q)'
  <2>1. CASE q = o
    BY <2>1
  <2>2. CASE q # o
    <3>1. StageOf(q) /\ QuestionOf(q) /\ ServedOf(q)
      BY DEF IInv, Stages, QuestionsAreOpen, QuestionsAreServed, StageOf, QuestionOf, ServedOf
    <3>2. /\ at'[q] = at[q] /\ cmd'[q] = cmd[q] /\ graph'[q] = graph[q]
          /\ retracted'[q] = retracted[q] /\ asked'[q] = asked[q] /\ answer'[q] = answer[q]
      BY <2>2 DEF Others
    <3>3. StageOf(q)' /\ QuestionOf(q)'
      BY <3>1, <3>2 DEF StageOf, QuestionOf, HasRead
    <3>4. ServedOf(q)'
      BY <3>1, <3>2, SameDisk DEF ServedOf, EdgesLoaded
    <3> QED
      BY <3>3, <3>4
  <2> QED
    BY <2>1, <2>2
<1> QED
  BY <1>1 DEF Stages, QuestionsAreOpen, QuestionsAreServed, StageOf, QuestionOf, ServedOf

\* A step of an operator that reads, or ends, leaves the files and the
\* recorders as they are.
LEMMA OperatorKeepsFiles ==
    ASSUME IInv, NEW o \in Operators, OtherFiles(o), UNCHANGED <<disk, published>>,
           stamp' = stamp, todo'[o] \subseteq Files,
           at'[o] \notin {"open", "close"},
           at'[o] # "idle" => cmd'[o] = cmd[o] /\ at[o] # "idle",
           at[o] \notin {"open", "close"} \/ at'[o] = "idle",
           at'[o] \in Reads => todo'[o] = {},
           \A f \in todo'[o] : /\ f.dir # "objects"
                               /\ f.dir = "edges" => f.content = f.key
    PROVE  Roles' /\ NamesHold' /\ RetractionsAreFresh' /\ EdgesAreKept'
<1> USE DEF IInv, OtherFiles
<1>1. o \in Procs /\ o \notin Recorders /\ \A q \in Recorders : q \in Procs \ {o}
  BY StoreAssumption DEF Procs
<1>2. Roles'
  BY <1>1 DEF Roles, Procs
<1>3. NamesHold'
  BY <1>1 DEF NamesHold
<1>4. RetractionsAreFresh'
  <2>1. ASSUME NEW q \in Procs, NEW f \in todo'[q], IsRetraction(f)
        PROVE  /\ f.key.stamp \in 0..stamp
               /\ Name(f) \in DOMAIN disk => at'[q] = "close" /\ Name(file'[q]) = Name(f)
               /\ \A r \in Procs \ {q} : \A g \in todo'[r] : Name(g) # Name(f)
    <3>1. q # o /\ f \in todo[q] /\ at'[q] = at[q] /\ file'[q] = file[q]
      BY <2>1 DEF IsRetraction
    <3>2. \A g \in todo'[o] : Name(g) # Name(f)
      BY <2>1 DEF IsRetraction, Name
    <3> QED
      BY <2>1, <3>1, <3>2 DEF RetractionsAreFresh
  <2> QED
    BY <2>1 DEF RetractionsAreFresh
<1>5. EdgesAreKept'
  <2>1. \A r \in published : HasEdges(r)'
    BY DEF EdgesAreKept, HasEdges
  <2> QED
    BY <1>1, <2>1 DEF EdgesAreKept
<1> QED
  BY <1>2, <1>3, <1>4, <1>5

\* A command that begins has a stamp nobody has used.
LEMMA BeginStep ==
    ASSUME IInv, NEW o \in Operators, NEW c \in Drawn, Begin(o, c)
    PROVE  IInv'
<1> USE DEF IInv, Begin, reading
<1>1. /\ o \in Procs /\ o \notin Recorders /\ c \in Commands /\ stamp \in Nat
      /\ Attestations(c) \in Nat /\ OwnFiles(c) \subseteq Files
      /\ \A f \in OwnFiles(c) : f.dir = "objects" /\ f.content = f.key
      /\ \A f \in OwnFiles(c) : IsRetraction(f) =>
             f.key.stamp = stamp + 1 /\ f.key.stamp <= stamp + Attestations(c)
  <2>1. o \in Procs /\ o \notin Recorders /\ c \in Commands /\ stamp \in Nat
    BY StoreAssumption DEF Procs, TypeOK
  <2> QED
    BY <2>1, OwnFilesType
<1>2. /\ at' \in [Procs -> Places] /\ at'[o] = "check"
      /\ cmd'[o] = c /\ todo'[o] = OwnFiles(c)
      /\ \A q \in Procs \ {o} : at'[q] = at[q] /\ cmd'[q] = cmd[q] /\ todo'[q] = todo[q]
      /\ answer'[o] = NoAnswer
  BY <1>1 DEF TypeOK, Places
<1>3. TypeOK'
  <2>1. NoAnswer \in Answers
    BY DEF NoAnswer, Answers
  <2>2. stamp' \in 0..MaxStamp
    BY <1>1, StoreAssumption
  <2> QED
    BY <1>1, <1>2, <2>1, <2>2, SameDisk DEF TypeOK
<1>4. Roles' /\ NamesHold'
  <2>1. Roles'
    BY <1>1, <1>2 DEF Roles, Reads, Procs
  <2>2. NamesHold'
    BY <1>1, <1>2 DEF NamesHold
  <2> QED
    BY <2>1, <2>2
<1>5. RetractionsAreFresh'
  <2>1. stamp <= stamp'
    BY <1>1
  <2>2. \A n \in DOMAIN disk :
            IsRetraction(n) => n.key.stamp \in 0..stamp' /\ n.key.stamp # stamp + 1
    BY <1>1, <2>1 DEF RetractionsAreFresh
  <2>3. \A q \in Procs : \A f \in todo[q] :
            IsRetraction(f) => f.key.stamp \in 0..stamp' /\ f.key.stamp # stamp + 1
    BY <1>1, <2>1 DEF RetractionsAreFresh
  <2>4. ASSUME NEW q \in Procs, NEW f \in todo'[q], IsRetraction(f)
        PROVE  /\ f.key.stamp \in 0..stamp'
               /\ Name(f) \in DOMAIN disk => at'[q] = "close" /\ Name(file[q]) = Name(f)
               /\ \A r \in Procs \ {q} : \A g \in todo'[r] : Name(g) # Name(f)
    <3>1. CASE q = o
      <4>1. f.key.stamp = stamp + 1 /\ f.key.stamp \in 0..stamp'
        BY <1>1, <1>2, <2>4, <3>1
      <4>2. Name(f) \notin DOMAIN disk
        BY <2>2, <2>4, <4>1 DEF IsRetraction, Name
      <4>3. \A r \in Procs \ {q} : \A g \in todo'[r] : Name(g) # Name(f)
        BY <1>2, <2>3, <2>4, <3>1, <4>1 DEF IsRetraction, Name
      <4> QED
        BY <4>1, <4>2, <4>3
    <3>2. CASE q # o
      <4>1. f \in todo[q] /\ at'[q] = at[q] /\ f.key.stamp # stamp + 1 /\ f.key.stamp \in 0..stamp'
        BY <1>2, <2>3, <2>4, <3>2
      <4>2. \A g \in todo'[o] : Name(g) # Name(f)
        BY <1>1, <1>2, <2>4, <4>1 DEF IsRetraction, Name
      <4> QED
        BY <1>2, <2>4, <3>2, <4>1, <4>2 DEF RetractionsAreFresh
    <3> QED
      BY <3>1, <3>2
  <2> QED
    BY <2>2, <2>4 DEF RetractionsAreFresh
<1>6. EdgesAreKept'
  <2>1. \A q \in Recorders : at'[q] = at[q] /\ cmd'[q] = cmd[q] /\ todo'[q] = todo[q]
    BY <1>1, <1>2 DEF Procs
  <2>2. \A r \in published : HasEdges(r)'
    BY DEF EdgesAreKept, HasEdges
  <2> QED
    BY <2>1, <2>2 DEF EdgesAreKept
<1>7. Others(o)
  BY <1>2 DEF Others, Procs, TypeOK
<1>8. StageOf(o)' /\ QuestionOf(o)' /\ ServedOf(o)'
  <2>1. graph[o] = NoGraph /\ asked[o] = NoQuestion
    BY DEF Stages, QuestionsAreOpen, HasRead, Reads
  <2> QED
    BY <1>2, <2>1 DEF StageOf, QuestionOf, ServedOf, HasRead, Reads
<1>9. Stages' /\ QuestionsAreOpen' /\ QuestionsAreServed'
  BY <1>7, <1>8, OperatorStep
<1> QED
  BY <1>3, <1>4, <1>5, <1>6, <1>9

\* The clock of a question: what it asks about, and what had happened.
LEMMA StartReadingStep ==
    ASSUME IInv, NEW o \in Operators, StartReading(o)
    PROVE  IInv'
<1> USE DEF IInv, StartReading, Written, reading
<1>1. /\ o \in Procs /\ cmd[o] \in Commands /\ cmd[o].do # "record"
      /\ cmd[o].about \in Assertions
  BY OperatorCommand DEF Procs, Roles
<1>2. /\ at' \in [Procs -> Places] /\ at'[o] = "objects"
      /\ \A q \in Procs \ {o} : at'[q] = at[q]
  BY <1>1 DEF TypeOK, Places
<1>3. asked[o] = NoQuestion
  BY DEF QuestionsAreOpen, HasRead, Reads
<1>4. Question(cmd[o].about) \in Questions
  BY <1>1, RetractedType DEF Question, Questions, TypeOK
<1>5. TypeOK'
  BY <1>2, <1>4, SameDisk DEF TypeOK
<1>6. Others(o) /\ OtherFiles(o)
  BY <1>2 DEF Others, OtherFiles, Procs, TypeOK
<1>7. Roles' /\ NamesHold' /\ RetractionsAreFresh' /\ EdgesAreKept'
  BY <1>2, <1>6, OperatorKeepsFiles
<1>8. asked'[o] = IF Asks(cmd[o]) THEN Question(cmd[o].about) ELSE NoQuestion
  BY <1>3 DEF TypeOK
<1>9. StageOf(o)' /\ QuestionOf(o)'
  <2>1. Question(cmd[o].about) # NoQuestion /\ Question(cmd[o].about).about = cmd[o].about
    BY <1>4, SentinelAssumption DEF Question
  <2> QED
    BY <1>2, <1>8, <2>1 DEF StageOf, QuestionOf, HasRead, Reads, Stages
<1>10. ServedOf(o)'
  BY <1>2, <1>8, SameDisk DEF ServedOf, EdgesLoaded, Question
<1>11. Stages' /\ QuestionsAreOpen' /\ QuestionsAreServed'
  BY <1>6, <1>9, <1>10, OperatorStep
<1> QED
  BY <1>5, <1>7, <1>11

\* What an operator has loaded is a graph.
LEMMA LoadedType ==
    /\ \A x \in Object : ObjectNode(x) \in [dir : {"nodes"}, key : Object \cup Builds,
                                            content : Object \cup Recording]
    /\ \A r \in Recording : BuildNode(r) \in [dir : {"nodes"}, key : Object \cup Builds,
                                              content : Object \cup Recording]
  BY DEF ObjectNode, Same, BuildNode, Recording

\* A step of an operator that has begun to read, and goes on.
LEMMA ReadOnStep ==
    ASSUME IInv, NEW o \in Operators, HasRead(o),
           at[o] \notin {"idle", "open", "close"},
           at'[o] \notin {"idle", "open", "close", "objects"},
           TypeOK', Others(o), OtherFiles(o), graph'[o] # NoGraph,
           UNCHANGED <<disk, stamp, published>>,
           cmd'[o] = cmd[o], asked'[o] = asked[o], answer'[o] = answer[o],
           at'[o] \in Reads => todo'[o] = {},
           \A f \in todo'[o] : f.dir # "objects" /\ (f.dir = "edges" => f.content = f.key),
           at'[o] \in {"attestations", "records"} => Asks(cmd[o]),
           ServedOf(o)'
    PROVE  IInv'
<1>1. o \in Procs /\ todo'[o] \subseteq Files
  BY DEF Procs, TypeOK
<1>2. Roles' /\ NamesHold' /\ RetractionsAreFresh' /\ EdgesAreKept'
  BY <1>1, OperatorKeepsFiles
<1>3. StageOf(o)' /\ QuestionOf(o)'
  BY DEF IInv, StageOf, QuestionOf, HasRead, Stages, QuestionsAreOpen
<1>4. Stages' /\ QuestionsAreOpen' /\ QuestionsAreServed'
  BY <1>3, OperatorStep
<1> QED
  BY <1>2, <1>4 DEF IInv

\* Loading the objects makes a graph without edges.
LEMMA LoadObjectsStep ==
    ASSUME IInv, NEW o \in Operators, LoadObjects(o)
    PROVE  IInv'
<1> USE DEF LoadObjects, reading
<1> DEFINE g == [nodes |-> {ObjectNode(x) : x \in Contents("objects")}, edges |-> {}]
<1>1. g \in Graphs
  BY ContentsType, LoadedType DEF IInv, TypeOK, Graphs
<1>2. o \in Procs /\ HasRead(o) /\ todo[o] = {}
  BY DEF IInv, Procs, HasRead, Reads, Roles, Stages, Asks
<1>3. ServedOf(o)'
  BY <1>2, SameDisk DEF IInv, ServedOf, EdgesLoaded, QuestionsAreServed, TypeOK
<1>4. TypeOK'
  BY <1>1, <1>2, SameDisk DEF IInv, TypeOK, Places
<1>5. Others(o) /\ OtherFiles(o)
  BY <1>2 DEF IInv, Others, OtherFiles, Procs, TypeOK
<1>6. at'[o] = "builds" /\ todo'[o] = {} /\ graph'[o] # NoGraph
  BY <1>1, <1>2, SentinelAssumption DEF IInv, TypeOK
<1> QED
  BY <1>2, <1>3, <1>4, <1>5, <1>6, ReadOnStep

\* Loading the build records adds their nodes.
LEMMA LoadBuildsStep ==
    ASSUME IInv, NEW o \in Operators, LoadBuilds(o)
    PROVE  IInv'
<1> USE DEF LoadBuilds, reading
<1> DEFINE g == [graph[o] EXCEPT !.nodes = @ \cup {BuildNode(r) : r \in RecordIndex}]
<1>1. g \in Graphs
  <2>1. RecordIndex \subseteq Recording
    BY ContentsType DEF IInv, TypeOK, RecordIndex
  <2>2. graph[o] \in Graphs
    BY DEF IInv, TypeOK, Stages, Reads
  <2> QED
    BY <2>1, <2>2, LoadedType DEF Graphs
<1>2. o \in Procs /\ HasRead(o) /\ todo[o] = {}
  BY DEF IInv, Procs, HasRead, Reads, Roles, Stages, Asks
<1>3. ServedOf(o)'
  BY <1>2, SameDisk DEF IInv, ServedOf, EdgesLoaded, QuestionsAreServed, TypeOK
<1>4. TypeOK'
  BY <1>1, <1>2, SameDisk DEF IInv, TypeOK, Places
<1>5. Others(o) /\ OtherFiles(o)
  BY <1>2 DEF IInv, Others, OtherFiles, Procs, TypeOK
<1>6. at'[o] = "edges" /\ todo'[o] = {} /\ graph'[o] # NoGraph
  BY <1>1, <1>2, SentinelAssumption DEF IInv, TypeOK
<1> QED
  BY <1>2, <1>3, <1>4, <1>5, <1>6, ReadOnStep

\* What can be read holds the edges of every recording that is kept.
LEMMA ReadEdges ==
    ASSUME NamesHold, Readable("edges"), NEW r, HasEdges(r)
    PROVE  EdgesOf(r) \subseteq Contents("edges")
<1> SUFFICES ASSUME NEW e \in EdgesOf(r)
             PROVE  e \in Contents("edges")
  OBVIOUS
<1>1. /\ Name(Same("edges", e)) \in In("edges")
      /\ Name(Same("edges", e)).key = e /\ Name(Same("edges", e)).dir = "edges"
  BY DEF HasEdges, In, Name, Same
<1>2. disk[Name(Same("edges", e))] = e
  BY <1>1 DEF NamesHold, Readable, In
<1> QED
  BY <1>1, <1>2 DEF Contents

\* Loading the edges shows those of every recording published before.
LEMMA LoadEdgesStep ==
    ASSUME IInv, NEW o \in Operators, LoadEdges(o)
    PROVE  IInv'
<1> USE DEF LoadEdges, reading
<1> DEFINE g == [graph[o] EXCEPT !.edges = Contents("edges")]
<1>1. g \in Graphs /\ g.edges = Contents("edges")
  <2>1. Contents("edges") \subseteq Edge
    BY ContentsType DEF IInv, TypeOK
  <2>2. graph[o] \in Graphs
    BY DEF IInv, TypeOK, Stages, Reads
  <2> QED
    BY <2>1, <2>2 DEF Graphs
<1>2. o \in Procs /\ HasRead(o) /\ todo[o] = {}
  BY DEF IInv, Procs, HasRead, Reads, Roles
<1>3. graph' = [graph EXCEPT ![o] = g] /\ graph'[o] = g /\ g # NoGraph
  BY <1>1, SentinelAssumption DEF IInv, TypeOK
<1>4. \/ /\ at' = [at EXCEPT ![o] = "attestations"] /\ at'[o] = "attestations"
         /\ UNCHANGED todo /\ cmd[o].do = "report"
      \/ /\ at' = [at EXCEPT ![o] = "check"] /\ at'[o] = "check"
         /\ todo' = [todo EXCEPT ![o] = GraphFiles(g)] /\ todo'[o] = GraphFiles(g)
  BY <1>2 DEF IInv, TypeOK
<1> HIDE DEF g
<1>5. GraphFiles(g) \subseteq Files
  BY <1>1, GraphFilesType
<1>6. TypeOK'
  BY <1>1, <1>2, <1>3, <1>4, <1>5, SameDisk DEF IInv, TypeOK, Places
<1>7. Others(o) /\ OtherFiles(o)
  BY <1>2, <1>3, <1>4 DEF IInv, Others, OtherFiles, Procs, TypeOK
<1>8. \A f \in todo'[o] : f.dir # "objects" /\ (f.dir = "edges" => f.content = f.key)
  BY <1>1, <1>2, <1>4, GraphFilesType
<1>9. ServedOf(o)'
  <2>1. asked[o] # NoQuestion => \A r \in asked[o].published : EdgesOf(r) \subseteq Contents("edges")
    BY ReadEdges DEF IInv, QuestionsAreServed, EdgesAreKept
  <2> QED
    BY <1>1, <1>3, <1>4, <2>1, SameDisk DEF IInv, ServedOf, QuestionsAreServed
<1>10. at'[o] \in Reads => todo'[o] = {} /\ Asks(cmd[o])
  BY <1>2, <1>4 DEF Reads, Asks
<1>11. at'[o] \in {"attestations", "check"}
  BY <1>4
<1> QED
  BY <1>2, <1>3, <1>6, <1>7, <1>8, <1>9, <1>10, <1>11, ReadOnStep DEF Reads

\* Reading the snapshot back changes nothing that was loaded.
LEMMA ReadBackStep ==
    ASSUME IInv, NEW o \in Operators, ReadBack(o)
    PROVE  IInv'
<1> USE DEF ReadBack, Written, reading
<1>1. graph[o] \in Graphs
  BY DEF IInv, TypeOK
<1>2. o \in Procs /\ HasRead(o) /\ Asks(cmd[o]) /\ todo[o] = {}
  BY DEF IInv, Procs, HasRead, Reads, Roles, Stages, Asks
<1>3. ServedOf(o)'
  BY <1>2, SameDisk DEF IInv, ServedOf, EdgesLoaded, QuestionsAreServed, TypeOK
<1>4. TypeOK'
  BY <1>1, <1>2, SameDisk DEF IInv, TypeOK, Places
<1>5. Others(o) /\ OtherFiles(o)
  BY <1>2 DEF IInv, Others, OtherFiles, Procs, TypeOK
<1>6. at'[o] = "attestations" /\ todo'[o] = {} /\ graph'[o] # NoGraph
  BY <1>1, <1>2, SentinelAssumption DEF IInv, TypeOK
<1> QED
  BY <1>2, <1>3, <1>4, <1>5, <1>6, ReadOnStep

\* Loading the attestations shows what was retracted before the question.
LEMMA LoadAttestationsStep ==
    ASSUME IInv, NEW o \in Operators, LoadAttestations(o)
    PROVE  IInv'
<1> USE DEF LoadAttestations, reading
<1>1. graph[o] \in Graphs /\ RetractedOnDisk \in SUBSET Assertions
  BY RetractedType DEF IInv, TypeOK, Stages, Reads
<1>2. o \in Procs /\ HasRead(o) /\ Asks(cmd[o]) /\ todo[o] = {}
  BY DEF IInv, Procs, HasRead, Reads, Roles, Stages, Asks
<1>3. ServedOf(o)'
  BY <1>2, SameDisk DEF IInv, ServedOf, EdgesLoaded, QuestionsAreServed, TypeOK
<1>4. TypeOK'
  BY <1>1, <1>2, SameDisk DEF IInv, TypeOK, Places
<1>5. Others(o) /\ OtherFiles(o)
  BY <1>2 DEF IInv, Others, OtherFiles, Procs, TypeOK
<1>6. at'[o] = "records" /\ todo'[o] = {} /\ graph'[o] # NoGraph
  BY <1>1, <1>2, SentinelAssumption DEF IInv, TypeOK
<1> QED
  BY <1>2, <1>3, <1>4, <1>5, <1>6, ReadOnStep

\* A command that ends, however it ends.
LEMMA EndStep ==
    ASSUME IInv, NEW o \in Operators, NEW given \in Answers, EndCommand(o, given),
           UNCHANGED <<disk, stamp, published>>, crashes' \in 0..MaxCrashes
    PROVE  IInv'
<1> USE DEF EndCommand
<1>1. /\ o \in Procs
      /\ at'[o] = "idle" /\ todo'[o] = {} /\ graph'[o] = NoGraph
      /\ asked'[o] = NoQuestion
  BY DEF IInv, TypeOK, Procs
<1>2. TypeOK'
  BY <1>1, SameDisk DEF IInv, TypeOK, Places
<1>3. Others(o) /\ OtherFiles(o)
  BY <1>1 DEF IInv, Others, OtherFiles, Procs, TypeOK
<1>4. Roles' /\ NamesHold' /\ RetractionsAreFresh' /\ EdgesAreKept'
  BY <1>1, <1>3, OperatorKeepsFiles DEF Reads
<1>5. StageOf(o)' /\ QuestionOf(o)' /\ ServedOf(o)'
  BY <1>1 DEF StageOf, QuestionOf, ServedOf, HasRead, Reads
<1>6. Stages' /\ QuestionsAreOpen' /\ QuestionsAreServed'
  BY <1>3, <1>5, OperatorStep
<1> QED
  BY <1>2, <1>4, <1>6 DEF IInv

\* A build has one of the five statuses.
LEMMA StatusType ==
    ASSUME NEW g, NEW index, NEW seen, NEW b
    PROVE  Status(g, index, seen, b) \in Statuses
  BY DEF Status, Statuses

\* What a report lists.
Found(o) ==
    {[build |-> b, status |-> Status(graph[o], RecordIndex, retracted[o], b)] :
        b \in ListedBuilds(graph[o], cmd[o].about)}

\* What a report lists are builds with their statuses.
LEMMA FoundType ==
    ASSUME IInv, NEW o \in Operators, at[o] = "records"
    PROVE  Found(o) \subseteq [build : Builds, status : Statuses]
<1>1. graph[o] \in Graphs
  BY DEF IInv, TypeOK, Stages, Reads
<1>2. ListedBuilds(graph[o], cmd[o].about) \subseteq Builds
  BY <1>1 DEF ListedBuilds, Graphs, Edge
<1> QED
  BY <1>2, StatusType DEF Found

\* The answers there are.
LEMMA AnswersType ==
    /\ NoAnswer \in Answers /\ Raised \in Answers
    /\ \A found \in SUBSET [build : Builds, status : Statuses] : Given(found) \in Answers
  BY DEF NoAnswer, Raised, Given, Answers

\* The ends of a command.
LEMMA EndingSteps ==
    ASSUME IInv, NEW o \in Operators,
           SnapshotWritten(o) \/ Report(o) \/ Raise(o) \/ CrashOperator(o)
    PROVE  IInv'
<1>0. crashes \in 0..MaxCrashes
  BY DEF IInv, TypeOK
<1>1. CASE SnapshotWritten(o)
  BY <1>0, <1>1, AnswersType, EndStep DEF SnapshotWritten
<1>2. CASE Report(o)
  <2>1. Given(Found(o)) \in Answers
    BY <1>2, FoundType, AnswersType DEF Report
  <2>2. EndCommand(o, Given(Found(o)))
    BY <1>2 DEF Report, Found
  <2> QED
    BY <1>0, <1>2, <2>1, <2>2, EndStep DEF Report
<1>3. CASE Raise(o)
  <2>1. (IF Asks(cmd[o]) THEN Raised ELSE NoAnswer) \in Answers
    BY AnswersType
  <2> QED
    BY <1>0, <1>3, <2>1, EndStep DEF Raise
<1>4. CASE CrashOperator(o)
  <2>1. crashes' \in 0..MaxCrashes
    BY <1>0, <1>4, StoreAssumption DEF CrashOperator
  <2> QED
    BY <1>4, <2>1, AnswersType, EndStep DEF CrashOperator
<1> QED
  BY <1>1, <1>2, <1>3, <1>4

\* The invariant depends on the variables only.
LEMMA StutterStep ==
    ASSUME IInv, UNCHANGED vars
    PROVE  IInv'
<1> USE DEF vars, reading
<1>1. TypeOK'
  BY SameDisk DEF IInv, TypeOK
<1>2. Roles' /\ Stages' /\ NamesHold' /\ RetractionsAreFresh'
  BY DEF IInv, Roles, Stages, NamesHold, RetractionsAreFresh
<1>3. EdgesAreKept' /\ QuestionsAreOpen'
  BY DEF IInv, EdgesAreKept, HasEdges, QuestionsAreOpen, HasRead
<1>4. QuestionsAreServed'
  BY SameDisk DEF IInv, QuestionsAreServed, EdgesLoaded
<1> QED
  BY <1>1, <1>2, <1>3, <1>4 DEF IInv

\* Every step keeps the invariant.
LEMMA NextIInv ==
    ASSUME IInv, [Next]_vars
    PROVE  IInv'
<1>1. ASSUME NEW p \in Procs, Write(p)
      PROVE  IInv'
  BY <1>1, SkipStep, FindMissingStep, OpenStep, CloseStep DEF Write
<1>2. ASSUME NEW p \in Recorders,
             (\E c \in Drawn : BeginRecord(p, c)) \/ Publish(p) \/ CrashRecorder(p)
      PROVE  IInv'
  BY <1>2, BeginRecordStep, PublishStep, CrashRecorderStep
<1>3. ASSUME NEW o \in Operators, Read(o)
      PROVE  IInv'
  BY <1>3, StartReadingStep, LoadObjectsStep, LoadBuildsStep, LoadEdgesStep,
     ReadBackStep, LoadAttestationsStep, EndingSteps DEF Read
<1>4. ASSUME NEW o \in Operators, (\E c \in Drawn : Begin(o, c)) \/ CrashOperator(o)
      PROVE  IInv'
  BY <1>4, BeginStep, EndingSteps
<1> QED
  BY <1>1, <1>2, <1>3, <1>4, StutterStep DEF Next

(***************************************************************************)
(* In every reachable state every file and every variable has its type,    *)
(* and the invariant that carries the refinement holds.                    *)
(***************************************************************************)
THEOREM StoreInvariant == Spec => []IInv
<1>1. Init => IInv
  BY InitIInv
<1>2. IInv /\ [Next]_vars => IInv'
  BY NextIInv
<1> QED
  BY <1>1, <1>2, PTL DEF Spec

\* In every reachable state every file and every variable has its type.
THEOREM StoreTypeCorrect == Spec => []TypeOK
<1>1. IInv => TypeOK
  BY DEF IInv
<1> QED
  BY <1>1, StoreInvariant, PTL

-----------------------------------------------------------------------------
(***************************************************************************)
(* The refinement: every step of the store is a step of the ledger, or     *)
(* leaves the ledger alone.                                                *)
(***************************************************************************)
\* A report passes over no build that relied on the assertion it is about,
\* and calls none clean that relied on anything retracted.
LEMMA ReportIsSound ==
    ASSUME IInv, NEW o \in Operators, Report(o), asked[o] # NoQuestion
    PROVE  Ledger!SoundAnswer(asked[o], Found(o))
<1>1. /\ asked[o].about = cmd[o].about
      /\ asked[o].retracted \subseteq retracted[o]
      /\ \A r \in asked[o].published : EdgesOf(r) \subseteq graph[o].edges
  BY DEF IInv, QuestionsAreOpen, QuestionsAreServed, EdgesLoaded, Report, Stages, Reads
<1>2. SUFFICES ASSUME NEW r \in asked[o].published
      PROVE  /\ asked[o].about \in r.consumed \cap asked[o].retracted =>
                    \E f \in Found(o) : f.build = r.build
             /\ r.consumed \cap asked[o].retracted # {} =>
                    [build |-> r.build, status |-> "clean"] \notin Found(o)
  BY DEF Ledger!SoundAnswer
<1>3. \A a \in r.consumed : [subject |-> a, build |-> r.build] \in graph[o].edges
  BY <1>1 DEF EdgesOf
<1>4. ASSUME asked[o].about \in r.consumed
      PROVE  \E f \in Found(o) : f.build = r.build
  <2>1. [subject |-> cmd[o].about, build |-> r.build] \in graph[o].edges
    BY <1>1, <1>3, <1>4
  <2>2. r.build \in ListedBuilds(graph[o], cmd[o].about)
    BY <2>1 DEF ListedBuilds
  <2> DEFINE f == [build  |-> r.build,
                   status |-> Status(graph[o], RecordIndex, retracted[o], r.build)]
  <2>3. f \in Found(o)
    BY <2>2 DEF Found
  <2>4. f.build = r.build
    OBVIOUS
  <2> HIDE DEF f
  <2> QED
    BY <2>3, <2>4
<1>5. ASSUME NEW a \in r.consumed, a \in asked[o].retracted,
             [build |-> r.build, status |-> "clean"] \in Found(o)
      PROVE  FALSE
  <2>1. PICK b \in ListedBuilds(graph[o], cmd[o].about) :
            [build |-> r.build, status |-> "clean"]
              = [build |-> b, status |-> Status(graph[o], RecordIndex, retracted[o], b)]
    BY <1>5 DEF Found
  <2>2. Status(graph[o], RecordIndex, retracted[o], r.build) = "clean"
    <3> DEFINE x == [build |-> r.build, status |-> "clean"]
               y == [build  |-> b,
                     status |-> Status(graph[o], RecordIndex, retracted[o], b)]
    <3>1. x.build = y.build /\ x.status = y.status
      BY <2>1
    <3>2. r.build = b
      BY <3>1
    <3> QED
      BY <3>1, <3>2
  <2>3. \E e \in Relied(graph[o], r.build) : e.subject \in retracted[o]
    <3> DEFINE e == [subject |-> a, build |-> r.build]
    <3>1. e \in Relied(graph[o], r.build)
      BY <1>3, <1>5 DEF Relied
    <3>2. e.subject \in retracted[o]
      BY <1>1, <1>5
    <3> QED
      BY <3>1, <3>2
  <2> QED
    BY <2>2, <2>3 DEF Status
<1> QED
  BY <1>4, <1>5

\* At the beginning nothing is published, retracted or asked.
LEMMA InitImplements ==
    ASSUME Init
    PROVE  Ledger!Init
<1>1. \A n \in DOMAIN disk : \E a \in Assertions :
          n = Name(AssertionFile(a)) /\ disk[n] = n.key
  BY StoreAssumption DEF Init
<1>2. \A n \in DOMAIN disk : disk[n].kind = "assertion"
  BY <1>1 DEF Name, AssertionFile, AssertionObject, Same
<1>3. RetractedOnDisk = {}
  BY <1>2 DEF RetractedOnDisk, Contents, In
<1> QED
  BY <1>3 DEF Init, Ledger!Init, NoAnswer, Ledger!NoAnswer

\* A step that ends a command answers, or gives up.
LEMMA EndImplements ==
    ASSUME IInv, NEW o \in Operators,
           SnapshotWritten(o) \/ Report(o) \/ Raise(o) \/ CrashOperator(o)
    PROVE  Ledger!Answer(o) \/ Ledger!Forget(o)
<1>0. RetractedOnDisk' = RetractedOnDisk /\ published' = published
  BY SameDisk DEF SnapshotWritten, Report, Raise, CrashOperator
<1>1. ASSUME EndCommand(o, NoAnswer)
      PROVE  Ledger!Forget(o)
  BY <1>0, <1>1 DEF EndCommand, Ledger!Forget, NoAnswer, Ledger!NoAnswer
<1>2. CASE SnapshotWritten(o) \/ CrashOperator(o)
  BY <1>1, <1>2 DEF SnapshotWritten, CrashOperator
<1>3. CASE Report(o)
  <2>1. EndCommand(o, Given(Found(o)))
    BY <1>3 DEF Report, Found
  <2>2. asked[o] # NoQuestion
    BY <1>3 DEF IInv, Report, QuestionsAreOpen, HasRead, Reads, Stages
  <2>3. /\ Found(o) \in SUBSET [build : Builds, status : Ledger!Statuses]
        /\ Ledger!SoundAnswer(asked[o], Found(o))
    BY <1>3, <2>2, FoundType, ReportIsSound DEF Report, Statuses, Ledger!Statuses
  <2> QED
    BY <1>0, <2>1, <2>2, <2>3 DEF EndCommand, Ledger!Answer, Given, Ledger!Given
<1>4. CASE Raise(o)
  <2>1. CASE Asks(cmd[o])
    <3>1. asked[o] # NoQuestion
      BY <1>4, <2>1 DEF IInv, Raise, CannotRead, QuestionsAreOpen, HasRead, Reads, Written
    <3> QED
      BY <1>0, <1>4, <2>1, <3>1
      DEF Raise, EndCommand, Ledger!Answer, Raised, Ledger!Raised
  <2>2. CASE ~ Asks(cmd[o])
    BY <1>1, <1>4, <2>2 DEF Raise
  <2> QED
    BY <2>1, <2>2
<1> QED
  BY <1>2, <1>3, <1>4

\* A step that begins a command, or begins to read.
LEMMA BeginImplements ==
    ASSUME IInv, NEW o \in Operators, \E c \in Drawn : Begin(o, c)
    PROVE  Ledger!Forget(o)
<1>1. RetractedOnDisk' = RetractedOnDisk
  BY SameDisk DEF Begin
<1>2. asked[o] = NoQuestion
  BY DEF IInv, Begin, Stages, QuestionsAreOpen
<1>3. asked' = [asked EXCEPT ![o] = NoQuestion]
  BY <1>2 DEF IInv, TypeOK, Begin
<1> QED
  BY <1>1, <1>3 DEF Begin, Ledger!Forget, NoAnswer, Ledger!NoAnswer

\* An operator that begins to read asks, if its command is one that asks.
LEMMA AskImplements ==
    ASSUME IInv, NEW o \in Operators, StartReading(o)
    PROVE  Ledger!Ask(o) \/ UNCHANGED <<published, RetractedOnDisk, asked, answer>>
<1>1. RetractedOnDisk' = RetractedOnDisk
  BY SameDisk DEF StartReading
<1>2. CASE Asks(cmd[o])
  <2>1. asked[o] = NoQuestion /\ cmd[o].about \in Assertions
    BY <1>2, OperatorCommand
    DEF IInv, StartReading, Written, QuestionsAreOpen, HasRead, Reads, Roles, Procs
  <2>2. answer' = [answer EXCEPT ![o] = NoAnswer]
    <3>1. answer[o] = NoAnswer
      BY DEF IInv, Stages, StartReading, Written
    <3> QED
      BY <3>1 DEF IInv, TypeOK, StartReading
  <2>3. asked' = [asked EXCEPT ![o] = Question(cmd[o].about)]
    BY <1>2 DEF StartReading
  <2> QED
    BY <1>1, <2>1, <2>2, <2>3
    DEF StartReading, Ledger!Ask, Question, NoAnswer, Ledger!NoAnswer
<1>3. CASE ~ Asks(cmd[o])
  BY <1>1, <1>3 DEF StartReading
<1> QED
  BY <1>2, <1>3

\* A step of a process that writes retracts, or leaves the ledger alone.
LEMMA WriteImplements ==
    ASSUME IInv, NEW p \in Procs, Write(p)
    PROVE  Ledger!Retract \/ UNCHANGED <<published, RetractedOnDisk, asked, answer>>
<1>1. CASE Skip(p) \/ FindMissing(p)
  BY <1>1, SameDisk DEF Skip, FindMissing
<1>2. CASE Open(p)
  BY <1>2, OpenKeepsRetractions DEF Open
<1>3. CASE Close(p)
  BY <1>3, CloseAddsRetraction DEF Close, Ledger!Retract
<1> QED
  BY <1>1, <1>2, <1>3 DEF Write

\* A recorder that returns publishes; its other steps leave the ledger alone.
LEMMA RecorderImplements ==
    ASSUME IInv, NEW p \in Recorders,
           (\E c \in Drawn : BeginRecord(p, c)) \/ Publish(p) \/ CrashRecorder(p)
    PROVE  Ledger!Publish \/ UNCHANGED <<published, RetractedOnDisk, asked, answer>>
<1>1. CASE (\E c \in Drawn : BeginRecord(p, c)) \/ CrashRecorder(p)
  BY <1>1, SameDisk DEF BeginRecord, CrashRecorder
<1>2. CASE Publish(p)
  <2>1. cmd[p].recording \in Recording
    BY <1>2, PublishStep
  <2> QED
    BY <1>2, <2>1, SameDisk DEF Publish, Ledger!Publish, Recording, Ledger!Recording
<1> QED
  BY <1>1, <1>2

\* Every step of the store is a step of the ledger, or leaves it alone.
LEMMA StepImplements ==
    ASSUME IInv, [Next]_vars
    PROVE  [Ledger!Next]_(Ledger!vars)
<1> DEFINE Same4 == UNCHANGED <<published, RetractedOnDisk, asked, answer>>
<1>1. Same4 => UNCHANGED Ledger!vars
  BY DEF Ledger!vars
<1>2. ASSUME NEW o \in Operators, Read(o)
      PROVE  Ledger!Ask(o) \/ Ledger!Answer(o) \/ Ledger!Forget(o) \/ Same4
  <2>1. CASE LoadObjects(o) \/ LoadBuilds(o) \/ LoadEdges(o) \/ ReadBack(o) \/ LoadAttestations(o)
    BY <2>1, SameDisk DEF LoadObjects, LoadBuilds, LoadEdges, ReadBack, LoadAttestations
  <2> QED
    BY <1>2, <2>1, AskImplements, EndImplements DEF Read
<1>3. ASSUME NEW o \in Operators, (\E c \in Drawn : Begin(o, c)) \/ CrashOperator(o)
      PROVE  Ledger!Answer(o) \/ Ledger!Forget(o)
  BY <1>3, BeginImplements, EndImplements
<1>4. CASE UNCHANGED vars
  BY <1>1, <1>4, SameDisk DEF vars, reading
<1> HIDE DEF Same4
<1> QED
  BY <1>1, <1>2, <1>3, <1>4, WriteImplements, RecorderImplements DEF Next, Ledger!Next, Same4

(***************************************************************************)
(* For any number of processes, assertions and builds, whatever is written *)
(* concurrently, cut short or read half-way: a build published before a    *)
(* question that relied on the retracted assertion is not passed over, and *)
(* none that relied on anything retracted by then is called clean.         *)
(***************************************************************************)
THEOREM StoreImplementsLedger == Spec => ImplementsLedger
<1>1. Init => Ledger!Init
  BY InitImplements
<1>2. IInv /\ [Next]_vars => [Ledger!Next]_(Ledger!vars)
  BY StepImplements
<1> QED
  BY <1>1, <1>2, StoreInvariant, PTL DEF Spec, ImplementsLedger, Ledger!Spec

=============================================================================
