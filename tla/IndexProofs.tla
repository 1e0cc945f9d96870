------------------------------ MODULE IndexProofs ------------------------------
(***************************************************************************)
(* Proofs about the cached amendment index, for any number of workers, of  *)
(* changes of the archive and of faults.                                   *)
(***************************************************************************)
EXTENDS IndexLaws, TLAPS

Shows(index, v) == Promise!Shows(index, v)

-----------------------------------------------------------------------------
(***************************************************************************)
(* The invariant, one part for each thing a worker may rely on.            *)
(***************************************************************************)

\* Whoever is inside holds the lock.
LockIsHeld ==
    \A w \in Workers : at[w] \in {"recheck", "build", "label"} => lock = w

\* What is being built is no older than its label says, nor than what it replaces.
BuildIsNewer ==
    \A w \in Workers : at[w] = "build" =>
        /\ csv \in Versions => csv <= since[w]
        /\ print[w] # Unknown => print[w] <= since[w]

\* What was built is there, and no older than its label will say.
LabelIsDue ==
    \A w \in Workers : at[w] = "label" =>
        /\ csv \in Versions
        /\ print[w] # Unknown => print[w] <= csv

\* Who adopts knows a version and finds an index.
AdoptedIsThere ==
    \A w \in Workers : at[w] = "adopt" => csv \in Versions /\ print[w] # Unknown

\* Who reads finds an index that shows what it looked for.
ReadIsShown ==
    \A w \in Workers : at[w] = "read" =>
        csv \in Versions /\ (print[w] = Unknown \/ Shows(csv, print[w]))

\* A worker that knows which version it asked for never forgets it.
AskedIsKnown ==
    \A w \in Workers :
        /\ at[w] = "idle" <=> asked[w] = NoCall
        /\ ~blind[w] /\ at[w] # "idle" => key[w] = asked[w]
        /\ ~blind[w] /\ at[w] \notin {"idle", "call"} =>
               print[w] # Unknown /\ asked[w] <= print[w]

\* What is remembered for a version shows it.
MemoIsShown ==
    \A w \in Workers : ~blind[w] =>
        \A v \in Versions : memo[w][v] # Missing => Shows(memo[w][v], v)

\* Nobody has an answer before the call is over.
AnswerIsOpen == \A w \in Workers : at[w] # "idle" => answer[w] = NoAnswer

IndexInv ==
    /\ TypeOK
    /\ LabelIsTrue
    /\ LockIsHeld
    /\ BuildIsNewer
    /\ LabelIsDue
    /\ AdoptedIsThere
    /\ ReadIsShown
    /\ AskedIsKnown
    /\ MemoIsShown
    /\ AnswerIsOpen

-----------------------------------------------------------------------------
\* Versions are numbers, and what stands for nothing is none of them.
LEMMA Basics ==
    ASSUME source \in Versions
    PROVE  /\ MaxVersion \in Nat /\ source \in Nat
           /\ 0..source \subseteq Versions
           /\ Missing \notin Versions /\ OldSchema \notin Versions
           /\ Unknown \notin Versions /\ NoCall \notin Versions /\ NoAnswer \notin Versions
           /\ Missing # OldSchema /\ Missing # Unknown /\ NoCall # Unknown
           /\ NoWorker \notin Workers
BY IndexAssumption DEF Versions

-----------------------------------------------------------------------------
\* Only the holder of the lock replaces the CSV, and never by an older one.
LEMMA NewCsv ==
    ASSUME IndexInv, NEW w \in Workers, ReplaceCsv(w)
    PROVE  /\ csv' \in Versions /\ csv' \in Nat /\ csv' \in 0..source
           /\ csv \in Versions => csv \in Nat /\ csv <= csv'
           /\ print[w] # Unknown => print[w] <= csv'
           /\ \A u \in Workers \ {w} : at[u] \notin {"recheck", "build", "label"}
<1>1. since[w] \in 0..source /\ source \in Nat /\ csv' \in since[w]..source
  BY Basics DEF IndexInv, TypeOK, ReplaceCsv
<1>2. csv' \in 0..source
  BY <1>1
<1>3. csv' \in Versions /\ csv' \in Nat
  BY <1>1, <1>2, Basics DEF IndexInv, TypeOK
<1>4. csv \in Versions => csv \in Nat /\ csv <= csv'
  BY <1>1 DEF IndexInv, BuildIsNewer, ReplaceCsv, Versions
<1>5. print[w] # Unknown => print[w] <= csv'
  <2>1. print[w] # Unknown => print[w] \in Nat /\ print[w] <= since[w]
    BY <1>1 DEF IndexInv, TypeOK, BuildIsNewer, ReplaceCsv
  <2> QED
    BY <1>1, <2>1
<1>6. \A u \in Workers \ {w} : at[u] \notin {"recheck", "build", "label"}
  BY DEF IndexInv, LockIsHeld, ReplaceCsv
<1> QED
  BY <1>2, <1>3, <1>4, <1>5, <1>6

-----------------------------------------------------------------------------
\* The archive changes: nothing that was shown or known is lost.
LEMMA ChangeKeeps ==
    ASSUME IndexInv, Change
    PROVE  IndexInv'
<1>1. TypeOK'
  <2>1. source' \in Versions /\ csv' \in 0..source' \cup {Missing, OldSchema}
    BY Basics DEF IndexInv, TypeOK, Change, files, Versions
  <2>2. meta' \in 0..source' \cup {Unknown, Missing} /\ lock' \in Workers \cup {NoWorker}
    BY Basics DEF IndexInv, TypeOK, Change, files
  <2>3. at' \in [Workers -> Places] /\ since' \in [Workers -> 0..source']
    BY Basics DEF IndexInv, TypeOK, Change
  <2>4. key' \in [Workers -> 0..source' \cup {Unknown}]
    BY Basics DEF IndexInv, TypeOK, Change
  <2>5. print' \in [Workers -> 0..source' \cup {Unknown}]
    BY Basics DEF IndexInv, TypeOK, Change
  <2>6. memo' \in [Workers -> [Prints -> 0..source' \cup {Missing}]]
    <3>1. 0..source \subseteq 0..source'
      BY Basics DEF IndexInv, TypeOK, Change
    <3>2. memo' = memo /\ memo \in [Workers -> [Prints -> 0..source \cup {Missing}]]
      BY DEF IndexInv, TypeOK, Change
    <3> QED
      BY <3>1, <3>2
  <2>7. asked' \in [Workers -> 0..source' \cup {NoCall}] /\ answer' \in [Workers -> 0..source' \cup {NoAnswer}]
    BY Basics DEF IndexInv, TypeOK, Change, history
  <2>8. faults' \in 0..MaxFaults /\ blind' \in [Workers -> BOOLEAN]
    BY DEF IndexInv, TypeOK, Change, history
  <2>9. doubtful' \subseteq 1..source'
    BY Basics DEF IndexInv, TypeOK, Change, history
  <2> QED
    BY <2>1, <2>2, <2>3, <2>4, <2>5, <2>6, <2>7, <2>8, <2>9 DEF TypeOK
<1>2. LabelIsTrue'
  BY DEF IndexInv, LabelIsTrue, Promise!Shows, Change, files, history
<1>3. LockIsHeld'
  BY DEF IndexInv, LockIsHeld, Change, files
<1>4. BuildIsNewer'
  BY DEF IndexInv, BuildIsNewer, Change, files
<1>5. LabelIsDue'
  BY DEF IndexInv, LabelIsDue, Change, files
<1>6. AdoptedIsThere'
  BY DEF IndexInv, AdoptedIsThere, Change, files
<1>7. ReadIsShown'
  BY DEF IndexInv, ReadIsShown, Shows, Promise!Shows, Change, files, history
<1>8. AskedIsKnown'
  BY DEF IndexInv, AskedIsKnown, Change, history
<1>9. MemoIsShown'
  BY DEF IndexInv, MemoIsShown, Shows, Promise!Shows, Change, history
<1>10. AnswerIsOpen'
  BY DEF IndexInv, AnswerIsOpen, Change, history
<1> QED
  BY <1>1, <1>2, <1>3, <1>4, <1>5, <1>6, <1>7, <1>8, <1>9, <1>10 DEF IndexInv

\* A call begins: the worker knows which version it asks for, or that it does
\* not.
LEMMA CallKeeps ==
    ASSUME NEW w \in Workers, IndexInv, Call(w)
    PROVE  IndexInv'
<1>1. TypeOK'
  <2>1. source' \in Versions /\ csv' \in 0..source' \cup {Missing, OldSchema}
    BY DEF IndexInv, TypeOK, Call, Fingerprint, files
  <2>2. meta' \in 0..source' \cup {Unknown, Missing} /\ lock' \in Workers \cup {NoWorker}
    BY DEF IndexInv, TypeOK, Call, Fingerprint, files
  <2>3. at' \in [Workers -> Places] /\ since' \in [Workers -> 0..source']
    BY DEF IndexInv, TypeOK, Call, Fingerprint, Goto, Places
  <2>4. key' \in [Workers -> 0..source' \cup {Unknown}]
    BY Basics DEF IndexInv, TypeOK, Call, Fingerprint
  <2>5. print' \in [Workers -> 0..source' \cup {Unknown}]
    BY DEF IndexInv, TypeOK, Call, Fingerprint
  <2>6. memo' \in [Workers -> [Prints -> 0..source' \cup {Missing}]]
    BY DEF IndexInv, TypeOK, Call, Fingerprint
  <2>7. asked' \in [Workers -> 0..source' \cup {NoCall}] /\ answer' \in [Workers -> 0..source' \cup {NoAnswer}]
    BY Basics DEF IndexInv, TypeOK, Call, Fingerprint
  <2>8. faults' \in 0..MaxFaults /\ blind' \in [Workers -> BOOLEAN]
    <3>1. \/ UNCHANGED <<faults, blind>>
          \/ Fault /\ blind' = [blind EXCEPT ![w] = TRUE]
      BY DEF Call, Fingerprint
    <3>2. faults' \in 0..MaxFaults
      BY <3>1, IndexAssumption DEF Fault, IndexInv, TypeOK
    <3>3. blind' \in [Workers -> BOOLEAN]
      BY <3>1 DEF IndexInv, TypeOK
    <3> QED
      BY <3>2, <3>3
  <2>9. doubtful' \subseteq 1..source'
    BY DEF IndexInv, TypeOK, Call, Fingerprint
  <2> QED
    BY <2>1, <2>2, <2>3, <2>4, <2>5, <2>6, <2>7, <2>8, <2>9 DEF TypeOK
<1>2. LabelIsTrue'
  BY DEF IndexInv, LabelIsTrue, Promise!Shows, Call, Fingerprint, files
<1>3. LockIsHeld'
  BY DEF IndexInv, LockIsHeld, Call, Fingerprint, Goto, files
<1>4. BuildIsNewer'
  BY DEF IndexInv, BuildIsNewer, Call, Fingerprint, Goto, files
<1>5. LabelIsDue'
  BY DEF IndexInv, LabelIsDue, Call, Fingerprint, Goto, files
<1>6. AdoptedIsThere'
  BY DEF IndexInv, AdoptedIsThere, Call, Fingerprint, Goto, files
<1>7. ReadIsShown'
  BY DEF IndexInv, ReadIsShown, Shows, Promise!Shows, Call, Fingerprint, Goto, files
<1>8. AskedIsKnown'
  BY Basics DEF IndexInv, TypeOK, AskedIsKnown, Call, Fingerprint, Goto
<1>9. MemoIsShown'
  BY DEF IndexInv, TypeOK, MemoIsShown, Shows, Promise!Shows, Call, Fingerprint
<1>10. AnswerIsOpen'
  BY DEF IndexInv, TypeOK, AnswerIsOpen, Call, Fingerprint, Goto
<1> QED
  BY <1>1, <1>2, <1>3, <1>4, <1>5, <1>6, <1>7, <1>8, <1>9, <1>10 DEF IndexInv

\* A call is answered from memory, which shows the version asked for.
LEMMA RecallKeeps ==
    ASSUME NEW w \in Workers, IndexInv, Recall(w)
    PROVE  IndexInv'
<1>1. TypeOK'
  <2>1. source' \in Versions /\ csv' \in 0..source' \cup {Missing, OldSchema}
    BY DEF IndexInv, TypeOK, Recall, files
  <2>2. meta' \in 0..source' \cup {Unknown, Missing} /\ lock' \in Workers \cup {NoWorker}
    BY DEF IndexInv, TypeOK, Recall, files
  <2>3. at' \in [Workers -> Places] /\ since' \in [Workers -> 0..source']
    BY Basics DEF IndexInv, TypeOK, Recall, Leave, Goto, Places
  <2>4. key' \in [Workers -> 0..source' \cup {Unknown}]
    BY DEF IndexInv, TypeOK, Recall, Leave
  <2>5. print' \in [Workers -> 0..source' \cup {Unknown}]
    BY DEF IndexInv, TypeOK, Recall, Leave
  <2>6. memo' \in [Workers -> [Prints -> 0..source' \cup {Missing}]]
    BY DEF IndexInv, TypeOK, Recall
  <2>7. asked' \in [Workers -> 0..source' \cup {NoCall}] /\ answer' \in [Workers -> 0..source' \cup {NoAnswer}]
    BY Basics DEF IndexInv, TypeOK, Recall, Leave, Remembered, Prints
  <2>8. faults' \in 0..MaxFaults /\ blind' \in [Workers -> BOOLEAN]
    BY DEF IndexInv, TypeOK, Recall
  <2>9. doubtful' \subseteq 1..source'
    BY DEF IndexInv, TypeOK, Recall
  <2> QED
    BY <2>1, <2>2, <2>3, <2>4, <2>5, <2>6, <2>7, <2>8, <2>9 DEF TypeOK
<1>2. LabelIsTrue'
  BY DEF IndexInv, LabelIsTrue, Promise!Shows, Recall, files
<1>3. LockIsHeld'
  BY DEF IndexInv, LockIsHeld, Recall, Leave, Goto, files
<1>4. BuildIsNewer'
  BY DEF IndexInv, BuildIsNewer, Recall, Leave, Goto, files
<1>5. LabelIsDue'
  BY DEF IndexInv, LabelIsDue, Recall, Leave, Goto, files
<1>6. AdoptedIsThere'
  BY DEF IndexInv, AdoptedIsThere, Recall, Leave, Goto, files
<1>7. ReadIsShown'
  BY DEF IndexInv, ReadIsShown, Shows, Promise!Shows, Recall, Leave, Goto, files
<1>8. AskedIsKnown'
  BY DEF IndexInv, TypeOK, AskedIsKnown, Recall, Leave, Goto
<1>9. MemoIsShown'
  BY DEF IndexInv, MemoIsShown, Shows, Promise!Shows, Recall
<1>10. AnswerIsOpen'
  BY DEF IndexInv, TypeOK, AnswerIsOpen, Recall, Leave, Goto
<1> QED
  BY <1>1, <1>2, <1>3, <1>4, <1>5, <1>6, <1>7, <1>8, <1>9, <1>10 DEF IndexInv

\* A worker reads the fingerprint, which is no older than its call.
LEMMA ProbeKeeps ==
    ASSUME NEW w \in Workers, IndexInv, Probe(w)
    PROVE  IndexInv'
<1>1. TypeOK'
  <2>1. source' \in Versions /\ csv' \in 0..source' \cup {Missing, OldSchema}
    BY DEF IndexInv, TypeOK, Probe, Fingerprint, files
  <2>2. meta' \in 0..source' \cup {Unknown, Missing} /\ lock' \in Workers \cup {NoWorker}
    BY DEF IndexInv, TypeOK, Probe, Fingerprint, files
  <2>3. at' \in [Workers -> Places] /\ since' \in [Workers -> 0..source']
    BY DEF IndexInv, TypeOK, Probe, Fingerprint, Goto, Places
  <2>4. key' \in [Workers -> 0..source' \cup {Unknown}]
    BY DEF IndexInv, TypeOK, Probe, Fingerprint
  <2>5. print' \in [Workers -> 0..source' \cup {Unknown}]
    BY Basics DEF IndexInv, TypeOK, Probe, Fingerprint
  <2>6. memo' \in [Workers -> [Prints -> 0..source' \cup {Missing}]]
    BY DEF IndexInv, TypeOK, Probe, Fingerprint
  <2>7. asked' \in [Workers -> 0..source' \cup {NoCall}] /\ answer' \in [Workers -> 0..source' \cup {NoAnswer}]
    BY DEF IndexInv, TypeOK, Probe, Fingerprint
  <2>8. faults' \in 0..MaxFaults /\ blind' \in [Workers -> BOOLEAN]
    <3>1. \/ UNCHANGED <<faults, blind>>
          \/ Fault /\ blind' = [blind EXCEPT ![w] = TRUE]
      BY DEF Probe, Fingerprint
    <3>2. faults' \in 0..MaxFaults
      BY <3>1, IndexAssumption DEF Fault, IndexInv, TypeOK
    <3>3. blind' \in [Workers -> BOOLEAN]
      BY <3>1 DEF IndexInv, TypeOK
    <3> QED
      BY <3>2, <3>3
  <2>9. doubtful' \subseteq 1..source'
    BY DEF IndexInv, TypeOK, Probe, Fingerprint
  <2> QED
    BY <2>1, <2>2, <2>3, <2>4, <2>5, <2>6, <2>7, <2>8, <2>9 DEF TypeOK
<1>2. LabelIsTrue'
  BY DEF IndexInv, LabelIsTrue, Promise!Shows, Probe, Fingerprint, files
<1>3. LockIsHeld'
  BY DEF IndexInv, LockIsHeld, Probe, Fingerprint, Goto, files
<1>4. BuildIsNewer'
  BY DEF IndexInv, BuildIsNewer, Probe, Fingerprint, Goto, files
<1>5. LabelIsDue'
  BY DEF IndexInv, LabelIsDue, Probe, Fingerprint, Goto, files
<1>6. AdoptedIsThere'
  BY DEF IndexInv, AdoptedIsThere, Probe, Fingerprint, Goto, files
<1>7. ReadIsShown'
  BY DEF IndexInv, ReadIsShown, Shows, Promise!Shows, Probe, Fingerprint, Goto, files
<1>8. AskedIsKnown'
  BY Basics DEF IndexInv, TypeOK, AskedIsKnown, Probe, Fingerprint, Goto
<1>9. MemoIsShown'
  BY DEF IndexInv, TypeOK, MemoIsShown, Shows, Promise!Shows, Probe, Fingerprint, Prints
<1>10. AnswerIsOpen'
  BY DEF IndexInv, AnswerIsOpen, Probe, Fingerprint, Goto
<1> QED
  BY <1>1, <1>2, <1>3, <1>4, <1>5, <1>6, <1>7, <1>8, <1>9, <1>10 DEF IndexInv

\* A worker looks without the lock: what it goes on to read is shown, what it
\* adopts is there.
LEMMA LookKeeps ==
    ASSUME NEW w \in Workers, IndexInv, Look(w)
    PROVE  IndexInv'
<1>1. TypeOK'
  BY DEF IndexInv, TypeOK, Look, Goto, files, history, Places
<1>2. LabelIsTrue'
  BY DEF IndexInv, LabelIsTrue, Promise!Shows, Look, files, history
<1>3. LockIsHeld'
  BY DEF IndexInv, TypeOK, LockIsHeld, Look, Goto, files
<1>4. BuildIsNewer'
  BY DEF IndexInv, TypeOK, BuildIsNewer, Look, Goto, files
<1>5. LabelIsDue'
  BY DEF IndexInv, TypeOK, LabelIsDue, Look, Goto, files
<1>6. AdoptedIsThere'
  BY DEF IndexInv, TypeOK, AdoptedIsThere, Look, Adoptable, Goto, files
<1>7. ReadIsShown'
  BY Basics DEF IndexInv, TypeOK, ReadIsShown, Shows, Promise!Shows, LabelIsTrue, Look, Current, Goto, files, history
<1>8. AskedIsKnown'
  BY DEF IndexInv, TypeOK, AskedIsKnown, Look, Goto, history
<1>9. MemoIsShown'
  BY DEF IndexInv, MemoIsShown, Shows, Promise!Shows, Look, history
<1>10. AnswerIsOpen'
  BY Basics DEF IndexInv, TypeOK, AnswerIsOpen, Look, Current, Adoptable, Goto, files, history, Places, Prints
<1> QED
  BY <1>1, <1>2, <1>3, <1>4, <1>5, <1>6, <1>7, <1>8, <1>9, <1>10 DEF IndexInv

\* A worker labels a CSV it did not build: the version is doubtful from then
\* on.
LEMMA AdoptKeeps ==
    ASSUME NEW w \in Workers, IndexInv, Adopt(w)
    PROVE  IndexInv'
<1>1. TypeOK'
  <2>1. source' \in Versions /\ csv' \in 0..source' \cup {Missing, OldSchema}
    BY DEF IndexInv, TypeOK, Adopt
  <2>2. meta' \in 0..source' \cup {Unknown, Missing} /\ lock' \in Workers \cup {NoWorker}
    BY DEF IndexInv, TypeOK, Adopt, Release
  <2>3. at' \in [Workers -> Places] /\ since' \in [Workers -> 0..source']
    BY DEF IndexInv, TypeOK, Adopt, Goto, Places
  <2>4. key' \in [Workers -> 0..source' \cup {Unknown}]
    BY DEF IndexInv, TypeOK, Adopt
  <2>5. print' \in [Workers -> 0..source' \cup {Unknown}]
    BY DEF IndexInv, TypeOK, Adopt
  <2>6. memo' \in [Workers -> [Prints -> 0..source' \cup {Missing}]]
    BY DEF IndexInv, TypeOK, Adopt
  <2>7. asked' \in [Workers -> 0..source' \cup {NoCall}] /\ answer' \in [Workers -> 0..source' \cup {NoAnswer}]
    BY DEF IndexInv, TypeOK, Adopt
  <2>8. faults' \in 0..MaxFaults /\ blind' \in [Workers -> BOOLEAN]
    BY DEF IndexInv, TypeOK, Adopt
  <2>9. doubtful' \subseteq 1..source'
    <3>1. csv \in 0..source /\ print[w] \in 0..source
      BY Basics DEF IndexInv, TypeOK, AdoptedIsThere, Adopt
    <3>2. \A v \in Versions : csv < v /\ v <= print[w] => v \in 1..source
      BY <3>1 DEF IndexInv, TypeOK, Versions
    <3> QED
      BY <3>2 DEF IndexInv, TypeOK, Adopt
  <2> QED
    BY <2>1, <2>2, <2>3, <2>4, <2>5, <2>6, <2>7, <2>8, <2>9 DEF TypeOK
<1>2. LabelIsTrue'
  BY Basics DEF IndexInv, TypeOK, LabelIsTrue, Promise!Shows, AdoptedIsThere, Promise!Versions, Adopt
<1>3. LockIsHeld'
  BY DEF IndexInv, LockIsHeld, Adopt, Release, Goto
<1>4. BuildIsNewer'
  BY DEF IndexInv, BuildIsNewer, Adopt, Goto
<1>5. LabelIsDue'
  BY DEF IndexInv, LabelIsDue, Adopt, Goto
<1>6. AdoptedIsThere'
  BY DEF IndexInv, AdoptedIsThere, Adopt, Goto
<1>7. ReadIsShown'
  <2>1. csv \in Versions /\ csv' = csv /\ print' = print /\ doubtful \subseteq doubtful'
    BY DEF IndexInv, AdoptedIsThere, Adopt
  <2>2. \A v \in Versions : csv < v /\ v <= print[w] => v \in doubtful'
    BY DEF Adopt
  <2>3. \A u \in Workers : at'[u] = "read" => u = w \/ at[u] = "read"
    BY DEF Adopt, Goto, IndexInv
  <2> QED
    BY <2>1, <2>2, <2>3 DEF IndexInv, ReadIsShown, Shows, Promise!Shows, Promise!Versions, Versions
<1>8. AskedIsKnown'
  BY DEF IndexInv, AskedIsKnown, Adopt, Goto
<1>9. MemoIsShown'
  BY DEF IndexInv, MemoIsShown, Shows, Promise!Shows, Adopt
<1>10. AnswerIsOpen'
  BY DEF IndexInv, AnswerIsOpen, Adopt, Goto
<1> QED
  BY <1>1, <1>2, <1>3, <1>4, <1>5, <1>6, <1>7, <1>8, <1>9, <1>10 DEF IndexInv

\* A worker gets the lock, which nobody held.
LEMMA AcquireKeeps ==
    ASSUME NEW w \in Workers, IndexInv, Acquire(w)
    PROVE  IndexInv'
<1>1. TypeOK'
  BY DEF IndexInv, TypeOK, Acquire, Goto, history, Places
<1>2. LabelIsTrue'
  BY DEF IndexInv, LabelIsTrue, Promise!Shows, Acquire, history
<1>3. LockIsHeld'
  BY Basics DEF IndexInv, TypeOK, LockIsHeld, Acquire, Goto
<1>4. BuildIsNewer'
  BY DEF IndexInv, BuildIsNewer, Acquire, Goto
<1>5. LabelIsDue'
  BY DEF IndexInv, LabelIsDue, Acquire, Goto
<1>6. AdoptedIsThere'
  BY DEF IndexInv, AdoptedIsThere, Acquire, Goto
<1>7. ReadIsShown'
  BY DEF IndexInv, ReadIsShown, Shows, Promise!Shows, Acquire, Goto, history
<1>8. AskedIsKnown'
  BY DEF IndexInv, AskedIsKnown, Acquire, Goto, history
<1>9. MemoIsShown'
  BY DEF IndexInv, MemoIsShown, Shows, Promise!Shows, Acquire, history
<1>10. AnswerIsOpen'
  BY DEF IndexInv, AnswerIsOpen, Acquire, Goto, history
<1> QED
  BY <1>1, <1>2, <1>3, <1>4, <1>5, <1>6, <1>7, <1>8, <1>9, <1>10 DEF IndexInv

\* A worker looks again inside the lock: what it builds will be newer than
\* what is there.
LEMMA RecheckKeeps ==
    ASSUME NEW w \in Workers, IndexInv, Recheck(w)
    PROVE  IndexInv'
<1>1. TypeOK'
  <2>1. source' \in Versions /\ csv' \in 0..source' \cup {Missing, OldSchema}
    BY DEF IndexInv, TypeOK, Recheck
  <2>2. meta' \in 0..source' \cup {Unknown, Missing} /\ lock' \in Workers \cup {NoWorker}
    BY DEF IndexInv, TypeOK, Recheck, Release
  <2>3. at' \in [Workers -> Places] /\ since' \in [Workers -> 0..source']
    <3>1. at \in [Workers -> Places] /\ since \in [Workers -> 0..source] /\ source \in 0..source
      BY Basics DEF IndexInv, TypeOK
    <3>2. at' \in [Workers -> Places]
      BY <3>1 DEF Recheck, Goto, Places
    <3>3. since' \in [Workers -> 0..source]
      BY <3>1 DEF Recheck
    <3> QED
      BY <3>2, <3>3 DEF Recheck
  <2>4. key' \in [Workers -> 0..source' \cup {Unknown}]
    BY DEF IndexInv, TypeOK, Recheck
  <2>5. print' \in [Workers -> 0..source' \cup {Unknown}]
    BY DEF IndexInv, TypeOK, Recheck
  <2>6. memo' \in [Workers -> [Prints -> 0..source' \cup {Missing}]]
    BY DEF IndexInv, TypeOK, Recheck
  <2>7. asked' \in [Workers -> 0..source' \cup {NoCall}] /\ answer' \in [Workers -> 0..source' \cup {NoAnswer}]
    BY DEF IndexInv, TypeOK, Recheck, history
  <2>8. faults' \in 0..MaxFaults /\ blind' \in [Workers -> BOOLEAN]
    BY DEF IndexInv, TypeOK, Recheck, history
  <2>9. doubtful' \subseteq 1..source'
    BY DEF IndexInv, TypeOK, Recheck, history
  <2> QED
    BY <2>1, <2>2, <2>3, <2>4, <2>5, <2>6, <2>7, <2>8, <2>9 DEF TypeOK
<1>2. LabelIsTrue'
  BY DEF IndexInv, LabelIsTrue, Promise!Shows, Recheck, history
<1>3. LockIsHeld'
  BY DEF IndexInv, TypeOK, LockIsHeld, Recheck, Goto
<1>4. BuildIsNewer'
  BY Basics DEF IndexInv, TypeOK, BuildIsNewer, Recheck, Goto
<1>5. LabelIsDue'
  BY DEF IndexInv, TypeOK, LabelIsDue, Recheck, Goto
<1>6. AdoptedIsThere'
  BY DEF IndexInv, TypeOK, AdoptedIsThere, Recheck, Adoptable, Goto
<1>7. ReadIsShown'
  BY Basics DEF IndexInv, TypeOK, ReadIsShown, Shows, Promise!Shows, LabelIsTrue, Recheck, Current, Goto, history
<1>8. AskedIsKnown'
  BY DEF IndexInv, TypeOK, AskedIsKnown, Recheck, Goto, history
<1>9. MemoIsShown'
  BY DEF IndexInv, MemoIsShown, Shows, Promise!Shows, Recheck, history
<1>10. AnswerIsOpen'
  BY DEF IndexInv, TypeOK, AnswerIsOpen, Recheck, Goto, history
<1> QED
  BY <1>1, <1>2, <1>3, <1>4, <1>5, <1>6, <1>7, <1>8, <1>9, <1>10 DEF IndexInv

\* The holder of the lock replaces the CSV by a newer one.
LEMMA ReplaceCsvKeeps ==
    ASSUME NEW w \in Workers, IndexInv, ReplaceCsv(w)
    PROVE  IndexInv'
<1>1. TypeOK'
  <2>1. source' \in Versions /\ csv' \in 0..source' \cup {Missing, OldSchema}
    BY DEF IndexInv, TypeOK, ReplaceCsv
  <2>2. meta' \in 0..source' \cup {Unknown, Missing} /\ lock' \in Workers \cup {NoWorker}
    BY DEF IndexInv, TypeOK, ReplaceCsv
  <2>3. at' \in [Workers -> Places] /\ since' \in [Workers -> 0..source']
    BY DEF IndexInv, TypeOK, ReplaceCsv, Goto, Places
  <2>4. key' \in [Workers -> 0..source' \cup {Unknown}]
    BY DEF IndexInv, TypeOK, ReplaceCsv
  <2>5. print' \in [Workers -> 0..source' \cup {Unknown}]
    BY DEF IndexInv, TypeOK, ReplaceCsv
  <2>6. memo' \in [Workers -> [Prints -> 0..source' \cup {Missing}]]
    BY DEF IndexInv, TypeOK, ReplaceCsv
  <2>7. asked' \in [Workers -> 0..source' \cup {NoCall}] /\ answer' \in [Workers -> 0..source' \cup {NoAnswer}]
    BY DEF IndexInv, TypeOK, ReplaceCsv, history
  <2>8. faults' \in 0..MaxFaults /\ blind' \in [Workers -> BOOLEAN]
    BY DEF IndexInv, TypeOK, ReplaceCsv, history
  <2>9. doubtful' \subseteq 1..source'
    BY DEF IndexInv, TypeOK, ReplaceCsv, history
  <2> QED
    BY <2>1, <2>2, <2>3, <2>4, <2>5, <2>6, <2>7, <2>8, <2>9 DEF TypeOK
<1>2. LabelIsTrue'
  <2>1. CASE meta \in Versions
    <3>1. csv \in Versions /\ csv <= csv' /\ csv \in Nat /\ csv' \in Nat /\ Shows(csv, meta)
      BY <2>1, NewCsv DEF IndexInv, LabelIsTrue, Shows
    <3>2. Shows(csv', meta)
      BY <3>1 DEF Shows, Promise!Shows, Promise!Versions
    <3> QED
      BY <3>2, NewCsv DEF LabelIsTrue, Shows, Promise!Shows, ReplaceCsv, history
  <2>2. CASE meta \notin Versions
    BY <2>2 DEF LabelIsTrue, ReplaceCsv
  <2> QED
    BY <2>1, <2>2
<1>3. LockIsHeld'
  BY DEF IndexInv, LockIsHeld, ReplaceCsv, Goto
<1>4. BuildIsNewer'
  BY NewCsv DEF BuildIsNewer, ReplaceCsv, Goto, IndexInv, TypeOK
<1>5. LabelIsDue'
  <2>1. csv' \in Versions
    BY NewCsv
  <2>2. print[w] # Unknown => print[w] <= csv'
    BY NewCsv
  <2> QED
    BY <2>1, <2>2, NewCsv DEF LabelIsDue, ReplaceCsv, Goto, IndexInv, TypeOK
<1>6. AdoptedIsThere'
  BY Basics DEF IndexInv, TypeOK, AdoptedIsThere, ReplaceCsv, Goto
<1>7. ReadIsShown'
  <2> SUFFICES ASSUME NEW u \in Workers, at'[u] = "read"
               PROVE  csv' \in Versions /\ (print[u] = Unknown \/ Shows(csv', print[u]))
    BY DEF ReadIsShown, ReplaceCsv, history, Shows, Promise!Shows
  <2>1. at[u] = "read"
    BY DEF ReplaceCsv, Goto, IndexInv
  <2>2. csv \in Versions /\ (print[u] = Unknown \/ Shows(csv, print[u]))
    BY <2>1 DEF IndexInv, ReadIsShown
  <2>3. csv' \in Versions /\ csv <= csv' /\ csv \in Nat /\ csv' \in Nat
    BY <2>2, NewCsv
  <2> QED
    BY <2>2, <2>3 DEF Shows, Promise!Shows, Promise!Versions
<1>8. AskedIsKnown'
  BY DEF IndexInv, AskedIsKnown, ReplaceCsv, Goto, history
<1>9. MemoIsShown'
  BY DEF IndexInv, MemoIsShown, Shows, Promise!Shows, ReplaceCsv, history
<1>10. AnswerIsOpen'
  BY DEF IndexInv, AnswerIsOpen, ReplaceCsv, Goto, history
<1> QED
  BY <1>1, <1>2, <1>3, <1>4, <1>5, <1>6, <1>7, <1>8, <1>9, <1>10 DEF IndexInv

\* The holder of the lock labels the CSV there is, and gives the lock back.
LEMMA ReplaceMetaKeeps ==
    ASSUME NEW w \in Workers, IndexInv, ReplaceMeta(w)
    PROVE  IndexInv'
<1>1. TypeOK'
  BY DEF IndexInv, TypeOK, ReplaceMeta, Release, Label, Goto, history, Places
<1>2. LabelIsTrue'
  <2>1. meta' = print[w] /\ csv' = csv /\ csv \in Versions /\ doubtful' = doubtful
    BY DEF ReplaceMeta, Label, IndexInv, LabelIsDue, history
  <2>2. print[w] \in Versions => print[w] <= csv
    BY Basics DEF ReplaceMeta, IndexInv, LabelIsDue, TypeOK
  <2>3. print[w] \in Versions => Shows(csv, print[w])
    BY <2>1, <2>2 DEF Shows, Promise!Shows, Promise!Versions, Versions
  <2> QED
    BY <2>1, <2>3 DEF LabelIsTrue, Shows, Promise!Shows
<1>3. LockIsHeld'
  BY DEF IndexInv, TypeOK, LockIsHeld, ReplaceMeta, Goto
<1>4. BuildIsNewer'
  BY DEF IndexInv, BuildIsNewer, ReplaceMeta, Goto
<1>5. LabelIsDue'
  BY DEF IndexInv, LabelIsDue, ReplaceMeta, Goto
<1>6. AdoptedIsThere'
  BY DEF IndexInv, AdoptedIsThere, ReplaceMeta, Goto
<1>7. ReadIsShown'
  <2>1. print' = print /\ csv' = csv /\ csv \in Versions /\ doubtful' = doubtful
    BY DEF ReplaceMeta, IndexInv, LabelIsDue, history
  <2>2. print[w] # Unknown => print[w] \in Versions /\ print[w] <= csv
    BY Basics DEF ReplaceMeta, IndexInv, LabelIsDue, TypeOK
  <2>3. print[w] # Unknown => Shows(csv, print[w])
    BY <2>1, <2>2 DEF Shows, Promise!Shows, Promise!Versions, Versions
  <2>4. \A u \in Workers : at'[u] = "read" => u = w \/ at[u] = "read"
    BY DEF ReplaceMeta, Goto, IndexInv
  <2> QED
    BY <2>1, <2>3, <2>4 DEF IndexInv, ReadIsShown, Shows, Promise!Shows
<1>8. AskedIsKnown'
  BY DEF IndexInv, AskedIsKnown, ReplaceMeta, Goto, history
<1>9. MemoIsShown'
  BY DEF IndexInv, MemoIsShown, Shows, Promise!Shows, ReplaceMeta, history
<1>10. AnswerIsOpen'
  BY DEF IndexInv, AnswerIsOpen, ReplaceMeta, Goto, history
<1> QED
  BY <1>1, <1>2, <1>3, <1>4, <1>5, <1>6, <1>7, <1>8, <1>9, <1>10 DEF IndexInv

\* A worker reads, remembers and answers what its version is shown by.
LEMMA ReadKeeps ==
    ASSUME NEW w \in Workers, IndexInv, Read(w)
    PROVE  IndexInv'
<1>1. TypeOK'
  <2>1. source' \in Versions /\ csv' \in 0..source' \cup {Missing, OldSchema}
    BY DEF IndexInv, TypeOK, Read, files
  <2>2. meta' \in 0..source' \cup {Unknown, Missing} /\ lock' \in Workers \cup {NoWorker}
    BY DEF IndexInv, TypeOK, Read, files
  <2>3. at' \in [Workers -> Places] /\ since' \in [Workers -> 0..source']
    BY Basics DEF IndexInv, TypeOK, Read, Leave, Goto, Places
  <2>4. key' \in [Workers -> 0..source' \cup {Unknown}]
    BY DEF IndexInv, TypeOK, Read, Leave
  <2>5. print' \in [Workers -> 0..source' \cup {Unknown}]
    BY DEF IndexInv, TypeOK, Read, Leave
  <2>6. memo' \in [Workers -> [Prints -> 0..source' \cup {Missing}]]
    <3>1. csv \in 0..source
      BY Basics DEF IndexInv, TypeOK, ReadIsShown, Read
    <3> QED
      BY <3>1 DEF IndexInv, TypeOK, Read
  <2>7. asked' \in [Workers -> 0..source' \cup {NoCall}] /\ answer' \in [Workers -> 0..source' \cup {NoAnswer}]
    <3>1. csv \in 0..source
      BY Basics DEF IndexInv, TypeOK, ReadIsShown, Read
    <3>2. asked' \in [Workers -> 0..source \cup {NoCall}]
      BY DEF IndexInv, TypeOK, Read, Leave
    <3>3. answer' \in [Workers -> 0..source \cup {NoAnswer}]
      BY <3>1 DEF IndexInv, TypeOK, Read
    <3> QED
      BY <3>2, <3>3 DEF Read
  <2>8. faults' \in 0..MaxFaults /\ blind' \in [Workers -> BOOLEAN]
    BY DEF IndexInv, TypeOK, Read
  <2>9. doubtful' \subseteq 1..source'
    BY DEF IndexInv, TypeOK, Read
  <2> QED
    BY <2>1, <2>2, <2>3, <2>4, <2>5, <2>6, <2>7, <2>8, <2>9 DEF TypeOK
<1>2. LabelIsTrue'
  BY DEF IndexInv, LabelIsTrue, Promise!Shows, Read, files
<1>3. LockIsHeld'
  BY DEF IndexInv, LockIsHeld, Read, Leave, Goto, files
<1>4. BuildIsNewer'
  BY DEF IndexInv, BuildIsNewer, Read, Leave, Goto, files
<1>5. LabelIsDue'
  BY DEF IndexInv, LabelIsDue, Read, Leave, Goto, files
<1>6. AdoptedIsThere'
  BY DEF IndexInv, AdoptedIsThere, Read, Leave, Goto, files
<1>7. ReadIsShown'
  BY DEF IndexInv, ReadIsShown, Shows, Promise!Shows, Read, Leave, Goto, files
<1>8. AskedIsKnown'
  BY DEF IndexInv, TypeOK, AskedIsKnown, Read, Leave, Goto
<1>9. MemoIsShown'
  <2> SUFFICES ASSUME NEW u \in Workers, ~blind[u], NEW v \in Versions, memo'[u][v] # Missing
               PROVE  Shows(memo'[u][v], v)
    BY DEF MemoIsShown, Read, Shows, Promise!Shows
  <2>1. CASE u = w /\ key[w] = v
    <3>1. memo'[u][v] = csv
      BY <2>1 DEF Read, IndexInv, TypeOK, Prints
    <3>2. asked[w] = v /\ print[w] # Unknown /\ v <= print[w]
      BY <2>1 DEF Read, IndexInv, AskedIsKnown
    <3>3. Shows(csv, print[w]) /\ print[w] \in Nat /\ csv \in Nat
      BY <3>2, Basics DEF Read, IndexInv, ReadIsShown, TypeOK
    <3> QED
      BY <3>1, <3>2, <3>3 DEF Shows, Promise!Shows, Promise!Versions, Versions
  <2>2. CASE ~(u = w /\ key[w] = v)
    <3>1. memo'[u][v] = memo[u][v]
      BY <2>2 DEF Read, IndexInv
    <3> QED
      BY <3>1 DEF IndexInv, MemoIsShown
  <2> QED
    BY <2>1, <2>2
<1>10. AnswerIsOpen'
  BY DEF IndexInv, TypeOK, AnswerIsOpen, Read, Leave, Goto
<1> QED
  BY <1>1, <1>2, <1>3, <1>4, <1>5, <1>6, <1>7, <1>8, <1>9, <1>10 DEF IndexInv

\* A build raises, and the lock is given back.
LEMMA FailBuildKeeps ==
    ASSUME NEW w \in Workers, IndexInv, FailBuild(w)
    PROVE  IndexInv'
<1>1. TypeOK'
  <2>1. source' \in Versions /\ csv' \in 0..source' \cup {Missing, OldSchema}
    BY DEF IndexInv, TypeOK, FailBuild
  <2>2. meta' \in 0..source' \cup {Unknown, Missing} /\ lock' \in Workers \cup {NoWorker}
    BY DEF IndexInv, TypeOK, FailBuild, Release
  <2>3. at' \in [Workers -> Places] /\ since' \in [Workers -> 0..source']
    BY Basics DEF IndexInv, TypeOK, FailBuild, Leave, Goto, Places
  <2>4. key' \in [Workers -> 0..source' \cup {Unknown}]
    BY DEF IndexInv, TypeOK, FailBuild, Leave
  <2>5. print' \in [Workers -> 0..source' \cup {Unknown}]
    BY DEF IndexInv, TypeOK, FailBuild, Leave
  <2>6. memo' \in [Workers -> [Prints -> 0..source' \cup {Missing}]]
    BY DEF IndexInv, TypeOK, FailBuild
  <2>7. asked' \in [Workers -> 0..source' \cup {NoCall}] /\ answer' \in [Workers -> 0..source' \cup {NoAnswer}]
    BY DEF IndexInv, TypeOK, FailBuild, Leave
  <2>8. faults' \in 0..MaxFaults /\ blind' \in [Workers -> BOOLEAN]
    BY IndexAssumption DEF IndexInv, TypeOK, FailBuild, Fault
  <2>9. doubtful' \subseteq 1..source'
    BY DEF IndexInv, TypeOK, FailBuild
  <2> QED
    BY <2>1, <2>2, <2>3, <2>4, <2>5, <2>6, <2>7, <2>8, <2>9 DEF TypeOK
<1>2. LabelIsTrue'
  BY DEF IndexInv, LabelIsTrue, Promise!Shows, FailBuild
<1>3. LockIsHeld'
  BY DEF IndexInv, TypeOK, LockIsHeld, FailBuild, Leave, Goto
<1>4. BuildIsNewer'
  BY DEF IndexInv, TypeOK, BuildIsNewer, FailBuild, Leave, Goto
<1>5. LabelIsDue'
  BY DEF IndexInv, LabelIsDue, FailBuild, Leave, Goto
<1>6. AdoptedIsThere'
  BY DEF IndexInv, AdoptedIsThere, FailBuild, Leave, Goto
<1>7. ReadIsShown'
  BY DEF IndexInv, ReadIsShown, Shows, Promise!Shows, FailBuild, Leave, Goto
<1>8. AskedIsKnown'
  BY DEF IndexInv, TypeOK, AskedIsKnown, FailBuild, Leave, Goto
<1>9. MemoIsShown'
  BY DEF IndexInv, MemoIsShown, Shows, Promise!Shows, FailBuild
<1>10. AnswerIsOpen'
  BY DEF IndexInv, AnswerIsOpen, FailBuild, Leave, Goto
<1> QED
  BY <1>1, <1>2, <1>3, <1>4, <1>5, <1>6, <1>7, <1>8, <1>9, <1>10 DEF IndexInv

\* A worker dies wherever it stands, and the system gives its lock back.
LEMMA DieKeeps ==
    ASSUME NEW w \in Workers, IndexInv, Die(w)
    PROVE  IndexInv'
<1>1. TypeOK'
  <2>1. source' \in Versions /\ csv' \in 0..source' \cup {Missing, OldSchema}
    BY DEF IndexInv, TypeOK, Die
  <2>2. meta' \in 0..source' \cup {Unknown, Missing} /\ lock' \in Workers \cup {NoWorker}
    BY DEF IndexInv, TypeOK, Die, Release
  <2>3. at' \in [Workers -> Places] /\ since' \in [Workers -> 0..source']
    BY Basics DEF IndexInv, TypeOK, Die, Leave, Goto, Places
  <2>4. key' \in [Workers -> 0..source' \cup {Unknown}]
    BY DEF IndexInv, TypeOK, Die, Leave
  <2>5. print' \in [Workers -> 0..source' \cup {Unknown}]
    BY DEF IndexInv, TypeOK, Die, Leave
  <2>6. memo' \in [Workers -> [Prints -> 0..source' \cup {Missing}]]
    BY DEF IndexInv, TypeOK, Die, Forgotten
  <2>7. asked' \in [Workers -> 0..source' \cup {NoCall}] /\ answer' \in [Workers -> 0..source' \cup {NoAnswer}]
    BY DEF IndexInv, TypeOK, Die, Leave
  <2>8. faults' \in 0..MaxFaults /\ blind' \in [Workers -> BOOLEAN]
    BY IndexAssumption DEF IndexInv, TypeOK, Die, Fault
  <2>9. doubtful' \subseteq 1..source'
    BY DEF IndexInv, TypeOK, Die
  <2> QED
    BY <2>1, <2>2, <2>3, <2>4, <2>5, <2>6, <2>7, <2>8, <2>9 DEF TypeOK
<1>2. LabelIsTrue'
  BY DEF IndexInv, LabelIsTrue, Promise!Shows, Die
<1>3. LockIsHeld'
  BY DEF IndexInv, TypeOK, LockIsHeld, Die, Release, Leave, Goto
<1>4. BuildIsNewer'
  BY DEF IndexInv, TypeOK, BuildIsNewer, Die, Leave, Goto
<1>5. LabelIsDue'
  BY DEF IndexInv, LabelIsDue, Die, Leave, Goto
<1>6. AdoptedIsThere'
  BY DEF IndexInv, TypeOK, AdoptedIsThere, Die, Leave, Goto
<1>7. ReadIsShown'
  BY DEF IndexInv, ReadIsShown, Shows, Promise!Shows, Die, Leave, Goto
<1>8. AskedIsKnown'
  BY DEF IndexInv, TypeOK, AskedIsKnown, Die, Leave, Goto
<1>9. MemoIsShown'
  BY DEF IndexInv, TypeOK, MemoIsShown, Shows, Promise!Shows, Die, Forgotten, Prints
<1>10. AnswerIsOpen'
  BY DEF IndexInv, AnswerIsOpen, Die, Leave, Goto
<1> QED
  BY <1>1, <1>2, <1>3, <1>4, <1>5, <1>6, <1>7, <1>8, <1>9, <1>10 DEF IndexInv

-----------------------------------------------------------------------------
\* The invariant holds before the first call.
LEMMA InitHolds == Init => IndexInv
<1> SUFFICES ASSUME Init PROVE IndexInv
  OBVIOUS
<1> PICK s \in Starts : source = s.source /\ csv = s.csv /\ meta = s.meta
  BY DEF Init
<1>1. /\ source \in Versions
      /\ csv \in 0..source \cup {Missing, OldSchema}
      /\ \/ meta \in {Unknown, Missing}
         \/ csv \in Versions /\ meta \in 0..csv
  BY IndexAssumption
<1>2. csv \in Versions => csv \in 0..source
  BY <1>1, Basics
<1>3. meta \in 0..source \cup {Unknown, Missing}
  BY <1>1, <1>2, Basics
<1>4. TypeOK
  BY <1>1, <1>3, Basics, IndexAssumption DEF Init, TypeOK, Places, Forgotten
<1>5. LabelIsTrue
  <2> SUFFICES ASSUME meta \in Versions
               PROVE  csv \in Versions /\ meta \in 0..csv
    BY <1>2, <1>1 DEF LabelIsTrue, Promise!Shows, Promise!Versions
  <2> QED
    BY <1>1, IndexAssumption
<1>6. LockIsHeld /\ BuildIsNewer /\ LabelIsDue /\ AdoptedIsThere /\ ReadIsShown /\ AnswerIsOpen
  BY DEF Init, LockIsHeld, BuildIsNewer, LabelIsDue, AdoptedIsThere, ReadIsShown, AnswerIsOpen
<1>7. AskedIsKnown /\ MemoIsShown
  BY DEF Init, AskedIsKnown, MemoIsShown, Forgotten, Prints
<1> QED
  BY <1>4, <1>5, <1>6, <1>7 DEF IndexInv

\* And every step of a worker, of the archive or of nobody keeps it.
LEMMA StepHolds == IndexInv /\ [Next]_vars => IndexInv'
<1> SUFFICES ASSUME IndexInv, [Next]_vars PROVE IndexInv'
  OBVIOUS
<1>1. CASE Next
  BY <1>1, ChangeKeeps, CallKeeps, RecallKeeps, ProbeKeeps, LookKeeps, AdoptKeeps, AcquireKeeps,
     RecheckKeeps, ReplaceCsvKeeps, ReplaceMetaKeeps, ReadKeeps, FailBuildKeeps, DieKeeps
     DEF Next, Step
<1>2. CASE UNCHANGED vars
  <2>1. /\ UNCHANGED <<source, csv, meta, lock, at, key, print, since, memo, faults>>
        /\ UNCHANGED <<asked, answer, blind, doubtful>>
    BY <1>2 DEF vars, files, history
  <2>2. TypeOK'
    BY <2>1 DEF IndexInv, TypeOK
  <2>3. LabelIsTrue' /\ ReadIsShown' /\ MemoIsShown'
    BY <2>1 DEF IndexInv, LabelIsTrue, ReadIsShown, MemoIsShown, Shows, Promise!Shows
  <2>4. LockIsHeld' /\ BuildIsNewer' /\ LabelIsDue' /\ AdoptedIsThere' /\ AskedIsKnown' /\ AnswerIsOpen'
    BY <2>1 DEF IndexInv, LockIsHeld, BuildIsNewer, LabelIsDue, AdoptedIsThere, AskedIsKnown, AnswerIsOpen
  <2> QED
    BY <2>2, <2>3, <2>4 DEF IndexInv
<1> QED
  BY <1>1, <1>2

(***************************************************************************)
(* The invariant holds of the cache, whoever runs, dies and is in whose    *)
(* way.                                                                    *)
(***************************************************************************)
THEOREM IndexInvariant == Spec => []IndexInv
BY InitHolds, StepHolds, PTL DEF Spec

\* Every file and every variable has its type, and nothing is newer than the archive.
THEOREM IndexTypeCorrect == Spec => []TypeOK
<1>1. IndexInv => TypeOK
  BY DEF IndexInv
<1> QED
  BY <1>1, IndexInvariant, PTL

\* The sidecar tells the truth about the CSV beside it, adopted versions apart.
THEOREM SidecarIsTrue == Spec => []LabelIsTrue
<1>1. IndexInv => LabelIsTrue
  BY DEF IndexInv
<1> QED
  BY <1>1, IndexInvariant, PTL

\* However late a worker replaces the CSV, it is not by an older one.
THEOREM CsvNeverGoesBack == Spec => IndexNeverGoesBack
<1>1. IndexInv /\ [Next]_vars => [(csv \in Versions) => csv' \in Versions /\ csv <= csv']_vars
  <2> SUFFICES ASSUME IndexInv, Next, csv \in Versions
               PROVE  csv' \in Versions /\ csv <= csv'
    BY DEF vars
  <2>1. CASE \E w \in Workers : ReplaceCsv(w)
    BY <2>1, NewCsv
  <2>2. CASE ~ \E w \in Workers : ReplaceCsv(w)
    <3>1. csv' = csv
      BY <2>2 DEF Next, Step, Change, Call, Recall, Probe, Look, Adopt, Acquire, Recheck,
          ReplaceMeta, Read, FailBuild, Die, files
    <3>2. csv \in Nat
      BY DEF Versions
    <3> QED
      BY <3>1, <3>2
  <2> QED
    BY <2>1, <2>2
<1> QED
  BY <1>1, IndexInvariant, PTL DEF Spec, IndexNeverGoesBack

-----------------------------------------------------------------------------
(* The refinement.                                                         *)

\* An index that shows what was asked for, or one nobody can hold to account.
LEMMA AnswerIsAnswer ==
    ASSUME IndexInv, NEW w \in Workers, at[w] # "idle", NEW index \in 0..source,
           blind[w] \/ Shows(index, asked[w]),
           answer' = [answer EXCEPT ![w] = index],
           asked' = [asked EXCEPT ![w] = NoCall], UNCHANGED <<source, blind, doubtful>>
    PROVE  Promise!Answer(w)
<1>1. asked[w] # NoCall
  BY DEF IndexInv, AskedIsKnown
<1> QED
  BY <1>1 DEF Promise!Answer, Shows

\* Every step is one of the promise, or does not concern it.
LEMMA StepIsPromised ==
    ASSUME IndexInv, [Next]_vars
    PROVE  [Promise!Next]_Promise!vars
<1>1. CASE Change
  <2>1. Promise!Change
    BY <1>1 DEF Change, history, Promise!Change
  <2> QED
    BY <2>1 DEF Promise!Next
<1>2. ASSUME NEW w \in Workers, Call(w)
      PROVE  Promise!Next
  <2>1. asked[w] = NoCall
    BY <1>2 DEF Call, IndexInv, AskedIsKnown
  <2>2. Promise!Ask(w) \/ Promise!AskBlindly(w)
    BY <1>2, <2>1 DEF Call, Fingerprint, Promise!Ask, Promise!AskBlindly
  <2> QED
    BY <2>2 DEF Promise!Next
<1>3. ASSUME NEW w \in Workers, Recall(w)
      PROVE  Promise!Next
  <2>1. key[w] \in 0..source \cup {Unknown} /\ memo[w][key[w]] \in 0..source
    BY <1>3, Basics DEF Recall, Remembered, IndexInv, TypeOK, Prints
  <2>2. ASSUME ~blind[w]
        PROVE  Shows(memo[w][key[w]], asked[w])
    <3>1. key[w] = asked[w] /\ asked[w] # NoCall
      BY <1>3, <2>2 DEF Recall, IndexInv, AskedIsKnown
    <3>2. key[w] \in Versions
      BY <3>1, Basics DEF IndexInv, TypeOK
    <3> QED
      BY <1>3, <2>2, <3>1, <3>2 DEF Recall, Remembered, IndexInv, MemoIsShown
  <2>3. Promise!Answer(w)
    BY <1>3, <2>1, <2>2, AnswerIsAnswer DEF Recall, Remembered, Leave
  <2> QED
    BY <2>3 DEF Promise!Next
<1>4. ASSUME NEW w \in Workers, Probe(w)
      PROVE  [Promise!Next]_Promise!vars
  <2>1. UNCHANGED Promise!vars \/ Promise!LoseSight(w)
    BY <1>4 DEF Probe, Fingerprint, Promise!vars, Promise!LoseSight
  <2> QED
    BY <2>1 DEF Promise!Next
<1>5. ASSUME NEW w \in Workers, Adopt(w)
      PROVE  Promise!Next
  <2> DEFINE old == {v \in Versions : csv < v /\ v <= print[w]}
  <2>1. print[w] \in 0..source
    BY <1>5 DEF Adopt, IndexInv, AdoptedIsThere, TypeOK
  <2>2. old \in SUBSET (0..source)
    BY <2>1 DEF IndexInv, TypeOK, Versions
  <2>3. Promise!Doubt
    BY <1>5, <2>2 DEF Adopt, Promise!Doubt
  <2> QED
    BY <2>3 DEF Promise!Next
<1>6. ASSUME NEW w \in Workers, Look(w) \/ Acquire(w) \/ Recheck(w) \/ ReplaceCsv(w) \/ ReplaceMeta(w)
      PROVE  UNCHANGED Promise!vars
  BY <1>6 DEF Look, Acquire, Recheck, ReplaceCsv, ReplaceMeta, history, Promise!vars
<1>7. ASSUME NEW w \in Workers, Read(w)
      PROVE  Promise!Next
  <2>1. csv \in 0..source
    BY <1>7, Basics DEF Read, IndexInv, ReadIsShown, TypeOK
  <2>2. ASSUME ~blind[w]
        PROVE  Shows(csv, asked[w])
    <3>1. print[w] # Unknown /\ asked[w] <= print[w] /\ asked[w] # NoCall
      BY <1>7, <2>2 DEF Read, IndexInv, AskedIsKnown
    <3>2. Shows(csv, print[w]) /\ print[w] \in Nat /\ asked[w] \in Nat
      BY <1>7, <3>1 DEF Read, IndexInv, ReadIsShown, TypeOK
    <3> QED
      BY <3>1, <3>2 DEF Shows, Promise!Shows, Promise!Versions
  <2>3. Promise!Answer(w)
    BY <1>7, <2>1, <2>2, AnswerIsAnswer DEF Read, Leave
  <2> QED
    BY <2>3 DEF Promise!Next
<1>8. ASSUME NEW w \in Workers, FailBuild(w) \/ Die(w)
      PROVE  Promise!Next
  <2>1. answer' = [answer EXCEPT ![w] = NoAnswer]
    BY <1>8 DEF FailBuild, Die, IndexInv, AnswerIsOpen, TypeOK
  <2>2. Promise!Fail(w)
    BY <1>8, <2>1 DEF FailBuild, Die, Leave, Promise!Fail
  <2> QED
    BY <2>2 DEF Promise!Next
<1>9. CASE UNCHANGED vars
  BY <1>9 DEF vars, history, Promise!vars
<1> QED
  BY <1>1, <1>2, <1>3, <1>4, <1>5, <1>6, <1>7, <1>8, <1>9 DEF Next, Step

(***************************************************************************)
(* The cache keeps its promise: no interleaving of workers, no death and   *)
(* no change of the archive makes a call return an index older than the    *)
(* archive it was made for, the two excuses apart.                         *)
(***************************************************************************)
THEOREM CacheKeepsPromise == Spec => ImplementsPromise
<1>1. Init => Promise!Init
  BY IndexAssumption DEF Init, Promise!Init, Versions, Promise!Versions
<1>2. IndexInv /\ [Next]_vars => [Promise!Next]_Promise!vars
  BY StepIsPromised
<1> QED
  BY <1>1, <1>2, IndexInvariant, PTL DEF Spec, ImplementsPromise, Promise!Spec

=============================================================================
