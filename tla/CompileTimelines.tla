--------------------------- MODULE CompileTimelines ---------------------------
(***************************************************************************)
(* compile_timelines (core/timeline.py): the fold that turns a base        *)
(* statute, its amendment operations and its temporal events into one      *)
(* timeline of versions per provision.                                     *)
(*                                                                         *)
(* The code sorts the operations by (commencement date, sequence), sorts   *)
(* the standalone events by (date, id), and before every operation applies *)
(* the events dated up to it; what is left of the events runs after the    *)
(* last operation; every timeline is sorted at the end.  Here an input is  *)
(* drawn when its turn comes: any item the sorted lists could hold next.   *)
(* An operation carries the dates temporal_overrides_for_op derives for it.*)
(* Operations rejected before anything is read (facet targets, contingent  *)
(* or undated ones, text-level actions) change nothing and are left out,   *)
(* as are the recorded issues, which are output only.                      *)
(***************************************************************************)
EXTENDS VersionSelection, FiniteSets

CONSTANTS
    Addr,         \* provision addresses: paths, as sequences of labels
    BaseContent,  \* address |-> content of the provisions of the base statute
    BaseDate,     \* effective and enacted date of the base statute
    LastDate,     \* bound: the last date items and queries use
    MaxItems,     \* bound: operations and standalone events per compilation
    Enacted,      \* act |-> its enactment date
    Expiries,     \* bound: the expiry dates operations carry; NoDate is none
    OpActions,    \* bound: the structural actions drawn
    EventKinds,   \* bound: the standalone event kinds drawn
    Payloads,     \* bound: payload contents drawn; NoContent is a missing one
    RepealForms,  \* bound: NoContent, or a detached-horizon placeholder
    EventScopes,  \* bound: the address sets event scopes match
    TextScopes    \* bound: the territory sets operations carry

ASSUME CompileAssumption ==
    /\ \A a \in Addr : Len(a) \in Nat
    /\ DOMAIN BaseContent \subseteq Addr
    /\ \A a \in DOMAIN BaseContent : BaseContent[a] \in Content
    /\ BaseDate \in Nat \ {0}
    /\ LastDate \in Nat
    /\ MaxItems \in Nat
    /\ Enacted \in [Sources -> Nat]
    /\ Expiries \subseteq Nat
    /\ Payloads \subseteq Content
    /\ RepealForms \subseteq {c \in Content : ~ HasText(c)}
    /\ EventScopes \subseteq SUBSET Addr
    /\ TextScopes \subseteq SUBSET Territories

VARIABLES
    timelines,  \* address |-> its versions; <<>> when the dict has no such key
    cache,      \* active_selection_cache: entries [addr, date, result]
    snapshots,  \* renumber_wave_source_snapshots: entries [source, date, frame]
    opDate,     \* commencement date of the last operation taken
    eventDate,  \* date of the last standalone event taken
    taken,      \* items taken so far; numbers the texts of payloads
    phase,      \* "ops", "trailing", "sorted", or "raised"
    ended       \* history: address |-> date of its last temporal end event

vars == <<timelines, cache, snapshots, opDate, eventDate, taken, phase, ended>>

Dates == (BaseDate + 1)..LastDate

Ops == {op \in [action : OpActions, target : Addr, destination : Addr,
                effective : Dates, expires : Expiries,
                payload : Payloads \cup RepealForms \cup {NoContent},
                source : Sources, scope : TextScopes] :
           /\ op.payload \in CASE op.action = "repeal"   -> RepealForms
                               [] op.action = "renumber" -> {NoContent}
                               [] OTHER                  -> Payloads
           /\ (op.action = "renumber") = (op.destination # op.target)}

Events == [kind : EventKinds, addresses : EventScopes, date : Dates,
           source : Sources, scope : SUBSET Territories]

Entry == [addr : Addr, date : Nat, result : Selection]

Snapshot == [source : Sources, date : Nat, frame : [Addr -> Version]]

TypeOK ==
    /\ timelines \in [Addr -> Seq(Version)]
    /\ cache \subseteq Entry
    /\ snapshots \subseteq Snapshot
    /\ opDate \in Nat
    /\ eventDate \in Nat
    /\ taken \in 0..MaxItems
    /\ phase \in {"ops", "trailing", "sorted", "raised"}
    /\ ended \in [Addr -> Nat]

-----------------------------------------------------------------------------
(***************************************************************************)
(* Step 1: the base statute seeds one version per provision.               *)
(***************************************************************************)
BaseVersion(a) ==
    [effective |-> BaseDate, enacted |-> BaseDate, expires |-> NoDate,
     kind |-> "permanent", content |-> BaseContent[a],
     source |-> None, scope |-> {}]

Init ==
    /\ timelines = [a \in Addr |-> IF a \in DOMAIN BaseContent
                                   THEN <<BaseVersion(a)>> ELSE <<>>]
    /\ cache = {}
    /\ snapshots = {}
    /\ opDate = NoDate
    /\ eventDate = NoDate
    /\ taken = 0
    /\ phase = "ops"
    /\ ended = [a \in Addr |-> NoDate]

Present(a) == timelines[a] # <<>>

-----------------------------------------------------------------------------
(***************************************************************************)
(* The selection cache.                                                    *)
(***************************************************************************)
Hits(a, date) == {e \in cache : e.addr = a /\ e.date = date}

SelectCached(a, date) ==
    IF Hits(a, date) # {}
    THEN (CHOOSE e \in Hits(a, date) : TRUE).result
    ELSE SelectActive(timelines[a], Governing(date))

ActiveAt(a, date) == SelectCached(a, date).version

\* Variant: an append leaves the entries of its address in the cache.
CacheKept(read, date, written) ==
    cache \cup {[addr |-> a, date |-> date, result |-> SelectCached(a, date)] :
                    a \in read}

\* The cache after the addresses `read' were selected at `date' and the
\* timelines of `written' were appended to.
CacheAfter(read, date, written) ==
    {e \in cache \cup {[addr |-> a, date |-> date, result |-> SelectCached(a, date)] :
                           a \in read} :
        e.addr \notin written}

-----------------------------------------------------------------------------
(***************************************************************************)
(* What an operation reads of the law in force when it commences.          *)
(***************************************************************************)
Ancestors(a) == {p \in Addr : /\ Present(p)
                              /\ Len(p) < Len(a)
                              /\ SubSeq(a, 1, Len(p)) = p}

RelativePath(p, a) == SubSeq(a, Len(p) + 1, Len(a))

Nearest(S, P(_)) == {p \in S : \A n \in S : P(n) => Len(n) <= Len(p)}

Holds(p, a, date) == RelativePath(p, a) \in ActiveAt(p, date).content.paths

AncestorHolds(a, date) == \E p \in Ancestors(a) : Holds(p, a, date)

ReplaceFamily == {"replace", "heading"}

\* Replace needs a live target; insert and repeal create theirs.
Resolves(op) ==
    \/ Present(op.target)
    \/ op.action \in {"insert", "repeal"}
    \/ op.action \in ReplaceFamily /\ AncestorHolds(op.target, op.effective)

ResolutionReads(op) ==
    IF Present(op.target) \/ op.action \notin ReplaceFamily THEN {}
    ELSE Nearest(Ancestors(op.target),
                 LAMBDA p : Holds(p, op.target, op.effective))

\* The target decides alone while something is selected there.
TargetDecides(a, date) == Present(a) /\ ActiveAt(a, date) # NoVersion

Dies(p, date) == ActiveAt(p, date).expires > date

\* Variant: only the target's own sunset is looked up.
OwnExpiry(a, date) ==
    IF /\ TargetDecides(a, date)
       /\ ActiveAt(a, date).expires > date + 1
       /\ Background(Candidates(timelines[a], Governing(date)),
                     Governing(date)) = NoCandidate
    THEN ActiveAt(a, date).expires
    ELSE NoDate

\* A replacement of a live temporary text keeps its sunset, unless a durable
\* text lies beneath or the replaced text is in its last day; a new child
\* takes the sunset of its nearest dying ancestor.
InheritedExpiry(a, date) ==
    IF TargetDecides(a, date)
    THEN IF /\ ActiveAt(a, date).expires > date + 1
            /\ Background(Candidates(timelines[a], Governing(date)),
                          Governing(date)) = NoCandidate
         THEN ActiveAt(a, date).expires
         ELSE NoDate
    ELSE LET dying == {p \in Ancestors(a) : Dies(p, date)}
         IN  IF dying = {} THEN NoDate
             ELSE ActiveAt(CHOOSE p \in dying : \A n \in dying : Len(n) <= Len(p),
                           date).expires

InheritanceReads(a, date) ==
    (IF Present(a) THEN {a} ELSE {})
    \cup (IF TargetDecides(a, date) THEN {}
          ELSE Nearest(Ancestors(a), LAMBDA p : Dies(p, date)))

Inherits(op) ==
    /\ op.expires = NoDate
    /\ op.action \in {"insert", "replace"}
    /\ ~ IsPlaceholder(op.payload)

\* Variant: only an explicit expiry counts.
ExplicitExpiry(op) == op.expires

ExpiryOf(op) ==
    IF Inherits(op) THEN InheritedExpiry(op.target, op.effective) ELSE op.expires

-----------------------------------------------------------------------------
(***************************************************************************)
(* Step 2: operations.                                                     *)
(***************************************************************************)
\* Every text written is told apart by the number of its operation.
Numbered(c) == [c EXCEPT !.text = IF HasText(c) THEN taken + 1 ELSE 0]

\* Variant: the version begins when the act was enacted.
VersionOnEnactment(op, expires) ==
    [effective |-> Enacted[op.source], enacted |-> Enacted[op.source],
     expires |-> expires, kind |-> KindFor(expires),
     content |-> Numbered(op.payload), source |-> op.source, scope |-> op.scope]

VersionOf(op, expires) ==
    [effective |-> op.effective, enacted |-> Enacted[op.source],
     expires |-> expires, kind |-> KindFor(expires),
     content |-> Numbered(op.payload), source |-> op.source, scope |-> op.scope]

Due(op) ==
    /\ phase = "ops"
    /\ taken < MaxItems
    /\ op.effective >= opDate
    /\ op.effective >= eventDate
    /\ taken' = taken + 1
    /\ opDate' = op.effective
    /\ UNCHANGED <<eventDate, ended>>

HasPayload(op) == op.action = "repeal" \/ ~ IsAbsent(op.payload)

\* Variant: an expiry before the effective date is accepted.
NeverMisdated(op) == FALSE

\* ProvisionVersion refuses an expiry before its effective date.
Misdated(op) == op.expires # NoDate /\ op.expires < op.effective

Write(op) ==
    /\ Due(op)
    /\ op.action # "renumber"
    /\ Resolves(op)
    /\ HasPayload(op)
    /\ ~ Misdated(op)
    /\ timelines' = [timelines EXCEPT ![op.target] = Append(@, VersionOf(op, ExpiryOf(op)))]
    /\ cache' = CacheAfter(ResolutionReads(op)
                             \cup IF Inherits(op)
                                  THEN InheritanceReads(op.target, op.effective)
                                  ELSE {},
                           op.effective, {op.target})
    /\ UNCHANGED <<snapshots, phase>>

\* missing_replace_target, missing_insert_payload, missing_replace_payload:
\* nothing is written, but the lookup has filled the cache.
SkipWrite(op) ==
    /\ Due(op)
    /\ op.action # "renumber"
    /\ ~ (Resolves(op) /\ HasPayload(op))
    /\ cache' = CacheAfter(ResolutionReads(op), op.effective, {})
    /\ UNCHANGED <<timelines, snapshots, phase>>

\* Variant: the waves of one act share one frame, whatever their date.
WaveOfAct(op) == {s \in snapshots : s.source = op.source}

\* Renumberings of one act and date read the law as the first of them finds it.
Wave(op) == {s \in snapshots : s.source = op.source /\ s.date = op.effective}

FrameNow(date) == [a \in Addr |-> IF Present(a) THEN ActiveAt(a, date) ELSE NoVersion]

FrameOf(op) ==
    IF Wave(op) # {} THEN (CHOOSE s \in Wave(op) : TRUE).frame
    ELSE FrameNow(op.effective)

SnapshotsAfter(op) ==
    IF Wave(op) # {} THEN snapshots
    ELSE snapshots \cup {[source |-> op.source, date |-> op.effective,
                          frame |-> FrameNow(op.effective)]}

FrameReads(op) == IF Wave(op) # {} THEN {} ELSE {a \in Addr : Present(a)}

\* Variant: the moved text keeps the date it first took effect on.
MovedBackdated(op, v) ==
    [effective |-> v.effective, enacted |-> Enacted[op.source],
     expires |-> op.expires, kind |-> KindFor(op.expires), content |-> v.content,
     source |-> op.source, scope |-> IF op.scope # {} THEN op.scope ELSE v.scope]

\* An operation that reaches execution has matched its events, so the moved
\* version takes their expiry, never that of the version it moves.
MovedVersion(op, v) ==
    [effective |-> op.effective, enacted |-> Enacted[op.source],
     expires |-> op.expires, kind |-> KindFor(op.expires), content |-> v.content,
     source |-> op.source, scope |-> IF op.scope # {} THEN op.scope ELSE v.scope]

Tombstone(op) ==
    [effective |-> op.effective, enacted |-> Enacted[op.source],
     expires |-> NoDate, kind |-> "permanent", content |-> NoContent,
     source |-> op.source, scope |-> {}]

\* Variant: the entries of the source address outlive the move.
RenumberHalfEvicted(op) ==
    LET moved == FrameOf(op)[op.target]
    IN  /\ Due(op)
        /\ op.action = "renumber"
        /\ Present(op.target)
        /\ ~ IsAbsent(moved.content)
        /\ ~ Misdated(op)
        /\ timelines' =
              [timelines EXCEPT
                  ![op.destination] = Append(@, MovedVersion(op, moved)),
                  ![op.target]      = Append(@, Tombstone(op))]
        /\ snapshots' = SnapshotsAfter(op)
        /\ cache' = CacheAfter(FrameReads(op), op.effective, {op.destination})
        /\ UNCHANGED phase

Renumber(op) ==
    LET moved == FrameOf(op)[op.target]
    IN  /\ Due(op)
        /\ op.action = "renumber"
        /\ Present(op.target)
        /\ ~ IsAbsent(moved.content)
        /\ ~ Misdated(op)
        /\ timelines' =
              [timelines EXCEPT
                  ![op.destination] = Append(@, MovedVersion(op, moved)),
                  ![op.target]      = Append(@, Tombstone(op))]
        /\ snapshots' = SnapshotsAfter(op)
        /\ cache' = CacheAfter(FrameReads(op), op.effective,
                               {op.target, op.destination})
        /\ UNCHANGED phase

\* missing_replace_target, missing_renumber_source: the second has taken the
\* snapshot of the wave.
SkipRenumber(op) ==
    /\ Due(op)
    /\ op.action = "renumber"
    /\ ~ Present(op.target) \/ IsAbsent(FrameOf(op)[op.target].content)
    /\ IF Present(op.target)
       THEN /\ snapshots' = SnapshotsAfter(op)
            /\ cache' = CacheAfter(FrameReads(op), op.effective, {})
       ELSE UNCHANGED <<snapshots, cache>>
    /\ UNCHANGED <<timelines, phase>>

\* The ValueError ends the compilation without a result.
RaiseMisdated(op) ==
    /\ Due(op)
    /\ Misdated(op)
    /\ IF op.action = "renumber"
       THEN Present(op.target) /\ ~ IsAbsent(FrameOf(op)[op.target].content)
       ELSE Resolves(op) /\ HasPayload(op)
    /\ phase' = "raised"
    /\ UNCHANGED <<timelines, cache, snapshots>>

-----------------------------------------------------------------------------
(***************************************************************************)
(* Standalone temporal events.  They read past the cache, and the loop     *)
(* clears it after each; the trailing ones leave it, nothing reads it then.*)
(***************************************************************************)
Latest(vs, date) == PickLatest(Candidates(vs, Governing(date))).version

LatestSubstantive(vs, date) ==
    PickLatest({[at |-> i, version |-> vs[i]] :
                   i \in {j \in DOMAIN vs : /\ vs[j].effective <= date
                                            /\ ~ IsAbsent(vs[j].content)}}).version

\* Every text in force up to the date ends with it.
Capped(v, date) ==
    IF \/ IsAbsent(v.content)
       \/ v.effective > date
       \/ v.expires # NoDate /\ v.expires <= date
    THEN v
    ELSE [v EXCEPT !.expires = date, !.kind = "temporary"]

\* Variant: only the version written last ends.
CapLast(vs, date) == [vs EXCEPT ![Len(vs)] = Capped(@, date)]

Cap(vs, date) == [i \in DOMAIN vs |-> Capped(vs[i], date)]

\* Variant: the cache survives a standalone event.
MatchedUncleared(ev) ==
    /\ phase \in {"ops", "trailing"}
    /\ taken < MaxItems
    /\ ev.date >= eventDate
    /\ ev.date > opDate
    /\ taken' = taken + 1
    /\ eventDate' = ev.date
    /\ UNCHANGED <<cache, snapshots, opDate, phase>>

Matched(ev) ==
    /\ phase \in {"ops", "trailing"}
    /\ taken < MaxItems
    /\ ev.date >= eventDate
    /\ ev.date > opDate
    /\ taken' = taken + 1
    /\ eventDate' = ev.date
    /\ cache' = IF phase = "ops" THEN {} ELSE cache
    /\ UNCHANGED <<snapshots, opDate, phase>>

Touched(ev) == {a \in ev.addresses : Present(a)}

InForceOn(ev) ==
    {a \in Touched(ev) : ~ IsAbsent(Latest(timelines[a], ev.date).content)}

\* expire, suspend: every text of the provision ends, not only the latest.
ApplyEnd(ev) ==
    /\ Matched(ev)
    /\ ev.kind \in {"expire", "suspend"}
    /\ timelines' = [a \in Addr |-> IF a \in InForceOn(ev) THEN Cap(timelines[a], ev.date)
                                    ELSE timelines[a]]
    /\ ended' = [a \in Addr |-> IF a \in InForceOn(ev) THEN ev.date ELSE ended[a]]

\* commence, revive: a text that is not in force starts again, but a commence
\* does not undo an end at its own date.
EndedOn(vs, date) ==
    \E i \in DOMAIN vs : /\ ~ IsAbsent(vs[i].content)
                         /\ vs[i].effective < date
                         /\ vs[i].expires = date

Starts(ev) ==
    {a \in Touched(ev) :
        /\ IsAbsent(Latest(timelines[a], ev.date).content)
        /\ ev.kind = "commence" => ~ EndedOn(timelines[a], ev.date)
        /\ ~ IsAbsent(LatestSubstantive(timelines[a], ev.date).content)}

\* Variant: a revived text is back since it first took effect.
RestartedBackdated(ev, v) ==
    [effective |-> v.effective, enacted |-> v.enacted,
     expires |-> NoDate, kind |-> "permanent", content |-> v.content,
     source |-> ev.source, scope |-> v.scope]

Restarted(ev, v) ==
    [effective |-> ev.date,
     enacted |-> IF Enacted[ev.source] # NoDate THEN Enacted[ev.source] ELSE v.enacted,
     expires |-> NoDate, kind |-> "permanent", content |-> v.content,
     source |-> ev.source, scope |-> v.scope]

ApplyStart(ev) ==
    /\ Matched(ev)
    /\ ev.kind \in {"commence", "revive"}
    /\ timelines' = [a \in Addr |->
          IF a \in Starts(ev)
          THEN Append(timelines[a],
                      Restarted(ev, LatestSubstantive(timelines[a], ev.date)))
          ELSE timelines[a]]
    /\ UNCHANGED ended

\* Variant: the new territories hold for the text's whole past.
RescopedBackdated(ev, v) ==
    [effective |-> v.effective, enacted |-> v.enacted, expires |-> v.expires,
     kind |-> v.kind, content |-> v.content, source |-> ev.source, scope |-> ev.scope]

\* set_applicability: the text in force goes on, in the named territories.
Rescoped(ev, v) ==
    [effective |-> ev.date, enacted |-> v.enacted, expires |-> v.expires,
     kind |-> v.kind, content |-> v.content, source |-> ev.source, scope |-> ev.scope]

ApplyScope(ev) ==
    /\ Matched(ev)
    /\ ev.kind = "set_applicability"
    /\ ev.scope # {}
    /\ timelines' = [a \in Addr |->
          IF a \in InForceOn(ev)
          THEN Append(timelines[a], Rescoped(ev, Latest(timelines[a], ev.date)))
          ELSE timelines[a]]
    /\ UNCHANGED ended

-----------------------------------------------------------------------------
(***************************************************************************)
(* Step 3: each timeline is sorted, stably, by (effective, enacted).       *)
(***************************************************************************)
\* Variant of the sort key: ties in reverse order.
SortsUnstably(vs, i, j) ==
    \/ vs[i].effective < vs[j].effective
    \/ /\ vs[i].effective = vs[j].effective
       /\ \/ vs[i].enacted < vs[j].enacted
          \/ vs[i].enacted = vs[j].enacted /\ i > j

SortsBefore(vs, i, j) ==
    \/ vs[i].effective < vs[j].effective
    \/ /\ vs[i].effective = vs[j].effective
       /\ \/ vs[i].enacted < vs[j].enacted
          \/ vs[i].enacted = vs[j].enacted /\ i < j

Place(vs, i) == 1 + Cardinality({j \in DOMAIN vs : SortsBefore(vs, j, i)})

Sorted(vs) ==
    [p \in DOMAIN vs |-> vs[CHOOSE i \in DOMAIN vs : Place(vs, i) = p]]

FinishOps ==
    /\ phase = "ops"
    /\ phase' = "trailing"
    /\ UNCHANGED <<timelines, cache, snapshots, opDate, eventDate, taken, ended>>

SortTimelines ==
    /\ phase = "trailing"
    /\ phase' = "sorted"
    /\ timelines' = [a \in Addr |-> Sorted(timelines[a])]
    /\ UNCHANGED <<cache, snapshots, opDate, eventDate, taken, ended>>

Next ==
    \/ \E op \in Ops : Write(op)
    \/ \E op \in Ops : SkipWrite(op)
    \/ \E op \in Ops : Renumber(op)
    \/ \E op \in Ops : SkipRenumber(op)
    \/ \E op \in Ops : RaiseMisdated(op)
    \/ \E ev \in Events : ApplyEnd(ev)
    \/ \E ev \in Events : ApplyStart(ev)
    \/ \E ev \in Events : ApplyScope(ev)
    \/ FinishOps
    \/ SortTimelines

Spec == Init /\ [][Next]_vars

=============================================================================
