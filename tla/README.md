# A verification of LawVM

LawVM compiles amendment acts into the text of the law at any date. This
directory holds TLA+ models of five parts of it: the timeline kernel, which
decides *which text is the law when*; the ordering and replay of relabellings,
which decides *where a provision ends up*; the provenance store, which has to
tell *which builds a retracted claim has tainted*; the cache of the amendment
index, which several processes share; and the blackboard that composes scanned
pages. TLC runs check the models on small instances; TLAPS proofs establish
their main properties for every instance. Paths below are relative to
`src/src/lawvm/` unless they start with `src/`.

## 1. Inventory of the system

| Component | State it keeps | Operations | What is hard, what makes it correct |
|---|---|---|---|
| Version selection (`core/timeline_selection.py`) | none; reads one timeline | `eligible`, `pick_latest`, the two rails, `select_active_version_ex` | Two rails (permanent, temporary) with exclusive expiry dates, ties broken by position, a separate path for one version. Total, deterministic, and the two paths agree. |
| Timeline compiler (`core/timeline.py`, `compile_timelines`) | the timelines, a selection cache, one frame per renumbering wave, a cursor into the events | insert, replace, heading-replace, repeal, renumber; merge of operations and events by date; final sort | Later operations read the law that earlier ones made, through a cache. The cache is never stale, the past is never rewritten, sunsets survive replacement, renumbering loses no text. |
| Temporal events (`core/timeline_temporal_events.py`) | none; rewrites timelines it is given | expire, suspend, commence, revive, set_applicability; matching events to an operation and folding them into its dates | Ends must hold for every text of a provision; a start must not undo them by accident. |
| Write-window scheduler (`core/temporal_scheduler.py`) | copies of compiled timelines; the windows left unresolved | splice a proved temporary window and re-sort, drop one already there, leave a break | Sorts by another key than the compiler did, while position breaks ties. No day outside a window changes, no day in it is answered by the law from before. |
| Operation ordering (`core/op_ordering.py`) | none between calls; a depth-first search over the relabellings of an act | temporal sort, groups, repeals, relabelling chains, the rest | A destination must be vacated before it is occupied, wherever the search starts; cycles; legs with one target. |
| Norwegian replay (`norway/grafter.py`, `apply_no_ops`) | the tree of a law | verdict on relocations, repeal, insert, renumber, each landing or refused with a reason | The order was chosen before anything was tried: a leg that is refused leaves its label taken for the next. No label twice, no law in force lost, legs that circle refused. |
| Address lineage (`core/timeline_lineage.py`) | none; walks migration events | current address, lineage segments, wave plans, rekeying | Terminates on cycles, and agrees with the renumberings applied. |
| Point-in-time reading (`materialize_pit_ex` in `core/timeline.py`, `core/timeline_materialization.py`) | the tree under construction | select, mask children by newer parents, overlay, tombstones | No child shown that a newer parent removed, none lost that it did not carry. |
| Provenance graph store (`core/provenance_graph_storage.py`) | a directory tree of files named by their content: objects, build records, nodes, edges, snapshots | write once if absent; read a directory, read a snapshot back | No lock, no rename: a file is visible while it is written, and a crash leaves it cut short. What was published stays readable. |
| Build-consumption taint (`core/build_consumption.py`, `core/retraction_taint_projection.py`, `core/evidence_kernel.py`) | none of its own; records and edges in the store | record a build, status of a build, builds tainted by a retraction | Recorders race with each other and with readers. A build that relied on a retracted claim is never passed over or called clean. |
| Claim commands (`tools/cmd_claim.py`, `core/manual_claims/native.py`) | none between two commands; attestations in the store | propose, accept, reject, retract, supersede, taint-report, and commands that print | Each reads the store in several steps while others write. A retraction gets reported although its own command may die first. |
| Legacy claim store (`core/manual_claims/storage.py`) | objects, an append-only event log, derived states, on disk | propose, accept, reject, retract, supersede, revalidate, consume | Crashes inside an append, a projection that refuses illegal transitions. |
| Amendment index cache (`finland/amendment_index.py`) | an index, its fingerprint, a lock file | look, adopt, rebuild under the lock, read, remember | Two atomic replaces that are not atomic together; looks without the lock; an archive that changes; processes that die. No answer is older than the call, every call ends. |
| Blackboard controller (`ingest/blackboard.py`) | a journal of marks, widened windows, a budget | detect contests, schedule a region, run a source, act on its control lines, promote, fall back, gate | Sources contradict each other and decide on overlapping regions. One owner for each node, no decision lost for nothing, no conflict unseen, no round for nothing. |
| Branch authority, apply seam, occupancy, write receipts, timeline invariants, tree operations (`core/`) | none across calls | filters, audits, persistent trees | Pure functions of one call. |
| Effect lifecycle (`core/`) | relations | resolve relations into events | Chains of changes to expiry. |
| Frontends (`finland/`, `estonia/`, `uk_legislation/`, ...) and tools | corpora, archives, caches | parse amendment text, acquire sources, export | Text processing and I/O. They produce the operations and events the kernel consumes. |

How they interact: a frontend turns acts into `LegalOperation`s and
`TemporalEvent`s; branch authority filters them; operation ordering numbers
them; the compiler folds them into timelines, asking version selection about
the law of each operation's date and calling the temporal events between
operations; the scheduler may splice windows into the result; lineage and
point-in-time reading answer queries about it. The Norwegian frontend does not
compile timelines from its relabellings: it orders the operations and replays
them on the tree of the law. All of this is a call chain in
one thread over immutable versions: the hard part is the *order* of the steps
and what each of them reads of the earlier ones. Threads and processes appear
only at the edges (acquisition, the index cache, the provenance store, worker pools).
Processes meet in the index cache, where each of them rebuilds under a file
lock what all of them read without it, and in the provenance store: a run that emits a certificate
bundle records the build, and people propose and retract claims from the command
line, in the same directory and without a lock.

`PROJECT.json` lists the components with their status and the hazards with
their lines.

## 2. The modules

| Module | What it is |
|---|---|
| `VersionSelection` | A version, a query, and which version of a timeline the query selects. |
| `CompileTimelines` | The compiler as a state machine, with the standalone events as actions. |
| `TimelineLaws` | What the compiler promises: invariants and action properties. |
| `WindowScheduler` | The splicing of temporary windows into what `CompileTimelines` made, and the breaks it leaves; extends `TimelineLaws`. |
| `WindowLaws` | What windows must not change, and that their days are answered or withheld. |
| `OpOrdering` | The ordering of operations, one action per step of the search. |
| `NorwayReplay` | The verdict on relocations and the replay; extends `OpOrdering`. |
| `ReplayLaws` | What ordering and replay must not do. |
| `TaintLedger` | What whoever asks about a retraction is promised: abstract specification. |
| `ProvenanceStore` | The files, the recorders, the operators, and what a crash leaves. |
| `ProvenanceLaws` | Its invariants, its liveness property, and the ledger it implements. |
| `FreshIndex` | What a caller of the amendment index is promised: abstract specification. |
| `AmendmentIndex` | The workers, the archive, the CSV, its sidecar and the lock. |
| `IndexLaws` | Its invariants, the promise it implements, and that every call ends. |
| `Blackboard` | The controller's rounds, the promotion of decisions, the fallback and the gate. |
| `BlackboardLaws` | What the composer promises. |
| `MCTimelines`, `MCWindows`, `MCReplay`, `MCProvenance`, `MCIndex`, `MCBlackboard` | Values of the constants for TLC. |
| `SelectionProofs`, `CompileTimelinesProofs`, `OrderingProofs`, `ReplayProofs`, `ProvenanceProofs`, `WholeStoreProofs`, `IndexProofs`, `BlackboardProofs` | The proofs. |

### VersionSelection

A timeline is a sequence of versions. A version has an effective, an enacted
and an expiry date (exclusive; 0 is the code's empty string), a kind, a content,
the act it comes from and a set of territories (empty: everywhere). The
well-formedness the constructor enforces (`core/ir.py:429`) and the rule that
every caller sets the kind from the expiry are part of the set `Version`. Text is an
identity: what the properties ask is *which* text governs. Of a node the model
keeps whether it is a tombstone, a text, or one of the two repeal placeholders,
and the relative addresses of its descendants.

`PickLatest` ranks candidates as `pick_latest` does: effective date, enacted
date, the placeholder's bias, position. `Overlay` and `Background` are the two
rails, `Supersedes` the two ways a permanent version beats an overlay (a later
act of another source; the overlay's last day), `SelectOne` the path for one
version and `SelectAmong` the general one. A query carries every argument the
code has, the detached expiry horizon included.

Left out: the certificates and the recording of equal-rank ties (output only),
and dates the code cannot parse.

### CompileTimelines

State and code: `timelines` is the dictionary (an absent key is the empty
sequence), `cache` is `active_selection_cache`, `snapshots` is
`renumber_wave_source_snapshots`, `opDate` and `eventDate` stand for the two
sorted lists and the cursor (what is drawn next must not precede what was
taken), `phase` is the place in the function, `taken` counts items and numbers
the texts. `ended` is a history variable: the last end event of each provision.

One action per outcome of an item: `Write`, `SkipWrite`, `Renumber`,
`SkipRenumber`, `RaiseMisdated` for operations, `ApplyEnd`, `ApplyStart`,
`ApplyScope` for events, then `FinishOps` (the events left over follow) and
`SortTimelines`. Every action includes the cache reads and evictions the code
makes on that path, so a stale cache entry would be read by a later action.
An event is applied before the operations of its date and never between or after them
(`standalone_events[i][0] <= op_date`), which is what `Matched` and `Due` say.

Inputs: an operation carries the commencement, expiry and territories that
`temporal_overrides_for_op` derives from its events; how it derives them is not
yet modelled, so every combination is drawn, an expiry before the commencement
included. Operations rejected before anything is read (facet targets,
contingent or undated ones, text actions) and those outside the chosen
authority lane change nothing and are left out. Text patches
(`is_text_patch_replace`) take the same path as replace.

Every operation drawn has a source. `core/ir.py:269` makes it optional, and
`core/timeline_selection.py:497` lets no later act supersede a temporary text
without one; in the model only base texts have none. `LaterActPrevails`, and
the theorem `TheLaterActPrevails`, say nothing of compilations of operations
without a source.

Bounds, all constants: `LastDate` (dates asked about and drawn), `MaxItems`
(operations and events of one compilation), and the drawn sets `Expiries`,
`OpActions`, `EventKinds`, `Payloads`, `RepealForms`, `EventScopes`, `TextScopes`. The
proofs need no bound on any of them beyond the typing in `CompileAssumption`.

### WindowScheduler

A Finnish act may insert a section for a time where another operation of the
replay stands. The replay reports the window (`finland/apply_policy.py:776`),
and when the timelines are compiled, `materialize_temporal_write_windows` goes
through the reported windows. `Compile` is the compiler; when it has sorted,
each window is taken once: `Splice` appends the temporary text and sorts the
timeline again by the scheduler's own key, `Found` drops a window the compiler
has written already, `KeepBreak` leaves it as a break. `windows` is the loop's
progress, `breaks` the list it returns; `Withheld` is what
`tools/provision_state.py` does with a break when somebody asks.

The list of operations is not kept. A window is spliced if exactly one
operation of its act, section and dates exists; `WindowOps` draws that
operation, with text the compiler has written or has not, and `KeepBreak` may
always happen, since the state does not tell how many there are. `Reported`
is the test that makes a report; an occupant that has ended has its end in no
field of the report, so that case asks only that the occupant began before. In the
scheduler's key the act's id and the hash of the text decide last; the model
takes any order of them, and expiries decide before the variant kind, which
follows from them. Breaks of other scopes are passed through by this code and left out.
Bounds: `MaxWindows`, and `WindowActs`, the acts whose windows are drawn. The
proofs need neither.

### OpOrdering and NorwayReplay

An operation is a record of what `order_ops` and `apply_no_ops` read of it:
action, act (the temporal sort key), sequence number, target, destination,
payload, and whether an insertion must find its address vacated. Addresses are a
section or a section and one of its paragraphs (ledd), by their labels; the
paragraphs go where their section goes. The law is a function from addresses to
texts; section 0 is the root of the body, where a paragraph lands whose
section is not there (`norway/grafter.py:14775`).

`emitted` is the ordered list so far, `dropped` the legs the search passed over,
`stack` the recursion of `visit` in `_ordered_renumber_group`: `Visit` starts it
at the next root, `Follow` is the recursive call, `EmitLeg` the return,
`PassOver` the call that finds its target visited. `by_target` keeps the last
leg with a target, and the search marks targets, not legs: `Vacates` and
`Visited` say so. `EmitRepeal` and `EmitOther` are the loops around it.

The replay then applies one operation at a time (`Apply`): `Repeal`, `Insert`
and `Renumber` with every refusal and recovery the code has for them. `Unprovable` is the
verdict (`_no_unprovable_relocation_targets`): contested sources, contested
destinations and circles, spread over the legs they are connected with. It is a
function of what the ordering emitted and never reads the law. A refusal leaves
the law as it was, since the code rolls back; a duplicate label ends
the replay (`aborted`). `base` is a history variable: the law before the legs of
the act in hand.

Bounds: the programs and laws `MCReplay` lists. Left out: replacements and text
operations (they move nothing), items and sentences, the reading of acts.

A differential test outside this directory ran all 16,680 pairs of a program
and a law of `norway_replay` through the model and the real `apply_no_ops`:
verdicts, refusals, final law and the 131 aborts agree in every one, legs that go
nowhere included.

### TaintLedger

Publications and retractions are single steps. A question remembers what had
been published and retracted when it was asked. The answer may be a refusal;
if it is given, it lists every build that relied on the assertion asked about
(once that is retracted), and calls no build clean that relied on anything
retracted. Later events it may see or not.

### ProvenanceStore

State and code: `disk` is the directory tree, a function from names (directory
and key) to contents. The key stands for the hash in the file's name, so a file
holds its key; the exception is the node of a build, named by the build and
holding the hash of its record. For each process, `at` is the place in its
program, `todo` the files it has still to write, `file` the one it is writing,
`cmd` its command; for an operator, `graph` is the graph it has put together and
`retracted` the attestation index. `stamp` is the clock, `crashes` counts the
dead. `published` and `asked` are history variables, which no action reads for
anything but themselves.

`_write_json` is three steps: the path exists (`Skip`) or not (`FindMissing`),
the file is opened and truncated (`Open`), written and closed (`Close`). Between
any two of them others act, or the process dies. A recorder is
`record_build_in_store`: record, node, edges, snapshot, then `Publish`. An
operator's command writes its own objects (`Begin` and the writing steps), reads
objects, build records and edges one directory after the other, writes the graph
it found (a report does not), and a retract command reads it back, loads the
attestations and the records again and reports. A read of a torn file, a
snapshot that does not match, and a node that does not match its record raise.

Abstractions. Listing and reading a directory is one step: names are never
removed, and a file that changes while a directory is read is either read torn,
which the model has, or read whole, as a reader that comes later would.
Files of one kind are written in a fixed order, which in the code is the order of their
hashes. Attestations have distinct times. Recorders of one build
give its edges the same payload; a different scope would make a second edge for
the same pair. The assertion a command names is looked up when it begins. The
only caller of `record_build_in_store` today
(`tools/certificate_bundle.py:2948`) records no consumed assertions; the model
draws what the interface accepts. Which assertion superseded which is not
kept: taint looks at retractions only.

Bounds, all constants: the sets of assertions, builds, recorders and operators,
the commands `Drawn`, the objects `Filed` at the beginning, `MaxStamp`,
`MaxCrashes`. `HashOrder` says which record of a build comes last in its
directory.

### FreshIndex

The archive has a version, which grows. A call remembers the version it was made
at; its answer is an index, named by the oldest version any part of it was read
from, and must show that version (`Shows`). Two excuses are part of the promise
because they are part of the code: a worker that once could not read the
fingerprint takes what is there (`blind`), and a CSV without a sidecar is adopted
for the version at hand (`doubtful`).

### AmendmentIndex

State and code: `source` is the archive, `csv`, `meta` and `lock` the three
files, `at` the place of a worker in `get_amendment_children`, `key` the
fingerprint it asked with (the key of its `lru_cache`, which is `memo`), `print`
the second fingerprint, taken in `ensure_amendment_index`, `since` what the
archive was when its build began. `asked`, `answer`, `blind` and `doubtful` are
history variables.

One action per step between which another process may act: `Call`, `Recall`,
`Probe`, `Look` (without the lock), `Adopt`, `Acquire`, `Recheck`, `ReplaceCsv`,
`ReplaceMeta`, `Read`; `FailBuild`, `Die` and an unreadable fingerprint are the
faults; `Change` is the archive. The build reads the archive for minutes: what it
wrote is as old as any version since it began. A process that dies loses its
memory, and the kernel its lock. A fingerprint (path, size, modification time)
is taken to name the version it was taken of.

Bounds: `MaxVersion` changes, `MaxFaults` faults, the `Starts`: no cache, one of
the old format, one from before there were sidecars, a current one.

### Blackboard

A region is a set of nodes. `decisions` is the part of the journal whose order
counts, `marks` the rest; posting a mark again is a no-op in the code and no
step here. `widened` and `expansions` are the windows and the budget, `round`,
`added` and `phase` the loop, `ending` how it ended, `ledger`, `owned` and
`next` the promotion, `exhausted` the regions given to the deterministic
composer, `emitted` what passed the gate.

`Detect` is the beginning of a round, `Decline` and `RunSource` the rest of it
(no source wants the region, or the first that does is run: control lines first,
then its marks), `EndRound` the three ways on. `Promote`, `PassOver`, `Exhaust`,
`FallBack`, `EndResidue` are `_promote`, `Gate` is the end of
`defacsimile_blackboard`. What a source replies is arbitrary, on any region; so
is what the deterministic composer joins (`Chains`) and what the gate refuses
(`Unsound`).

Bounds: `MaxRounds`, `MaxExpansions` and `MaxContextPages` are the program's own
budget; `MaxPosted` bounds what sources post in a run. Left out: VIEW, PAGE and
NOTE, which change what a source is shown; the resolution of escalations;
decisions that carry no claim; serialization.

A random test of the real controller with scripted sources (40,000 runs) met
none of the properties violated, and both endings.

## 3. What is checked

The runs of the timeline kernel use `MCTimelines` or `MCWindows`, those of the replay
`MCReplay`, of the index `MCIndex`, of the blackboard `MCBlackboard`; deadlock is
not checked in the kernel, the replay and the blackboard, since these end. The
runs of the store (`MCProvenance`) and of the index check it: there is always
somebody who may begin again.

| Run | Instance | Properties |
|---|---|---|
| `compile_single` | one provision, two acts, dates 1..4, three items, events limited to a territory | `TypeOK`, `CacheCoherent`, `NothingEndedReturns`, `PastIsSettled`, `LaterActPrevails`, `SortKeepsLaw`, `SunsetHolds` |
| `compile_tree` | two sections and a paragraph of one of them, two acts, dates 1..3, three items: all operations but headings, ends and revivals; nothing is drawn that runs out before the last day | `CacheCoherent`, `PastIsSettled`, `ChildDiesWithParent`, `VacatingFirstLosesNoText` |
| `compile_windows` | texts and events limited to a territory, dates 1..4, two items, either form of repeal, then one window of one of two acts | `WindowsAreAnswered`, `SingleVersionAgrees`, `PastIsSettled`, `WindowsAreLocal` |
| `end_revives` | one provision, three items, nothing temporary but what an event ends | `EndRevivesNothing`: violated |
| `taint_race` | one build and one assertion; two recorders and an operator who proposes and retracts; one crash | `TypeOK`, `RaisesForCause`, `QuietStoreIsExact`, `ImplementsLedger` |
| `taint_told` | two assertions; one build recorded with one of them or both; an operator who retracts, supersedes and asks | `RetractionIsReported`, `ImplementsLedger` |
| `store_retry` | one recorder, one crash | `RetryCompletes`: violated |
| `index_fresh` | two workers, two changes of the archive, one fault, four beginnings | `TypeOK`, `LabelIsTrue`, `ImplementsPromise`, `IndexNeverGoesBack`, `CallEnds` |
| `norway_replay` | two sections with two paragraphs; every act of up to three legs and one other operation; acts applied twice or announced twice; three laws | `TypeOK`, `VacatedFirst`, `LabelsStayUnique`, `LegsMoveAtOnce`, `VerdictIsExact`, `NothingInForceIsLost`, `ReplayEnds` |
| `norway_contested` | acts that send one paragraph to two other places; a law with room in both sections | `ContestedSourceRefused`: violated |
| `norway_staying` | acts that leave a paragraph where it is, alone or beside another leg | `StayingConflictsWithNothing`: violated |
| `blackboard` | two sources, two decisions each way, two nodes and their seam, three rounds, two expansions | `TypeOK`, `OneOwner`, `DecisionsAreHeard`, `ContestsAreSeen`, `RoundsArePaid` |

Why the bounds are enough. Selection compares at most an overlay, a background
and a tie, so three versions of one timeline (the base text and two items) meet every branch
and a third item disturbs what two built. With four dates an overlay can begin, be
overtaken, have its last day and be gone; where a run stops at three dates, its last
day is the day before `LastDate`, and expiries reach one day further. Two acts
give lex posterior and ties of enactment; the act that commences first may be
the one enacted last. A window needs an occupant and, on either side of it, a day
that is not its own, which four dates and two items give; a second window would meet
the first as one more text of the timeline. Three addresses are the shortest chain
of renumberings, and the least with an ancestor, its paragraph and a stranger. A wave needs two
renumberings, and a third item to write between them. `compile_tree` draws only
expiries past its last day (`FarExpiries`), which are enough for an ancestor's
sunset to be inherited; texts that run out earlier, and expiries before the
commencement, are drawn in `compile_single` and `compile_windows`. The base
texts and the items are numbered apart, so no two texts are taken for one. In the store, two
recorders of one build and one operator are the smallest case in which a file
has two writers and a reader; a second operator would only write more
attestations, each of its own name. In the index, two workers
are a builder and a looker, or two builders; two changes let a worker be two
versions behind; the one fault may be any of the three kinds at any step, and a
second would need a third worker to see its effect. In the replay three legs are
a chain, a circle, a branch, and a chain with a stranger; the fourth operation
vacates or fills an end of it; a law without one of the sections makes legs
unresolved in the middle of a chain. In the blackboard two overlapping regions
and the seam of both give every kind of overlap; three rounds are a conflict, its
detection and its resolution; the two sources are interchangeable, which is the
symmetry the run uses. One crash leaves one torn file, and a retry
meets it. Two attestations let a claim be proposed and retracted, retracted
twice, or superseded.

What the properties say:

- `CacheCoherent`: a cached selection is what selecting afresh would return.
- `NothingEndedReturns`: text that expire or suspend ended does not govern from
  the end on; only what was written at that date or later does.
- `PastIsSettled`: an operation, or an event that starts or rescopes a text,
  changes no answer about an earlier date, in any territory.
- `LaterActPrevails`: a later act of another source governs for its whole
  term, whatever temporary texts it meets.
- `SortKeepsLaw`: the final sort changes no answer although positions break ties.
- `WindowsAreLocal`: a spliced window, and the sort after it, change the law of
  no day outside the window and of no other section, where no two versions have
  equal dates and ranks.
- `WindowsAreAnswered`: no day of a window is answered by the law from before it:
  the answer is withheld, or is text that began with the window or later, wherever
  the window's text applies.
- `SunsetHolds`: nothing permanent is written over a provision whose law is
  temporary texts that apply everywhere and have more than a day to run.
- `ChildDiesWithParent`: a text written where nothing is in force, under a
  temporary ancestor, is temporary.
- `VacatingFirstLosesNoText`: a lasting renumbering takes no text out of force,
  if nothing was written to its source that day and its destination is left to
  it (`LeftTo`: no text in force there, nothing of that day but the act's own,
  no placeholder of that day, no temporary text of the act). This is the assumption
  under which the vacate-first order of `core/op_ordering.py` is right.
- `SingleVersionAgrees`: the hand-written path for one version is the general
  one, for every query. It is stated where the operations are done, since every
  version a compilation can make stands in such a state.

- `VacatedFirst`: a leg is emitted after one that vacates its destination,
  unless legs wait for each other in a circle.
- `LegsMoveAtOnce`: the legs of an act, one after the other, leave the law that
  moving all of them at once would have left.
- `VerdictIsExact`: legs that all go elsewhere are refused as unprovable exactly
  if no order of them keeps each out of the way of the others. The reference
  tries every order; the code looks for three patterns. Legs connected with one
  that goes nowhere are not spoken of here: `norway_staying` shows how the code
  judges those.
- `LabelsStayUnique`: no relabelling puts a provision where its namesake
  stands, but for a paragraph whose new section is not there.
- `NothingInForceIsLost`: a relabelling of a paragraph, or an insertion of a
  paragraph that must find its address vacated, deletes no text, also when its
  act is replayed on a law that has it already. Nothing is said of relabellings
  of sections, whose recovery clears the destination, nor of insertions that
  replace what they find: both delete by design.
- `ReplayEnds`: ordering and replay end, with an answer for every operation.

- `ImplementsPromise`: the cache implements `FreshIndex`.
- `LabelIsTrue`: the CSV shows all that the version named in its sidecar held,
  adopted versions apart.
- `IndexNeverGoesBack`: no CSV is replaced by an older one.
- `CallEnds`: every call ends, in an answer, an exception or a death.

- `OneOwner`: no node is claimed twice, in the ledger built or in the one
  emitted.
- `DecisionsAreHeard`: a decision is promoted, or an earlier promoted one has
  one of its nodes, or a later one was taken on its contested region.
- `ContestsAreSeen`: at a fixpoint every conflict has been marked.
- `RoundsArePaid`: every round but the last added a mark, a decision or a page:
  the controller ends by itself, and `MaxRounds` only cuts short.

- `ImplementsLedger`: the store implements `TaintLedger`, with the retractions
  that can be read from disk as the ledger's.
- `QuietStoreIsExact`: when all are done, nobody died, and no build was recorded
  with two different sets of assertions, every file is whole, and every status is
  exactly tainted or clean.
- `RaisesForCause`: a read fails only while somebody writes, after a crash, or
  for a build recorded with two different sets.
- `RetractionIsReported`: a build that relied on a retracted assertion gets
  reported as tainted, or as invalid if it was recorded with two sets.

Fairness. The runs of the kernel assume none: `compile_timelines` is a loop
over two finite lists, and that it ends says nothing about this code. In
`FairSpec` a process that has begun keeps running (weak fairness of its writing
steps, its reading steps and its return: the operating system schedules it), and
an operator who is free again and again asks for a report again and again
(strong fairness of `Begin` for report commands). The second is an assumption
about people: a retract command reports by itself, but may find a file open and
raise, so somebody has to ask again. Nobody has to retract, record or propose.
In the index every worker that has begun a call keeps going (weak fairness of its
steps: each is a process of its own, and the file lock is handed on when its
holder returns or dies); nobody has to call, and the archive may change or not.
Weak fairness suffices for the lock since builds are bounded by the calls of
finitely many workers. In the replay, weak fairness of the one thread. The
blackboard states none: `RoundsArePaid` is an invariant that bounds the rounds.
`taint_told` assumes no crash, because a torn file makes every later read raise, as
`store_retry` shows.

Each property of each passing run has a mutant in `PROJECT.json`: a plausible
bug in a mapped definition (written beside it and marked "Variant") under which
TLC finds that property violated.

### What the violated runs show

1. `end_revives`. An end event caps *every* text of the provision and makes it
   temporary, also one a repeal had superseded. A temporary text outranks a
   permanent tombstone: a base text is repealed on day 2, a new text put in its
   place on day 3, and an event ends that on day 4; from then on the base text
   is the law of day 2 again. The docstring promises an end "without allowing older
   background text to revive".
2. `store_retry`. A recorder dies after opening a file and before writing it.
   The retry finds the path taken, skips it, and returns: the build is
   published, and its record or an edge is an empty file that nothing repairs.
   The docstring of `GraphStore` promises that every write is idempotent. No
   wrong answer follows (`ImplementsLedger` holds with crashes): every read of
   that directory raises from then on.
3. `norway_contested`. Of two legs that move one paragraph to two other places,
   both of them free, the ordering emits one, since its search marks sources.
   The verdict is taken on what was emitted, finds nothing contested, and the
   leg lands; the other gets no receipt. The docstring of the verdict lists a
   contested source as a reason for both to be refused
   (`norway/grafter.py:13030`).
4. `norway_staying`. A leg whose destination is its source closes on itself in
   the search for circles, so it is refused as unprovable, also if no other leg
   touches its address; what it is connected with is refused too. The same
   docstring says such a leg "joins its component but conflicts with nothing"
   (`norway/grafter.py:13048`). No text is lost by it.

Met on the way, in the kernel: renumberings of one wave read one frame but append
one after the other, so if 9 moves to 10 before 10 moves to 11, the tombstone of
the second move hides the text of the first (the compiler does not call the
ordering that would prevent it; `VacatingFirstLosesNoText` states the condition);
a text that arrives does not supersede a temporary text of its own act
(`core/timeline_selection.py:499` asks for another source), not even one that the
tombstone of another act had superseded there: act A writes a temporary text at 9, act B
renumbers 9 to 11, A renumbers 10 to 9, and on that day the temporary text is law
at 9 again and the text of 10 is law nowhere (five dates show it; `LeftTo` excepts it);
the sunset to inherit is looked up with no territory, so the replacement of a
temporary text limited to one is permanent; a renumbering gives the
moved text the expiry of its own events only, so a temporary text becomes
permanent by moving; heading-replace inherits no sunset; a text that a revive
event restarts under a temporary ancestor outlives it; an end event is ignored
when the latest version is a tombstone though an overlay governs. What two acts of one
day should leave, where the one repeals what the other moved, is written down
nowhere, and no property speaks of it: `PastIsSettled` is about earlier dates. The
properties above state their scope accordingly. In the store, a build recorded
again with another set of assertions keeps its first node on disk while the
record that comes last in hash order counts: a retract command then raises or
calls the build invalid, whichever set is right.

In the window scheduler: two versions of one act and one date keep the order of
the act's operations through the compiler's sort, but not through the scheduler's,
which puts the hash of the text last; the law of days far from the window may
change with it, where a comment (`tools/provision_state.py:699`) has everything
outside the window materialized correctly. `WindowsAreLocal` excepts such
timelines (`NoTies`), so it says nothing of such a pair. And a text of a window that an end event has cut short in the
meantime has another expiry than the window, is not recognized, and is spliced
again for the whole window: `NothingEndedReturns` holds of the compiler and not
of what the scheduler returns.

In the replay: paragraphs
sent to sections that are not there land under the root of the body, and two of
them with one number end the replay; legs of sections and of their paragraphs
are judged as if they had nothing to do with each other.

In the index: adoption is meant for CSVs from before there were sidecars
(`finland/amendment_index.py:799`), but on a first run a worker may find the CSV
another has just replaced and not yet labelled, and label it, without the lock, for an
archive that has changed since its build began; if the builder dies then,
the wrong label stays until the archive changes again. `doubtful` is this excuse:
`LabelIsTrue` and `ImplementsPromise` would not notice a fault in adoption.

In the blackboard: a loop ends at a "fixpoint" when the region of highest
priority gets nothing new, also if other regions are live and were never
scheduled (the docstring promises that none is left); "a CONTESTED region is
resolved by the LATEST decision on it" (`ingest/blackboard.py:1071`), but that
decision may lose its nodes to an older one on an overlapping region, a decision
a source takes again is no new one and so not the latest, and a conflict that
arises in the last round is never detected, so that the first decision wins; DEFER and
ESCALATE count as no progress, so a source that only defers ends the loop; each EXPAND may widen
a window by `max_context_pages`, where the docstring says in total; the
re-reads and escalations of a result are not used by
`defacsimile_blackboard`; and the `continue` of the loop is never reached, since a
conflict just marked is live.

## 4. What is proved

`CompileTimelinesProofs`, for all constants that satisfy `NoneAssumption` and
`CompileAssumption` (types of the constants; a base date that is not empty):

| Theorem | Statement | Argument |
|---|---|---|
| `TypeCorrect` | `Spec => []TypeOK` | One lemma per action. Two facts carry it: an inherited sunset lies after the operation's date (`InheritedType`), because only eligible versions are selected; and the sort is a permutation (`SortedType`), because places are distinct. |
| `CacheIsCoherent` | `Spec => []CacheCoherent` | Inductive with `TypeOK`. `CachedIsFresh` turns a cached read into a fresh one; `CacheStep` covers every operation: what was written is evicted, what was read was read before the write, and unread timelines did not change. |
| `FastPathIsSound` | `Spec => []SingleVersionAgrees` | `SingleVersion` compares the two paths case by case for one well-formed version. |
| `EndedTextStaysEnded` | `Spec => []NothingEndedReturns` | The property speaks of the selected version only and is not inductive: a version that loses today may win once another runs out. `EndsHold` is: *every* text that began before the last end of its provision has run out by then. A selected version is eligible (`LawIsEligible`), so it began at the end or later. |
| `ThePastIsSettled` | `Spec => PastIsSettled` | What a step appends begins on its own date, so it is not a candidate for earlier ones; positions of the others do not move; `SameLaw` says that equal candidates give equal answers. |
| `TheSortKeepsLaw` | `Spec => SortKeepsLaw` | The sort moves every version to its place (`SortRearranges`) and keeps the order of versions with the same dates; position breaks ties, and decides the rank of placeholders, among those only (`RearrangedKeepsLaw`). |
| `TheLaterActPrevails` | `Spec => LaterActPrevails` | The selector does not let a later act supersede an overlay that names no source, and base texts name none. `BaseHasRunOut` closes the gap: a text without a source is temporary only because an event ended it, and has run out by that event, so it is no candidate on the dates of what is written later. `NewestGoverns` does the rest: the newest version is picked on its own rail, and wins between the rails. |
| `SunsetsHold` | `OpActions ⊆ {insert, replace, repeal}`: `Spec => SunsetHolds` | `Appenders` says who may append what. Where only temporary texts are candidates one of them is selected, and no background lies beneath it (`TemporarySelection`); the sunset is read through a cache that is coherent (`CacheCoherent`), and a text inherits it (`TextInherits`). Headings and renumberings are assumed away because they inherit no sunset. |
| `RenumberingLosesNoText` | `Spec => VacatingFirstLosesNoText` | What moves is read from the frame of the wave, taken before the wave began. `SnapshotsHold`: a frame that can still be read shows each address as it is, or its day's acts have written there. The moved text then has to be selected where it arrives (`ArrivalGoverns`): it outranks the permanent versions of its day, since an absence of its own act has the act's date of enactment (`AbsencesAreDated`) and comes earlier; and it supersedes the overlay that something permanent superseded before it. |
| `ChildrenDieWithParents` | the same operations: `Spec => ChildDiesWithParent` | Where no candidate is in force nothing is selected (`NothingSelected`), so the sunset is the nearest ancestor's, which lies after the date of the operation (`InheritedType`). |

And of the compiler with its scheduler, from the same assumptions and
`WindowAssumption` (types):

| Theorem | Statement | Argument |
|---|---|---|
| `WindowInvariant`, `WindowTypeCorrect` | `WindowSpec => []WindowInv`, `[]WindowTypeOK` | No window is taken before the sort; each that was is a break, or its text stands in a timeline of its section. A splice keeps all versions at other positions (`SpliceKeeps`), because a sort is a bijection. |
| `ScheduleIsLocal` | `WindowSpec => WindowsAreLocal` | On a day outside the window the new version is no candidate, and the others were moved (`SpliceRearranges`), so `RearrangedKeepsLaw` applies: without ties the order of ranks is the order of dates. |
| `WindowDaysAreAnswered` | `WindowSpec => []WindowsAreAnswered` | The text is there by the invariant; where it applies it is a candidate of the overlay rail, and what governs beside an overlay began no earlier (`OverlayReaches`). |

`SelectionProofs` holds what they rest on: ranking is a strict total order on
distinct candidates, so `PickLatest` picks one of them (`BestExists`); a
selection depends on the candidates only (`SelectByCandidates`); an ineligible
version may be appended without effect (`AppendKeepsLaw`); a timeline rearranged
that keeps the order of equal dates, with ineligible versions among it, answers as before
(`RearrangedKeepsLaw`); a
later text of another act governs (`NewestGoverns`).

`OrderingProofs` and `ReplayProofs`, for all constants that satisfy
`OrderingAssumption` and `ReplayAssumption` (types of programs and laws; a leg
makes a section of a section and a ledd of a ledd; the answer to an operation
not yet applied is none of the answers):

| Theorem | Statement | Argument |
|---|---|---|
| `LegsAreOrdered` | `OrderSpec => []VacatedFirst` | The stack is a path on which each leg waits for the one above it (`StackIsPath`). When the search stops at a leg, the leg that vacates its destination is emitted, or on the stack, which closes a circle, or its target was visited, and then by a leg that also vacates (`StopsForReason`). |
| `ReplayInvariant` | `Spec => []ReplayInv` | `OrderingInv`: an act's targets are emitted once, acts in turn, their legs together. `Vacancy`: where a leg of a provable component has taken a section away, one stands again only if a later operation put it there: a leg of the act with that destination, or what is no leg of the act. |
| `ReplayTypeCorrect` | `Spec => []TypeOK` | A part of the invariant, and `OrderedInv`. |
| `LawInForceIsKept` | `Spec => NothingInForceIsLost` | Of paragraphs only: a leg lands only on a label that is free, or was its own (`MoveLosesNothing`, `NoLabelTwice`); an insertion that must find its address vacated, and finds a text, refuses or recovers (`NewTextHidesNothing`). |
| `VerdictsAreExact` | where no act of the programs sends one provision to two places (`OneDestination`): `Spec => []VerdictIsExact`, whose own hypothesis is that the connected legs go elsewhere (`GoElsewhere`) | The code looks for three patterns, the property asks whether some order of a component fits. If none of the patterns is there, sources and destinations are one to one (`OneToOne`), some leg waits for none of those left (`AlwaysAnEnd`, a finite set without a circle has an end), and an order is built leg by leg (`OneMoreInOrder`, `OrderExists`); if an order fits, a circle or a contested end in it contradicts itself (`OrderedDoNotClash`). `JudgedExactly` says so of the pairs that were emitted, without `OneDestination`. |
| `LegsAreOneRelabelling` | where no leg of the programs takes a paragraph from under the root of the body (`NoLegFromRoot`): `Spec => []LegsMoveAtOnce` | The search finds the paragraphs of an act before its sections (`RootIsDeepest`, `KindsInTurn`) and nothing comes between its legs (`LegsTogether`). A leg that lands has a target no leg before it had or wrote to, and a destination of its own (`MovedBefore`: `VacatedFirst`, `TargetsOnce`, and the refusals of contested ends and circles), so moving it last is moving it with the others (`OneMoreLedd`, `OneMoreSection`); what was cleared for a section is overwritten in any case (`ClearedFirst`). `MovedSoFar` says so after every leg, and is inductive. |
| `ReplayVacatesFirst` | `Spec => []VacatedFirst` | The replay leaves the order alone. |
| `NoLabelTwice` | `Spec => []LabelsStayUnique` | If a section stands at the destination of a leg of the same act that is a source too, the leg that should have vacated it came earlier and landed or was refused; circles and contested ends were refused by the verdict (`CircleIsRefused`, `ContestedIsRefused`), so `Vacancy` says the place is empty. |

`IndexProofs`, for all constants that satisfy `IndexAssumption` (the values
that stand for nothing are no versions; no file is newer than the archive in the
beginning, no sidecar says more than is true):

| Theorem | Statement | Argument |
|---|---|---|
| `IndexInvariant` | `Spec => []IndexInv` | One lemma per action. What carries it: the holder of the lock is the only builder (`LockIsHeld`), builds what is newer than what is there (`BuildIsNewer`), and labels it no newer than it is (`LabelIsDue`), although its fingerprint is older than its lock. |
| `IndexTypeCorrect`, `SidecarIsTrue` | `[]TypeOK`, `[]LabelIsTrue` | Parts of the invariant. |
| `CsvNeverGoesBack` | `Spec => IndexNeverGoesBack` | Only `ReplaceCsv` writes, and `BuildIsNewer`. |
| `CacheKeepsPromise` | `Spec => ImplementsPromise` | `Call` is `Ask` or `AskBlindly`, `Recall` and `Read` are `Answer`, the faults `Fail` or `LoseSight`, `Adopt` is `Doubt`; the rest stutters. What is answered was remembered for the version asked for (`MemoIsShown`) or is read under a label (`ReadIsShown`). |

`BlackboardProofs`, for all constants that satisfy `BlackboardAssumption` (types;
regions are not empty, their places differ, the composer's chains are disjoint;
finitely many regions, pages and sources):

| Theorem | Statement | Argument |
|---|---|---|
| `BlackboardInvariant` | `Spec => []BlackboardInv` | No result before the rounds end; every conflict is marked while a source is scheduled (`ConflictsMarked`); owned nodes are exactly the claimed ones; every claim is of a decision that had its turn. |
| `EveryRoundIsPaid` | `Spec => []RoundsArePaid` | Each round before the last adds a mark, a decision or a page to a window, so the count grows with the rounds; marks and windows never shrink, and counting them needs the finiteness of regions, pages and sources. |
| `BlackboardTypeCorrect`, `NodesHaveOneOwner`, `EveryDecisionIsHeard`, `FixpointSeesContests` | `[]TypeOK`, `[]OneOwner`, `[]DecisionsAreHeard`, `[]ContestsAreSeen` | Parts of it. A round that ends in a fixpoint has posted no decision, so what was marked at its beginning is all there is. |

`ProvenanceProofs`, for all constants that satisfy `SentinelAssumption` (the
values that stand for nothing are none of the values) and `StoreAssumption`
(types of the constants; recorders are not operators, build ids are no object
ids; `HashOrder` orders the records of a build; there are finitely many
assertions, which only the comparison of counts in `Status` needs):

| Theorem | Statement | Argument |
|---|---|---|
| `StoreInvariant` | `Spec => []IInv` | One lemma per action; `WritingKeepsReaders`, `RecorderKeepsReaders` and `OperatorStep` say once what a step of one process leaves alone in the others. |
| `StoreTypeCorrect` | `Spec => []TypeOK` | A part of `IInv`. |
| `StoreImplementsLedger` | `Spec => ImplementsLedger` | `Close` of a retraction is the ledger's `Retract`, `Publish` its `Publish`, `StartReading` its `Ask`, `Report` and `Raise` its `Answer`; the rest stutters or forgets a question (`StepImplements`). |

Why the invariant is needed. `Open` truncates a file that may have been
complete, so that retractions only grow is not obvious: it holds since each
retraction has a name of its own and one writer (`RetractionsAreFresh`). That a
report lists a build rests on three facts in turn: the edges of a recording that
returned are on disk (`EdgesAreKept`), perhaps torn; a directory that can be
read holds them whole (`NamesHold`, `ReadEdges`); and what a reader loaded after the
question was asked therefore has them (`QuestionsAreServed`).

`WholeStoreProofs`, from the same assumptions:

| Theorem | Statement | Argument |
|---|---|---|
| `StoreIsWhole` | `Spec => []WholeInv` | `IInv`, and as long as nobody has died: a torn file is open for writing (`TornIsOpen`), every file on disk, on a list or in a loaded graph is of a recording that is published or under way (`Founded`), and what a process set out to write is there or on its list (`FilesAreKept`). |
| `ReadsFailForCause` | `Spec => []RaisesForCause` | With nothing torn, a read fails where a node of a build holds another record than expected (`WholeFile`); both records are `Founded`, so the build was recorded twice (`CauseOfRaise`). |
| `StoreAtRestIsExact` | `Spec => []QuietStoreIsExact` | At rest every file of a published recording is there (`FilesAreKept`), whole, and of that recording, so its edges are those of its record (`AtRest`), one for each assertion (`OneEdgeEach`). |

The hypothesis that nobody died is needed: `store_retry` shows what is left
otherwise.

The verdict is not exact where an act sends one paragraph to two places: the
code reads such legs twice, which is the divergence `norway_contested` shows, and
the reason for the hypothesis `OneDestination`. Nor is it exact where a leg goes
nowhere, which is the divergence of `norway_staying`.

`LegsMoveAtOnce` is false where a leg takes a paragraph from under the root: one
leg of the act may have put it there, its section being gone, and the next moves
it on, although it was not there when the act began. Lovdata names the section
of a paragraph it moves (`lov/X/§3/ledd/2`, norway/grafter.py:2902), which is
the hypothesis `NoLegFromRoot`.

Checked by TLC only: `RetractionIsReported`, `CallEnds` and `ReplayEnds`, which
are liveness. Out of the prover's reach, wherever they
come: liveness under fairness, `ENABLED`, and what recursive
definitions compute for every input.

## 5. What is not modelled, and the plan

Not modelled for good: parsing of amendment text, acquisition over HTTP,
archives, exports (text processing and I/O); tree operations on text (content
is opaque here); pure audits of one call (apply seam, write receipts, timeline
invariants, occupancy, branch authority).

Left for later, and why:

1. `TemporalOverrides`: matching of events to operations by group and scope,
   earliest commencement, earliest expiry, contingent events. `CompileTimelines`
   draws every combination of the dates instead, which is more than the code
   derives: what holds there holds with it.
2. `PointInTimeLaw`: an abstract specification of the kernel (one text per
   provision, date and territory) needs the conditions under which the code has
   one; the properties in `TimelineLaws` are those found so far.
3. `Lineage` (walks over migration events) and
   point-in-time materialization (masking of children by parents) work on the
   compiler's result and can be modelled on top of `VersionSelection`.
4. The older claim store (`core/manual_claims/storage.py`): an event log with
   the same failure as `store_retry`, and a projection.
5. In the replay, items and sentences, and replacements; in the blackboard the
   resolution of escalations.
