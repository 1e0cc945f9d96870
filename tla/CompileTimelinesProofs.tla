------------------------- MODULE CompileTimelinesProofs -------------------------
(***************************************************************************)
(* For every base statute, every set of addresses and acts and every       *)
(* sequence of operations and events: the timelines are well formed, the   *)
(* selection cache is never stale, what an event ended does not return,    *)
(* and no operation rewrites the past.                                     *)
(***************************************************************************)
EXTENDS WindowLaws, SelectionProofs

USE NoneAssumption, CompileAssumption

-----------------------------------------------------------------------------
(***************************************************************************)
(* Inputs.                                                                 *)
(***************************************************************************)
LEMMA OpsType ==
    ASSUME NEW op \in Ops
    PROVE  /\ op.target \in Addr /\ op.destination \in Addr
           /\ op.effective \in Nat /\ op.expires \in Nat
           /\ op.effective # NoDate
           /\ op.payload \in Content
           /\ op.source \in Sources /\ Enacted[op.source] \in Nat
           /\ op.scope \in SUBSET Territories
           /\ op.action = "renumber" => op.destination # op.target
<1>1. Dates \in SUBSET (Nat \ {0}) /\ Expiries \in SUBSET Nat
  BY CompileAssumption DEF Dates, NoDate
<1>2. NoContent \in Content
  BY DEF NoContent, Content
<1> QED
  BY <1>1, <1>2 DEF Ops, NoDate

\* The fields of a standalone event have their types.
LEMMA EventsType ==
    ASSUME NEW ev \in Events
    PROVE  /\ ev.addresses \in SUBSET Addr
           /\ ev.date \in Nat
           /\ ev.date # NoDate
           /\ ev.source \in Sources /\ Enacted[ev.source] \in Nat
           /\ ev.scope \in SUBSET Territories
<1>1. Dates \in SUBSET (Nat \ {0})
  BY DEF Dates
<1> QED
  BY <1>1 DEF Events, NoDate

\* A version built from typed fields is one the ProvisionVersion
\* constructor accepts.
LEMMA VersionFields ==
    ASSUME NEW v \in Version
    PROVE  /\ v.effective \in Nat /\ v.enacted \in Nat /\ v.expires \in Nat
           /\ v.content \in Content
           /\ v.source \in Sources \cup {None}
           /\ v.scope \in SUBSET Territories
           /\ v.kind = KindFor(v.expires)
           /\ v.expires # NoDate => v.expires >= v.effective
BY DEF Version

\* What an operation writes begins on the operation's date.
LEMMA VersionOfFields ==
    ASSUME NEW effective \in Nat, NEW enacted \in Nat, NEW expires \in Nat,
           expires = NoDate \/ expires >= effective,
           NEW content \in Content, NEW source \in Sources \cup {None},
           NEW scope \in SUBSET Territories
    PROVE  [effective |-> effective, enacted |-> enacted, expires |-> expires,
            kind |-> KindFor(expires), content |-> content, source |-> source,
            scope |-> scope] \in Version
BY DEF Version, KindFor

-----------------------------------------------------------------------------
(***************************************************************************)
(* What is read of the timelines has the types of the timelines.           *)
(***************************************************************************)
LEMMA CachedType ==
    ASSUME TypeOK, NEW a \in Addr, NEW date \in Nat
    PROVE  SelectCached(a, date) \in Selection /\ ActiveAt(a, date) \in Version
<1>1. SelectCached(a, date) \in Selection
  <2>1. CASE Hits(a, date) # {}
    <3>1. (CHOOSE e \in Hits(a, date) : TRUE) \in Hits(a, date)
      BY <2>1
    <3> QED
      BY <2>1, <3>1 DEF SelectCached, Hits, TypeOK, Entry
  <2>2. CASE Hits(a, date) = {}
    BY <2>2, GoverningType, SelectActiveType DEF SelectCached, TypeOK
  <2> QED
    BY <2>1, <2>2
<1> QED
  BY <1>1 DEF ActiveAt, Selection

\* A dying ancestor nearest to the address exists if there is one at all.
LEMMA NearestExists ==
    ASSUME NEW S \in SUBSET Addr, S # {}, NEW limit \in Nat,
           \A p \in S : Len(p) < limit
    PROVE  \E p \in S : \A n \in S : Len(n) <= Len(p)
<1> DEFINE gaps == {limit - Len(p) : p \in S}
<1>1. \A p \in S : Len(p) \in Nat /\ limit - Len(p) \in Nat
  OBVIOUS
<1>2. gaps \in SUBSET Nat /\ gaps # {}
  BY <1>1
<1>3. PICK g \in gaps : \A h \in gaps : g <= h
  BY <1>2, LeastNatural
<1>4. PICK p \in S : g = limit - Len(p)
  BY <1>3
<1>5. \A n \in S : limit - Len(n) \in gaps
  OBVIOUS
<1> HIDE DEF gaps
<1>6. \A n \in S : limit - Len(p) <= limit - Len(n)
  BY <1>3, <1>4, <1>5
<1> QED
  BY <1>1, <1>6

\* An inherited sunset is none at all, or lies after the operation's date,
\* so that it never misdates a version.
LEMMA InheritedType ==
    ASSUME TypeOK, NEW a \in Addr, NEW date \in Nat
    PROVE  /\ InheritedExpiry(a, date) \in Nat
           /\ InheritedExpiry(a, date) = NoDate \/ InheritedExpiry(a, date) > date
           /\ ~ TargetDecides(a, date) /\ (\E p \in Ancestors(a) : Dies(p, date))
                  => InheritedExpiry(a, date) # NoDate
<1>1. \A p \in Addr : ActiveAt(p, date).expires \in Nat
  BY CachedType, VersionFields
<1>2. CASE TargetDecides(a, date)
  <2>1. \/ InheritedExpiry(a, date) = NoDate
        \/ /\ InheritedExpiry(a, date) = ActiveAt(a, date).expires
           /\ ActiveAt(a, date).expires > date + 1
    BY <1>2 DEF InheritedExpiry
  <2> QED
    BY <1>1, <1>2, <2>1 DEF NoDate
<1>3. CASE ~ TargetDecides(a, date)
  <2> DEFINE dying == {p \in Ancestors(a) : Dies(p, date)}
             nearest == CHOOSE p \in dying : \A n \in dying : Len(n) <= Len(p)
  <2>1. InheritedExpiry(a, date) =
          IF dying = {} THEN NoDate ELSE ActiveAt(nearest, date).expires
    BY <1>3 DEF InheritedExpiry
  <2>2. ASSUME dying # {} PROVE nearest \in dying
    <3>1. dying \in SUBSET Addr /\ \A p \in dying : Len(p) < Len(a)
      BY DEF Ancestors
    <3> HIDE DEF dying
    <3>2. Len(a) \in Nat
      OBVIOUS
    <3>3. \E p \in dying : \A n \in dying : Len(n) <= Len(p)
      BY <2>2, <3>1, <3>2, NearestExists
    <3> QED
      BY <3>3
  <2>3. \A p \in dying : p \in Addr /\ ActiveAt(p, date).expires > date
    BY DEF Ancestors, Dies
  <2> QED
    BY <1>1, <2>1, <2>2, <2>3 DEF NoDate
<1> QED
  BY <1>2, <1>3

\* The latest version in force, and the latest text, are well formed (or
\* there is none).
LEMMA LatestType ==
    ASSUME NEW vs \in Seq(Version), NEW date \in Nat
    PROVE  /\ Latest(vs, date) \in Version
           /\ Latest(vs, date).expires = NoDate \/ Latest(vs, date).expires > date
           /\ LatestSubstantive(vs, date) \in Version
<1> DEFINE J == {j \in DOMAIN vs : /\ vs[j].effective <= date
                                   /\ ~ IsAbsent(vs[j].content)}
           D == {[at |-> i, version |-> vs[i]] : i \in J}
           C == Candidates(vs, Governing(date))
<1>1. NoCandidate.version \in Version /\ NoCandidate.version.expires = NoDate
  BY NoVersionType DEF NoCandidate, NoVersion
<1>2. PickLatest(C) = NoCandidate \/ PickLatest(C) \in C
  BY PickLatestSome
<1>3. \A c \in C : /\ c.version \in Version
                   /\ c.version.expires = NoDate \/ c.version.expires > date
  <2>1. Horizon(Governing(date)) = date
    BY DEF Horizon, Governing
  <2> QED
    BY <2>1, CandidatesType DEF Candidate, Eligible
<1>4. D \in SUBSET Candidate /\ IsFiniteSet(D) /\ Distinct(D)
  BY PositionsType
<1>5. PickLatest(D) = NoCandidate \/ PickLatest(D) \in D
  <2>1. CASE D = {}
    BY <2>1 DEF PickLatest
  <2>2. CASE D # {}
    BY <1>4, <2>2, PickLatestMember
  <2> QED
    BY <2>1, <2>2
<1>6. Latest(vs, date) = PickLatest(C).version
  BY DEF Latest
<1>7. LatestSubstantive(vs, date) = PickLatest(D).version
  BY DEF LatestSubstantive
<1>8. \A d \in D : d.version \in Version
  BY <1>4 DEF Candidate
<1> HIDE DEF C, D, J
<1> QED
  BY <1>1, <1>2, <1>3, <1>5, <1>6, <1>7, <1>8

\* The cache holds well-formed entries after reads and evictions.
LEMMA CacheAfterType ==
    ASSUME TypeOK, NEW read \in SUBSET Addr, NEW date \in Nat, NEW written
    PROVE  CacheAfter(read, date, written) \in SUBSET Entry
<1>1. \A a \in read : [addr |-> a, date |-> date, result |-> SelectCached(a, date)] \in Entry
  BY CachedType DEF Entry
<1> QED
  BY <1>1 DEF CacheAfter, TypeOK

\* An operation reads selections of known addresses only.
LEMMA ReadsType ==
    ASSUME NEW op \in Ops
    PROVE  /\ ResolutionReads(op) \in SUBSET Addr
           /\ InheritanceReads(op.target, op.effective) \in SUBSET Addr
           /\ FrameReads(op) \in SUBSET Addr
<1>1. op.target \in Addr
  BY OpsType
<1>2. \A a : Ancestors(a) \in SUBSET Addr
  BY DEF Ancestors
<1> QED
  BY <1>1, <1>2 DEF ResolutionReads, InheritanceReads, FrameReads, Nearest

\* A wave's snapshot holds a well-formed version, or none, for each
\* address.
LEMMA FrameType ==
    ASSUME TypeOK, NEW op \in Ops
    PROVE  /\ FrameOf(op) \in [Addr -> Version]
           /\ SnapshotsAfter(op) \in SUBSET Snapshot
<1>1. op.effective \in Nat /\ op.source \in Sources
  BY OpsType
<1>2. FrameNow(op.effective) \in [Addr -> Version]
  BY <1>1, CachedType, NoVersionType DEF FrameNow
<1>3. Wave(op) \in SUBSET Snapshot
  BY DEF Wave, TypeOK
<1>4. FrameOf(op) \in [Addr -> Version]
  <2>1. CASE Wave(op) # {}
    <3>1. (CHOOSE s \in Wave(op) : TRUE) \in Snapshot
      BY <1>3, <2>1
    <3> QED
      BY <2>1, <3>1 DEF FrameOf, Snapshot
  <2>2. CASE Wave(op) = {}
    BY <1>2, <2>2 DEF FrameOf
  <2> QED
    BY <2>1, <2>2
<1>5. SnapshotsAfter(op) \in SUBSET Snapshot
  BY <1>1, <1>2 DEF SnapshotsAfter, Snapshot, TypeOK
<1> QED
  BY <1>4, <1>5

-----------------------------------------------------------------------------
(***************************************************************************)
(* The final sort is a permutation: places are distinct numbers of 1..Len. *)
(***************************************************************************)
LEMMA SortsBeforeOrder ==
    ASSUME NEW vs \in Seq(Version), NEW i \in DOMAIN vs, NEW j \in DOMAIN vs,
           NEW k \in DOMAIN vs
    PROVE  /\ ~ SortsBefore(vs, i, i)
           /\ i # j => SortsBefore(vs, i, j) \/ SortsBefore(vs, j, i)
           /\ SortsBefore(vs, i, j) /\ SortsBefore(vs, j, k) => SortsBefore(vs, i, k)
<1>1. ASSUME NEW x \in DOMAIN vs
      PROVE  vs[x].effective \in Nat /\ vs[x].enacted \in Nat /\ x \in Nat
  <2>1. vs[x] \in Version /\ x \in Nat
    OBVIOUS
  <2> QED
    BY <2>1, VersionFields
<1>2. ~ SortsBefore(vs, i, i)
  BY <1>1 DEF SortsBefore
<1>3. i # j => SortsBefore(vs, i, j) \/ SortsBefore(vs, j, i)
  BY <1>1 DEF SortsBefore
<1>4. SortsBefore(vs, i, j) /\ SortsBefore(vs, j, k) => SortsBefore(vs, i, k)
  BY <1>1 DEF SortsBefore
<1> QED
  BY <1>2, <1>3, <1>4

\* The place of a version after the sort follows the sort order.
LEMMA PlaceIncreases ==
    ASSUME NEW vs \in Seq(Version), NEW i \in DOMAIN vs, NEW j \in DOMAIN vs
    PROVE  /\ Place(vs, i) \in DOMAIN vs
           /\ SortsBefore(vs, i, j) => Place(vs, i) < Place(vs, j)
<1> DEFINE n == Len(vs)
           below(x) == {y \in DOMAIN vs : SortsBefore(vs, y, x)}
<1>1. n \in Nat /\ DOMAIN vs = 1..n
  OBVIOUS
<1>2. IsFiniteSet(DOMAIN vs) /\ Cardinality(DOMAIN vs) = n
  <2> HIDE DEF n
  <2>1. IsFiniteSet(1..n) /\ Cardinality(1..n) = n
    BY <1>1, FS_Interval
  <2> QED
    BY <1>1, <2>1
<1>3. ASSUME NEW x \in DOMAIN vs
      PROVE  /\ IsFiniteSet(below(x))
             /\ Cardinality(below(x)) \in Nat
             /\ x \notin below(x)
             /\ Cardinality(below(x) \cup {x}) = Cardinality(below(x)) + 1
             /\ Cardinality(below(x) \cup {x}) <= n
  <2>1. x \notin below(x)
    BY SortsBeforeOrder
  <2>2. IsFiniteSet(below(x)) /\ below(x) \cup {x} \in SUBSET DOMAIN vs
    BY <1>2, FS_Subset
  <2> HIDE DEF below
  <2>3. Cardinality(below(x) \cup {x}) = Cardinality(below(x)) + 1
    BY <2>1, <2>2, FS_AddElement
  <2> QED
    BY <1>2, <2>1, <2>2, <2>3, FS_Subset, FS_CardinalityType
<1>4. \A x \in DOMAIN vs : Place(vs, x) = 1 + Cardinality(below(x))
  BY DEF Place
<1>5. ASSUME SortsBefore(vs, i, j)
      PROVE  Cardinality(below(i) \cup {i}) <= Cardinality(below(j))
  <2>1. below(i) \cup {i} \in SUBSET below(j)
    BY <1>5, SortsBeforeOrder
  <2> QED
    BY <1>3, <2>1, FS_Subset
<1> HIDE DEF below, n
<1>6. Cardinality(below(i)) + 1 <= n /\ Cardinality(below(i)) \in Nat
  <2>1. /\ Cardinality(below(i)) \in Nat
        /\ Cardinality(below(i) \cup {i}) = Cardinality(below(i)) + 1
        /\ Cardinality(below(i) \cup {i}) <= n
    BY <1>3
  <2> QED
    BY <2>1
<1>7. Place(vs, i) \in 1..n
  BY <1>1, <1>4, <1>6
<1>8. ASSUME SortsBefore(vs, i, j) PROVE Place(vs, i) < Place(vs, j)
  <2>1. /\ Cardinality(below(i)) + 1 <= Cardinality(below(j))
        /\ Cardinality(below(j)) \in Nat
    BY <1>3, <1>5, <1>8
  <2> QED
    BY <1>4, <1>6, <2>1
<1> QED
  BY <1>1, <1>7, <1>8

\* Every place is taken.
LEMMA PlacesAreTaken ==
    ASSUME NEW vs \in Seq(Version)
    PROVE  \A p \in DOMAIN vs : \E i \in DOMAIN vs : Place(vs, i) = p
<1> DEFINE n == Len(vs)
           f == [i \in 1..n |-> Place(vs, i)]
<1>1. n \in Nat /\ DOMAIN vs = 1..n
  OBVIOUS
<1> HIDE DEF f
<1>2. \A i, j \in DOMAIN vs : /\ Place(vs, i) \in 1..n
                              /\ SortsBefore(vs, i, j) => Place(vs, i) < Place(vs, j)
  BY PlaceIncreases
<1> HIDE DEF n
<1>a. f \in [1..n -> 1..n] /\ \A i \in 1..n : f[i] = Place(vs, i)
  BY <1>1, <1>2 DEF f
<1>3. ASSUME NEW i \in 1..n, NEW j \in 1..n, i # j PROVE f[i] # f[j]
  <2>1. Place(vs, i) \in 1..n /\ Place(vs, j) \in 1..n
    BY <1>1, <1>2
  <2>2. SortsBefore(vs, i, j) \/ SortsBefore(vs, j, i)
    BY <1>1, <1>3, SortsBeforeOrder
  <2>3. Place(vs, i) < Place(vs, j) \/ Place(vs, j) < Place(vs, i)
    BY <1>1, <1>2, <2>2
  <2> QED
    BY <1>a, <2>1, <2>3
<1>4. f \in Injection(1..n, 1..n)
  BY <1>a, <1>3 DEF Injection, IsInjective
<1>5. IsFiniteSet(1..n)
  BY <1>1, FS_Interval
<1>6. f \in Surjection(1..n, 1..n)
  BY <1>4, <1>5, FS_Injection
<1>7. \A p \in 1..n : \E i \in 1..n : Place(vs, i) = p
  BY <1>a, <1>6 DEF Surjection
<1> QED
  BY <1>1, <1>7

\* The sort of step 3 permutes a timeline: every version keeps exactly one
\* place.
LEMMA SortedType ==
    ASSUME NEW vs \in Seq(Version)
    PROVE  /\ Sorted(vs) \in Seq(Version)
           /\ Len(Sorted(vs)) = Len(vs)
           /\ \A p \in DOMAIN Sorted(vs) : \E i \in DOMAIN vs : Sorted(vs)[p] = vs[i]
<1> DEFINE n == Len(vs)
<1>1. n \in Nat /\ DOMAIN vs = 1..n
  OBVIOUS
<1> HIDE DEF n
<1>7. \A p \in 1..n : \E i \in 1..n : Place(vs, i) = p
  BY <1>1, PlacesAreTaken
<1> DEFINE at(p) == CHOOSE i \in DOMAIN vs : Place(vs, i) = p
<1>8. \A p \in 1..n : at(p) \in DOMAIN vs
  BY <1>1, <1>7
<1>9. Sorted(vs) = [p \in 1..n |-> vs[at(p)]]
  BY <1>1 DEF Sorted, n
<1> HIDE DEF at
<1>10. \A p \in 1..n : vs[at(p)] \in Version
  BY <1>8
<1>11. Sorted(vs) \in [1..n -> Version]
  BY <1>9, <1>10
<1>12. Sorted(vs) \in Seq(Version) /\ Len(Sorted(vs)) = n
  BY <1>1, <1>11
<1>13. \A p \in DOMAIN Sorted(vs) : \E i \in DOMAIN vs : Sorted(vs)[p] = vs[i]
  BY <1>8, <1>9
<1> QED
  BY <1>12, <1>13 DEF n

-----------------------------------------------------------------------------
(***************************************************************************)
(* Every step but an end event and the sort only appends to timelines, and *)
(* what it appends begins no earlier than the item that writes it.         *)
(***************************************************************************)
AppendsTo(a, w) ==
    /\ w \in Version
    /\ w.source \in Sources
    /\ timelines'[a] = Append(timelines[a], w)
    /\ w.effective >= opDate'
    /\ w.effective >= eventDate'

Grows ==
    /\ timelines' \in [Addr -> Seq(Version)]
    /\ \A a \in Addr : timelines'[a] = timelines[a] \/ \E w : AppendsTo(a, w)

\* Taking an operation keeps the counters in range and moves the date
\* forward.
LEMMA DueType ==
    ASSUME TypeOK, NEW op \in Ops, Due(op)
    PROVE  /\ opDate' = op.effective /\ opDate' \in Nat
           /\ eventDate' = eventDate /\ eventDate' \in Nat
           /\ taken' \in 0..MaxItems
           /\ ended' = ended /\ ended' \in [Addr -> Nat]
           /\ op.effective >= opDate /\ op.effective >= eventDate
           /\ taken' # taken
BY OpsType DEF TypeOK, Due

\* Insert, replace, heading-replace and repeal keep the types, and append
\* one version that begins on the operation's date.
LEMMA WriteStep ==
    ASSUME TypeOK, NEW op \in Ops, Write(op)
    PROVE  TypeOK' /\ Grows
<1> DEFINE w == VersionOf(op, ExpiryOf(op))
<1>1. /\ op.target \in Addr /\ op.effective \in Nat /\ op.expires \in Nat
      /\ op.payload \in Content /\ op.source \in Sources
      /\ Enacted[op.source] \in Nat /\ op.scope \in SUBSET Territories
  BY OpsType
<1>2. Due(op)
  BY DEF Write
<1>3. ExpiryOf(op) \in Nat /\ (ExpiryOf(op) = NoDate \/ ExpiryOf(op) >= op.effective)
  <2>1. CASE Inherits(op)
    <3> DEFINE e == InheritedExpiry(op.target, op.effective)
    <3>1. e \in Nat /\ (e = NoDate \/ e > op.effective)
      BY <1>1, InheritedType
    <3>2. ExpiryOf(op) = e
      BY <2>1 DEF ExpiryOf
    <3> HIDE DEF e
    <3> QED
      BY <1>1, <3>1, <3>2
  <2>2. CASE ~ Inherits(op)
    BY <1>1, <2>2 DEF ExpiryOf, Write, Misdated
  <2> QED
    BY <2>1, <2>2
<1>4. Numbered(op.payload) \in Content
  <2>1. taken + 1 \in Nat
    BY DEF TypeOK
  <2> QED
    BY <1>1, <2>1 DEF Numbered, Content
<1>5. w \in Version /\ w.effective = op.effective /\ w.source \in Sources
  BY <1>1, <1>3, <1>4, VersionOfFields DEF VersionOf
<1>6. timelines' = [timelines EXCEPT ![op.target] = Append(@, w)]
  BY DEF Write
<1> HIDE DEF w
<1>7. Grows
  <2>1. timelines' \in [Addr -> Seq(Version)]
    BY <1>1, <1>5, <1>6 DEF TypeOK
  <2>2. \A a \in Addr : a # op.target => timelines'[a] = timelines[a]
    BY <1>6 DEF TypeOK
  <2>3. AppendsTo(op.target, w)
    BY <1>1, <1>2, <1>5, <1>6, DueType DEF AppendsTo, TypeOK
  <2> QED
    BY <2>1, <2>2, <2>3 DEF Grows
<1>8. cache' \in SUBSET Entry
  BY <1>1, ReadsType, CacheAfterType DEF Write
<1>9. snapshots' = snapshots /\ phase' = phase
  BY DEF Write
<1> QED
  BY <1>2, <1>7, <1>8, <1>9, DueType DEF TypeOK, Grows

\* A skipped operation keeps the types and writes nothing.
LEMMA SkipWriteStep ==
    ASSUME TypeOK, NEW op \in Ops, SkipWrite(op)
    PROVE  TypeOK' /\ Grows
<1>1. Due(op) /\ UNCHANGED <<timelines, snapshots, phase>>
  BY DEF SkipWrite
<1>2. cache' \in SUBSET Entry
  BY OpsType, ReadsType, CacheAfterType DEF SkipWrite
<1> QED
  BY <1>1, <1>2, DueType DEF TypeOK, Grows

\* A renumbering keeps the types, and appends the moved text and a
\* tombstone that begin on its date.
LEMMA RenumberStep ==
    ASSUME TypeOK, NEW op \in Ops, Renumber(op)
    PROVE  TypeOK' /\ Grows
<1> DEFINE v == FrameOf(op)[op.target]
           w == MovedVersion(op, v)
           t == Tombstone(op)
<1>1. /\ op.target \in Addr /\ op.destination \in Addr
      /\ op.destination # op.target
      /\ op.effective \in Nat /\ op.expires \in Nat
      /\ op.source \in Sources /\ Enacted[op.source] \in Nat
      /\ op.scope \in SUBSET Territories
  BY OpsType DEF Renumber
<1>2. Due(op)
  BY DEF Renumber
<1>3. v \in Version
  BY <1>1, FrameType
<1>4. w \in Version /\ w.effective = op.effective /\ w.source \in Sources
  <2>1. v.content \in Content /\ v.scope \in SUBSET Territories
    BY <1>3, VersionFields
  <2>2. op.expires = NoDate \/ op.expires >= op.effective
    BY <1>1 DEF Renumber, Misdated
  <2> HIDE DEF v
  <2> QED
    BY <1>1, <2>1, <2>2, VersionOfFields DEF MovedVersion
<1>5. t \in Version /\ t.effective = op.effective /\ t.source \in Sources
  <2>1. NoContent \in Content /\ NoDate \in Nat /\ KindFor(NoDate) = "permanent"
    BY DEF NoContent, Content, NoDate, KindFor
  <2> QED
    BY <1>1, <2>1, VersionOfFields DEF Tombstone
<1>6. timelines' = [timelines EXCEPT ![op.destination] = Append(@, w),
                                     ![op.target]      = Append(@, t)]
  BY DEF Renumber
<1> HIDE DEF v, w, t
<1>7. Grows
  <2>1. timelines' \in [Addr -> Seq(Version)]
    <3>1. /\ Append(timelines[op.target], t) \in Seq(Version)
          /\ Append(timelines[op.destination], w) \in Seq(Version)
      BY <1>1, <1>4, <1>5 DEF TypeOK
    <3>2. timelines' = [a \in Addr |->
              IF a = op.target THEN Append(timelines[op.target], t)
              ELSE IF a = op.destination THEN Append(timelines[op.destination], w)
              ELSE timelines[a]]
      BY <1>1, <1>6 DEF TypeOK
    <3> QED
      BY <3>1, <3>2 DEF TypeOK
  <2>2. \A a \in Addr : a \notin {op.target, op.destination} =>
            timelines'[a] = timelines[a]
    BY <1>6 DEF TypeOK
  <2>3. op.effective >= opDate' /\ op.effective >= eventDate'
    BY <1>1, <1>2, DueType
  <2>4. AppendsTo(op.target, t)
    BY <1>1, <1>5, <1>6, <2>3 DEF AppendsTo, TypeOK
  <2>5. AppendsTo(op.destination, w)
    BY <1>1, <1>4, <1>6, <2>3 DEF AppendsTo, TypeOK
  <2>6. ASSUME NEW a \in Addr
        PROVE  timelines'[a] = timelines[a] \/ \E x : AppendsTo(a, x)
    <3>1. CASE a = op.target
      BY <2>4, <3>1
    <3>2. CASE a = op.destination
      BY <2>5, <3>2
    <3> QED
      BY <2>2, <3>1, <3>2
  <2> QED
    BY <2>1, <2>6 DEF Grows
<1>8. cache' \in SUBSET Entry
  BY <1>1, ReadsType, CacheAfterType DEF Renumber
<1>9. snapshots' \in SUBSET Snapshot /\ phase' = phase
  BY FrameType DEF Renumber
<1> QED
  BY <1>2, <1>7, <1>8, <1>9, DueType DEF TypeOK, Grows

\* A skipped renumbering keeps the types and writes nothing.
LEMMA SkipRenumberStep ==
    ASSUME TypeOK, NEW op \in Ops, SkipRenumber(op)
    PROVE  TypeOK' /\ Grows
<1>1. Due(op) /\ UNCHANGED <<timelines, phase>>
  BY DEF SkipRenumber
<1>2. cache' \in SUBSET Entry /\ snapshots' \in SUBSET Snapshot
  BY OpsType, ReadsType, CacheAfterType, FrameType DEF SkipRenumber, TypeOK
<1> QED
  BY <1>1, <1>2, DueType DEF TypeOK, Grows

\* A refused version ends the compilation without a write.
LEMMA RaiseStep ==
    ASSUME TypeOK, NEW op \in Ops, RaiseMisdated(op)
    PROVE  TypeOK' /\ Grows
<1>1. Due(op) /\ UNCHANGED <<timelines, cache, snapshots>> /\ phase' = "raised"
  BY DEF RaiseMisdated
<1> QED
  BY <1>1, DueType DEF TypeOK, Grows

\* Taking a standalone event keeps the counters in range and moves the date
\* forward.
LEMMA MatchedType ==
    ASSUME TypeOK, NEW ev \in Events, Matched(ev)
    PROVE  /\ opDate' = opDate /\ opDate' \in Nat
           /\ eventDate' = ev.date /\ eventDate' \in Nat
           /\ ev.date > opDate /\ ev.date >= eventDate
           /\ taken' \in 0..MaxItems
           /\ cache' \in SUBSET Entry
           /\ snapshots' \in SUBSET Snapshot
           /\ phase' = phase /\ phase' # "sorted"
BY EventsType DEF TypeOK, Matched

\* commence and revive keep the types, and append texts that begin on the
\* event's date.
LEMMA ApplyStartStep ==
    ASSUME TypeOK, NEW ev \in Events, ApplyStart(ev)
    PROVE  TypeOK' /\ Grows
<1> DEFINE w(a) == Restarted(ev, LatestSubstantive(timelines[a], ev.date))
<1>1. /\ ev.date \in Nat /\ ev.source \in Sources /\ Enacted[ev.source] \in Nat
  BY EventsType
<1>2. Matched(ev) /\ ended' = ended
  BY DEF ApplyStart
<1>3. ASSUME NEW a \in Addr
      PROVE  w(a) \in Version /\ w(a).effective = ev.date /\ w(a).source \in Sources
  <2> DEFINE v == LatestSubstantive(timelines[a], ev.date)
  <2>1. v \in Version
    BY <1>1, LatestType DEF TypeOK
  <2> HIDE DEF v
  <2>2. /\ v.content \in Content /\ v.scope \in SUBSET Territories
        /\ (IF Enacted[ev.source] # NoDate THEN Enacted[ev.source] ELSE v.enacted) \in Nat
    BY <1>1, <2>1, VersionFields
  <2>3. NoDate \in Nat /\ KindFor(NoDate) = "permanent"
    BY DEF NoDate, KindFor
  <2>4. /\ Restarted(ev, v) \in Version /\ Restarted(ev, v).effective = ev.date
        /\ Restarted(ev, v).source = ev.source
    BY <1>1, <2>2, <2>3, VersionOfFields DEF Restarted
  <2> QED
    BY <1>1, <2>4 DEF v
<1>4. timelines' = [a \in Addr |-> IF a \in Starts(ev) THEN Append(timelines[a], w(a))
                                   ELSE timelines[a]]
  BY DEF ApplyStart
<1> HIDE DEF w
<1>5. timelines' \in [Addr -> Seq(Version)]
  BY <1>3, <1>4 DEF TypeOK
<1>6. \A a \in Addr : timelines'[a] = timelines[a] \/ AppendsTo(a, w(a))
  BY <1>1, <1>2, <1>3, <1>4, MatchedType DEF AppendsTo
<1> QED
  BY <1>2, <1>5, <1>6, MatchedType DEF TypeOK, Grows

\* set_applicability keeps the types, and appends texts that begin on the
\* event's date.
LEMMA ApplyScopeStep ==
    ASSUME TypeOK, NEW ev \in Events, ApplyScope(ev)
    PROVE  TypeOK' /\ Grows
<1> DEFINE w(a) == Rescoped(ev, Latest(timelines[a], ev.date))
<1>1. /\ ev.date \in Nat /\ ev.source \in Sources /\ ev.scope \in SUBSET Territories
  BY EventsType
<1>2. Matched(ev) /\ ended' = ended
  BY DEF ApplyScope
<1>3. ASSUME NEW a \in Addr
      PROVE  w(a) \in Version /\ w(a).effective = ev.date /\ w(a).source \in Sources
  <2> DEFINE v == Latest(timelines[a], ev.date)
  <2>1. v \in Version /\ (v.expires = NoDate \/ v.expires > ev.date)
    BY <1>1, LatestType DEF TypeOK
  <2> HIDE DEF v
  <2>2. /\ v.content \in Content /\ v.enacted \in Nat /\ v.expires \in Nat
        /\ v.kind = KindFor(v.expires)
        /\ v.expires = NoDate \/ v.expires >= ev.date
    BY <1>1, <2>1, VersionFields
  <2>3. /\ Rescoped(ev, v) \in Version /\ Rescoped(ev, v).effective = ev.date
        /\ Rescoped(ev, v).source = ev.source
    BY <1>1, <2>2, VersionOfFields DEF Rescoped
  <2> QED
    BY <1>1, <2>3 DEF v
<1>4. timelines' = [a \in Addr |-> IF a \in InForceOn(ev) THEN Append(timelines[a], w(a))
                                   ELSE timelines[a]]
  BY DEF ApplyScope
<1> HIDE DEF w
<1>5. timelines' \in [Addr -> Seq(Version)]
  BY <1>3, <1>4 DEF TypeOK
<1>6. \A a \in Addr : timelines'[a] = timelines[a] \/ AppendsTo(a, w(a))
  BY <1>1, <1>2, <1>3, <1>4, MatchedType DEF AppendsTo
<1> QED
  BY <1>2, <1>5, <1>6, MatchedType DEF TypeOK, Grows

(***************************************************************************)
(* An end event shortens versions in place.                                *)
(***************************************************************************)
LEMMA CappedType ==
    ASSUME NEW v \in Version, NEW date \in Nat, date # NoDate
    PROVE  /\ Capped(v, date) \in Version
           /\ Capped(v, date).effective = v.effective
           /\ Capped(v, date).content = v.content
<1>1. /\ v.effective \in Nat /\ v.enacted \in Nat /\ v.expires \in Nat
      /\ v.content \in Content /\ v.source \in Sources \cup {None}
      /\ v.scope \in SUBSET Territories
  BY VersionFields
<1>2. v = [effective |-> v.effective, enacted |-> v.enacted, expires |-> v.expires,
           kind |-> v.kind, content |-> v.content, source |-> v.source,
           scope |-> v.scope]
  BY DEF Version
<1> DEFINE w == [effective |-> v.effective, enacted |-> v.enacted, expires |-> date,
                 kind |-> "temporary", content |-> v.content, source |-> v.source,
                 scope |-> v.scope]
<1> DEFINE u == [v EXCEPT !.expires = date, !.kind = "temporary"]
<1>3. u = w
  <2>1. DOMAIN u = DOMAIN v
    OBVIOUS
  <2>2. DOMAIN v = {"effective", "enacted", "expires", "kind", "content", "source", "scope"}
    BY <1>2
  <2>3. /\ u.effective = v.effective /\ u.enacted = v.enacted
        /\ u.expires = date /\ u.kind = "temporary"
        /\ u.content = v.content /\ u.source = v.source /\ u.scope = v.scope
    BY <2>2
  <2>4. u = [x \in DOMAIN u |-> u[x]]
    OBVIOUS
  <2> HIDE DEF u
  <2> QED
    BY <2>1, <2>2, <2>3, <2>4
<1>4. KindFor(date) = "temporary"
  BY DEF KindFor
<1>5. CASE Capped(v, date) = v
  BY <1>5
<1>6. CASE Capped(v, date) # v
  <2>1. Capped(v, date) = w /\ v.effective <= date
    BY <1>1, <1>3, <1>6 DEF Capped
  <2>2. w \in Version
    BY <1>1, <1>4, <2>1, VersionOfFields
  <2> QED
    BY <2>1, <2>2
<1> QED
  BY <1>5, <1>6

\* Capping a timeline keeps it well formed.
LEMMA CapType ==
    ASSUME NEW vs \in Seq(Version), NEW date \in Nat, date # NoDate
    PROVE  /\ Cap(vs, date) \in Seq(Version)
           /\ Len(Cap(vs, date)) = Len(vs)
           /\ \A i \in DOMAIN vs : Cap(vs, date)[i] = Capped(vs[i], date)
<1>1. DOMAIN vs = 1..Len(vs) /\ Len(vs) \in Nat
  OBVIOUS
<1>2. \A i \in DOMAIN vs : Capped(vs[i], date) \in Version
  BY CappedType
<1>3. Cap(vs, date) \in [1..Len(vs) -> Version]
  BY <1>1, <1>2 DEF Cap
<1> QED
  BY <1>1, <1>3 DEF Cap

\* expire and suspend keep the types.
LEMMA ApplyEndStep ==
    ASSUME TypeOK, NEW ev \in Events, ApplyEnd(ev)
    PROVE  TypeOK'
<1>1. ev.date \in Nat /\ ev.date # NoDate
  BY EventsType
<1>2. timelines' \in [Addr -> Seq(Version)] /\ ended' \in [Addr -> Nat]
  BY <1>1, CapType DEF ApplyEnd, TypeOK
<1>3. Matched(ev)
  BY DEF ApplyEnd
<1> QED
  BY <1>2, <1>3, MatchedType DEF TypeOK

\* The end of the operations changes the phase only.
LEMMA FinishStep ==
    ASSUME TypeOK, FinishOps
    PROVE  TypeOK' /\ Grows
BY DEF TypeOK, FinishOps, Grows

\* The final sort keeps the types.
LEMMA SortStep ==
    ASSUME TypeOK, SortTimelines
    PROVE  TypeOK'
<1>1. timelines' \in [Addr -> Seq(Version)]
  BY SortedType DEF SortTimelines, TypeOK
<1> QED
  BY <1>1 DEF TypeOK, SortTimelines

-----------------------------------------------------------------------------
(***************************************************************************)
(* Every version the compiler ever holds is well formed: its kind follows  *)
(* from its expiry, and its expiry is no earlier than its beginning        *)
(* (ProvisionVersion).                                                     *)
(***************************************************************************)
LEMMA InitType == Init => TypeOK
<1> SUFFICES ASSUME Init PROVE TypeOK
  OBVIOUS
<1>1. ASSUME NEW a \in DOMAIN BaseContent PROVE <<BaseVersion(a)>> \in Seq(Version)
  <2>1. BaseContent[a] \in Content /\ BaseDate \in Nat /\ NoDate \in Nat
    BY DEF NoDate
  <2>2. KindFor(NoDate) = "permanent"
    BY DEF KindFor
  <2>3. BaseVersion(a) \in Version
    BY <2>1, <2>2, VersionOfFields DEF BaseVersion
  <2> QED
    BY <2>3
<1>2. timelines \in [Addr -> Seq(Version)]
  BY <1>1 DEF Init
<1> QED
  BY <1>2 DEF Init, TypeOK, NoDate

\* Every step keeps the types.
LEMMA NextType == TypeOK /\ [Next]_vars => TypeOK'
<1> SUFFICES ASSUME TypeOK, [Next]_vars PROVE TypeOK'
  OBVIOUS
<1>1. CASE UNCHANGED vars
  BY <1>1 DEF vars, TypeOK
<1>2. ASSUME NEW op \in Ops, Write(op) PROVE TypeOK'
  BY <1>2, WriteStep
<1>3. ASSUME NEW op \in Ops, SkipWrite(op) PROVE TypeOK'
  BY <1>3, SkipWriteStep
<1>4. ASSUME NEW op \in Ops, Renumber(op) PROVE TypeOK'
  BY <1>4, RenumberStep
<1>5. ASSUME NEW op \in Ops, SkipRenumber(op) PROVE TypeOK'
  BY <1>5, SkipRenumberStep
<1>6. ASSUME NEW op \in Ops, RaiseMisdated(op) PROVE TypeOK'
  BY <1>6, RaiseStep
<1>7. ASSUME NEW ev \in Events, ApplyEnd(ev) PROVE TypeOK'
  BY <1>7, ApplyEndStep
<1>8. ASSUME NEW ev \in Events, ApplyStart(ev) PROVE TypeOK'
  BY <1>8, ApplyStartStep
<1>9. ASSUME NEW ev \in Events, ApplyScope(ev) PROVE TypeOK'
  BY <1>9, ApplyScopeStep
<1>10. CASE FinishOps
  BY <1>10, FinishStep
<1>11. CASE SortTimelines
  BY <1>11, SortStep
<1> QED
  BY <1>1, <1>2, <1>3, <1>4, <1>5, <1>6, <1>7, <1>8, <1>9, <1>10, <1>11 DEF Next

\* Every version held is well formed, in every state of every compilation.
THEOREM TypeCorrect == Spec => []TypeOK
BY InitType, NextType, PTL DEF Spec

-----------------------------------------------------------------------------
(***************************************************************************)
(* The cache is coherent: a hit answers as a fresh selection would, so     *)
(* filling it from hits is harmless, and an append evicts its address.     *)
(***************************************************************************)
LEMMA CachedIsFresh ==
    ASSUME CacheCoherent, phase = "ops", NEW a \in Addr, NEW date \in Nat
    PROVE  SelectCached(a, date) = SelectActive(timelines[a], Governing(date))
<1>1. CASE Hits(a, date) # {}
  <2>1. (CHOOSE e \in Hits(a, date) : TRUE) \in Hits(a, date)
    BY <1>1
  <2> QED
    BY <1>1, <2>1 DEF SelectCached, Hits, CacheCoherent
<1>2. CASE Hits(a, date) = {}
  BY <1>2 DEF SelectCached
<1> QED
  BY <1>1, <1>2

\* Reads of the current timelines, followed by the eviction of what was
\* written, leave no stale entry.
LEMMA CacheStep ==
    ASSUME TypeOK, CacheCoherent, phase = "ops",
           NEW read \in SUBSET Addr, NEW date \in Nat, NEW written,
           cache' = CacheAfter(read, date, written),
           \A a \in Addr : a \notin written => timelines'[a] = timelines[a]
    PROVE  CacheCoherent'
<1> SUFFICES ASSUME NEW e \in cache'
             PROVE  e.result = SelectActive(timelines'[e.addr], Governing(e.date))
  BY DEF CacheCoherent
<1>1. e.addr \notin written
  BY DEF CacheAfter
<1>2. CASE e \in cache
  <2>1. e.addr \in Addr
    BY <1>2 DEF TypeOK, Entry
  <2> QED
    BY <1>1, <1>2, <2>1 DEF CacheCoherent
<1>3. CASE e \notin cache
  <2>1. PICK a \in read : e = [addr |-> a, date |-> date, result |-> SelectCached(a, date)]
    BY <1>3 DEF CacheAfter
  <2> QED
    BY <1>1, <2>1, CachedIsFresh
<1> QED
  BY <1>2, <1>3

\* Every step keeps the cache coherent.
LEMMA NextCoherent == TypeOK /\ CacheCoherent /\ [Next]_vars => CacheCoherent'
<1> SUFFICES ASSUME TypeOK, CacheCoherent, [Next]_vars, phase' = "ops"
             PROVE  CacheCoherent'
  BY DEF CacheCoherent
<1>1. CASE UNCHANGED vars
  BY <1>1 DEF vars, CacheCoherent
<1>2. ASSUME NEW op \in Ops, Write(op) PROVE CacheCoherent'
  <2> DEFINE read == ResolutionReads(op)
                       \cup IF Inherits(op)
                            THEN InheritanceReads(op.target, op.effective)
                            ELSE {}
  <2>1. phase = "ops" /\ op.effective \in Nat /\ op.target \in Addr
    BY <1>2, OpsType DEF Write, Due
  <2>2. read \in SUBSET Addr
    BY ReadsType
  <2>3. cache' = CacheAfter(read, op.effective, {op.target})
    BY <1>2 DEF Write
  <2>4. \A a \in Addr : a \notin {op.target} => timelines'[a] = timelines[a]
    BY <1>2 DEF Write, TypeOK
  <2> HIDE DEF read
  <2> QED
    BY <2>1, <2>2, <2>3, <2>4, CacheStep
<1>3. ASSUME NEW op \in Ops, SkipWrite(op) PROVE CacheCoherent'
  <2>1. phase = "ops" /\ op.effective \in Nat
    BY <1>3, OpsType DEF SkipWrite, Due
  <2>2. /\ cache' = CacheAfter(ResolutionReads(op), op.effective, {})
        /\ timelines' = timelines
    BY <1>3 DEF SkipWrite
  <2> QED
    BY <2>1, <2>2, ReadsType, CacheStep
<1>4. ASSUME NEW op \in Ops, Renumber(op) PROVE CacheCoherent'
  <2>1. phase = "ops" /\ op.effective \in Nat
    BY <1>4, OpsType DEF Renumber, Due
  <2>2. cache' = CacheAfter(FrameReads(op), op.effective, {op.target, op.destination})
    BY <1>4 DEF Renumber
  <2>3. \A a \in Addr : a \notin {op.target, op.destination} =>
            timelines'[a] = timelines[a]
    BY <1>4 DEF Renumber, TypeOK
  <2> QED
    BY <2>1, <2>2, <2>3, ReadsType, CacheStep
<1>5. ASSUME NEW op \in Ops, SkipRenumber(op) PROVE CacheCoherent'
  <2>1. phase = "ops" /\ op.effective \in Nat /\ timelines' = timelines
    BY <1>5, OpsType DEF SkipRenumber, Due
  <2>2. CASE Present(op.target)
    <3>1. cache' = CacheAfter(FrameReads(op), op.effective, {})
      BY <1>5, <2>2 DEF SkipRenumber
    <3> QED
      BY <2>1, <3>1, ReadsType, CacheStep
  <2>3. CASE ~ Present(op.target)
    <3>1. cache' = cache
      BY <1>5, <2>3 DEF SkipRenumber
    <3> QED
      BY <2>1, <3>1 DEF CacheCoherent
  <2> QED
    BY <2>2, <2>3
<1>6. ASSUME NEW op \in Ops, RaiseMisdated(op) PROVE CacheCoherent'
  BY <1>6 DEF RaiseMisdated
<1>7. ASSUME NEW ev \in Events, Matched(ev) PROVE CacheCoherent'
  <2>1. cache' = {}
    BY <1>7 DEF Matched
  <2> QED
    BY <2>1 DEF CacheCoherent
<1>8. ASSUME NEW ev \in Events, ApplyEnd(ev) \/ ApplyStart(ev) \/ ApplyScope(ev)
      PROVE  CacheCoherent'
  BY <1>7, <1>8 DEF ApplyEnd, ApplyStart, ApplyScope
<1>9. CASE FinishOps \/ SortTimelines
  BY <1>9 DEF FinishOps, SortTimelines
<1> QED
  BY <1>1, <1>2, <1>3, <1>4, <1>5, <1>6, <1>8, <1>9 DEF Next

\* No operation ever reads a stale selection of an earlier one.
THEOREM CacheIsCoherent == Spec => []CacheCoherent
<1>1. Init => CacheCoherent
  BY DEF Init, CacheCoherent
<1>2. CacheCoherent /\ TypeOK /\ [Next]_vars => CacheCoherent'
  BY NextCoherent
<1> QED
  BY <1>1, <1>2, TypeCorrect, PTL DEF Spec

(***************************************************************************)
(* The path for one-version timelines never disagrees with the general one.*)
(***************************************************************************)
THEOREM FastPathIsSound == Spec => []SingleVersionAgrees
<1>1. TypeOK => SingleVersionAgrees
  <2> SUFFICES ASSUME TypeOK, NEW a \in Addr, NEW i \in DOMAIN timelines[a],
                      NEW q \in [asOf : QueryDates, inForce : BOOLEAN,
                                 horizon : QueryDates \cup {NoDate},
                                 territory : Territories \cup {None}]
               PROVE  SelectOne(timelines[a][i], q)
                        = SelectAmong(Candidates(<<timelines[a][i]>>, q), q)
    BY DEF SingleVersionAgrees
  <2>1. QueryDates \in SUBSET Nat /\ NoDate \in Nat
    BY DEF QueryDates, NoDate
  <2>2. q \in Query
    BY <2>1 DEF Query
  <2>3. timelines[a][i] \in Version
    BY DEF TypeOK
  <2> QED
    BY <2>2, <2>3, SingleVersion
<1> QED
  BY <1>1, TypeCorrect, PTL

-----------------------------------------------------------------------------
(***************************************************************************)
(* Ends hold.  NothingEndedReturns says nothing of the versions that lose  *)
(* today but might win tomorrow; the inductive invariant does: every text  *)
(* that began before the last end of its address has run out by that end.  *)
(***************************************************************************)
RunsOut(v, date) ==
    ~ IsAbsent(v.content) /\ v.effective < date
        => v.expires # NoDate /\ v.expires <= date

EndsHold ==
    \A a \in Addr :
        /\ ended[a] <= eventDate
        /\ \A i \in DOMAIN timelines[a] : RunsOut(timelines[a][i], ended[a])

\* Appending texts that begin at or after the end keeps EndsHold.
LEMMA GrowsEndsHold ==
    ASSUME TypeOK, EndsHold, Grows, ended' = ended, eventDate' >= eventDate,
           eventDate' \in Nat
    PROVE  EndsHold'
<1> SUFFICES ASSUME NEW a \in Addr
             PROVE  /\ ended[a] <= eventDate'
                    /\ \A i \in DOMAIN timelines'[a] : RunsOut(timelines'[a][i], ended[a])
  BY DEF EndsHold
<1>1. ended[a] \in Nat /\ ended[a] <= eventDate /\ eventDate \in Nat
  BY DEF TypeOK, EndsHold
<1>2. ended[a] <= eventDate'
  BY <1>1
<1>3. CASE timelines'[a] = timelines[a]
  BY <1>2, <1>3 DEF EndsHold
<1>4. ASSUME NEW w, AppendsTo(a, w)
      PROVE  \A i \in DOMAIN timelines'[a] : RunsOut(timelines'[a][i], ended[a])
  <2>1. timelines[a] \in Seq(Version) /\ w \in Version /\ w.effective \in Nat
    BY <1>4, VersionFields DEF TypeOK, AppendsTo
  <2>2. \A i \in DOMAIN timelines'[a] :
            \/ i \in DOMAIN timelines[a] /\ timelines'[a][i] = timelines[a][i]
            \/ timelines'[a][i] = w
    BY <1>4, <2>1 DEF AppendsTo
  <2>3. RunsOut(w, ended[a])
    BY <1>1, <1>2, <1>4, <2>1 DEF AppendsTo, RunsOut
  <2> QED
    BY <2>2, <2>3 DEF EndsHold
<1> QED
  BY <1>2, <1>3, <1>4 DEF Grows

\* A capped version has run out on the end date, or begins after it.
LEMMA CappedRunsOut ==
    ASSUME NEW v \in Version, NEW date \in Nat, date # NoDate
    PROVE  RunsOut(Capped(v, date), date)
<1>1. v.effective \in Nat /\ v.expires \in Nat
  BY VersionFields
<1>2. CASE Capped(v, date) = v
  <2>1. \/ IsAbsent(v.content)
        \/ v.effective > date
        \/ v.expires # NoDate /\ v.expires <= date
        \/ v = [v EXCEPT !.expires = date, !.kind = "temporary"]
    BY <1>2 DEF Capped
  <2>2. v.expires = date \/ v # [v EXCEPT !.expires = date, !.kind = "temporary"]
    BY DEF Version
  <2> QED
    BY <1>1, <1>2, <2>1, <2>2 DEF RunsOut
<1>3. CASE Capped(v, date) # v
  <2>1. Capped(v, date) = [v EXCEPT !.expires = date, !.kind = "temporary"]
    BY <1>3 DEF Capped
  <2>2. Capped(v, date).expires = date
    BY <2>1 DEF Version
  <2> QED
    BY <2>2 DEF RunsOut
<1> QED
  BY <1>2, <1>3

\* An end event establishes EndsHold for the provisions it ends and keeps
\* it for the others.
LEMMA EndEndsHold ==
    ASSUME TypeOK, EndsHold, NEW ev \in Events, ApplyEnd(ev)
    PROVE  EndsHold'
<1> SUFFICES ASSUME NEW a \in Addr
             PROVE  /\ ended'[a] <= eventDate'
                    /\ \A i \in DOMAIN timelines'[a] : RunsOut(timelines'[a][i], ended'[a])
  BY DEF EndsHold
<1>1. /\ ev.date \in Nat /\ ev.date # NoDate
      /\ eventDate' = ev.date /\ ev.date >= eventDate
      /\ eventDate \in Nat /\ ended[a] \in Nat /\ ended[a] <= eventDate
  BY EventsType, MatchedType DEF ApplyEnd, TypeOK, EndsHold
<1>2. timelines[a] \in Seq(Version)
  BY DEF TypeOK
<1>3. CASE a \in InForceOn(ev)
  <2>1. timelines'[a] = Cap(timelines[a], ev.date) /\ ended'[a] = ev.date
    BY <1>3 DEF ApplyEnd
  <2>2. \A i \in DOMAIN timelines[a] :
            RunsOut(Cap(timelines[a], ev.date)[i], ev.date)
    BY <1>1, <1>2, CapType, CappedRunsOut
  <2>3. DOMAIN Cap(timelines[a], ev.date) = DOMAIN timelines[a]
    BY DEF Cap
  <2> QED
    BY <1>1, <2>1, <2>2, <2>3
<1>4. CASE a \notin InForceOn(ev)
  <2>1. timelines'[a] = timelines[a] /\ ended'[a] = ended[a]
    BY <1>4 DEF ApplyEnd
  <2>2. ended[a] <= ev.date
    BY <1>1
  <2> QED
    BY <1>1, <2>1, <2>2 DEF EndsHold
<1> QED
  BY <1>3, <1>4

\* The final sort, a permutation, keeps EndsHold.
LEMMA SortEndsHold ==
    ASSUME TypeOK, EndsHold, SortTimelines
    PROVE  EndsHold'
<1>1. ended' = ended /\ eventDate' = eventDate
  BY DEF SortTimelines
<1>2. ASSUME NEW a \in Addr, NEW i \in DOMAIN timelines'[a]
      PROVE  RunsOut(timelines'[a][i], ended[a])
  <2>1. timelines[a] \in Seq(Version) /\ timelines'[a] = Sorted(timelines[a])
    BY DEF TypeOK, SortTimelines
  <2>2. PICK j \in DOMAIN timelines[a] : timelines'[a][i] = timelines[a][j]
    BY <1>2, <2>1, SortedType
  <2> QED
    BY <2>2 DEF EndsHold
<1> QED
  BY <1>1, <1>2 DEF EndsHold

\* What operations and starting or scoping events do to the histories.
Advances == ended' = ended /\ eventDate' >= eventDate /\ eventDate' \in Nat

\* Every step but an end event and the sort appends, at dates no earlier
\* than the last event's.
LEMMA StepShape ==
    ASSUME TypeOK, Next
    PROVE  \/ \E ev \in Events : ApplyEnd(ev)
           \/ SortTimelines
           \/ Grows /\ Advances
<1>1. ASSUME NEW op \in Ops, Due(op) PROVE Advances
  BY <1>1, DueType DEF Advances, TypeOK
<1>2. ASSUME NEW op \in Ops, \/ Write(op)
                             \/ SkipWrite(op)
                             \/ Renumber(op)
                             \/ SkipRenumber(op)
                             \/ RaiseMisdated(op)
      PROVE  Grows /\ Advances
  <2>1. Due(op)
    BY <1>2 DEF Write, SkipWrite, Renumber, SkipRenumber, RaiseMisdated
  <2>2. Grows
    BY <1>2, WriteStep, SkipWriteStep, RenumberStep, SkipRenumberStep, RaiseStep
  <2> QED
    BY <1>1, <2>1, <2>2
<1>3. ASSUME NEW ev \in Events, ApplyStart(ev) \/ ApplyScope(ev)
      PROVE  Grows /\ Advances
  <2>1. Matched(ev) /\ ended' = ended
    BY <1>3 DEF ApplyStart, ApplyScope
  <2>2. Grows
    BY <1>3, ApplyStartStep, ApplyScopeStep
  <2> QED
    BY <2>1, <2>2, MatchedType DEF Advances
<1>4. ASSUME FinishOps PROVE Grows /\ Advances
  BY <1>4, FinishStep DEF FinishOps, Advances, TypeOK
<1> QED
  BY <1>2, <1>3, <1>4 DEF Next

\* Every step keeps EndsHold.
LEMMA NextEndsHold == TypeOK /\ EndsHold /\ [Next]_vars => EndsHold'
<1> SUFFICES ASSUME TypeOK, EndsHold, [Next]_vars PROVE EndsHold'
  OBVIOUS
<1>1. CASE UNCHANGED vars
  BY <1>1 DEF vars, EndsHold
<1>2. CASE Next
  BY <1>2, StepShape, EndEndsHold, SortEndsHold, GrowsEndsHold DEF Advances
<1> QED
  BY <1>1, <1>2

\* Once a provision was ended, each of its versions has run out by then or
\* began later.
LEMMA EndsAlwaysHold == Spec => []EndsHold
<1>1. Init => EndsHold
  <2> SUFFICES ASSUME Init, NEW a \in Addr
               PROVE  /\ ended[a] <= eventDate
                      /\ \A i \in DOMAIN timelines[a] : RunsOut(timelines[a][i], ended[a])
    BY DEF EndsHold
  <2>1. ended[a] = 0 /\ eventDate = 0
    BY DEF Init, NoDate
  <2>2. ASSUME NEW i \in DOMAIN timelines[a] PROVE RunsOut(timelines[a][i], 0)
    <3>1. timelines[a] \in Seq(Version)
      BY InitType DEF TypeOK
    <3>2. timelines[a][i].effective \in Nat
      BY <2>2, <3>1, VersionFields
    <3> QED
      BY <3>2 DEF RunsOut
  <2> QED
    BY <2>1, <2>2
<1>2. TypeOK /\ EndsHold /\ [Next]_vars => EndsHold'
  BY NextEndsHold
<1> QED
  BY <1>1, <1>2, TypeCorrect, PTL DEF Spec

(***************************************************************************)
(* Text ended by an expire or suspend event governs on no later date,      *)
(* whatever follows: the law on such a date is a version that had not run  *)
(* out, so one that began at the end or later.                             *)
(***************************************************************************)
LEMMA LawIsEligible ==
    ASSUME NEW vs \in Seq(Version), NEW d \in Nat, NEW t \in Territories \cup {None}
    PROVE  LET law == LawAt(vs, GoverningIn(d, t))
           IN  \/ law = NoVersion
               \/ \E i \in DOMAIN vs : /\ law = vs[i]
                                       /\ law.effective <= d
                                       /\ law.expires # NoDate => law.expires > d
<1> DEFINE q == GoverningIn(d, t)
<1>1. q \in Query /\ q.asOf = d /\ Horizon(q) = d
  BY GoverningType DEF GoverningIn, Governing, Horizon
<1>2. Picks(vs, q, SelectActive(vs, q))
  BY <1>1, SelectActiveType
<1> HIDE DEF q
<1>3. \/ LawAt(vs, q) = NoVersion
      \/ \E i \in DOMAIN vs : LawAt(vs, q) = vs[i] /\ Eligible(vs[i], q)
  BY <1>2 DEF Picks, LawAt
<1> QED
  BY <1>1, <1>3 DEF Eligible, q

\* Text ended by an expire or suspend event never governs again from the
\* end date on.
THEOREM EndedTextStaysEnded == Spec => []NothingEndedReturns
<1>1. TypeOK /\ EndsHold => NothingEndedReturns
  <2> SUFFICES ASSUME TypeOK, EndsHold, NEW a \in Addr, NEW d \in QueryDates,
                      NEW t \in Territories \cup {None},
                      d >= ended[a],
                      ~ IsAbsent(LawAt(timelines[a], GoverningIn(d, t)).content)
               PROVE  LawAt(timelines[a], GoverningIn(d, t)).effective >= ended[a]
    BY DEF NothingEndedReturns
  <2> DEFINE law == LawAt(timelines[a], GoverningIn(d, t))
  <2>1. d \in Nat /\ timelines[a] \in Seq(Version) /\ ended[a] \in Nat
    BY DEF QueryDates, TypeOK
  <2>2. law # NoVersion
    BY DEF NoVersion, NoContent, IsAbsent
  <2>3. PICK i \in DOMAIN timelines[a] : /\ law = timelines[a][i]
                                         /\ law.expires # NoDate => law.expires > d
    BY <2>1, <2>2, LawIsEligible
  <2>4. law \in Version /\ law.effective \in Nat /\ law.expires \in Nat
    BY <2>1, <2>3, VersionFields
  <2>5. RunsOut(law, ended[a])
    BY <2>3 DEF EndsHold
  <2> HIDE DEF law
  <2>6. ~ IsAbsent(law.content)
    BY DEF law
  <2>7. law.effective >= ended[a]
    BY <2>1, <2>3, <2>4, <2>5, <2>6 DEF RunsOut
  <2> QED
    BY <2>7 DEF law
<1> QED
  BY <1>1, TypeCorrect, EndsAlwaysHold, PTL

-----------------------------------------------------------------------------
(***************************************************************************)
(* The past is settled: no operation, and no event that starts or rescopes *)
(* a text, changes the law of a date before its own.  An end event that    *)
(* ends nothing new shortens nothing before its date either.               *)
(***************************************************************************)
LEMMA GrowsKeepsPast ==
    ASSUME TypeOK, TypeOK', Grows, NEW a \in Addr, NEW d \in QueryDates,
           NEW t \in Territories \cup {None}, d < StepDate
    PROVE  LawAt(timelines'[a], GoverningIn(d, t)) = LawAt(timelines[a], GoverningIn(d, t))
<1> DEFINE q == GoverningIn(d, t)
<1>1. /\ d \in Nat /\ opDate' \in Nat /\ eventDate' \in Nat
      /\ timelines[a] \in Seq(Version)
  BY DEF QueryDates, TypeOK
<1>2. q \in Query /\ q.asOf = d
  BY <1>1, GoverningType DEF GoverningIn, Governing
<1>3. CASE timelines'[a] = timelines[a]
  BY <1>3
<1>4. ASSUME NEW w, AppendsTo(a, w)
      PROVE  SelectActive(timelines'[a], q) = SelectActive(timelines[a], q)
  <2>1. w \in Version /\ w.effective \in Nat /\ w.effective > d
    BY <1>1, <1>4, VersionFields DEF AppendsTo, StepDate
  <2>2. ~ Eligible(w, q)
    BY <1>1, <1>2, <2>1 DEF Eligible
  <2> HIDE DEF q
  <2> QED
    BY <1>1, <1>2, <1>4, <2>1, <2>2, AppendKeepsLaw DEF AppendsTo
<1> QED
  BY <1>3, <1>4 DEF Grows, LawAt

\* An end event that repeats an end of the same date changes no earlier law:
\* what it caps ran out, or begins, on that date already.
LEMMA VoidEndKeepsPast ==
    ASSUME TypeOK, EndsHold, NEW ev \in Events, ApplyEnd(ev), ended' = ended,
           NEW a \in Addr, NEW d \in QueryDates,
           NEW t \in Territories \cup {None}, d < StepDate
    PROVE  LawAt(timelines'[a], GoverningIn(d, t)) = LawAt(timelines[a], GoverningIn(d, t))
<1> DEFINE q == GoverningIn(d, t)
           vs == timelines[a]
           ws == Cap(vs, ev.date)
<1>1. /\ d \in Nat /\ ev.date \in Nat /\ ev.date # NoDate
      /\ vs \in Seq(Version) /\ opDate \in Nat
  BY EventsType DEF QueryDates, TypeOK
<1>2. q \in Query /\ q.asOf = d
  BY <1>1, GoverningType DEF GoverningIn, Governing
<1>3. opDate' = opDate /\ eventDate' = ev.date /\ ev.date > opDate
  BY MatchedType DEF ApplyEnd
<1>4. d < ev.date
  BY <1>1, <1>3 DEF StepDate
<1>5. CASE a \notin InForceOn(ev)
  <2>1. timelines'[a] = timelines[a]
    BY <1>5 DEF ApplyEnd
  <2> QED
    BY <2>1
<1>6. CASE a \in InForceOn(ev)
  <2>1. timelines'[a] = ws /\ ended'[a] = ev.date
    BY <1>6 DEF ApplyEnd
  <2>2. ended[a] = ev.date
    BY <2>1
  <2>3. /\ ws \in Seq(Version) /\ Len(ws) = Len(vs)
        /\ \A i \in DOMAIN vs : ws[i] = Capped(vs[i], ev.date)
    BY <1>1, CapType
  <2>4. ASSUME NEW i \in DOMAIN vs, Eligible(vs[i], q) \/ Eligible(ws[i], q)
        PROVE  vs[i] = ws[i]
    <3>1. vs[i] \in Version /\ vs[i].effective \in Nat
      BY <1>1, VersionFields
    <3>2. ws[i].effective = vs[i].effective
      BY <1>1, <2>3, <3>1, CappedType
    <3>3. vs[i].effective <= d
      BY <1>2, <2>4, <3>2 DEF Eligible
    <3>4. RunsOut(vs[i], ev.date)
      BY <2>2 DEF EndsHold
    <3>5. IsAbsent(vs[i].content) \/ (vs[i].expires # NoDate /\ vs[i].expires <= ev.date)
      BY <1>1, <1>4, <3>1, <3>3, <3>4 DEF RunsOut
    <3> QED
      BY <2>3, <3>5 DEF Capped
  <2> HIDE DEF q, vs, ws
  <2>5. SelectActive(vs, q) = SelectActive(ws, q)
    BY <1>1, <1>2, <2>3, <2>4, SameLaw
  <2> QED
    BY <2>1, <2>5 DEF LawAt, q, vs
<1> QED
  BY <1>5, <1>6

\* No operation, and no event that starts or rescopes a text, changes the
\* law of an earlier date.
THEOREM ThePastIsSettled == Spec => PastIsSettled
<1>1. TypeOK /\ TypeOK' /\ EndsHold /\ [Next]_vars => [PastUnchanged]_vars
  <2> SUFFICES ASSUME TypeOK, TypeOK', EndsHold, Next,
                      ended' = ended, phase' # "sorted",
                      NEW a \in Addr, NEW d \in QueryDates,
                      NEW t \in Territories \cup {None}, d < StepDate
               PROVE  LawAt(timelines'[a], GoverningIn(d, t))
                        = LawAt(timelines[a], GoverningIn(d, t))
    BY DEF PastUnchanged
  <2>1. CASE \E ev \in Events : ApplyEnd(ev)
    BY <2>1, VoidEndKeepsPast
  <2>2. CASE SortTimelines
    BY <2>2 DEF SortTimelines
  <2>3. CASE Grows
    BY <2>3, GrowsKeepsPast
  <2> QED
    BY <2>1, <2>2, <2>3, StepShape
<1>2. Spec => []TypeOK /\ []EndsHold
  BY TypeCorrect, EndsAlwaysHold
<1> QED
  BY <1>1, <1>2, PTL DEF Spec, PastIsSettled

-----------------------------------------------------------------------------
(***************************************************************************)
(* The final sort moves positions, which break ties, but only between      *)
(* versions of different dates, whose order the selector takes from the    *)
(* dates.                                                                  *)
(***************************************************************************)
\* The sort rearranges a timeline: a version goes to its place.
LEMMA SortRearranges ==
    ASSUME NEW vs \in Seq(Version), NEW q
    PROVE  Rearranges([i \in DOMAIN vs |-> Place(vs, i)], vs, Sorted(vs), q)
<1> DEFINE m == [i \in DOMAIN vs |-> Place(vs, i)]
           ws == Sorted(vs)
           at(p) == CHOOSE i \in DOMAIN vs : Place(vs, i) = p
<1>1. ws \in Seq(Version) /\ Len(ws) = Len(vs) /\ DOMAIN ws = DOMAIN vs
  BY SortedType
<1>2. \A i, j \in DOMAIN vs :
          /\ Place(vs, i) \in DOMAIN vs
          /\ SortsBefore(vs, i, j) => Place(vs, i) < Place(vs, j)
  BY PlaceIncreases
<1>3. DOMAIN vs \subseteq Nat
  OBVIOUS
<1>4. \A i, j \in DOMAIN vs : i # j => Place(vs, i) # Place(vs, j)
  <2> SUFFICES ASSUME NEW i \in DOMAIN vs, NEW j \in DOMAIN vs, i # j
               PROVE  Place(vs, i) # Place(vs, j)
    OBVIOUS
  <2>1. SortsBefore(vs, i, j) \/ SortsBefore(vs, j, i)
    BY SortsBeforeOrder
  <2>2. Place(vs, i) < Place(vs, j) \/ Place(vs, j) < Place(vs, i)
    BY <1>2, <2>1
  <2> QED
    BY <1>2, <1>3, <2>2
<1>5. \A p \in DOMAIN vs : \E i \in DOMAIN vs : Place(vs, i) = p
  BY PlacesAreTaken
<1>6. \A i \in DOMAIN vs : ws[Place(vs, i)] = vs[i]
  <2> SUFFICES ASSUME NEW i \in DOMAIN vs
               PROVE  ws[Place(vs, i)] = vs[i]
    OBVIOUS
  <2>1. at(Place(vs, i)) \in DOMAIN vs /\ Place(vs, at(Place(vs, i))) = Place(vs, i)
    OBVIOUS
  <2>2. at(Place(vs, i)) = i
    BY <1>4, <2>1
  <2> QED
    BY <1>2, <2>2 DEF Sorted
<1>7. ASSUME NEW i \in DOMAIN vs, NEW j \in DOMAIN vs, SameRank(vs[i], vs[j])
      PROVE  i < j <=> Place(vs, i) < Place(vs, j)
  <2>1. i \in Nat /\ j \in Nat /\ Place(vs, i) \in Nat /\ Place(vs, j) \in Nat
    BY <1>2, <1>3
  <2>2. i < j => SortsBefore(vs, i, j)
    BY <1>7 DEF SortsBefore, SameRank
  <2>3. j < i => SortsBefore(vs, j, i)
    BY <1>7 DEF SortsBefore, SameRank
  <2> QED
    BY <1>2, <2>1, <2>2, <2>3
<1> HIDE DEF ws
<1> QED
  BY <1>1, <1>2, <1>4, <1>5, <1>6, <1>7 DEF Rearranges, ws

\* The phase after the sort is reached by the sort only.
LEMMA OnlySortSorts ==
    ASSUME Next, phase' = "sorted"
    PROVE  SortTimelines
<1>1. ASSUME NEW op \in Ops, \/ Write(op)
                             \/ SkipWrite(op)
                             \/ Renumber(op)
                             \/ SkipRenumber(op)
                             \/ RaiseMisdated(op)
      PROVE  phase' # "sorted"
  BY <1>1 DEF Write, SkipWrite, Renumber, SkipRenumber, RaiseMisdated, Due
<1>2. ASSUME NEW ev \in Events, ApplyEnd(ev) \/ ApplyStart(ev) \/ ApplyScope(ev)
      PROVE  phase' # "sorted"
  BY <1>2 DEF ApplyEnd, ApplyStart, ApplyScope, Matched
<1>3. ASSUME FinishOps
      PROVE  phase' # "sorted"
  BY <1>3 DEF FinishOps
<1> QED
  BY <1>1, <1>2, <1>3 DEF Next

\* The final sort changes no answer.
THEOREM TheSortKeepsLaw == Spec => SortKeepsLaw
<1>1. TypeOK /\ [Next]_vars => [SortChangesNothing]_vars
  <2> SUFFICES ASSUME TypeOK, Next, phase' = "sorted",
                      NEW a \in Addr, NEW d \in QueryDates,
                      NEW t \in Territories \cup {None}
               PROVE  LawAt(timelines'[a], GoverningIn(d, t))
                        = LawAt(timelines[a], GoverningIn(d, t))
    BY DEF SortChangesNothing
  <2>1. timelines[a] \in Seq(Version) /\ GoverningIn(d, t) \in Query
    BY GoverningType DEF TypeOK, QueryDates
  <2>2. timelines'[a] = Sorted(timelines[a]) /\ Sorted(timelines[a]) \in Seq(Version)
    BY <2>1, OnlySortSorts, SortedType DEF SortTimelines
  <2>3. SelectActive(timelines[a], GoverningIn(d, t))
            = SelectActive(Sorted(timelines[a]), GoverningIn(d, t))
    <3>1. Rearranges([i \in DOMAIN timelines[a] |-> Place(timelines[a], i)],
                     timelines[a], Sorted(timelines[a]), GoverningIn(d, t))
      BY <2>1, SortRearranges
    <3> QED
      BY <2>1, <2>2, <3>1, RearrangedKeepsLaw
  <2> QED
    BY <2>2, <2>3 DEF LawAt
<1> QED
  BY <1>1, TypeCorrect, PTL DEF Spec, SortKeepsLaw

-----------------------------------------------------------------------------
(***************************************************************************)
(* What a later act writes is the law for its term.  The selector spares   *)
(* an overlay without a source, and the base has none: but a base text     *)
(* becomes temporary only by being ended, and has run out by the date of   *)
(* the event that ended it.                                                *)
(***************************************************************************)
SourcelessRunsOut(v, date) ==
    v.source = None /\ v.expires # NoDate => v.expires <= date

BaseHasRunOut ==
    \A a \in Addr : \A i \in DOMAIN timelines[a] :
        SourcelessRunsOut(timelines[a][i], eventDate)

\* Appending what an act writes keeps BaseHasRunOut: it has a source.
LEMMA GrowsBaseHasRunOut ==
    ASSUME TypeOK, BaseHasRunOut, Grows, eventDate' >= eventDate, eventDate' \in Nat
    PROVE  BaseHasRunOut'
<1> SUFFICES ASSUME NEW a \in Addr, NEW i \in DOMAIN timelines'[a]
             PROVE  SourcelessRunsOut(timelines'[a][i], eventDate')
  BY DEF BaseHasRunOut
<1>1. timelines[a] \in Seq(Version) /\ eventDate \in Nat
  BY DEF TypeOK
<1>2. ASSUME NEW j \in DOMAIN timelines[a]
      PROVE  SourcelessRunsOut(timelines[a][j], eventDate')
  <2>1. timelines[a][j].expires \in Nat
    BY <1>1, VersionFields
  <2> QED
    BY <1>1, <2>1 DEF BaseHasRunOut, SourcelessRunsOut
<1>3. ASSUME NEW w, AppendsTo(a, w)
      PROVE  SourcelessRunsOut(timelines'[a][i], eventDate')
  <2>1. w.source # None
    BY <1>3, NoneAssumption DEF AppendsTo
  <2>2. \/ i \in DOMAIN timelines[a] /\ timelines'[a][i] = timelines[a][i]
        \/ timelines'[a][i] = w
    BY <1>1, <1>3 DEF AppendsTo
  <2> QED
    BY <1>2, <2>1, <2>2 DEF SourcelessRunsOut
<1> QED
  BY <1>2, <1>3 DEF Grows

\* An end event keeps it: what it ends runs out on its own date.
LEMMA EndBaseHasRunOut ==
    ASSUME TypeOK, BaseHasRunOut, NEW ev \in Events, ApplyEnd(ev)
    PROVE  BaseHasRunOut'
<1> SUFFICES ASSUME NEW a \in Addr, NEW i \in DOMAIN timelines'[a]
             PROVE  SourcelessRunsOut(timelines'[a][i], eventDate')
  BY DEF BaseHasRunOut
<1>1. /\ ev.date \in Nat /\ ev.date # NoDate /\ eventDate \in Nat
      /\ eventDate' = ev.date /\ ev.date >= eventDate
      /\ timelines[a] \in Seq(Version)
  BY EventsType, MatchedType DEF ApplyEnd, TypeOK
<1>2. timelines'[a] = Cap(timelines[a], ev.date) \/ timelines'[a] = timelines[a]
  BY DEF ApplyEnd
<1>3. i \in DOMAIN timelines[a]
  BY <1>2 DEF Cap
<1> DEFINE v == timelines[a][i]
<1>4. v \in Version /\ v.expires \in Nat /\ SourcelessRunsOut(v, eventDate)
  BY <1>1, <1>3, VersionFields DEF BaseHasRunOut
<1>5. timelines'[a][i] = v \/ timelines'[a][i] = Capped(v, ev.date)
  BY <1>1, <1>2, <1>3, CapType
<1> HIDE DEF v
<1>6. Capped(v, ev.date) = v \/ Capped(v, ev.date).expires = ev.date
  BY <1>4 DEF Capped, Version
<1> QED
  BY <1>1, <1>4, <1>5, <1>6 DEF SourcelessRunsOut

\* The final sort, a permutation, keeps it.
LEMMA SortBaseHasRunOut ==
    ASSUME TypeOK, BaseHasRunOut, SortTimelines
    PROVE  BaseHasRunOut'
<1> SUFFICES ASSUME NEW a \in Addr, NEW i \in DOMAIN timelines'[a]
             PROVE  SourcelessRunsOut(timelines'[a][i], eventDate')
  BY DEF BaseHasRunOut
<1>1. /\ timelines[a] \in Seq(Version) /\ timelines'[a] = Sorted(timelines[a])
      /\ eventDate' = eventDate
  BY DEF TypeOK, SortTimelines
<1>2. PICK j \in DOMAIN timelines[a] : timelines'[a][i] = timelines[a][j]
  BY <1>1, SortedType
<1> QED
  BY <1>1, <1>2 DEF BaseHasRunOut

\* A temporary text without a source has run out by the last event.
LEMMA BaseAlwaysRunsOut == Spec => []BaseHasRunOut
<1>1. Init => BaseHasRunOut
  <2> SUFFICES ASSUME Init, NEW a \in Addr, NEW i \in DOMAIN timelines[a]
               PROVE  SourcelessRunsOut(timelines[a][i], eventDate)
    BY DEF BaseHasRunOut
  <2>1. timelines[a] = <<BaseVersion(a)>> /\ i = 1
    BY DEF Init
  <2> QED
    BY <2>1 DEF BaseVersion, SourcelessRunsOut
<1>2. TypeOK /\ BaseHasRunOut /\ [Next]_vars => BaseHasRunOut'
  <2> SUFFICES ASSUME TypeOK, BaseHasRunOut, [Next]_vars PROVE BaseHasRunOut'
    OBVIOUS
  <2>1. CASE UNCHANGED vars
    BY <2>1 DEF vars, BaseHasRunOut
  <2>2. CASE Next
    BY <2>2, StepShape, EndBaseHasRunOut, SortBaseHasRunOut, GrowsBaseHasRunOut DEF Advances
  <2> QED
    BY <2>1, <2>2
<1> QED
  BY <1>1, <1>2, TypeCorrect, PTL DEF Spec

\* What a step appends, and keeps of the rest, decides LaterPrevails.
LEMMA AppendedPrevails ==
    ASSUME TypeOK, BaseHasRunOut, NEW a \in Addr, NEW w, AppendsTo(a, w),
           eventDate' >= eventDate, eventDate' \in Nat,
           w.scope = {},
           \A i \in DOMAIN timelines[a] : /\ timelines[a][i].effective < w.effective
                                          /\ timelines[a][i].source # w.source,
           NEW d \in w.effective..LastDate, NEW t \in Territories,
           w.expires = NoDate \/ d < w.expires
    PROVE  LawAt(timelines'[a], GoverningIn(d, t)) = w
<1> DEFINE q == GoverningIn(d, t)
           vs == timelines[a]
<1>1. /\ vs \in Seq(Version) /\ w \in Version /\ timelines'[a] = Append(vs, w)
      /\ w.effective \in Nat /\ w.expires \in Nat /\ d \in Nat /\ w.effective <= d
      /\ w.effective >= eventDate' /\ eventDate \in Nat
      /\ w.source # None /\ t # None
  BY VersionFields, NoneAssumption DEF AppendsTo, TypeOK, CompileAssumption
<1>2. /\ q \in Query /\ q.territory = t /\ q.horizon = NoDate /\ q.asOf = d
      /\ q.inForce = FALSE
  BY <1>1, GoverningType DEF GoverningIn, Governing
<1>3. Horizon(q) = d
  BY <1>2 DEF Horizon
<1> HIDE DEF q
<1>4. Eligible(w, q)
  BY <1>1, <1>2, <1>3 DEF Eligible
<1>5. ASSUME NEW i \in DOMAIN vs, vs[i].kind = "temporary", Eligible(vs[i], q)
      PROVE  vs[i].source # None
  <2>1. vs[i].expires \in Nat /\ vs[i].expires # NoDate
    BY <1>1, <1>5, VersionFields DEF KindFor
  <2>2. vs[i].expires > d
    BY <1>3, <1>5, <2>1 DEF Eligible
  <2>3. SourcelessRunsOut(vs[i], eventDate)
    BY DEF BaseHasRunOut
  <2> QED
    BY <1>1, <2>1, <2>2, <2>3 DEF SourcelessRunsOut
<1>6. \A i \in DOMAIN vs :
          /\ vs[i].effective < w.effective
          /\ vs[i].source # w.source
          /\ vs[i].kind = "temporary" /\ Eligible(vs[i], q) => vs[i].source # None
  BY <1>5
<1> HIDE DEF vs
<1>7. SelectActive(Append(vs, w), q) = Selected(w)
  BY <1>1, <1>2, <1>4, <1>6, NewestGoverns
<1> QED
  BY <1>1, <1>7 DEF LawAt, Selected, q

\* What an act writes, later than everything at the address and from another
\* source, is the law there for the whole of its term.
THEOREM TheLaterActPrevails == Spec => LaterActPrevails
<1>1. TypeOK /\ BaseHasRunOut /\ [Next]_vars => [LaterPrevails]_vars
  <2> SUFFICES ASSUME TypeOK, BaseHasRunOut, Next, NEW a \in Addr, Appends(a),
                      Appended(a).scope = {},
                      \A i \in DOMAIN timelines[a] :
                          /\ timelines[a][i].effective < Appended(a).effective
                          /\ timelines[a][i].source # Appended(a).source,
                      NEW d \in Appended(a).effective..LastDate, NEW t \in Territories,
                      Appended(a).expires = NoDate \/ d < Appended(a).expires
               PROVE  LawAt(timelines'[a], GoverningIn(d, t)) = Appended(a)
    BY DEF LaterPrevails
  <2>1. timelines[a] \in Seq(Version) /\ Len(timelines[a]) \in Nat
    BY DEF TypeOK
  <2>2. Len(timelines'[a]) # Len(timelines[a])
    BY <2>1 DEF Appends
  <2>3. CASE \E ev \in Events : ApplyEnd(ev)
    <3>1. PICK ev \in Events : ApplyEnd(ev)
      BY <2>3
    <3>2. timelines'[a] = Cap(timelines[a], ev.date) \/ timelines'[a] = timelines[a]
      BY <3>1 DEF ApplyEnd
    <3>3. Len(Cap(timelines[a], ev.date)) = Len(timelines[a])
      BY <2>1, CapType, EventsType
    <3> QED
      BY <2>2, <3>2, <3>3
  <2>4. CASE SortTimelines
    <3>1. timelines'[a] = Sorted(timelines[a])
      BY <2>4 DEF SortTimelines
    <3> QED
      BY <2>1, <2>2, <3>1, SortedType
  <2>5. CASE Grows /\ Advances
    <3>1. PICK w : AppendsTo(a, w)
      BY <2>2, <2>5 DEF Grows
    <3>2. Appended(a) = w
      BY <2>1, <3>1 DEF Appended, AppendsTo
    <3> QED
      BY <2>5, <3>1, <3>2, AppendedPrevails DEF Advances
  <2> QED
    BY <2>3, <2>4, <2>5, StepShape
<1> QED
  BY <1>1, TypeCorrect, BaseAlwaysRunsOut, PTL DEF Spec, LaterActPrevails

-----------------------------------------------------------------------------
(***************************************************************************)
(* Sunsets.  Who appends what: an operation its own version, an event that *)
(* starts or rescopes a text a copy of one.                                *)
(***************************************************************************)
LEMMA Appenders ==
    ASSUME TypeOK, Next, NEW a \in Addr, Appends(a)
    PROVE  \/ \E op \in Ops : /\ Write(op)
                              /\ a = op.target
                              /\ Appended(a) = VersionOf(op, ExpiryOf(op))
           \/ \E op \in Ops : Renumber(op)
           \/ \E ev \in Events : /\ ApplyStart(ev)
                                 /\ a \in Starts(ev)
                                 /\ Appended(a).effective = ev.date
           \/ \E ev \in Events : /\ ApplyScope(ev)
                                 /\ Appended(a).effective = ev.date
                                 /\ Appended(a).kind = Latest(timelines[a], ev.date).kind
<1>1. timelines[a] \in Seq(Version) /\ Len(timelines[a]) \in Nat
  BY DEF TypeOK
<1>2. timelines'[a] # timelines[a]
  BY <1>1 DEF Appends
<1>3. ASSUME NEW w \in Version, timelines'[a] = Append(timelines[a], w)
      PROVE  Appended(a) = w
  BY <1>1, <1>3 DEF Appended
<1>4. ASSUME NEW op \in Ops, Write(op)
      PROVE  a = op.target /\ Appended(a) = VersionOf(op, ExpiryOf(op))
  <2> DEFINE w == VersionOf(op, ExpiryOf(op))
  <2>1. timelines' = [timelines EXCEPT ![op.target] = Append(@, w)]
    BY <1>4 DEF Write
  <2> HIDE DEF w
  <2>2. a = op.target
    BY <1>2, <2>1 DEF TypeOK
  <2>3. timelines'[a] = Append(timelines[a], w)
    BY <2>1, <2>2 DEF TypeOK
  <2>4. w = timelines'[a][Len(timelines[a]) + 1]
    BY <1>1, <2>3
  <2>5. Appended(a) = w
    BY <2>4 DEF Appended, Appends
  <2> QED
    BY <2>2, <2>5 DEF w
<1>5. ASSUME NEW ev \in Events, ApplyStart(ev)
      PROVE  a \in Starts(ev) /\ Appended(a).effective = ev.date
  <2> DEFINE w == Restarted(ev, LatestSubstantive(timelines[a], ev.date))
  <2>1. a \in Starts(ev) /\ timelines'[a] = Append(timelines[a], w)
    BY <1>2, <1>5 DEF ApplyStart
  <2>2. w.effective = ev.date
    BY DEF Restarted
  <2> HIDE DEF w
  <2>3. w = timelines'[a][Len(timelines[a]) + 1]
    BY <1>1, <2>1
  <2> QED
    BY <2>1, <2>2, <2>3 DEF Appended, Appends
<1>6. ASSUME NEW ev \in Events, ApplyScope(ev)
      PROVE  /\ Appended(a).effective = ev.date
             /\ Appended(a).kind = Latest(timelines[a], ev.date).kind
  <2> DEFINE w == Rescoped(ev, Latest(timelines[a], ev.date))
  <2>1. timelines'[a] = Append(timelines[a], w)
    BY <1>2, <1>6 DEF ApplyScope
  <2>2. w.effective = ev.date /\ w.kind = Latest(timelines[a], ev.date).kind
    BY DEF Rescoped
  <2> HIDE DEF w
  <2>3. w = timelines'[a][Len(timelines[a]) + 1]
    BY <1>1, <2>1
  <2> QED
    BY <2>2, <2>3 DEF Appended, Appends
<1>7. ASSUME NEW op \in Ops, SkipWrite(op) \/ SkipRenumber(op) \/ RaiseMisdated(op)
      PROVE  FALSE
  BY <1>2, <1>7 DEF SkipWrite, SkipRenumber, RaiseMisdated
<1>8. ASSUME NEW ev \in Events, ApplyEnd(ev) PROVE FALSE
  <2>1. timelines'[a] = Cap(timelines[a], ev.date)
    BY <1>2, <1>8 DEF ApplyEnd
  <2>2. Len(Cap(timelines[a], ev.date)) = Len(timelines[a])
    BY <1>1, CapType, EventsType
  <2> QED
    BY <1>1, <2>1, <2>2 DEF Appends
<1>9. ~ FinishOps
  BY <1>2 DEF FinishOps
<1>10. ~ SortTimelines
  <2>1. SortTimelines => timelines'[a] = Sorted(timelines[a])
    BY DEF SortTimelines
  <2> QED
    BY <1>1, <2>1, SortedType DEF Appends
<1> QED
  BY <1>4, <1>5, <1>6, <1>7, <1>8, <1>9, <1>10 DEF Next

\* Where only temporary texts that apply everywhere are in force, one of them
\* is selected, and no durable text lies beneath.
LEMMA TemporarySelection ==
    ASSUME NEW vs \in Seq(Version), NEW date \in Nat,
           Candidates(vs, Governing(date)) # {},
           \A c \in Candidates(vs, Governing(date)) :
               /\ c.version.kind = "temporary"
               /\ c.version.scope = {}
               /\ HasText(c.version.content)
    PROVE  /\ Background(Candidates(vs, Governing(date)), Governing(date)) = NoCandidate
           /\ \E c \in Candidates(vs, Governing(date)) :
                 /\ SelectActive(vs, Governing(date)) = Selected(c.version)
                 /\ Latest(vs, date) = c.version
<1> DEFINE q == Governing(date)
           C == Candidates(vs, q)
<1>1. q \in Query
  BY GoverningType
<1>2. /\ C \in SUBSET Candidate /\ IsFiniteSet(C) /\ Distinct(C)
      /\ \A c \in C : c.at \in DOMAIN vs
  BY CandidatesType
<1>3. Latest(vs, date) = PickLatest(C).version
  BY DEF Latest
<1> HIDE DEF q
<1>4. \A c \in C : Applies(c.version, q) /\ ~ Blocks(c.version, q)
  BY DEF Applies, Blocks, q
<1>5. {c \in C : c.version.kind = "temporary" /\ Applies(c.version, q)} = C
  BY <1>4 DEF q
<1>6. {c \in C : /\ c.version.kind = "permanent"
                 /\ Applies(c.version, q)
                 /\ ~ BeyondHorizon(c.version, q)} = {}
  BY DEF q
<1>7. Background(C, q) = NoCandidate
  BY <1>4, <1>6 DEF Background, PickLatest
<1>8. Overlay(C, q) = PickLatest(C)
  BY <1>5 DEF Overlay
<1>9. ~ NeedsScope(C, q)
  BY DEF NeedsScope, q
<1>10. C # {}
  BY DEF q
<1> HIDE DEF C
<1>11. PickLatest(C) \in C
  BY <1>2, <1>10, PickLatestMember
<1>12. PickLatest(C) # NoCandidate
  BY <1>2, <1>11 DEF NoCandidate
<1>13. SelectAmong(C, q) = Selected(PickLatest(C).version)
  BY <1>7, <1>8, <1>9, <1>12 DEF SelectAmong
<1>14. SelectActive(vs, q) = Selected(PickLatest(C).version)
  BY <1>1, <1>13, SelectByCandidates DEF C
<1> QED
  BY <1>3, <1>7, <1>11, <1>14 DEF C, q

\* What an operation writes with a text and no expiry of its own inherits.
LEMMA TextInherits ==
    ASSUME OpActions \subseteq {"insert", "replace", "repeal"}, NEW op \in Ops,
           HasText(Numbered(op.payload)), ExpiryOf(op) = NoDate
    PROVE  Inherits(op)
<1>1. HasText(op.payload)
  BY DEF HasText, Numbered
<1>2. op.action \in OpActions
  BY DEF Ops
<1>3. op.action # "repeal"
  BY <1>1, CompileAssumption DEF Ops
<1> QED
  BY <1>1, <1>2, <1>3 DEF ExpiryOf, Inherits, HasText, IsPlaceholder

\* A text written over temporary texts only is temporary, unless a heading
\* or a renumbering writes it.
THEOREM SunsetsHold ==
    ASSUME OpActions \subseteq {"insert", "replace", "repeal"}
    PROVE  Spec => SunsetHolds
<1>1. TypeOK /\ CacheCoherent /\ [Next]_vars => [NoAccidentalPermanence]_vars
  <2> SUFFICES ASSUME TypeOK, CacheCoherent, Next, NEW a \in Addr, Appends(a),
                      TemporaryOnly(Candidates(timelines[a],
                                               Governing(Appended(a).effective)),
                                    Appended(a)),
                      HasText(Appended(a).content)
               PROVE  Appended(a).kind = "temporary"
    BY DEF NoAccidentalPermanence
  <2> DEFINE w == Appended(a)
             date == w.effective
             C == Candidates(timelines[a], Governing(date))
  <2>1. timelines[a] \in Seq(Version)
    BY DEF TypeOK
  <2>2. ASSUME date \in Nat
        PROVE  /\ Background(C, Governing(date)) = NoCandidate
               /\ \E c \in C : /\ SelectActive(timelines[a], Governing(date))
                                    = Selected(c.version)
                               /\ Latest(timelines[a], date) = c.version
    BY <2>1, <2>2, TemporarySelection DEF TemporaryOnly
  <2>3. ASSUME NEW op \in Ops, Write(op), a = op.target,
               w = VersionOf(op, ExpiryOf(op))
        PROVE  w.kind = "temporary"
    <3>1. /\ date = op.effective /\ date \in Nat /\ phase = "ops"
          /\ w.content = Numbered(op.payload) /\ w.kind = KindFor(ExpiryOf(op))
      BY <2>3, OpsType DEF VersionOf, Write, Due
    <3>2. SUFFICES ASSUME ExpiryOf(op) = NoDate PROVE FALSE
      BY <3>1 DEF KindFor
    <3>3. Inherits(op)
      BY <3>1, <3>2, TextInherits
    <3>4. PICK c \in C : SelectActive(timelines[a], Governing(date)) = Selected(c.version)
      BY <2>2, <3>1
    <3>5. ActiveAt(a, date) = c.version
      BY <3>1, <3>4, CachedIsFresh DEF ActiveAt, Selected
    <3>6. c.version.kind = "temporary" /\ c.version.expires > date + 1
      BY DEF TemporaryOnly
    <3>7. TargetDecides(a, date)
      <4>1. Present(a)
        BY DEF Present, Candidates
      <4> QED
        BY <3>5, <3>6, <4>1 DEF TargetDecides, NoVersion
    <3>8. InheritedExpiry(a, date) = c.version.expires
      BY <2>2, <3>1, <3>5, <3>6, <3>7 DEF InheritedExpiry
    <3> QED
      BY <2>3, <3>1, <3>2, <3>3, <3>6, <3>8 DEF ExpiryOf, NoDate
  <2>4. ASSUME NEW op \in Ops, Renumber(op) PROVE FALSE
    BY <2>4 DEF Ops, Renumber
  <2>5. ASSUME NEW ev \in Events, a \in Starts(ev), date = ev.date PROVE FALSE
    <3>1. PICK c \in C : Latest(timelines[a], date) = c.version
      BY <2>2, <2>5, EventsType
    <3> QED
      BY <2>5, <3>1 DEF Starts, TemporaryOnly, IsAbsent, HasText
  <2>6. ASSUME NEW ev \in Events, date = ev.date,
               w.kind = Latest(timelines[a], ev.date).kind
        PROVE  w.kind = "temporary"
    <3>1. PICK c \in C : Latest(timelines[a], date) = c.version
      BY <2>2, <2>6, EventsType
    <3> QED
      BY <2>6, <3>1 DEF TemporaryOnly
  <2> QED
    BY <2>3, <2>4, <2>5, <2>6, Appenders
<1> QED
  BY <1>1, TypeCorrect, CacheIsCoherent, PTL DEF Spec, SunsetHolds

\* Where nothing is in force, nothing is selected.
LEMMA NothingSelected ==
    ASSUME NEW vs \in Seq(Version), NEW date \in Nat,
           Candidates(vs, Governing(date)) = {}
    PROVE  SelectActive(vs, Governing(date)) = Absent
<1>1. Governing(date) \in Query
  BY GoverningType
<1>2. Overlay({}, Governing(date)) = NoCandidate
  BY DEF Overlay, PickLatest
<1>3. Background({}, Governing(date)) = NoCandidate
  BY DEF Background, PickLatest
<1>4. SelectAmong({}, Governing(date)) = Absent
  BY <1>2, <1>3 DEF SelectAmong, NeedsScope
<1> QED
  BY <1>1, <1>4, SelectByCandidates

\* A text written where nothing is in force, under a temporary ancestor, is
\* temporary, unless a heading or a renumbering writes it.
THEOREM ChildrenDieWithParents ==
    ASSUME OpActions \subseteq {"insert", "replace", "repeal"}
    PROVE  Spec => ChildDiesWithParent
<1>1. TypeOK /\ CacheCoherent /\ [Next]_vars => [NoOrphan]_vars
  <2> SUFFICES ASSUME TypeOK, CacheCoherent, Next, ByOperation, NEW a \in Addr, Appends(a),
                      Candidates(timelines[a], Governing(Appended(a).effective)) = {},
                      HasText(Appended(a).content),
                      DyingParents(a, Appended(a).effective) # {}
               PROVE  Appended(a).expires # NoDate
    BY DEF NoOrphan
  <2> DEFINE w == Appended(a)
             date == w.effective
  <2>1. ASSUME NEW op \in Ops, Write(op), a = op.target,
               w = VersionOf(op, ExpiryOf(op))
        PROVE  w.expires # NoDate
    <3>1. /\ date = op.effective /\ date \in Nat /\ phase = "ops"
          /\ w.content = Numbered(op.payload) /\ w.expires = ExpiryOf(op)
      BY <2>1, OpsType DEF VersionOf, Write, Due
    <3>2. SUFFICES ASSUME ExpiryOf(op) = NoDate PROVE FALSE
      BY <3>1
    <3>3. Inherits(op)
      BY <3>1, <3>2, TextInherits
    <3>4. ActiveAt(a, date) = NoVersion
      <4>1. SelectActive(timelines[a], Governing(date)) = Absent
        BY <3>1, NothingSelected DEF TypeOK
      <4> QED
        BY <3>1, <4>1, CachedIsFresh DEF ActiveAt, Absent
    <3>5. PICK p \in DyingParents(a, date) : TRUE
      OBVIOUS
    <3>6. p \in Addr /\ timelines[p] \in Seq(Version)
      BY DEF DyingParents, TypeOK
    <3>7. ActiveAt(p, date).expires > date
      BY <3>1, <3>6, CachedIsFresh DEF DyingParents, LawAt, ActiveAt
    <3>8. Present(p)
      <4>1. SUFFICES ASSUME timelines[p] = <<>> PROVE FALSE
        BY DEF Present
      <4>2. Candidates(timelines[p], Governing(date)) = {}
        BY <4>1 DEF Candidates
      <4>3. ActiveAt(p, date) = NoVersion
        BY <3>1, <3>6, <4>2, NothingSelected, CachedIsFresh DEF ActiveAt, Absent
      <4> QED
        BY <3>1, <3>7, <4>3 DEF NoVersion, NoDate
    <3>9. p \in Ancestors(a) /\ Dies(p, date)
      BY <3>6, <3>7, <3>8 DEF Ancestors, Dies, DyingParents
    <3>10. ~ TargetDecides(a, date)
      BY <3>4 DEF TargetDecides
    <3>11. InheritedExpiry(a, date) # NoDate
      BY <3>1, <3>9, <3>10, InheritedType
    <3> QED
      BY <2>1, <3>1, <3>2, <3>3, <3>11 DEF ExpiryOf
  <2>2. ASSUME NEW op \in Ops, Renumber(op) PROVE FALSE
    BY <2>2 DEF Ops, Renumber
  <2>3. ASSUME NEW ev \in Events, ApplyStart(ev) \/ ApplyScope(ev) PROVE FALSE
    <3>1. Matched(ev)
      BY <2>3 DEF ApplyStart, ApplyScope
    <3>2. opDate' = opDate /\ eventDate' = ev.date /\ ev.date > opDate /\ opDate \in Nat
      BY <3>1, MatchedType DEF TypeOK
    <3> QED
      BY <3>2, EventsType DEF ByOperation
  <2> QED
    BY <2>1, <2>2, <2>3, Appenders
<1> QED
  BY <1>1, TypeCorrect, CacheIsCoherent, PTL DEF Spec, ChildDiesWithParent

-----------------------------------------------------------------------------
(***************************************************************************)
(* What a renumbering moves stays law.  The text that arrives outranks the *)
(* permanent ones that are eligible on its day, among which none is a      *)
(* text, and no overlay that another act's absence superseded is back.     *)
(***************************************************************************)
\* What is picked outranks the others.
LEMMA PickedIsBest ==
    ASSUME NEW C \in SUBSET Candidate, IsFiniteSet(C), Distinct(C), C # {}
    PROVE  /\ PickLatest(C) \in C
           /\ \A d \in C \ {PickLatest(C)} : Outranks(C, PickLatest(C), d)
<1>1. \E c \in C : \A d \in C \ {c} : Outranks(C, c, d)
  BY BestExists
<1> QED
  BY <1>1 DEF PickLatest

\* What outranks the others is picked.
LEMMA BestIsPicked ==
    ASSUME NEW C \in SUBSET Candidate, NEW c \in C, \A d \in C \ {c} : Outranks(C, c, d)
    PROVE  PickLatest(C) = c
<1>1. \A d \in C : (\A e \in C \ {d} : Outranks(C, d, e)) => d = c
  BY RankAsymmetric
<1>2. PickLatest(C) = CHOOSE d \in C : \A e \in C \ {d} : Outranks(C, d, e)
  BY DEF PickLatest
<1> QED
  BY <1>1, <1>2

\* What is not a placeholder ranks in the middle of its dates.
LEMMA UnmarkedBias ==
    ASSUME NEW C, NEW c, ~ IsPlaceholder(c.version.content)
    PROVE  Bias(C, c) = 1
BY DEF Bias

\* By date alone, where everything applies everywhere, the two rails are the
\* temporary and the permanent versions.
LEMMA RailsByDate ==
    ASSUME NEW vs \in Seq(Version), NEW date \in Nat,
           \A c \in Candidates(vs, Governing(date)) : c.version.scope = {}
    PROVE  LET q == Governing(date)
               C == Candidates(vs, q)
           IN  /\ Overlay(C, q) = PickLatest({c \in C : c.version.kind = "temporary"})
               /\ Background(C, q) = PickLatest({c \in C : c.version.kind = "permanent"})
               /\ ~ NeedsScope(C, q)
<1> DEFINE q == Governing(date)
           C == Candidates(vs, q)
<1>1. q.horizon = NoDate /\ q.asOf = date /\ Horizon(q) = date
  BY DEF Governing, Horizon
<1>2. \A c \in C : Eligible(c.version, q) /\ c.version.expires \in Nat
  <2>1. C \in SUBSET Candidate /\ \A c \in C : Eligible(c.version, q)
    BY CandidatesType
  <2> HIDE DEF q, C
  <2>2. \A c \in C : c.version \in Version
    BY <2>1 DEF Candidate
  <2> QED
    BY <2>1, <2>2 DEF Version
<1> HIDE DEF q, C
<1>3. \A c \in C : Applies(c.version, q) /\ ~ BeyondHorizon(c.version, q)
  BY <1>1 DEF Applies, BeyondHorizon, C, q
<1>4. \A c \in C : ~ Blocks(c.version, q)
  BY <1>1, <1>2 DEF Blocks, Eligible
<1>5. ~ NeedsScope(C, q)
  BY DEF NeedsScope, C, q
<1>6. {c \in C : c.version.kind = "temporary" /\ Applies(c.version, q)}
        = {c \in C : c.version.kind = "temporary"}
  BY <1>3
<1>7. {c \in C : /\ c.version.kind = "permanent"
                 /\ Applies(c.version, q)
                 /\ ~ BeyondHorizon(c.version, q)}
        = {c \in C : c.version.kind = "permanent"}
  BY <1>3
<1>8. Overlay(C, q) = PickLatest({c \in C : c.version.kind = "temporary"})
  BY <1>6 DEF Overlay
<1>9. Background(C, q) = PickLatest({c \in C : c.version.kind = "permanent"})
  BY <1>4, <1>7 DEF Background
<1> QED
  BY <1>5, <1>8, <1>9 DEF C, q

\* A text that arrives where the address is left to it is the law there.
LEMMA ArrivalGoverns ==
    ASSUME NEW vs \in Seq(Version), NEW w \in Version, w.source \in Sources,
           w.scope = {}, w.expires = NoDate, HasText(w.content), LeftTo(w, vs),
           \A i \in DOMAIN vs : Eligible(vs[i], Governing(w.effective)) =>
               /\ vs[i].effective = w.effective /\ IsAbsent(vs[i].content)
                      => vs[i].enacted = w.enacted
               /\ vs[i].kind = "temporary" => vs[i].source # None
    PROVE  LawAt(Append(vs, w), Governing(w.effective)) = w
<1> DEFINE date == w.effective
           q == Governing(date)
           ws == Append(vs, w)
           n == Len(vs) + 1
           c == [at |-> n, version |-> w]
           C == Candidates(vs, q)
           D == Candidates(ws, q)
           T == {x \in C : x.version.kind = "temporary"}
           P == {x \in C : x.version.kind = "permanent"}
           law == LawAt(vs, q)
<1>1. /\ date \in Nat /\ w.enacted \in Nat /\ w.kind = "permanent" /\ w.source # None
      /\ c \in Candidate /\ c.at = n /\ c.version = w
  BY NoneAssumption DEF Version, KindFor, Candidate
<1>2. q \in Query /\ q.asOf = date /\ q.inForce = FALSE /\ q.horizon = NoDate
  BY <1>1, GoverningType DEF Governing
<1>3. /\ ws \in Seq(Version) /\ n \in Nat
      /\ DOMAIN ws = DOMAIN vs \cup {n} /\ n \notin DOMAIN vs
      /\ \A i \in DOMAIN vs : ws[i] = vs[i] /\ n > i /\ i \in Nat
      /\ ws[n] = w
  OBVIOUS
<1>4. Eligible(w, q)
  BY <1>1, <1>2 DEF Eligible
<1>5. /\ C \in SUBSET Candidate /\ IsFiniteSet(C) /\ Distinct(C)
      /\ \A x \in C : x.at \in DOMAIN vs /\ x.version = vs[x.at] /\ Eligible(x.version, q)
  BY CandidatesType
<1>6. D = C \cup {c}
  <2> HIDE DEF q, n, ws
  <2> QED
    BY <1>3, <1>4 DEF Candidates
<1>7. ASSUME NEW x \in C
      PROVE  /\ x.at \in Nat /\ x.at < n
             /\ x.version \in Version /\ x.version.scope = {}
             /\ x.version.effective \in Nat /\ x.version.enacted \in Nat
             /\ x.version.effective <= date
             /\ x.version.kind \in {"temporary", "permanent"}
             /\ x.version.effective = date =>
                    /\ x.version.source = w.source /\ ~ IsPlaceholder(x.version.content)
                    /\ IsAbsent(x.version.content) => x.version.enacted = w.enacted
             /\ x.version.kind = "temporary" =>
                    x.version.source # w.source /\ x.version.source # None
  <2>1. x.at \in DOMAIN vs /\ x.version = vs[x.at] /\ Eligible(vs[x.at], q)
    BY <1>5
  <2>2. x.version \in Version
    BY <2>1
  <2>3. x.version.effective <= date
    BY <1>2, <2>1 DEF Eligible
  <2>4. /\ vs[x.at].scope = {}
        /\ vs[x.at].effective = date =>
               vs[x.at].source = w.source /\ ~ IsPlaceholder(vs[x.at].content)
        /\ vs[x.at].kind = "temporary" => vs[x.at].source # w.source
    BY <2>1 DEF LeftTo
  <2>5. /\ vs[x.at].effective = date /\ IsAbsent(vs[x.at].content)
               => vs[x.at].enacted = w.enacted
        /\ vs[x.at].kind = "temporary" => vs[x.at].source # None
    BY <2>1
  <2> HIDE DEF n, q, date
  <2>6. x.at \in Nat /\ x.at < n
    BY <1>3, <2>1
  <2>7. /\ x.version.effective \in Nat /\ x.version.enacted \in Nat
        /\ x.version.kind \in {"temporary", "permanent"}
    BY <2>2 DEF Version
  <2> QED
    BY <2>1, <2>2, <2>3, <2>4, <2>5, <2>6, <2>7
<1>8. Free(law)
  BY DEF LeftTo
<1>9. /\ Overlay(C, q) = PickLatest(T) /\ Background(C, q) = PickLatest(P)
      /\ ~ NeedsScope(C, q)
  BY <1>1, <1>7, RailsByDate
<1>10. /\ Overlay(D, q) = PickLatest(T) /\ Background(D, q) = PickLatest(P \cup {c})
       /\ ~ NeedsScope(D, q)
  <2>1. \A x \in D : x.version.scope = {}
    BY <1>1, <1>6, <1>7
  <2>2. /\ Overlay(D, q) = PickLatest({x \in D : x.version.kind = "temporary"})
        /\ Background(D, q) = PickLatest({x \in D : x.version.kind = "permanent"})
        /\ ~ NeedsScope(D, q)
    BY <1>1, <1>3, <2>1, RailsByDate
  <2>3. /\ {x \in D : x.version.kind = "temporary"} = T
        /\ {x \in D : x.version.kind = "permanent"} = P \cup {c}
    <3> HIDE DEF c, C, D
    <3> QED
      BY <1>1, <1>6
  <2> QED
    BY <2>2, <2>3
<1>11. law = SelectAmong(C, q).version /\ LawAt(ws, q) = SelectAmong(D, q).version
  BY <1>2, <1>3, SelectByCandidates DEF LawAt
<1> HIDE DEF q, C, D, c, n, ws, law
<1>12. T = {} \/ PickLatest(T) \in T
  <2>1. T \in SUBSET Candidate /\ IsFiniteSet(T) /\ Distinct(T)
    BY <1>5, FS_Subset DEF Distinct
  <2> QED
    BY <2>1, PickLatestMember
<1>13. P = {} \/ /\ PickLatest(P) \in P
                 /\ \A x \in P \ {PickLatest(P)} : Outranks(P, PickLatest(P), x)
  <2>1. P \in SUBSET Candidate /\ IsFiniteSet(P) /\ Distinct(P)
    BY <1>5, FS_Subset DEF Distinct
  <2> QED
    BY <2>1, PickedIsBest
<1>14. \A x \in C : x # NoCandidate
  <2>1. \A x \in C : x.at # 0
    BY <1>5 DEF Candidate
  <2> QED
    BY <2>1 DEF NoCandidate
<1>15. PickLatest({}) = NoCandidate
  BY DEF PickLatest
<1>16. ASSUME T # {}
       PROVE  P # {} /\ Supersedes(PickLatest(T).version, PickLatest(P).version)
  <2>1. PickLatest(T) # NoCandidate /\ PickLatest(T).version.kind = "temporary"
    BY <1>12, <1>14, <1>16
  <2>2. law # PickLatest(T).version
    BY <1>8, <2>1 DEF Free
  <2> QED
    BY <1>9, <1>11, <1>15, <2>1, <2>2 DEF SelectAmong, Selected
<1>17. ASSUME P # {}
       PROVE  law = PickLatest(P).version
  <2>1. PickLatest(P) # NoCandidate
    BY <1>13, <1>14, <1>17
  <2> QED
    BY <1>9, <1>11, <1>12, <1>15, <1>16, <2>1 DEF SelectAmong, Selected
<1>18. ASSUME NEW x \in P
       PROVE  Outranks(P \cup {c}, c, x)
  <2> DEFINE b == PickLatest(P)
  <2>1. x \in C /\ c.at > x.at
    BY <1>1, <1>7
  <2>2. CASE x.version.effective # date
    <3>1. date > x.version.effective
      BY <1>1, <1>7, <2>1, <2>2
    <3> QED
      BY <1>1, <3>1 DEF Outranks
  <2>3. CASE x.version.effective = date
    <3>1. Bias(P \cup {c}, x) = 1
      <4>1. ~ IsPlaceholder(x.version.content)
        BY <1>7, <2>1, <2>3
      <4> HIDE DEF P
      <4> QED
        BY <4>1, UnmarkedBias
    <3>2. Bias(P \cup {c}, c) = 1
      <4>1. ~ IsPlaceholder(c.version.content)
        BY <1>1 DEF HasText, IsPlaceholder
      <4> HIDE DEF P
      <4> QED
        BY <4>1, UnmarkedBias
    <3>3. x.version.enacted <= w.enacted
      <4>1. SUFFICES ASSUME x.version.enacted > w.enacted
                     PROVE  FALSE
        BY <1>1, <1>7, <2>1
      <4>2. b \in C /\ (b = x \/ Outranks(P, b, x))
        BY <1>13
      <4>3. b.version.effective = date /\ b.version.enacted >= x.version.enacted
        <5> HIDE DEF b
        <5>1. /\ b.version.effective \in Nat /\ b.version.enacted \in Nat
              /\ b.version.effective <= date /\ x.version.enacted \in Nat
          BY <1>7, <2>1, <4>2
        <5> QED
          BY <1>1, <2>3, <4>2, <5>1 DEF Outranks
      <4>4. ~ IsPlaceholder(b.version.content) /\ ~ IsAbsent(b.version.content)
        <5>1. b.version.enacted # w.enacted
          <6> HIDE DEF b
          <6>1. b.version.enacted \in Nat /\ x.version.enacted \in Nat
            BY <1>7, <2>1, <4>2
          <6> QED
            BY <1>1, <4>1, <4>3, <6>1
        <5> QED
          BY <1>7, <4>2, <4>3, <5>1
      <4>5. b.version.content \in Content
        BY <1>7, <4>2 DEF Version
      <4>6. HasText(b.version.content)
        BY <4>4, <4>5 DEF Content, HasText, IsPlaceholder, IsAbsent
      <4>7. ~ HasText(b.version.content)
        BY <1>8, <1>17 DEF Free
      <4> QED
        BY <4>6, <4>7
    <3> QED
      BY <1>1, <1>7, <2>1, <2>3, <3>1, <3>2, <3>3 DEF Outranks
  <2> QED
    BY <2>2, <2>3
<1>19. PickLatest(P \cup {c}) = c
  <2>1. P \cup {c} \in SUBSET Candidate
    BY <1>1, <1>5
  <2> HIDE DEF P
  <2> QED
    BY <1>18, <2>1, BestIsPicked
<1>20. ASSUME T # {}
       PROVE  Supersedes(PickLatest(T).version, w)
  <2> DEFINE o == PickLatest(T).version
             b == PickLatest(P).version
  <2>1. Supersedes(o, b) /\ P # {}
    BY <1>16, <1>20
  <2>2. b.effective <= date /\ b.effective \in Nat
    BY <1>7, <1>13, <2>1
  <2>3. /\ o.effective \in Nat /\ o.expires \in Nat
        /\ o.source # w.source /\ o.source # None
    <3>1. PickLatest(T) \in C /\ o.kind = "temporary"
      BY <1>12, <1>20
    <3>2. o \in Version
      BY <1>7, <3>1
    <3> QED
      BY <1>7, <3>1, <3>2 DEF Version
  <2> HIDE DEF o, b
  <2>4. CASE IndependentLater(o, b)
    <3>1. w.effective > o.effective
      BY <1>1, <2>2, <2>3, <2>4 DEF IndependentLater
    <3> QED
      BY <1>1, <2>3, <3>1 DEF Supersedes, IndependentLater, o
  <2>5. CASE HandsOver(o, b)
    <3>1. w.effective > o.effective /\ w.effective + 1 >= o.expires /\ o.expires # NoDate
      BY <1>1, <2>2, <2>3, <2>5 DEF HandsOver
    <3> QED
      BY <3>1 DEF Supersedes, HandsOver, o
  <2> QED
    BY <2>1, <2>4, <2>5 DEF Supersedes
<1>21. c # NoCandidate
  BY <1>1 DEF Candidate, NoCandidate
<1>22. PickLatest(T) = NoCandidate \/ Supersedes(PickLatest(T).version, w)
  BY <1>15, <1>20
<1>23. SelectAmong(D, q) = Selected(w)
  <2> HIDE DEF T, P
  <2> QED
    BY <1>1, <1>10, <1>19, <1>21, <1>22 DEF SelectAmong
<1> QED
  BY <1>11, <1>23 DEF Selected, ws, q

\* What an operation writes begins on its date and is enacted with its act.
LEMMA OperationWrites ==
    ASSUME TypeOK, NEW op \in Ops,
           \/ Write(op) \/ SkipWrite(op) \/ Renumber(op) \/ SkipRenumber(op)
           \/ RaiseMisdated(op),
           NEW a \in Addr
    PROVE  \/ timelines'[a] = timelines[a]
           \/ \E w : /\ timelines'[a] = Append(timelines[a], w)
                     /\ w.effective = op.effective
                     /\ w.source \in Sources
                     /\ w.enacted = Enacted[w.source]
<1>1. op.target \in Addr /\ op.destination \in Addr /\ op.source \in Sources
  BY OpsType
<1>2. CASE Write(op)
  <2> DEFINE w == VersionOf(op, ExpiryOf(op))
  <2>1. timelines' = [timelines EXCEPT ![op.target] = Append(@, w)]
    BY <1>2 DEF Write
  <2>2. w.effective = op.effective /\ w.source \in Sources /\ w.enacted = Enacted[w.source]
    BY <1>1 DEF VersionOf
  <2> HIDE DEF w
  <2>3. \/ timelines'[a] = timelines[a]
        \/ timelines'[a] = Append(timelines[a], w)
    BY <2>1 DEF TypeOK
  <2> QED
    BY <2>2, <2>3
<1>3. CASE Renumber(op)
  <2> DEFINE w == MovedVersion(op, FrameOf(op)[op.target])
             t == Tombstone(op)
  <2>1. timelines' = [timelines EXCEPT ![op.destination] = Append(@, w),
                                       ![op.target]      = Append(@, t)]
    BY <1>3 DEF Renumber
  <2>2. /\ w.effective = op.effective /\ w.source \in Sources
        /\ w.enacted = Enacted[w.source]
    BY <1>1 DEF MovedVersion
  <2>3. /\ t.effective = op.effective /\ t.source \in Sources
        /\ t.enacted = Enacted[t.source]
    BY <1>1 DEF Tombstone
  <2>4. op.destination # op.target
    BY <1>3, OpsType DEF Renumber
  <2> HIDE DEF w, t
  <2>5. \/ timelines'[a] = timelines[a]
        \/ timelines'[a] = Append(timelines[a], w)
        \/ timelines'[a] = Append(timelines[a], t)
    BY <1>1, <2>1, <2>4 DEF TypeOK
  <2> QED
    BY <2>2, <2>3, <2>5
<1>4. CASE SkipWrite(op) \/ SkipRenumber(op) \/ RaiseMisdated(op)
  BY <1>4 DEF SkipWrite, SkipRenumber, RaiseMisdated
<1> QED
  BY <1>2, <1>3, <1>4

(***************************************************************************)
(* While operations run, the frame of a wave that can still be read shows  *)
(* each address as it is, or the act of some operation of that day has     *)
(* written there since; and an absence is dated by the act that wrote it,  *)
(* for events restart and rescope texts only.                              *)
(***************************************************************************)
FrameHolds(s) ==
    \A a \in Addr : \/ s.frame[a] = LawAt(timelines[a], Governing(s.date))
                    \/ WrittenOn(a, s.date)

SnapshotsHold ==
    phase = "ops" =>
        \A s \in snapshots :
            /\ s.date <= opDate
            /\ s.date = opDate /\ eventDate <= opDate => FrameHolds(s)

DatedByAct(v) == IsAbsent(v.content) /\ v.source \in Sources => v.enacted = Enacted[v.source]

AbsencesAreDated == \A a \in Addr : \A i \in DOMAIN timelines[a] : DatedByAct(timelines[a][i])

\* The frame taken now shows the law as it is.
LEMMA FrameIsFresh ==
    ASSUME TypeOK, CacheCoherent, phase = "ops", NEW date \in Nat, NEW a \in Addr
    PROVE  FrameNow(date)[a] = LawAt(timelines[a], Governing(date))
<1>1. CASE Present(a)
  BY <1>1, CachedIsFresh DEF FrameNow, ActiveAt, LawAt
<1>2. CASE ~ Present(a)
  <2>1. timelines[a] = <<>> /\ timelines[a] \in Seq(Version)
    BY <1>2 DEF Present, TypeOK
  <2>2. Candidates(timelines[a], Governing(date)) = {}
    BY <2>1 DEF Candidates
  <2>3. SelectActive(timelines[a], Governing(date)) = Absent
    BY <2>1, <2>2, NothingSelected
  <2> QED
    BY <1>2, <2>3 DEF FrameNow, LawAt, Absent
<1> QED
  BY <1>1, <1>2

\* What was written on a day stays in the timeline.
LEMMA WrittenStays ==
    ASSUME TypeOK, NEW a \in Addr, NEW date,
           timelines'[a] = timelines[a] \/ \E w : timelines'[a] = Append(timelines[a], w),
           WrittenOn(a, date)
    PROVE  WrittenOn(a, date)'
<1>1. PICK i \in DOMAIN timelines[a] : /\ timelines[a][i].effective = date
                                       /\ timelines[a][i].source \in Sources
  BY DEF WrittenOn
<1>2. timelines[a] \in Seq(Version)
  BY DEF TypeOK
<1>3. i \in DOMAIN timelines'[a] /\ timelines'[a][i] = timelines[a][i]
  <2>1. ASSUME NEW w, timelines'[a] = Append(timelines[a], w)
        PROVE  i \in DOMAIN timelines'[a] /\ timelines'[a][i] = timelines[a][i]
    BY <1>2, <2>1
  <2> QED
    BY <2>1
<1> QED
  BY <1>1, <1>3 DEF WrittenOn

\* An operation keeps SnapshotsHold: it writes on the day of the frame.
LEMMA OperationSnapshots ==
    ASSUME TypeOK, CacheCoherent, SnapshotsHold, NEW op \in Ops,
           \/ Write(op) \/ SkipWrite(op) \/ Renumber(op) \/ SkipRenumber(op)
           \/ RaiseMisdated(op)
    PROVE  SnapshotsHold'
<1>1. Due(op) /\ phase = "ops"
  BY DEF Write, SkipWrite, Renumber, SkipRenumber, RaiseMisdated, Due
<1>2. /\ opDate' = op.effective /\ eventDate' = eventDate
      /\ op.effective >= opDate /\ op.effective >= eventDate
      /\ op.effective \in Nat /\ opDate \in Nat /\ eventDate \in Nat
  BY <1>1, DueType, OpsType DEF TypeOK
<1>3. snapshots' = snapshots \/ snapshots' = SnapshotsAfter(op)
  BY DEF Write, SkipWrite, Renumber, SkipRenumber, RaiseMisdated
<1>4. ASSUME NEW s \in snapshots, s.date = op.effective
      PROVE  FrameHolds(s)
  <2>1. s.date <= opDate /\ s.date \in Nat
    BY <1>1 DEF SnapshotsHold, TypeOK, Snapshot
  <2>2. s.date = opDate /\ eventDate <= opDate
    BY <1>2, <1>4, <2>1
  <2> QED
    BY <1>1, <2>2 DEF SnapshotsHold
<1>5. ASSUME NEW s \in snapshots'
      PROVE  s.date <= op.effective /\ (s.date = op.effective => FrameHolds(s))
  <2>1. CASE s \in snapshots
    <3>1. s.date <= opDate /\ s.date \in Nat
      BY <1>1, <2>1 DEF SnapshotsHold, TypeOK, Snapshot
    <3> QED
      BY <1>2, <1>4, <2>1, <3>1
  <2>2. CASE s \notin snapshots
    <3>1. s = [source |-> op.source, date |-> op.effective, frame |-> FrameNow(op.effective)]
      BY <1>3, <2>2 DEF SnapshotsAfter
    <3>2. s.date = op.effective /\ s.frame = FrameNow(op.effective)
      BY <3>1
    <3>3. FrameHolds(s)
      BY <1>1, <1>2, <3>2, FrameIsFresh DEF FrameHolds
    <3> QED
      BY <1>2, <3>2, <3>3
  <2> QED
    BY <2>1, <2>2
<1>6. ASSUME NEW s \in snapshots', s.date = op.effective, NEW a \in Addr
      PROVE  \/ s.frame[a] = LawAt(timelines'[a], Governing(s.date))
             \/ WrittenOn(a, s.date)'
  <2>1. CASE timelines'[a] = timelines[a]
    <3>1. s.frame[a] = LawAt(timelines[a], Governing(s.date)) \/ WrittenOn(a, s.date)
      BY <1>5, <1>6 DEF FrameHolds
    <3>2. WrittenOn(a, s.date) => WrittenOn(a, s.date)'
      BY <2>1, WrittenStays
    <3> QED
      BY <2>1, <3>1, <3>2
  <2>2. ASSUME NEW w, timelines'[a] = Append(timelines[a], w),
               w.effective = op.effective, w.source \in Sources
        PROVE  WrittenOn(a, s.date)'
    <3> DEFINE n == Len(timelines[a]) + 1
    <3>1. n \in DOMAIN timelines'[a] /\ timelines'[a][n] = w
      BY <2>2 DEF TypeOK
    <3> QED
      BY <1>6, <2>2, <3>1 DEF WrittenOn
  <2> QED
    BY <2>1, <2>2, OperationWrites
<1> QED
  BY <1>2, <1>5, <1>6 DEF SnapshotsHold, FrameHolds

\* An event is later than every frame; after the operations none is read.
LEMMA NextSnapshots ==
    TypeOK /\ CacheCoherent /\ SnapshotsHold /\ [Next]_vars => SnapshotsHold'
<1> SUFFICES ASSUME TypeOK, CacheCoherent, SnapshotsHold, [Next]_vars
             PROVE  SnapshotsHold'
  OBVIOUS
<1>1. CASE UNCHANGED vars
  BY <1>1 DEF vars, SnapshotsHold, FrameHolds, WrittenOn
<1>2. ASSUME NEW ev \in Events, Matched(ev) PROVE SnapshotsHold'
  <2>1. /\ opDate' = opDate /\ eventDate' = ev.date /\ ev.date > opDate /\ phase' = phase
        /\ opDate \in Nat /\ ev.date \in Nat
    BY <1>2, MatchedType, EventsType DEF TypeOK
  <2>2. snapshots' = snapshots
    BY <1>2 DEF Matched
  <2>3. ~ (eventDate' <= opDate')
    BY <2>1
  <2> QED
    BY <2>1, <2>2, <2>3 DEF SnapshotsHold
<1>3. CASE FinishOps \/ SortTimelines
  BY <1>3 DEF FinishOps, SortTimelines, SnapshotsHold
<1>4. ASSUME Next, ~ FinishOps, ~ SortTimelines, \A ev \in Events : ~ Matched(ev)
      PROVE  SnapshotsHold'
  BY <1>4, OperationSnapshots DEF Next, ApplyEnd, ApplyStart, ApplyScope
<1> QED
  BY <1>1, <1>2, <1>3, <1>4

\* What a step appends is a text, or an absence of its act.
LEMMA AppendedIsDated ==
    ASSUME TypeOK, Next, NEW a \in Addr, NEW w, AppendsTo(a, w)
    PROVE  DatedByAct(w)
<1>1. timelines[a] \in Seq(Version) /\ timelines'[a] # timelines[a]
  BY DEF TypeOK, AppendsTo
<1>2. ASSUME NEW x, timelines'[a] = Append(timelines[a], x)
      PROVE  x = w
  <2> DEFINE n == Len(timelines[a]) + 1
  <2>1. timelines'[a][n] = x
    BY <1>1, <1>2
  <2>2. timelines'[a][n] = w
    BY <1>1 DEF AppendsTo
  <2> QED
    BY <2>1, <2>2
<1>3. Len(timelines'[a]) # Len(timelines[a])
  BY <1>1 DEF AppendsTo
<1>4. ASSUME NEW op \in Ops,
             \/ Write(op) \/ SkipWrite(op) \/ Renumber(op) \/ SkipRenumber(op)
             \/ RaiseMisdated(op)
      PROVE  DatedByAct(w)
  <2>1. PICK x : /\ timelines'[a] = Append(timelines[a], x)
                 /\ x.source \in Sources => x.enacted = Enacted[x.source]
    BY <1>1, <1>4, OperationWrites
  <2>2. x = w
    BY <1>2, <2>1
  <2> QED
    BY <2>1, <2>2 DEF DatedByAct
<1>5. ASSUME NEW ev \in Events, ApplyStart(ev)
      PROVE  DatedByAct(w)
  <2> DEFINE v == LatestSubstantive(timelines[a], ev.date)
  <2>1. a \in Starts(ev) /\ timelines'[a] = Append(timelines[a], Restarted(ev, v))
    BY <1>1, <1>5 DEF ApplyStart
  <2>2. w = Restarted(ev, v)
    BY <1>2, <2>1
  <2>3. ~ IsAbsent(v.content)
    BY <2>1 DEF Starts
  <2> HIDE DEF v
  <2> QED
    BY <2>2, <2>3 DEF DatedByAct, Restarted
<1>6. ASSUME NEW ev \in Events, ApplyScope(ev)
      PROVE  DatedByAct(w)
  <2> DEFINE v == Latest(timelines[a], ev.date)
  <2>1. a \in InForceOn(ev) /\ timelines'[a] = Append(timelines[a], Rescoped(ev, v))
    BY <1>1, <1>6 DEF ApplyScope
  <2>2. w = Rescoped(ev, v)
    BY <1>2, <2>1
  <2>3. ~ IsAbsent(v.content)
    BY <2>1 DEF InForceOn
  <2> HIDE DEF v
  <2> QED
    BY <2>2, <2>3 DEF DatedByAct, Rescoped
<1>7. ASSUME NEW ev \in Events, ApplyEnd(ev) PROVE FALSE
  <2>1. timelines'[a] = Cap(timelines[a], ev.date)
    BY <1>1, <1>7 DEF ApplyEnd
  <2> QED
    BY <1>1, <1>3, <2>1, CapType, EventsType
<1>8. ~ FinishOps
  BY <1>1 DEF FinishOps
<1>9. ~ SortTimelines
  <2>1. SortTimelines => timelines'[a] = Sorted(timelines[a])
    BY DEF SortTimelines
  <2> QED
    BY <1>1, <1>3, <2>1, SortedType
<1> QED
  BY <1>4, <1>5, <1>6, <1>7, <1>8, <1>9 DEF Next

\* Every step keeps AbsencesAreDated.
LEMMA NextDated == TypeOK /\ AbsencesAreDated /\ [Next]_vars => AbsencesAreDated'
<1> SUFFICES ASSUME TypeOK, AbsencesAreDated, [Next]_vars,
                    NEW a \in Addr, NEW i \in DOMAIN timelines'[a]
             PROVE  DatedByAct(timelines'[a][i])
  BY DEF AbsencesAreDated
<1>1. CASE UNCHANGED vars
  BY <1>1 DEF vars, AbsencesAreDated
<1>2. timelines[a] \in Seq(Version)
  BY DEF TypeOK
<1>3. ASSUME NEW ev \in Events, ApplyEnd(ev)
      PROVE  DatedByAct(timelines'[a][i])
  <2>1. CASE timelines'[a] = timelines[a]
    BY <2>1 DEF AbsencesAreDated
  <2>2. CASE timelines'[a] # timelines[a]
    <3> DEFINE v == timelines[a][i]
    <3>1. timelines'[a] = Cap(timelines[a], ev.date)
      BY <1>3, <2>2 DEF ApplyEnd
    <3>2. i \in DOMAIN timelines[a] /\ timelines'[a][i] = Capped(v, ev.date)
      BY <1>2, <3>1, CapType, EventsType DEF Cap
    <3>3. v \in Version /\ DatedByAct(v)
      BY <1>2, <3>2 DEF AbsencesAreDated
    <3> HIDE DEF v
    <3>4. CASE IsAbsent(v.content)
      BY <3>2, <3>3, <3>4 DEF Capped
    <3>5. CASE ~ IsAbsent(v.content)
      <4>1. Capped(v, ev.date).content = v.content
        BY <3>3, CappedType, EventsType
      <4> QED
        BY <3>2, <3>5, <4>1 DEF DatedByAct
    <3> QED
      BY <3>4, <3>5
  <2> QED
    BY <2>1, <2>2
<1>4. CASE SortTimelines
  <2>1. timelines'[a] = Sorted(timelines[a])
    BY <1>4 DEF SortTimelines
  <2>2. \E j \in DOMAIN timelines[a] : timelines'[a][i] = timelines[a][j]
    BY <1>2, <2>1, SortedType
  <2> QED
    BY <2>2 DEF AbsencesAreDated
<1>5. ASSUME Next, Grows
      PROVE  DatedByAct(timelines'[a][i])
  <2>1. CASE timelines'[a] = timelines[a]
    BY <2>1 DEF AbsencesAreDated
  <2>2. ASSUME NEW w, AppendsTo(a, w)
        PROVE  DatedByAct(timelines'[a][i])
    <3>1. DatedByAct(w)
      BY <1>5, <2>2, AppendedIsDated
    <3>2. \/ i \in DOMAIN timelines[a] /\ timelines'[a][i] = timelines[a][i]
          \/ timelines'[a][i] = w
      BY <1>2, <2>2 DEF AppendsTo
    <3> QED
      BY <3>1, <3>2 DEF AbsencesAreDated
  <2> QED
    BY <1>5, <2>1, <2>2 DEF Grows
<1> QED
  BY <1>1, <1>3, <1>4, <1>5, StepShape

\* Frames and absences, in every state.
LEMMA FramesAndDates == Spec => [](SnapshotsHold /\ AbsencesAreDated)
<1>1. Init => SnapshotsHold /\ AbsencesAreDated
  <2>1. Init => SnapshotsHold
    BY DEF Init, SnapshotsHold
  <2>2. ASSUME Init, NEW a \in Addr, NEW i \in DOMAIN timelines[a]
        PROVE  DatedByAct(timelines[a][i])
    <3>1. timelines[a] = <<BaseVersion(a)>> /\ i = 1
      BY <2>2 DEF Init
    <3> QED
      BY <3>1, NoneAssumption DEF BaseVersion, DatedByAct
  <2> QED
    BY <2>1, <2>2 DEF AbsencesAreDated
<1>2. TypeOK /\ CacheCoherent /\ SnapshotsHold /\ AbsencesAreDated /\ [Next]_vars
          => SnapshotsHold' /\ AbsencesAreDated'
  BY NextSnapshots, NextDated
<1> QED
  BY <1>1, <1>2, TypeCorrect, CacheIsCoherent, PTL DEF Spec

\* Only a renumbering writes a text and an absence at once, and what it moves
\* is the law at its target, unless something was written there that day.
LEMMA MovesByRenumbering ==
    ASSUME TypeOK, CacheCoherent, SnapshotsHold, Next,
           NEW from \in Addr, NEW to \in Addr, Appends(from), Appends(to),
           IsAbsent(Appended(from).content), HasText(Appended(to).content)
    PROVE  \E op \in Ops :
              /\ Renumber(op) /\ from = op.target /\ to = op.destination
              /\ FrameOf(op)[from] = LawAt(timelines[from], Governing(op.effective))
                     \/ WrittenOn(from, op.effective)
<1>1. /\ timelines[from] \in Seq(Version) /\ timelines[to] \in Seq(Version)
      /\ timelines'[from] # timelines[from] /\ timelines'[to] # timelines[to]
      /\ from # to
  BY DEF TypeOK, Appends, IsAbsent, HasText
<1>2. ASSUME NEW a \in {from, to}, NEW w, timelines'[a] = Append(timelines[a], w)
      PROVE  Appended(a) = w
  <2>1. timelines'[a][Len(timelines[a]) + 1] = w
    BY <1>1, <1>2
  <2> QED
    BY <2>1 DEF Appended, Appends
<1>3. ASSUME NEW op \in Ops, Write(op) PROVE FALSE
  <2>1. timelines' = [timelines EXCEPT ![op.target] = Append(@, VersionOf(op, ExpiryOf(op)))]
    BY <1>3 DEF Write
  <2> QED
    BY <1>1, <2>1 DEF TypeOK
<1>4. ASSUME NEW ev \in Events, ApplyStart(ev) PROVE FALSE
  <2> DEFINE v == LatestSubstantive(timelines[from], ev.date)
  <2>1. from \in Starts(ev) /\ timelines'[from] = Append(timelines[from], Restarted(ev, v))
    BY <1>1, <1>4 DEF ApplyStart
  <2>2. Appended(from) = Restarted(ev, v) /\ ~ IsAbsent(v.content)
    BY <1>2, <2>1 DEF Starts
  <2> HIDE DEF v
  <2> QED
    BY <2>2 DEF Restarted
<1>5. ASSUME NEW ev \in Events, ApplyScope(ev) PROVE FALSE
  <2> DEFINE v == Latest(timelines[from], ev.date)
  <2>1. from \in InForceOn(ev) /\ timelines'[from] = Append(timelines[from], Rescoped(ev, v))
    BY <1>1, <1>5 DEF ApplyScope
  <2>2. Appended(from) = Rescoped(ev, v) /\ ~ IsAbsent(v.content)
    BY <1>2, <2>1 DEF InForceOn
  <2> HIDE DEF v
  <2> QED
    BY <2>2 DEF Rescoped
<1>6. PICK op \in Ops : Renumber(op)
  BY <1>3, <1>4, <1>5, Appenders
<1> DEFINE moved == FrameOf(op)[op.target]
           w == MovedVersion(op, moved)
           t == Tombstone(op)
<1>7. /\ op.target \in Addr /\ op.destination \in Addr /\ op.destination # op.target
      /\ op.effective \in Nat
  BY <1>6, OpsType DEF Renumber
<1>8. /\ ~ IsAbsent(moved.content) /\ Due(op)
      /\ timelines' = [timelines EXCEPT ![op.destination] = Append(@, w),
                                        ![op.target]      = Append(@, t)]
  BY <1>6 DEF Renumber
<1>9. w.content = moved.content
  BY DEF MovedVersion
<1> HIDE DEF moved, w, t
<1>10. from \in {op.target, op.destination} /\ to \in {op.target, op.destination}
  BY <1>1, <1>8 DEF TypeOK
<1>11. from # op.destination
  <2>1. timelines'[op.destination] = Append(timelines[op.destination], w)
    BY <1>7, <1>8 DEF TypeOK
  <2>2. from = op.destination => Appended(from) = w
    BY <1>2, <2>1
  <2> QED
    BY <1>8, <1>9, <2>2
<1>12. from = op.target /\ to = op.destination
  BY <1>1, <1>10, <1>11
<1>13. FrameOf(op)[from] = LawAt(timelines[from], Governing(op.effective))
          \/ WrittenOn(from, op.effective)
  <2>1. phase = "ops"
    BY <1>8 DEF Due
  <2>2. CASE Wave(op) = {}
    BY <1>7, <2>1, <2>2, FrameIsFresh DEF FrameOf
  <2>3. CASE Wave(op) # {}
    <3>1. PICK s \in Wave(op) : FrameOf(op) = s.frame
      BY <2>3 DEF FrameOf
    <3>2. s \in snapshots /\ s.date = op.effective
      BY <3>1 DEF Wave
    <3>3. s.date <= opDate /\ (s.date = opDate /\ eventDate <= opDate => FrameHolds(s))
      BY <2>1, <3>2 DEF SnapshotsHold
    <3>4. /\ op.effective >= opDate /\ op.effective >= eventDate
          /\ opDate \in Nat /\ eventDate \in Nat
      BY <1>8, DueType DEF TypeOK
    <3>5. FrameHolds(s)
      BY <1>7, <3>2, <3>3, <3>4
    <3> QED
      BY <3>1, <3>2, <3>5 DEF FrameHolds
  <2> QED
    BY <2>2, <2>3
<1> QED
  BY <1>6, <1>12, <1>13

\* A lasting renumbering takes no text out of force, where nothing was
\* written to its source that day and its destination is left to it.
THEOREM RenumberingLosesNoText == Spec => VacatingFirstLosesNoText
<1>1. /\ TypeOK /\ CacheCoherent /\ BaseHasRunOut
      /\ SnapshotsHold /\ AbsencesAreDated /\ [Next]_vars
      => [VacatedFirst]_vars
  <2> SUFFICES ASSUME TypeOK, CacheCoherent, BaseHasRunOut, SnapshotsHold, AbsencesAreDated,
                      Next, NEW from \in Addr, NEW to \in Addr, MovesText(from, to),
                      ~ WrittenOn(from, opDate')
               PROVE  LosesNoText
    BY DEF VacatedFirst
  <2>1. PICK op \in Ops :
            /\ Renumber(op) /\ from = op.target /\ to = op.destination
            /\ FrameOf(op)[from] = LawAt(timelines[from], Governing(op.effective))
                   \/ WrittenOn(from, op.effective)
    BY MovesByRenumbering DEF MovesText
  <2> DEFINE moved == FrameOf(op)[op.target]
             w == MovedVersion(op, moved)
             t == Tombstone(op)
             date == op.effective
             q == Governing(date)
  <2>2. /\ Due(op) /\ opDate' = date /\ date \in Nat
        /\ date >= eventDate /\ eventDate \in Nat
        /\ op.source \in Sources /\ from # to
    BY <2>1, DueType, OpsType DEF Renumber, TypeOK
  <2>3. moved = LawAt(timelines[from], q)
    BY <2>1, <2>2
  <2>4. /\ timelines' = [timelines EXCEPT ![to] = Append(@, w), ![from] = Append(@, t)]
        /\ w.content = moved.content /\ w.source \in Sources /\ w.effective = date
        /\ w.enacted = Enacted[w.source]
    BY <2>1, <2>2 DEF Renumber, MovedVersion
  <2> HIDE DEF moved, w, t, q
  <2>5. timelines[to] \in Seq(Version) /\ timelines'[to] = Append(timelines[to], w)
    BY <2>2, <2>4 DEF TypeOK
  <2>6. w = Appended(to)
    <3>1. timelines'[to][Len(timelines[to]) + 1] = w
      BY <2>5
    <3> QED
      BY <3>1 DEF Appended, MovesText, Appends
  <2>7. w \in Version
    <3>1. timelines' \in [Addr -> Seq(Version)]
      BY <2>1, RenumberStep DEF Grows
    <3>2. timelines'[to] \in Seq(Version) /\ Len(timelines[to]) + 1 \in DOMAIN timelines'[to]
      BY <2>5, <3>1
    <3> QED
      BY <2>6, <3>2 DEF Appended, MovesText, Appends
  <2>8. /\ w.scope = {} /\ w.expires = NoDate /\ HasText(w.content)
        /\ LeftTo(w, timelines[to])
    BY <2>6 DEF MovesText
  <2>9. ASSUME NEW i \in DOMAIN timelines[to], Eligible(timelines[to][i], q)
        PROVE  /\ timelines[to][i].effective = w.effective /\ IsAbsent(timelines[to][i].content)
                      => timelines[to][i].enacted = w.enacted
               /\ timelines[to][i].kind = "temporary" => timelines[to][i].source # None
    <3> DEFINE v == timelines[to][i]
    <3>1. v \in Version /\ DatedByAct(v) /\ SourcelessRunsOut(v, eventDate)
      BY <2>5 DEF AbsencesAreDated, BaseHasRunOut
    <3>2. v.effective = w.effective => v.source = w.source
      BY <2>4, <2>8, <2>9 DEF LeftTo, q
    <3> HIDE DEF v
    <3>3. v.effective = w.effective /\ IsAbsent(v.content) => v.enacted = w.enacted
      BY <2>4, <3>1, <3>2 DEF DatedByAct
    <3>4. v.kind = "temporary" => v.source # None
      <4>1. SUFFICES ASSUME v.kind = "temporary", v.source = None PROVE FALSE
        OBVIOUS
      <4>2. v.expires # NoDate /\ v.expires \in Nat
        BY <3>1, <4>1 DEF Version, KindFor
      <4>3. v.expires > date
        BY <2>9, <4>2 DEF Eligible, Governing, Horizon, q, v
      <4>4. v.expires <= eventDate
        BY <3>1, <4>1, <4>2 DEF SourcelessRunsOut
      <4> QED
        BY <2>2, <4>2, <4>3, <4>4
    <3> QED
      BY <3>3, <3>4 DEF v
  <2>10. LawAt(timelines'[to], q) = w
    BY <2>4, <2>5, <2>7, <2>8, <2>9, ArrivalGoverns DEF q
  <2>11. ~ HasText(LawAt(timelines[to], q).content)
    BY <2>4, <2>8 DEF LeftTo, Free, q
  <2>12. ASSUME NEW a \in Addr, HasText(LawAt(timelines[a], q).content)
         PROVE  \E b \in Addr : LawAt(timelines'[b], q).content = LawAt(timelines[a], q).content
    <3>1. CASE a = from
      BY <2>3, <2>4, <2>10, <3>1
    <3>2. CASE a # from
      <4>1. timelines'[a] = timelines[a]
        BY <2>4, <2>11, <2>12, <3>2 DEF TypeOK
      <4> QED
        BY <4>1
    <3> QED
      BY <3>1, <3>2
  <2> QED
    BY <2>2, <2>12 DEF LosesNoText, TextsInForce, q
<1> QED
  BY <1>1, TypeCorrect, CacheIsCoherent, BaseAlwaysRunsOut, FramesAndDates, PTL
     DEF Spec, VacatingFirstLosesNoText

-----------------------------------------------------------------------------
(***************************************************************************)
(* Windows.  The scheduler only adds a version of the window's own days,   *)
(* so days outside see the old candidates, moved; and that version stays,  *)
(* so the days inside never fall back to what was before it.               *)
(***************************************************************************)
\* What is spliced in is a version the constructor accepts.
LEMMA WindowVersionType ==
    ASSUME TypeOK, NEW w \in Window, NEW op \in WindowOps(w), Proved(w, op)
    PROVE  /\ WindowVersion(w, op) \in Version
           /\ op.target \in Addr
           /\ Label(op.target) = w.section
           /\ w.start \in Nat /\ w.end \in Nat /\ w.start < w.end
           /\ TextOf(w, WindowVersion(w, op))
<1>1. /\ op.target \in Addr /\ Label(op.target) = w.section
      /\ op.scope \in SUBSET Territories
  BY CompileAssumption DEF WindowOps
<1>2. op.content \in Content
  <2>1. CASE op.content \in {Numbered(c) : c \in {p \in Payloads : ~ IsAbsent(p)}}
    <3>1. PICK c \in Payloads : op.content = Numbered(c)
      BY <2>1
    <3>2. c \in Content /\ taken \in Nat
      BY CompileAssumption DEF TypeOK
    <3> QED
      BY <3>1, <3>2 DEF Numbered, Content
  <2>2. ASSUME NEW a \in Addr, NEW i \in DOMAIN timelines[a],
               op.content = timelines[a][i].content
        PROVE  op.content \in Content
    <3>1. timelines[a] \in Seq(Version)
      BY DEF TypeOK
    <3> QED
      BY <2>2, <3>1, VersionFields
  <2> QED
    BY <2>1, <2>2 DEF WindowOps
<1>3. /\ w.act \in Sources /\ w.start \in Nat /\ w.end \in Nat
      /\ w.start < w.end /\ w.end # NoDate /\ Enacted[w.act] \in Nat
  BY CompileAssumption, WindowAssumption DEF Window, Dates, Proved, NoDate
<1>4. KindFor(w.end) = "temporary"
  BY <1>3 DEF KindFor
<1> QED
  BY <1>1, <1>2, <1>3, <1>4, VersionOfFields DEF WindowVersion, TextOf

\* The scheduler's sort is a permutation.
LEMMA ScheduledType ==
    ASSUME NEW vs \in Seq(Version), NEW ws \in Scheduled(vs)
    PROVE  /\ ws \in Seq(Version) /\ DOMAIN ws = DOMAIN vs
           /\ \E p \in [DOMAIN vs -> DOMAIN vs] :
                 /\ \A k \in DOMAIN vs : ws[k] = vs[p[k]]
                 /\ \A j, k \in DOMAIN vs : p[j] = p[k] => j = k
                 /\ \A j \in DOMAIN vs : \E k \in DOMAIN vs : p[k] = j
<1>1. PICK p \in Bijection(DOMAIN vs, DOMAIN vs) : ws = [k \in DOMAIN vs |-> vs[p[k]]]
  BY DEF Scheduled
<1>2. DOMAIN vs = 1..Len(vs) /\ Len(vs) \in Nat
  OBVIOUS
<1>3. /\ p \in [DOMAIN vs -> DOMAIN vs]
      /\ \A j, k \in DOMAIN vs : p[j] = p[k] => j = k
      /\ \A j \in DOMAIN vs : \E k \in DOMAIN vs : p[k] = j
  BY DEF Bijection, Injection, Surjection, IsInjective
<1>4. ws \in [1..Len(vs) -> Version]
  BY <1>1, <1>2, <1>3
<1>5. \A k \in DOMAIN vs : ws[k] = vs[p[k]]
  BY <1>1
<1>6. ws \in Seq(Version) /\ DOMAIN ws = DOMAIN vs
  BY <1>2, <1>4
<1> QED
  BY <1>3, <1>5, <1>6, Zenon

\* What a splice does to its timeline.
LEMMA SpliceStep ==
    ASSUME TypeOK, NEW w \in Window, NEW op \in WindowOps(w), Splice(w, op)
    PROVE  /\ TypeOK'
           /\ timelines'[op.target] \in
                  Scheduled(Append(timelines[op.target], WindowVersion(w, op)))
           /\ \A a \in Addr \ {op.target} : timelines'[a] = timelines[a]
<1>1. op.target \in Addr /\ WindowVersion(w, op) \in Version
  BY WindowVersionType DEF Splice
<1> DEFINE vs == Append(timelines[op.target], WindowVersion(w, op))
<1>2. PICK ws \in Scheduled(vs) : timelines' = [timelines EXCEPT ![op.target] = ws]
  BY DEF Splice
<1>3. vs \in Seq(Version) /\ timelines \in [Addr -> Seq(Version)]
  BY <1>1 DEF TypeOK
<1> HIDE DEF vs
<1>4. ws \in Seq(Version)
  BY <1>3, ScheduledType
<1>5. timelines' \in [Addr -> Seq(Version)] /\ timelines'[op.target] = ws
  BY <1>1, <1>2, <1>3, <1>4
<1>6. \A a \in Addr \ {op.target} : timelines'[a] = timelines[a]
  BY <1>1, <1>2, <1>3
<1> QED
  BY <1>5, <1>6 DEF TypeOK, Splice, Takes, vs

(***************************************************************************)
(* The invariant: before the scheduler starts no window has been taken;    *)
(* each that has been is a break, or its text stands in a timeline.        *)
(***************************************************************************)
Kept(w) ==
    \/ w \in breaks
    \/ \E a \in Addr : /\ w.section = Label(a)
                       /\ \E i \in DOMAIN timelines[a] : TextOf(w, timelines[a][i])

WindowInv ==
    /\ WindowTypeOK
    /\ windows # {} => phase = "sorted"
    /\ \A w \in windows : Kept(w)

\* A splice keeps every version, at another position, and adds the window's.
LEMMA SpliceKeeps ==
    ASSUME TypeOK, NEW w \in Window, NEW op \in WindowOps(w), Splice(w, op),
           NEW x, Kept(x) \/ x = w
    PROVE  Kept(x)'
<1> DEFINE v == WindowVersion(w, op)
           old == timelines[op.target]
           vs == Append(old, v)
<1>1. /\ op.target \in Addr /\ Label(op.target) = w.section
      /\ v \in Version /\ TextOf(w, v)
  BY WindowVersionType DEF Splice
<1>2. /\ timelines'[op.target] \in Scheduled(vs)
      /\ \A a \in Addr \ {op.target} : timelines'[a] = timelines[a]
      /\ breaks' = breaks
  BY SpliceStep DEF Splice
<1>3. /\ vs \in Seq(Version) /\ DOMAIN vs = DOMAIN old \cup {Len(old) + 1}
      /\ \A i \in DOMAIN old : vs[i] = old[i]
      /\ vs[Len(old) + 1] = v
  BY <1>1 DEF TypeOK
<1> HIDE DEF v, vs
<1>4. \A j \in DOMAIN vs : \E k \in DOMAIN timelines'[op.target] :
          timelines'[op.target][k] = vs[j]
  <2> DEFINE ws == timelines'[op.target]
  <2>1. ws \in Scheduled(vs)
    BY <1>2
  <2> HIDE DEF ws
  <2>2. PICK p \in [DOMAIN vs -> DOMAIN vs] :
           /\ \A k \in DOMAIN vs : ws[k] = vs[p[k]]
           /\ \A j, k \in DOMAIN vs : p[j] = p[k] => j = k
           /\ \A j \in DOMAIN vs : \E k \in DOMAIN vs : p[k] = j
    BY <1>3, <2>1, ScheduledType
  <2>3. DOMAIN ws = DOMAIN vs
    BY <1>3, <2>1, ScheduledType
  <2>4. \A j \in DOMAIN vs : \E k \in DOMAIN ws : ws[k] = vs[j]
    BY <2>2, <2>3
  <2> QED
    BY <2>4 DEF ws
<1>5. CASE x = w
  BY <1>1, <1>3, <1>4, <1>5 DEF Kept
<1>6. CASE x \in breaks
  BY <1>2, <1>6 DEF Kept
<1>7. ASSUME NEW a \in Addr, x.section = Label(a),
             NEW i \in DOMAIN timelines[a], TextOf(x, timelines[a][i])
      PROVE  Kept(x)'
  <2>1. CASE a = op.target
    <3>1. i \in DOMAIN vs /\ vs[i] = timelines[a][i]
      BY <1>3, <1>7, <2>1
    <3>2. PICK k \in DOMAIN timelines'[a] : timelines'[a][k] = timelines[a][i]
      BY <1>4, <2>1, <3>1
    <3> QED
      BY <1>7, <3>2 DEF Kept
  <2>2. CASE a # op.target
    BY <1>2, <1>7, <2>2 DEF Kept
  <2> QED
    BY <2>1, <2>2
<1> QED
  BY <1>5, <1>6, <1>7 DEF Kept

\* Every step keeps the invariant.
LEMMA WindowStep == WindowInv /\ [WindowNext]_windowVars => WindowInv'
<1> SUFFICES ASSUME WindowInv, [WindowNext]_windowVars PROVE WindowInv'
  OBVIOUS
<1> USE DEF WindowInv, WindowTypeOK
<1>1. CASE UNCHANGED windowVars
  BY <1>1 DEF windowVars, TypeOK, Kept
<1>2. CASE Compile
  <2>1. windows = {} /\ windows' = {} /\ breaks' = breaks /\ breaks = {}
    BY <1>2 DEF Compile
  <2>2. TypeOK'
    BY <1>2, NextType DEF Compile
  <2> QED
    BY <2>1, <2>2
<1>3. ASSUME NEW w \in Pending
      PROVE  w \in Window /\ phase = "sorted"
  BY DEF Pending
<1>4. ASSUME NEW w \in Pending, NEW op \in WindowOps(w), Splice(w, op)
      PROVE  WindowInv'
  <2>1. TypeOK' /\ \A x \in windows \cup {w} : Kept(x)'
    BY <1>3, <1>4, SpliceStep, SpliceKeeps
  <2> QED
    BY <1>3, <1>4, <2>1 DEF Splice, Takes
<1>5. ASSUME NEW w \in Pending, NEW op \in WindowOps(w), Found(w, op)
      PROVE  WindowInv'
  <2>1. TypeOK'
    BY <1>5 DEF Found, Takes, TypeOK
  <2>2. Kept(w)
    BY <1>5 DEF Found, HasInterval, TextOf, Kept, WindowOps
  <2>3. \A x \in windows \cup {w} : Kept(x)'
    BY <1>5, <2>2 DEF Found, Kept
  <2> QED
    BY <1>3, <1>5, <2>1, <2>3 DEF Found, Takes
<1>6. ASSUME NEW w \in Pending, KeepBreak(w)
      PROVE  WindowInv'
  <2>1. TypeOK'
    BY <1>6 DEF KeepBreak, Takes, TypeOK
  <2>2. \A x \in windows \cup {w} : Kept(x)'
    BY <1>6 DEF KeepBreak, Kept
  <2> QED
    BY <1>3, <1>6, <2>1, <2>2 DEF KeepBreak, Takes
<1> QED
  BY <1>1, <1>2, <1>4, <1>5, <1>6 DEF WindowNext

\* The invariant of the compiler and its window scheduler.
THEOREM WindowInvariant == WindowSpec => []WindowInv
<1>1. WindowInit => WindowInv
  BY InitType DEF WindowInit, WindowInv, WindowTypeOK
<1> QED
  BY <1>1, WindowStep, PTL DEF WindowSpec

\* Timelines, breaks and windows keep their types.
THEOREM WindowTypeCorrect == WindowSpec => []WindowTypeOK
BY WindowInvariant, PTL DEF WindowInv

\* On days outside the window the spliced timeline has the old candidates.
LEMMA SpliceRearranges ==
    ASSUME NEW old \in Seq(Version), NEW v \in Version, NEW ws \in Scheduled(Append(old, v)),
           NoTies(old), NEW q, ~ Eligible(v, q)
    PROVE  \E m : Rearranges(m, old, ws, q)
<1> DEFINE vs == Append(old, v)
<1>1. /\ vs \in Seq(Version) /\ DOMAIN vs = DOMAIN old \cup {Len(old) + 1}
      /\ \A i \in DOMAIN old : vs[i] = old[i]
      /\ vs[Len(old) + 1] = v
  OBVIOUS
<1> HIDE DEF vs
<1>2. ws \in Scheduled(vs)
  BY DEF vs
<1>3. PICK p \in [DOMAIN vs -> DOMAIN vs] :
         /\ \A k \in DOMAIN vs : ws[k] = vs[p[k]]
         /\ \A j, k \in DOMAIN vs : p[j] = p[k] => j = k
         /\ \A j \in DOMAIN vs : \E k \in DOMAIN vs : p[k] = j
  BY <1>1, <1>2, ScheduledType
<1> DEFINE m == [i \in DOMAIN old |-> CHOOSE k \in DOMAIN vs : p[k] = i]
<1>4. \A i \in DOMAIN old : m[i] \in DOMAIN vs /\ p[m[i]] = i
  BY <1>1, <1>3
<1>5. DOMAIN ws = DOMAIN vs
  BY <1>1, <1>2, ScheduledType
<1> HIDE DEF m
<1>6. m \in [DOMAIN old -> DOMAIN ws]
  BY <1>4, <1>5 DEF m
<1>7. ASSUME NEW k \in DOMAIN ws, Eligible(ws[k], q)
      PROVE  \E i \in DOMAIN old : m[i] = k
  <2>1. p[k] \in DOMAIN vs /\ ws[k] = vs[p[k]]
    BY <1>3, <1>5
  <2>2. p[k] \in DOMAIN old
    BY <1>1, <1>7, <2>1
  <2>3. m[p[k]] = k
    BY <1>3, <1>4, <1>5, <2>2
  <2> QED
    BY <2>2, <2>3
<1>8. \A i \in DOMAIN old : ws[m[i]] = old[i]
  BY <1>1, <1>3, <1>4
<1>9. \A i, j \in DOMAIN old : i # j => m[i] # m[j]
  BY <1>4
<1>10. \A i, j \in DOMAIN old : SameRank(old[i], old[j]) => (i < j <=> m[i] < m[j])
  <2> SUFFICES ASSUME NEW i \in DOMAIN old, NEW j \in DOMAIN old, SameRank(old[i], old[j])
               PROVE  i < j <=> m[i] < m[j]
    OBVIOUS
  <2>1. i = j
    BY DEF NoTies
  <2>2. i \in Nat /\ m[i] \in Nat
    BY <1>1, <1>4
  <2> QED
    BY <2>1, <2>2
<1> QED
  BY <1>6, <1>7, <1>8, <1>9, <1>10 DEF Rearranges

\* A splice changes no answer outside its window.
LEMMA SpliceIsLocal ==
    ASSUME TypeOK, NEW w \in Window, NEW op \in WindowOps(w), Splice(w, op),
           NEW a \in Addr, NEW d \in Nat, NEW t \in Territories \cup {None},
           NoTies(timelines[a]), w.section # Label(a) \/ ~ Governs(w, d)
    PROVE  LawAt(timelines'[a], GoverningIn(d, t)) = LawAt(timelines[a], GoverningIn(d, t))
<1> DEFINE q == GoverningIn(d, t)
           v == WindowVersion(w, op)
<1>1. CASE a # op.target
  BY <1>1, SpliceStep
<1>2. CASE a = op.target
  <2>1. /\ v \in Version /\ w.section = Label(a) /\ timelines[a] \in Seq(Version)
        /\ w.start \in Nat /\ w.end \in Nat /\ w.start < w.end
        /\ v.effective = w.start /\ v.expires = w.end
    BY <1>2, WindowVersionType DEF Splice, TextOf, TypeOK
  <2>2. timelines'[a] \in Scheduled(Append(timelines[a], v))
    BY <1>2, SpliceStep
  <2>3. q \in Query /\ q.asOf = d /\ Horizon(q) = d
    BY GoverningType DEF GoverningIn, Governing, Horizon
  <2> HIDE DEF q, v
  <2>4. ~ Eligible(v, q)
    <3>1. v.effective > d \/ (v.expires # NoDate /\ v.expires <= d)
      BY <1>2, <2>1 DEF Governs, NoDate
    <3> QED
      BY <2>1, <2>3, <3>1 DEF Eligible
  <2>5. timelines'[a] \in Seq(Version)
    BY SpliceStep DEF TypeOK
  <2>6. PICK m : Rearranges(m, timelines[a], timelines'[a], q)
    BY <2>1, <2>2, <2>4, SpliceRearranges
  <2>7. SelectActive(timelines[a], q) = SelectActive(timelines'[a], q)
    BY <2>1, <2>3, <2>5, <2>6, RearrangedKeepsLaw
  <2> QED
    BY <2>7 DEF LawAt, q
<1> QED
  BY <1>1, <1>2

\* A scheduled window changes the law of no day outside it, and of no other
\* section.
THEOREM ScheduleIsLocal == WindowSpec => WindowsAreLocal
<1>1. WindowInv /\ [WindowNext]_windowVars => [Localized]_windowVars
  <2> SUFFICES ASSUME WindowInv, WindowNext,
                      NEW w \in windows' \ windows, NEW a \in Addr, NEW d \in QueryDates,
                      NEW t \in Territories \cup {None},
                      NoTies(timelines[a]), w.section # Label(a) \/ ~ Governs(w, d)
               PROVE  LawAt(timelines'[a], GoverningIn(d, t))
                        = LawAt(timelines[a], GoverningIn(d, t))
    BY DEF Localized
  <2>1. TypeOK /\ d \in Nat
    BY DEF WindowInv, WindowTypeOK, QueryDates
  <2>2. CASE Compile
    BY <2>2 DEF Compile
  <2>3. ASSUME NEW x \in Pending, NEW op \in WindowOps(x), Splice(x, op)
        PROVE  LawAt(timelines'[a], GoverningIn(d, t))
                 = LawAt(timelines[a], GoverningIn(d, t))
    <3>1. x = w /\ x \in Window
      BY <2>3 DEF Splice, Takes, Pending
    <3> QED
      BY <2>1, <2>3, <3>1, SpliceIsLocal
  <2>4. ASSUME NEW x \in Pending, NEW op \in WindowOps(x), Found(x, op)
        PROVE  timelines' = timelines
    BY <2>4 DEF Found
  <2>5. ASSUME NEW x \in Pending, KeepBreak(x)
        PROVE  timelines' = timelines
    BY <2>5 DEF KeepBreak
  <2> QED
    BY <2>2, <2>3, <2>4, <2>5 DEF WindowNext
<1> QED
  BY <1>1, WindowInvariant, PTL DEF WindowSpec, WindowsAreLocal

\* No day of a window is answered by the law from before it.
THEOREM WindowDaysAreAnswered == WindowSpec => []WindowsAreAnswered
<1>1. WindowInv => WindowsAreAnswered
  <2> SUFFICES ASSUME WindowInv, NEW w \in windows, NEW d \in QueryDates,
                      NEW t \in Territories, Governs(w, d)
               PROVE  \E a \in Addr :
                        /\ w.section = Label(a)
                        /\ \/ Withheld(a, d)
                           \/ LawAt(timelines[a], GoverningIn(d, t)).effective >= w.start
                           \/ \E i \in DOMAIN timelines[a] :
                                 /\ TextOf(w, timelines[a][i])
                                 /\ ~ Applies(timelines[a][i], GoverningIn(d, t))
    BY DEF WindowsAreAnswered
  <2>1. TypeOK /\ w \in Window /\ d \in Nat /\ Kept(w)
    BY DEF WindowInv, WindowTypeOK, QueryDates
  <2>2. CASE w \in breaks
    <3>1. PICK a \in Addr : w.section = Label(a)
      BY <2>1 DEF Window
    <3> QED
      BY <2>2, <3>1 DEF Withheld
  <2>3. ASSUME NEW a \in Addr, w.section = Label(a),
               NEW i \in DOMAIN timelines[a], TextOf(w, timelines[a][i]),
               Applies(timelines[a][i], GoverningIn(d, t))
        PROVE  LawAt(timelines[a], GoverningIn(d, t)).effective >= w.start
    <3> DEFINE q == GoverningIn(d, t)
               v == timelines[a][i]
    <3>1. timelines[a] \in Seq(Version) /\ v \in Version /\ v.expires \in Nat
      BY <2>1, <2>3, VersionFields DEF TypeOK
    <3>2. q \in Query /\ q.asOf = d /\ Horizon(q) = d /\ q.territory # None /\ q.inForce = FALSE
      BY <2>1, GoverningType, NoneAssumption DEF GoverningIn, Governing, Horizon
    <3>3. w.start \in Nat /\ w.end \in Nat /\ w.start <= d /\ d < w.end
      BY <2>1, CompileAssumption, WindowAssumption DEF Window, Dates, Governs
    <3>4. v.effective = w.start /\ v.expires = w.end /\ v.expires # NoDate
      BY <2>1, <2>3, <3>3 DEF TextOf, NoDate
    <3>5. v.kind = "temporary"
      BY <3>1, <3>4, VersionFields DEF KindFor
    <3>6. Eligible(v, q)
      BY <3>2, <3>3, <3>4 DEF Eligible
    <3> HIDE DEF q
    <3>7. SelectActive(timelines[a], q).version.effective >= v.effective
      BY <2>3, <3>1, <3>2, <3>5, <3>6, OverlayReaches DEF q
    <3> QED
      BY <3>4, <3>7 DEF LawAt, q
  <2> QED
    BY <2>1, <2>2, <2>3 DEF Kept
<1> QED
  BY <1>1, WindowInvariant, PTL

=============================================================================
