---------------------------- MODULE SelectionProofs ----------------------------
(***************************************************************************)
(* Facts about the selector, for every timeline and every query: it picks  *)
(* a version of the timeline that is eligible, and its answer depends only *)
(* on the eligible versions and their positions.                           *)
(***************************************************************************)
EXTENDS VersionSelection, FiniteSetTheorems, TLAPS

Candidate == [at : Nat \ {0}, version : Version]

-----------------------------------------------------------------------------
(***************************************************************************)
(* Every non-empty set of naturals has a least element.                    *)
(***************************************************************************)
LEMMA LeastNatural ==
    ASSUME NEW T \in SUBSET Nat, T # {}
    PROVE  \E n \in T : \A m \in T : n <= m
<1> DEFINE R == OpToRel(<, Nat)
<1>1. IsWellFoundedOn(R, Nat)
  BY NatLessThanWellFounded
<1>2. PICK n \in T : \A m \in T : <<m, n>> \notin R
  BY <1>1, WFMin
<1>3. ASSUME NEW m \in T PROVE n <= m
  <2>1. m \in Nat /\ n \in Nat
    OBVIOUS
  <2>2. m < n => <<m, n>> \in R
    BY <2>1 DEF OpToRel
  <2> HIDE DEF R
  <2>3. ~ (m < n)
    BY <1>2, <2>2
  <2> QED
    BY <2>1, <2>3
<1> QED
  BY <1>3

(***************************************************************************)
(* Two candidates of a set at different positions are ranked one way or    *)
(* the other, and the ranking is transitive.                               *)
(***************************************************************************)
LEMMA BiasType ==
    ASSUME NEW C, NEW c
    PROVE  Bias(C, c) \in 0..2
BY DEF Bias

\* Of two candidates at different positions one outranks the other:
\* pick_latest's key ends in the index.
LEMMA RankTotal ==
    ASSUME NEW C, NEW c \in Candidate, NEW d \in Candidate, c.at # d.at
    PROVE  Outranks(C, c, d) \/ Outranks(C, d, c)
<1>1. Bias(C, c) \in 0..2 /\ Bias(C, d) \in 0..2
  BY BiasType
<1>2. /\ c.version.effective \in Nat /\ d.version.effective \in Nat
      /\ c.version.enacted \in Nat /\ d.version.enacted \in Nat
      /\ c.at \in Nat /\ d.at \in Nat
  BY DEF Candidate, Version
<1> QED
  BY <1>1, <1>2 DEF Outranks

\* The ranking key of pick_latest orders candidates transitively.
LEMMA RankTransitive ==
    ASSUME NEW C, NEW c \in Candidate, NEW d \in Candidate, NEW e \in Candidate,
           Outranks(C, c, d), Outranks(C, d, e)
    PROVE  Outranks(C, c, e)
<1>1. /\ Bias(C, c) \in 0..2 /\ Bias(C, d) \in 0..2
      /\ Bias(C, e) \in 0..2
  BY BiasType
<1>2. \A x \in {c, d, e} : /\ x.version.effective \in Nat
                           /\ x.version.enacted \in Nat
                           /\ x.at \in Nat
  BY DEF Candidate, Version
<1> QED
  BY <1>1, <1>2 DEF Outranks

(***************************************************************************)
(* A finite set of candidates at distinct positions has one that outranks  *)
(* all others.  The induction is on the size: a smallest subset without    *)
(* one could lose a member and still have none.                            *)
(***************************************************************************)
Distinct(C) == \A c, d \in C : c.at = d.at => c = d

\* Every finite, non-empty set of candidates has one that outranks all
\* others, so the CHOOSE of PickLatest is total.
LEMMA BestExists ==
    ASSUME NEW C \in SUBSET Candidate, IsFiniteSet(C), Distinct(C), C # {}
    PROVE  \E c \in C : \A d \in C \ {c} : Outranks(C, c, d)
<1> DEFINE HasBest(S) == \E c \in S : \A d \in S \ {c} : Outranks(C, c, d)
           Sizes == {n \in Nat : \E S \in SUBSET C :
                                    S # {} /\ Cardinality(S) = n /\ ~ HasBest(S)}
<1>1. SUFFICES ASSUME Sizes # {} PROVE FALSE
  <2>1. Cardinality(C) \in Nat
    BY FS_CardinalityType
  <2> QED
    BY <2>1
<1>2. PICK n \in Sizes : \A m \in Sizes : n <= m
  BY <1>1, LeastNatural
<1>3. PICK S \in SUBSET C : S # {} /\ Cardinality(S) = n /\ ~ HasBest(S)
  BY <1>2
<1>4. PICK x \in S : TRUE
  BY <1>3
<1>5. IsFiniteSet(S)
  BY FS_Subset
<1> DEFINE T == S \ {x}
<1>6. Cardinality(T) = n - 1 /\ n \in Nat
  BY <1>3, <1>4, <1>5, FS_RemoveElement
<1>7. T # {}
  BY <1>3, <1>4
<1>8. Cardinality(T) \in Nat
  BY <1>5, FS_RemoveElement, FS_CardinalityType
<1>9. HasBest(T)
  <2>1. Cardinality(T) \notin Sizes
    BY <1>2, <1>6, <1>8
  <2> QED
    BY <2>1, <1>7, <1>8
<1>10. PICK b \in T : \A d \in T \ {b} : Outranks(C, b, d)
  BY <1>9
<1>11. x.at # b.at
  BY <1>10 DEF Distinct
<1>12. CASE Outranks(C, b, x)
  BY <1>3, <1>10, <1>12
<1>13. CASE Outranks(C, x, b)
  <2>1. \A d \in T \ {b} : Outranks(C, x, d)
    BY <1>10, <1>13, RankTransitive
  <2> QED
    BY <1>3, <1>4, <2>1, <1>13
<1> QED
  BY <1>11, <1>12, <1>13, RankTotal

\* pick_latest returns one of the versions it is given.
LEMMA PickLatestMember ==
    ASSUME NEW C \in SUBSET Candidate, IsFiniteSet(C), Distinct(C), C # {}
    PROVE  PickLatest(C) \in C
<1>1. \E c \in C : \A d \in C \ {c} : Outranks(C, c, d)
  BY BestExists
<1> QED
  BY <1>1 DEF PickLatest

-----------------------------------------------------------------------------
(***************************************************************************)
(* Positions of a timeline, as candidates; its eligible versions.          *)
(***************************************************************************)
LEMMA PositionsType ==
    ASSUME NEW vs \in Seq(Version), NEW J \in SUBSET DOMAIN vs
    PROVE  LET D == {[at |-> i, version |-> vs[i]] : i \in J}
           IN  /\ D \in SUBSET Candidate
               /\ IsFiniteSet(D)
               /\ Distinct(D)
               /\ \A c \in D : c.at \in J /\ c.version = vs[c.at]
<1> DEFINE D == {[at |-> i, version |-> vs[i]] : i \in J}
           position == [c \in D |-> c.at]
<1>1. DOMAIN vs = 1..Len(vs) /\ Len(vs) \in Nat
  OBVIOUS
<1>2. \A c \in D : /\ c.at \in J
                   /\ c = [at |-> c.at, version |-> vs[c.at]]
  OBVIOUS
<1>3. D \in SUBSET Candidate
  BY <1>1 DEF Candidate
<1>4. position \in Injection(D, 1..Len(vs))
  BY <1>1, <1>2 DEF Injection, IsInjective
<1>5. IsFiniteSet(D)
  BY <1>1, <1>4, FS_Interval, FS_Injection
<1> QED
  BY <1>2, <1>3, <1>5 DEF Distinct

\* The candidates of a well-formed timeline are finite, distinct and well
\* formed.
LEMMA CandidatesType ==
    ASSUME NEW vs \in Seq(Version), NEW q
    PROVE  /\ Candidates(vs, q) \in SUBSET Candidate
           /\ IsFiniteSet(Candidates(vs, q))
           /\ Distinct(Candidates(vs, q))
           /\ \A c \in Candidates(vs, q) :
                 /\ c.at \in DOMAIN vs
                 /\ c.version = vs[c.at]
                 /\ Eligible(c.version, q)
<1> DEFINE J == {j \in DOMAIN vs : Eligible(vs[j], q)}
<1> QED
  BY PositionsType DEF Candidates

\* Something is picked whenever there is anything to pick from.
LEMMA PickLatestSome ==
    ASSUME NEW vs \in Seq(Version), NEW q, NEW D \in SUBSET Candidates(vs, q)
    PROVE  PickLatest(D) = NoCandidate \/ PickLatest(D) \in D
<1>1. CASE D = {}
  BY <1>1 DEF PickLatest
<1>2. CASE D # {}
  <2>1. D \in SUBSET Candidate /\ IsFiniteSet(D) /\ Distinct(D)
    BY CandidatesType, FS_Subset DEF Distinct
  <2> QED
    BY <1>2, <2>1, PickLatestMember
<1> QED
  BY <1>1, <1>2

\* Of one candidate pick_latest returns that one (its own early return).
LEMMA PickLatestOne ==
    ASSUME NEW c
    PROVE  PickLatest({c}) = c
<1>1. \A d \in {c} \ {c} : Outranks({c}, c, d)
  OBVIOUS
<1> QED
  BY <1>1 DEF PickLatest

(***************************************************************************)
(* What the general path selects is an eligible version of the timeline.   *)
(***************************************************************************)
Picks(vs, q, r) ==
    \/ r.version = NoVersion
    \/ \E i \in DOMAIN vs : r.version = vs[i] /\ Eligible(vs[i], q)

\* What stands for `no version' is itself well formed.
LEMMA NoVersionType == NoVersion \in Version
BY DEF NoVersion, Version, NoContent, Content, KindFor, NoDate

\* The general selector returns nothing, or a version of the timeline that
\* is eligible.
LEMMA SelectAmongType ==
    ASSUME NEW vs \in Seq(Version), NEW q
    PROVE  /\ SelectAmong(Candidates(vs, q), q) \in Selection
           /\ Picks(vs, q, SelectAmong(Candidates(vs, q), q))
<1> DEFINE C == Candidates(vs, q)
           o == Overlay(C, q)
           b == Background(C, q)
           r == SelectAmong(C, q)
<1>1. o = NoCandidate \/ o \in C
  BY PickLatestSome DEF Overlay
<1>2. b = NoCandidate \/ b \in C
  BY PickLatestSome DEF Background
<1>3. \A c \in C : /\ c.version \in Version
                   /\ \E i \in DOMAIN vs : c.version = vs[i] /\ Eligible(vs[i], q)
  BY CandidatesType DEF Candidate
<1>4. \/ r = Ambiguous
      \/ r = Absent
      \/ o # NoCandidate /\ r = Selected(o.version)
      \/ b # NoCandidate /\ r = Selected(b.version)
  BY DEF SelectAmong
<1> HIDE DEF C, o, b, r
<1>5. CASE r \in {Ambiguous, Absent}
  BY <1>5, NoVersionType DEF Ambiguous, Absent, Selection, Picks, r, C
<1>6. ASSUME NEW c \in C, r = Selected(c.version)
      PROVE  r \in Selection /\ Picks(vs, q, r)
  BY <1>3, <1>6 DEF Selected, Selection, Picks
<1> QED
  BY <1>1, <1>2, <1>4, <1>5, <1>6 DEF r, C

-----------------------------------------------------------------------------
(***************************************************************************)
(* A timeline of one version is answered as the general path would.        *)
(***************************************************************************)
LEMMA SingleVersion ==
    ASSUME NEW v \in Version, NEW q \in Query
    PROVE  SelectOne(v, q) = SelectAmong(Candidates(<<v>>, q), q)
<1> DEFINE c == [at |-> 1, version |-> v]
           C == Candidates(<<v>>, q)
<1>1. C = IF Eligible(v, q) THEN {c} ELSE {}
  BY DEF Candidates
<1>2. c # NoCandidate /\ c.version = v
  BY DEF NoCandidate
<1>3. PickLatest({}) = NoCandidate /\ PickLatest({c}) = c
  BY PickLatestOne DEF PickLatest
<1>4. CASE ~ Eligible(v, q)
  <2>1. C = {}
    BY <1>1, <1>4
  <2>2. Overlay({}, q) = NoCandidate /\ Background({}, q) = NoCandidate
    BY <1>3 DEF Overlay, Background
  <2>3. SelectAmong({}, q) = Absent
    BY <2>2 DEF SelectAmong, NeedsScope
  <2> QED
    BY <1>4, <2>1, <2>3 DEF SelectOne
<1>5. CASE Eligible(v, q)
  <2>1. C = {c}
    BY <1>1, <1>5
  <2>2. NeedsScope({c}, q) <=> q.territory = None /\ v.scope # {}
    BY DEF NeedsScope
  <2>3. ~ Blocks(v, q)
    <3>1. Horizon(q) \in Nat /\ v.expires \in Nat
      BY DEF Horizon, Query, Version, NoDate
    <3> QED
      BY <1>5, <3>1 DEF Blocks, Eligible
  <2>4. Overlay({c}, q) = IF v.kind = "temporary" /\ Applies(v, q)
                          THEN c ELSE NoCandidate
    <3>1. {d \in {c} : d.version.kind = "temporary" /\ Applies(d.version, q)}
            = IF v.kind = "temporary" /\ Applies(v, q) THEN {c} ELSE {}
      OBVIOUS
    <3> QED
      BY <1>3, <3>1 DEF Overlay
  <2>5. Background({c}, q) = IF /\ v.kind = "permanent"
                                /\ Applies(v, q)
                                /\ ~ BeyondHorizon(v, q)
                             THEN c ELSE NoCandidate
    <3>1. {d \in {c} : /\ d.version.kind = "permanent"
                       /\ Applies(d.version, q)
                       /\ ~ BeyondHorizon(d.version, q)}
            = IF /\ v.kind = "permanent"
                 /\ Applies(v, q)
                 /\ ~ BeyondHorizon(v, q)
              THEN {c} ELSE {}
      OBVIOUS
    <3> QED
      BY <1>3, <2>3, <3>1 DEF Background
  <2>6. v.kind \in {"permanent", "temporary"}
    BY DEF Version
  <2> QED
    BY <1>2, <1>5, <2>1, <2>2, <2>3, <2>4, <2>5, <2>6 DEF SelectAmong, SelectOne
<1> QED
  BY <1>4, <1>5

(***************************************************************************)
(* The answer to a query is a function of the candidates alone.            *)
(***************************************************************************)
LEMMA SelectByCandidates ==
    ASSUME NEW vs \in Seq(Version), NEW q \in Query
    PROVE  SelectActive(vs, q) = SelectAmong(Candidates(vs, q), q)
<1>1. CASE Len(vs) = 1
  <2>1. vs = <<vs[1]>> /\ vs[1] \in Version
    BY <1>1
  <2> QED
    BY <1>1, <2>1, SingleVersion DEF SelectActive
<1>2. CASE Len(vs) # 1
  BY <1>2 DEF SelectActive
<1> QED
  BY <1>1, <1>2

\* The selector as a whole returns a well-formed selection.
LEMMA SelectActiveType ==
    ASSUME NEW vs \in Seq(Version), NEW q \in Query
    PROVE  /\ SelectActive(vs, q) \in Selection
           /\ Picks(vs, q, SelectActive(vs, q))
BY SelectByCandidates, SelectAmongType

\* The compiler's own queries are queries.
LEMMA GoverningType ==
    ASSUME NEW date \in Nat, NEW t \in Territories \cup {None}
    PROVE  Governing(date) \in Query /\ GoverningIn(date, t) \in Query
BY DEF Governing, GoverningIn, Query, NoDate

(***************************************************************************)
(* Two timelines of the same length whose versions agree wherever one is   *)
(* eligible have the same law; so has a timeline extended by a version     *)
(* that is not eligible yet.                                               *)
(***************************************************************************)
LEMMA SameLaw ==
    ASSUME NEW vs \in Seq(Version), NEW ws \in Seq(Version), NEW q \in Query,
           Len(vs) = Len(ws),
           \A i \in DOMAIN vs :
               Eligible(vs[i], q) \/ Eligible(ws[i], q) => vs[i] = ws[i]
    PROVE  SelectActive(vs, q) = SelectActive(ws, q)
<1>1. DOMAIN vs = DOMAIN ws
  OBVIOUS
<1>2. Candidates(vs, q) = Candidates(ws, q)
  BY <1>1 DEF Candidates
<1> QED
  BY <1>2, SelectByCandidates

\* A version that is not eligible changes no answer when it is appended
\* (_append_version, read at an earlier date).
LEMMA AppendKeepsLaw ==
    ASSUME NEW vs \in Seq(Version), NEW w \in Version, NEW q \in Query,
           ~ Eligible(w, q)
    PROVE  SelectActive(Append(vs, w), q) = SelectActive(vs, q)
<1> DEFINE ws == Append(vs, w)
<1>1. /\ ws \in Seq(Version)
      /\ DOMAIN ws = DOMAIN vs \cup {Len(vs) + 1}
      /\ \A i \in DOMAIN vs : ws[i] = vs[i]
      /\ ws[Len(vs) + 1] = w
  OBVIOUS
<1>2. {j \in DOMAIN ws : Eligible(ws[j], q)} = {j \in DOMAIN vs : Eligible(vs[j], q)}
  BY <1>1
<1> HIDE DEF ws
<1>3. Candidates(ws, q) = Candidates(vs, q)
  BY <1>1, <1>2 DEF Candidates
<1> QED
  BY <1>1, <1>3, SelectByCandidates DEF ws

-----------------------------------------------------------------------------
(***************************************************************************)
(* A timeline rearranged answers as before, if versions of the same dates  *)
(* keep their order: position breaks ties among those only.  What is added *)
(* to it must not be eligible.                                             *)
(***************************************************************************)
Rearranges(m, vs, ws, q) ==
    /\ m \in [DOMAIN vs -> DOMAIN ws]
    /\ \A k \in DOMAIN ws : Eligible(ws[k], q) => \E i \in DOMAIN vs : m[i] = k
    /\ \A i \in DOMAIN vs : ws[m[i]] = vs[i]
    /\ \A i, j \in DOMAIN vs : i # j => m[i] # m[j]
    /\ \A i, j \in DOMAIN vs : SameRank(vs[i], vs[j]) => (i < j <=> m[i] < m[j])

Moved(m, c) == [at |-> m[c.at], version |-> c.version]

MovedAll(m, D) == {Moved(m, c) : c \in D}

Of(D, vs) == \A c \in D : c.at \in DOMAIN vs /\ c = [at |-> c.at, version |-> vs[c.at]]

\* The candidates of the rearranged timeline are the same, moved.
LEMMA CandidatesMove ==
    ASSUME NEW vs \in Seq(Version), NEW ws \in Seq(Version), NEW m, NEW q,
           Rearranges(m, vs, ws, q)
    PROVE  /\ Candidates(ws, q) = MovedAll(m, Candidates(vs, q))
           /\ Of(Candidates(vs, q), vs)
<1>1. Of(Candidates(vs, q), vs)
  BY DEF Of, Candidates
<1>2. ASSUME NEW c \in Candidates(vs, q)
      PROVE  Moved(m, c) \in Candidates(ws, q)
  BY <1>2 DEF Candidates, Moved, Rearranges
<1>3. ASSUME NEW d \in Candidates(ws, q)
      PROVE  \E c \in Candidates(vs, q) : d = Moved(m, c)
  <2>1. PICK k \in DOMAIN ws : d = [at |-> k, version |-> ws[k]] /\ Eligible(ws[k], q)
    BY DEF Candidates
  <2>2. PICK i \in DOMAIN vs : m[i] = k /\ ws[k] = vs[i]
    BY <2>1 DEF Rearranges
  <2>3. [at |-> i, version |-> vs[i]] \in Candidates(vs, q)
    BY <2>1, <2>2 DEF Candidates
  <2> QED
    BY <2>1, <2>2, <2>3 DEF Moved
<1> QED
  BY <1>1, <1>2, <1>3 DEF MovedAll

\* Moving keeps the bias of placeholders: it looks at positions within one
\* pair of dates only.
LEMMA BiasMoves ==
    ASSUME NEW vs \in Seq(Version), NEW ws \in Seq(Version), NEW m, NEW q,
           Rearranges(m, vs, ws, q), NEW D, Of(D, vs), NEW c \in D
    PROVE  Bias(MovedAll(m, D), Moved(m, c)) = Bias(D, c)
<1>1. \A d : Moved(m, d).version = d.version /\ Moved(m, d).at = m[d.at]
  BY DEF Moved
<1>2. ASSUME NEW p \in D, NEW s \in D, SameRank(p.version, c.version),
             SameRank(s.version, c.version)
      PROVE  p.at > s.at <=> Moved(m, p).at > Moved(m, s).at
  <2>1. /\ p.at \in DOMAIN vs /\ s.at \in DOMAIN vs
        /\ p.version = vs[p.at] /\ s.version = vs[s.at]
    BY DEF Of
  <2>2. SameRank(vs[s.at], vs[p.at])
    BY <1>2, <2>1 DEF SameRank
  <2>3. s.at < p.at <=> m[s.at] < m[p.at]
    BY <2>1, <2>2 DEF Rearranges
  <2>4. m[p.at] \in Nat /\ m[s.at] \in Nat /\ p.at \in Nat /\ s.at \in Nat
    BY <2>1 DEF Rearranges
  <2> QED
    BY <1>1, <2>3, <2>4
<1>3. LatePlaceholderTie(MovedAll(m, D), Moved(m, c)) <=> LatePlaceholderTie(D, c)
  <2>1. LatePlaceholderTie(D, c) => LatePlaceholderTie(MovedAll(m, D), Moved(m, c))
    <3> SUFFICES ASSUME NEW p \in D, NEW s \in D,
                        IsPlaceholder(p.version.content), ~ IsPlaceholder(s.version.content),
                        p.at > s.at,
                        \A x \in {p, s} : /\ SameRank(x.version, c.version)
                                          /\ x.version.source = c.version.source
                 PROVE  LatePlaceholderTie(MovedAll(m, D), Moved(m, c))
      BY DEF LatePlaceholderTie
    <3>1. Moved(m, p) \in MovedAll(m, D) /\ Moved(m, s) \in MovedAll(m, D)
      BY DEF MovedAll
    <3>2. Moved(m, p).at > Moved(m, s).at
      BY <1>2
    <3> QED
      BY <1>1, <3>1, <3>2 DEF LatePlaceholderTie
  <2>2. LatePlaceholderTie(MovedAll(m, D), Moved(m, c)) => LatePlaceholderTie(D, c)
    <3> SUFFICES ASSUME NEW p \in D, NEW s \in D,
                        IsPlaceholder(p.version.content), ~ IsPlaceholder(s.version.content),
                        Moved(m, p).at > Moved(m, s).at,
                        \A x \in {p, s} : /\ SameRank(x.version, c.version)
                                          /\ x.version.source = c.version.source
                 PROVE  LatePlaceholderTie(D, c)
      BY <1>1 DEF LatePlaceholderTie, MovedAll
    <3>1. p.at > s.at
      BY <1>2
    <3> QED
      BY <3>1 DEF LatePlaceholderTie
  <2> QED
    BY <2>1, <2>2
<1> QED
  BY <1>1, <1>3 DEF Bias

\* Moving keeps the ranking.
LEMMA RankMoves ==
    ASSUME NEW vs \in Seq(Version), NEW ws \in Seq(Version), NEW m, NEW q,
           Rearranges(m, vs, ws, q), NEW D, Of(D, vs), NEW c \in D, NEW d \in D
    PROVE  Outranks(MovedAll(m, D), Moved(m, c), Moved(m, d)) <=> Outranks(D, c, d)
<1>1. \A x : Moved(m, x).version = x.version /\ Moved(m, x).at = m[x.at]
  BY DEF Moved
<1>2. /\ Bias(MovedAll(m, D), Moved(m, c)) = Bias(D, c)
      /\ Bias(MovedAll(m, D), Moved(m, d)) = Bias(D, d)
  BY BiasMoves
<1>3. /\ c.at \in DOMAIN vs /\ d.at \in DOMAIN vs
      /\ c.version = vs[c.at] /\ d.version = vs[d.at]
  BY DEF Of
<1>4. ASSUME c.version.effective = d.version.effective, c.version.enacted = d.version.enacted
      PROVE  c.at > d.at <=> m[c.at] > m[d.at]
  <2>1. d.at < c.at <=> m[d.at] < m[c.at]
    BY <1>3, <1>4 DEF Rearranges, SameRank
  <2>2. m[c.at] \in Nat /\ m[d.at] \in Nat /\ c.at \in Nat /\ d.at \in Nat
    BY <1>3 DEF Rearranges
  <2> QED
    BY <2>1, <2>2
<1> QED
  BY <1>1, <1>2, <1>4 DEF Outranks

\* No two candidates outrank each other.
LEMMA RankAsymmetric ==
    ASSUME NEW C, NEW c \in Candidate, NEW d \in Candidate, Outranks(C, c, d)
    PROVE  ~ Outranks(C, d, c)
<1>1. Bias(C, c) \in 0..2 /\ Bias(C, d) \in 0..2
  BY BiasType
<1>2. \A x \in {c, d} : /\ x.version.effective \in Nat
                        /\ x.version.enacted \in Nat
                        /\ x.at \in Nat
  BY DEF Candidate, Version
<1> QED
  BY <1>1, <1>2 DEF Outranks

\* What is picked is what was picked, moved.
LEMMA PickMoves ==
    ASSUME NEW vs \in Seq(Version), NEW ws \in Seq(Version), NEW m, NEW q,
           Rearranges(m, vs, ws, q), NEW D \in SUBSET Candidates(vs, q)
    PROVE  PickLatest(MovedAll(m, D)) =
               IF D = {} THEN NoCandidate ELSE Moved(m, PickLatest(D))
<1>1. CASE D = {}
  BY <1>1 DEF MovedAll, PickLatest
<1>2. CASE D # {}
  <2> DEFINE E == MovedAll(m, D)
             IsBest(c) == \A e \in E \ {c} : Outranks(E, c, e)
  <2>1. Of(D, vs) /\ E \subseteq Candidates(ws, q)
    BY CandidatesMove DEF Of, MovedAll
  <2>2. D \in SUBSET Candidate /\ E \in SUBSET Candidate
    BY <2>1, CandidatesType
  <2>3. PICK b \in D : \A d \in D \ {b} : Outranks(D, b, d)
    <3>1. IsFiniteSet(D) /\ Distinct(D)
      BY CandidatesType, FS_Subset DEF Distinct
    <3> QED
      BY <1>2, <2>2, <3>1, BestExists
  <2>4. PickLatest(D) = b
    <3>1. \A c \in D : (\A d \in D \ {c} : Outranks(D, c, d)) => c = b
      BY <2>2, <2>3, RankAsymmetric
    <3>2. PickLatest(D) = CHOOSE c \in D : \A d \in D \ {c} : Outranks(D, c, d)
      BY <1>2 DEF PickLatest
    <3> QED
      BY <2>3, <3>1, <3>2
  <2>5. Moved(m, b) \in E /\ IsBest(Moved(m, b))
    <3>1. ASSUME NEW e \in E \ {Moved(m, b)}
          PROVE  Outranks(E, Moved(m, b), e)
      <4>1. PICK d \in D : e = Moved(m, d)
        BY DEF MovedAll
      <4>2. d # b
        BY <3>1, <4>1
      <4> QED
        BY <2>1, <2>3, <4>1, <4>2, RankMoves
    <3> QED
      BY <3>1 DEF MovedAll
  <2>6. \A c \in E : IsBest(c) => c = Moved(m, b)
    BY <2>2, <2>5, RankAsymmetric
  <2>7. PickLatest(E) = CHOOSE c \in E : IsBest(c)
    BY <2>5 DEF PickLatest
  <2> HIDE DEF E, IsBest
  <2>8. PickLatest(E) = Moved(m, b)
    BY <2>5, <2>6, <2>7
  <2> QED
    BY <1>2, <2>4, <2>8 DEF E
<1> QED
  BY <1>1, <1>2

\* A rearranged timeline has the same law, for every query.
LEMMA RearrangedKeepsLaw ==
    ASSUME NEW vs \in Seq(Version), NEW ws \in Seq(Version), NEW m, NEW q \in Query,
           Rearranges(m, vs, ws, q)
    PROVE  SelectActive(vs, q) = SelectActive(ws, q)
<1> DEFINE C == Candidates(vs, q)
           E == MovedAll(m, C)
           T == {c \in C : c.version.kind = "temporary" /\ Applies(c.version, q)}
           P == {c \in C : /\ c.version.kind = "permanent"
                           /\ Applies(c.version, q)
                           /\ ~ BeyondHorizon(c.version, q)}
<1>1. Candidates(ws, q) = E /\ Of(C, vs)
  BY CandidatesMove
<1>2. \A c : Moved(m, c).version = c.version
  BY DEF Moved
<1>3. \A c \in C : Moved(m, c) # NoCandidate /\ c # NoCandidate
  <2> SUFFICES ASSUME NEW c \in C
               PROVE  Moved(m, c) # NoCandidate /\ c # NoCandidate
    OBVIOUS
  <2>1. c.at \in DOMAIN vs
    BY <1>1 DEF Of
  <2>2. m[c.at] \in DOMAIN ws
    BY <2>1 DEF Rearranges
  <2>3. c.at # 0 /\ m[c.at] # 0
    BY <2>1, <2>2
  <2>4. Moved(m, c).at = m[c.at] /\ NoCandidate.at = 0
    BY DEF Moved, NoCandidate
  <2> QED
    BY <2>3, <2>4
<1>4. MovedAll(m, T) = {e \in E : e.version.kind = "temporary" /\ Applies(e.version, q)}
  BY <1>2 DEF MovedAll
<1>5. MovedAll(m, P) = {e \in E : /\ e.version.kind = "permanent"
                                  /\ Applies(e.version, q)
                                  /\ ~ BeyondHorizon(e.version, q)}
  BY <1>2 DEF MovedAll
<1>6. (\E c \in C : Blocks(c.version, q)) <=> \E e \in E : Blocks(e.version, q)
  BY <1>2 DEF MovedAll
<1>7. NeedsScope(C, q) <=> NeedsScope(E, q)
  BY <1>2 DEF MovedAll, NeedsScope
<1>8. T \in SUBSET C /\ P \in SUBSET C
  OBVIOUS
<1> HIDE DEF E, C, T, P
<1>9. \A D \in SUBSET C :
          \/ PickLatest(D) = NoCandidate /\ PickLatest(MovedAll(m, D)) = NoCandidate
          \/ /\ PickLatest(D) # NoCandidate /\ PickLatest(MovedAll(m, D)) # NoCandidate
             /\ PickLatest(MovedAll(m, D)).version = PickLatest(D).version
  <2> SUFFICES ASSUME NEW D \in SUBSET C
               PROVE  \/ PickLatest(D) = NoCandidate /\ PickLatest(MovedAll(m, D)) = NoCandidate
                      \/ /\ PickLatest(D) # NoCandidate
                         /\ PickLatest(MovedAll(m, D)) # NoCandidate
                         /\ PickLatest(MovedAll(m, D)).version = PickLatest(D).version
    OBVIOUS
  <2>1. PickLatest(MovedAll(m, D)) =
            IF D = {} THEN NoCandidate ELSE Moved(m, PickLatest(D))
    <3>1. D \in SUBSET Candidates(vs, q)
      BY DEF C
    <3> QED
      BY <3>1, PickMoves
  <2>2. CASE D = {}
    BY <2>1, <2>2 DEF PickLatest
  <2>3. CASE D # {}
    <3>1. PickLatest(D) \in D
      <4>1. IsFiniteSet(D) /\ Distinct(D) /\ D \in SUBSET Candidate
        BY CandidatesType, FS_Subset DEF Distinct, C
      <4> QED
        BY <2>3, <4>1, PickLatestMember
    <3> QED
      BY <1>2, <1>3, <2>1, <2>3, <3>1
  <2> QED
    BY <2>2, <2>3
<1>10. \/ Overlay(C, q) = NoCandidate /\ Overlay(E, q) = NoCandidate
       \/ /\ Overlay(C, q) # NoCandidate /\ Overlay(E, q) # NoCandidate
          /\ Overlay(E, q).version = Overlay(C, q).version
  <2>1. Overlay(C, q) = PickLatest(T) /\ Overlay(E, q) = PickLatest(MovedAll(m, T))
    BY <1>4 DEF Overlay, T
  <2> QED
    BY <1>8, <1>9, <2>1
<1>11. \/ Background(C, q) = NoCandidate /\ Background(E, q) = NoCandidate
       \/ /\ Background(C, q) # NoCandidate /\ Background(E, q) # NoCandidate
          /\ Background(E, q).version = Background(C, q).version
  <2>1. CASE \E c \in C : Blocks(c.version, q)
    BY <1>6, <2>1 DEF Background
  <2>2. CASE ~ \E c \in C : Blocks(c.version, q)
    <3>1. Background(C, q) = PickLatest(P) /\ Background(E, q) = PickLatest(MovedAll(m, P))
      BY <1>5, <1>6, <2>2 DEF Background, P
    <3> QED
      BY <1>8, <1>9, <3>1
  <2> QED
    BY <2>1, <2>2
<1>12. SelectAmong(C, q) = SelectAmong(E, q)
  BY <1>7, <1>10, <1>11 DEF SelectAmong
<1> QED
  BY <1>1, <1>12, SelectByCandidates DEF C

-----------------------------------------------------------------------------
(***************************************************************************)
(* What a later act of its own writes is the law while it lasts: as an     *)
(* overlay it is the newest, and as a background it supersedes whatever    *)
(* overlay of another act is older.                                        *)
(***************************************************************************)
\* A candidate that begins after all others is the one picked.
LEMMA NewestIsPicked ==
    ASSUME NEW D \in SUBSET Candidate, NEW c \in D,
           \A d \in D \ {c} : d.version.effective < c.version.effective
    PROVE  PickLatest(D) = c
<1>1. \A d \in D : d.version.effective \in Nat
  BY DEF Candidate, Version
<1>2. \A d \in D \ {c} : Outranks(D, c, d)
  BY <1>1 DEF Outranks
<1>3. \A d \in D : (\A e \in D \ {d} : Outranks(D, d, e)) => d = c
  BY <1>2, RankAsymmetric
<1>4. PickLatest(D) = CHOOSE d \in D : \A e \in D \ {d} : Outranks(D, d, e)
  BY DEF PickLatest
<1> QED
  BY <1>2, <1>3, <1>4

\* An appended version that applies everywhere, later than everything before
\* it, is selected if no older overlay shares its source or lacks one.
LEMMA NewestGoverns ==
    ASSUME NEW vs \in Seq(Version), NEW v \in Version, NEW q \in Query,
           q.territory # None, q.horizon = NoDate,
           Eligible(v, q), v.scope = {}, v.source # None,
           \A i \in DOMAIN vs :
               /\ vs[i].effective < v.effective
               /\ vs[i].source # v.source
               /\ vs[i].kind = "temporary" /\ Eligible(vs[i], q) => vs[i].source # None
    PROVE  SelectActive(Append(vs, v), q) = Selected(v)
<1> DEFINE ws == Append(vs, v)
           n == Len(vs) + 1
           c == [at |-> n, version |-> v]
           C == Candidates(ws, q)
           T == {x \in C : x.version.kind = "temporary" /\ Applies(x.version, q)}
           P == {x \in C : /\ x.version.kind = "permanent"
                           /\ Applies(x.version, q)
                           /\ ~ BeyondHorizon(x.version, q)}
<1>1. /\ ws \in Seq(Version)
      /\ DOMAIN ws = DOMAIN vs \cup {n} /\ n \notin DOMAIN vs /\ n # 0
      /\ \A i \in DOMAIN vs : ws[i] = vs[i]
      /\ ws[n] = v
  OBVIOUS
<1> HIDE DEF ws, n
<1>2. c \in C
  BY <1>1 DEF Candidates
<1>3. C \in SUBSET Candidate /\ Distinct(C)
  BY <1>1, CandidatesType
<1>4. ASSUME NEW x \in C, x # c
      PROVE  /\ x.version.effective < v.effective
             /\ x.version.source # v.source
             /\ x.version.kind = "temporary" => x.version.source # None
  <2>1. PICK i \in DOMAIN ws : x = [at |-> i, version |-> ws[i]] /\ Eligible(ws[i], q)
    BY DEF Candidates
  <2>2. i \in DOMAIN vs /\ x.version = vs[i] /\ Eligible(vs[i], q)
    BY <1>1, <1>4, <2>1
  <2> QED
    BY <2>2
<1>5. /\ c # NoCandidate /\ c.version = v
      /\ v.effective \in Nat /\ v.kind \in {"permanent", "temporary"}
  BY <1>1 DEF NoCandidate, Version
<1> HIDE DEF c, C
<1>6. Applies(v, q) /\ ~ NeedsScope(C, q) /\ ~ BeyondHorizon(v, q)
  BY DEF Applies, NeedsScope, BeyondHorizon
<1>7. \A D \in SUBSET C : c \in D => PickLatest(D) = c
  BY <1>3, <1>4, <1>5, NewestIsPicked
<1>8. CASE v.kind = "temporary"
  <2>1. Overlay(C, q) = c
    BY <1>2, <1>5, <1>6, <1>7, <1>8 DEF Overlay
  <2>2. Background(C, q) = NoCandidate \/ Background(C, q) \in P
    <3>1. PickLatest(P) = NoCandidate \/ PickLatest(P) \in P
      BY <1>1, PickLatestSome DEF C
    <3> QED
      BY <3>1 DEF Background
  <2>3. Background(C, q) \in P => ~ Supersedes(v, Background(C, q).version)
    <3> SUFFICES ASSUME NEW b \in P PROVE ~ Supersedes(v, b.version)
      OBVIOUS
    <3>1. b \in C /\ b # c
      BY <1>5, <1>8
    <3>2. b.version.effective < v.effective /\ b.version.effective \in Nat
      BY <1>3, <1>4, <3>1 DEF Candidate, Version
    <3> QED
      BY <1>5, <3>2 DEF Supersedes, IndependentLater, HandsOver
  <2> HIDE DEF P
  <2>4. SelectAmong(C, q) = Selected(v)
    BY <1>5, <1>6, <2>1, <2>2, <2>3 DEF SelectAmong
  <2> QED
    BY <1>1, <2>4, SelectByCandidates DEF C, ws
<1>9. CASE v.kind = "permanent"
  <2>1. \A x \in C : ~ Blocks(x.version, q)
    <3> SUFFICES ASSUME NEW x \in C PROVE ~ Blocks(x.version, q)
      OBVIOUS
    <3>1. Eligible(x.version, q) /\ x.version.expires \in Nat
      BY <1>1, <1>3, CandidatesType DEF C, Candidate, Version
    <3> QED
      BY <3>1 DEF Blocks, Eligible, Horizon, Query
  <2>2. Background(C, q) = c
    BY <1>2, <1>5, <1>6, <1>7, <1>9, <2>1 DEF Background
  <2>3. Overlay(C, q) = NoCandidate \/ Overlay(C, q) \in T
    BY <1>1, PickLatestSome DEF Overlay, C
  <2>4. Overlay(C, q) \in T => Supersedes(Overlay(C, q).version, v)
    <3> SUFFICES ASSUME NEW o \in T PROVE Supersedes(o.version, v)
      OBVIOUS
    <3>1. o \in C /\ o # c
      BY <1>5, <1>9
    <3>2. /\ o.version.effective < v.effective /\ o.version.effective \in Nat
          /\ o.version.source # v.source /\ o.version.source # None
      BY <1>3, <1>4, <3>1 DEF Candidate, Version
    <3> QED
      BY <1>5, <3>2 DEF Supersedes, IndependentLater
  <2> HIDE DEF T
  <2>5. SelectAmong(C, q) = Selected(v)
    BY <1>5, <1>6, <2>2, <2>3, <2>4 DEF SelectAmong
  <2> QED
    BY <1>1, <2>5, SelectByCandidates DEF C, ws
<1> QED
  BY <1>5, <1>8, <1>9

\* In a territory where a temporary version applies, the law of its days is
\* never older than it.
LEMMA OverlayReaches ==
    ASSUME NEW vs \in Seq(Version), NEW q \in Query, q.territory # None,
           NEW i \in DOMAIN vs, Eligible(vs[i], q), vs[i].kind = "temporary",
           Applies(vs[i], q)
    PROVE  SelectActive(vs, q).version.effective >= vs[i].effective
<1> DEFINE C == Candidates(vs, q)
           c == [at |-> i, version |-> vs[i]]
           T == {x \in C : x.version.kind = "temporary" /\ Applies(x.version, q)}
           o == Overlay(C, q)
           b == Background(C, q)
<1>1. c \in T /\ T \in SUBSET C /\ c.version = vs[i]
  BY DEF Candidates
<1>2. C \in SUBSET Candidate /\ IsFiniteSet(C) /\ Distinct(C)
  BY CandidatesType
<1>3. \A x \in C : x.version.effective \in Nat /\ x # NoCandidate
  <2>1. \A x \in Candidate : x.version.effective \in Nat /\ x.at # 0
    BY DEF Candidate, Version
  <2>2. NoCandidate.at = 0
    BY DEF NoCandidate
  <2> HIDE DEF C
  <2> QED
    BY <1>2, <2>1, <2>2
<1> HIDE DEF C, c
<1>4. o \in T /\ (o = c \/ Outranks(T, o, c))
  <2>1. IsFiniteSet(T) /\ Distinct(T) /\ T \in SUBSET Candidate
    BY <1>1, <1>2, FS_Subset DEF Distinct
  <2>2. \E x \in T : \A d \in T \ {x} : Outranks(T, x, d)
    BY <1>1, <2>1, BestExists
  <2>3. o = CHOOSE x \in T : \A d \in T \ {x} : Outranks(T, x, d)
    BY <1>1 DEF Overlay, PickLatest
  <2> HIDE DEF T, o
  <2> QED
    BY <1>1, <2>2, <2>3
<1>5. o.version.effective >= c.version.effective
  BY <1>1, <1>3, <1>4 DEF Outranks
<1>6. b = NoCandidate \/ b \in C
  BY PickLatestSome DEF Background, C
<1>7. ~ NeedsScope(C, q)
  BY DEF NeedsScope
<1>8. o # NoCandidate
  BY <1>1, <1>3, <1>4
<1> HIDE DEF T
<1>9. \/ SelectAmong(C, q) = Selected(o.version)
      \/ /\ SelectAmong(C, q) = Selected(b.version)
         /\ b # NoCandidate /\ Supersedes(o.version, b.version)
  BY <1>7, <1>8 DEF SelectAmong
<1>10. SelectAmong(C, q).version.effective >= c.version.effective
  <2>1. CASE SelectAmong(C, q) = Selected(o.version)
    BY <1>5, <2>1 DEF Selected
  <2>2. CASE /\ SelectAmong(C, q) = Selected(b.version)
             /\ b # NoCandidate /\ Supersedes(o.version, b.version)
    <3>1. b.version.effective > o.version.effective
      BY <2>2 DEF Supersedes, IndependentLater, HandsOver
    <3>2. /\ b.version.effective \in Nat /\ o.version.effective \in Nat
          /\ c.version.effective \in Nat
      BY <1>1, <1>3, <1>4, <1>6, <2>2 DEF T
    <3>3. SelectAmong(C, q).version = b.version
      BY <2>2 DEF Selected
    <3> HIDE DEF o, b
    <3> QED
      BY <1>5, <3>1, <3>2, <3>3
  <2> QED
    BY <1>9, <2>1, <2>2
<1> QED
  BY <1>1, <1>10, SelectByCandidates DEF C

=============================================================================
