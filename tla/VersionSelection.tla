--------------------------- MODULE VersionSelection ---------------------------
(***************************************************************************)
(* Which version of one provision is the law on a date.                    *)
(*                                                                         *)
(* core/timeline_selection.py answers every "what did this section say on  *)
(* that day" question, for the compiler itself and for the point-in-time   *)
(* reader.  A timeline is the sequence of all versions of one provision.   *)
(* Selection works on two rails: temporary versions overlay permanent      *)
(* ones, unless a later act supersedes the overlay.                        *)
(*                                                                         *)
(* A date is a natural number, a day; 0 is the code's empty string.  Text  *)
(* is an identity, not characters; `paths' is the set of relative          *)
(* addresses of the descendants that a node carries.                       *)
(***************************************************************************)
EXTENDS Naturals, Sequences

CONSTANTS
    Sources,      \* the amending acts
    Territories,  \* the values of a territory predicate
    RelPaths,     \* relative addresses of descendants
    None          \* no source statute; no territory asked for

ASSUME NoneAssumption == None \notin Sources \cup Territories

NoDate == 0

(***************************************************************************)
(* Carriers: IRNode content reduced to what selection tells apart, and     *)
(* ProvisionVersion.  State "none" is content = None, a tombstone;         *)
(* "placeholder" carries lawvm_repeal_placeholder, "detached" carries the  *)
(* materialize-as-absent attribute as well.                                *)
(***************************************************************************)
Content == [state : {"none", "text", "placeholder", "detached"},
            text  : Nat,
            paths : SUBSET RelPaths]

NoContent == [state |-> "none", text |-> 0, paths |-> {}]

KindFor(expires) == IF expires # NoDate THEN "temporary" ELSE "permanent"

\* The constructor refuses an expiry before the effective date; everything
\* that builds or replaces a version sets its kind from its expiry.
Version == {v \in [effective : Nat, enacted : Nat, expires : Nat,
                   kind    : {"permanent", "temporary"},
                   content : Content,
                   source  : Sources \cup {None},
                   scope   : SUBSET Territories] :
               /\ v.kind = KindFor(v.expires)
               /\ v.expires # NoDate => v.expires >= v.effective}

\* What a query that selects nothing returns in place of a version.
NoVersion == [effective |-> NoDate, enacted |-> NoDate, expires |-> NoDate,
              kind |-> "permanent", content |-> NoContent,
              source |-> None, scope |-> {}]

IsPlaceholder(c) == c.state \in {"placeholder", "detached"}
IsAbsent(c)      == c.state = "none"
HasText(c)       == c.state = "text"

(***************************************************************************)
(* A query: the date, the query type (governing or in_force), a separate   *)
(* expiry horizon or NoDate, and a territory or None.                      *)
(***************************************************************************)
Query == [asOf : Nat, inForce : BOOLEAN, horizon : Nat,
          territory : Territories \cup {None}]

Governing(date) ==
    [asOf |-> date, inForce |-> FALSE, horizon |-> NoDate, territory |-> None]

GoverningIn(date, territory) ==
    [Governing(date) EXCEPT !.territory = territory]

Horizon(q) == IF q.horizon # NoDate THEN q.horizon ELSE q.asOf

Eligible(v, q) ==
    /\ v.effective <= q.asOf
    /\ q.inForce => v.enacted <= q.asOf
    /\ v.expires # NoDate => v.expires > Horizon(q)

\* A version with no territory predicate applies everywhere.
Applies(v, q) == v.scope = {} \/ q.territory \in v.scope

-----------------------------------------------------------------------------
(***************************************************************************)
(* Candidates keep their position in the timeline: it breaks ties.         *)
(***************************************************************************)
Candidates(vs, q) ==
    {[at |-> i, version |-> vs[i]] : i \in {j \in DOMAIN vs : Eligible(vs[j], q)}}

NoCandidate == [at |-> 0, version |-> NoVersion]

SameRank(v, w) ==
    /\ v.effective = w.effective
    /\ v.enacted = w.enacted

\* A placeholder ranks below the other candidates of its dates, except when
\* its own act wrote it after something else of the same dates.
LatePlaceholderTie(C, c) ==
    \E p, s \in C :
        /\ IsPlaceholder(p.version.content)
        /\ ~ IsPlaceholder(s.version.content)
        /\ p.at > s.at
        /\ \A x \in {p, s} : /\ SameRank(x.version, c.version)
                             /\ x.version.source = c.version.source

Bias(C, c) ==
    IF ~ IsPlaceholder(c.version.content) THEN 1
    ELSE IF LatePlaceholderTie(C, c) THEN 2
    ELSE 0

Outranks(C, c, d) ==
    \/ c.version.effective > d.version.effective
    \/ /\ c.version.effective = d.version.effective
       /\ \/ c.version.enacted > d.version.enacted
          \/ /\ c.version.enacted = d.version.enacted
             /\ \/ Bias(C, c) > Bias(C, d)
                \/ Bias(C, c) = Bias(C, d) /\ c.at > d.at

PickLatest(C) ==
    IF C = {} THEN NoCandidate
    ELSE CHOOSE c \in C : \A d \in C \ {c} : Outranks(C, c, d)

-----------------------------------------------------------------------------
(***************************************************************************)
(* The two rails.                                                          *)
(***************************************************************************)
Overlay(C, q) ==
    PickLatest({c \in C : c.version.kind = "temporary" /\ Applies(c.version, q)})

\* An absence that has itself run out blocks the whole permanent rail.
Blocks(v, q) ==
    /\ Applies(v, q)
    /\ v.expires # NoDate
    /\ v.expires <= Horizon(q)
    /\ ~ HasText(v.content)

\* An absence that begins beyond the detached expiry horizon is not read.
BeyondHorizon(v, q) ==
    /\ q.horizon # NoDate
    /\ q.asOf > q.horizon
    /\ ~ HasText(v.content)
    /\ v.content.state # "detached"
    /\ v.effective > q.horizon

Background(C, q) ==
    IF \E c \in C : Blocks(c.version, q) THEN NoCandidate
    ELSE PickLatest({c \in C : /\ c.version.kind = "permanent"
                               /\ Applies(c.version, q)
                               /\ ~ BeyondHorizon(c.version, q)})

\* Lex posterior: a later act of another source is not hidden by an older
\* temporary text.
IndependentLater(o, b) ==
    /\ b.effective > o.effective
    /\ o.source # None
    /\ b.source # None
    /\ o.source # b.source

\* A permanent version that begins on the overlay's last day takes that day.
HandsOver(o, b) ==
    /\ o.expires # NoDate
    /\ b.effective > o.effective
    /\ b.effective + 1 >= o.expires

\* Variant: no lex posterior, an overlay yields on its last day only.
SupersedesOnLastDayOnly(o, b) == HandsOver(o, b)

Supersedes(o, b) == IndependentLater(o, b) \/ HandsOver(o, b)

-----------------------------------------------------------------------------
(***************************************************************************)
(* The selector.  A one-version timeline takes a path of its own.          *)
(***************************************************************************)
Selected(v) == [status |-> "selected", version |-> v]
Absent      == [status |-> "absent", version |-> NoVersion]
Ambiguous   == [status |-> "ambiguous", version |-> NoVersion]

Selection == [status : {"selected", "absent", "ambiguous"}, version : Version]

NeedsScope(C, q) == q.territory = None /\ \E c \in C : c.version.scope # {}

\* Variant: the path for one version forgets the detached horizon.
SelectOneUnfiltered(v, q) ==
    IF ~ Eligible(v, q) THEN Absent
    ELSE IF NeedsScope({[at |-> 1, version |-> v]}, q) THEN Ambiguous
    ELSE IF ~ Applies(v, q) THEN Absent
    ELSE Selected(v)

SelectOne(v, q) ==
    IF ~ Eligible(v, q) THEN Absent
    ELSE IF q.territory = None /\ v.scope # {} THEN Ambiguous
    ELSE IF ~ Applies(v, q) THEN Absent
    ELSE IF v.kind = "permanent" /\ (Blocks(v, q) \/ BeyondHorizon(v, q)) THEN Absent
    ELSE Selected(v)

SelectAmong(C, q) ==
    LET overlay    == Overlay(C, q)
        background == Background(C, q)
        held       == /\ overlay # NoCandidate
                      /\ \/ background = NoCandidate
                         \/ ~ Supersedes(overlay.version, background.version)
    IN  IF NeedsScope(C, q) THEN Ambiguous
        ELSE IF held THEN Selected(overlay.version)
        ELSE IF background # NoCandidate THEN Selected(background.version)
        ELSE Absent

SelectActive(vs, q) ==
    IF Len(vs) = 1 THEN SelectOne(vs[1], q) ELSE SelectAmong(Candidates(vs, q), q)

\* What a query by date reads: the law at that date.
LawAt(vs, q) == SelectActive(vs, q).version

=============================================================================
