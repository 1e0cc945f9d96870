----------------------------- MODULE TimelineLaws -----------------------------
(***************************************************************************)
(* What compile_timelines promises of the timelines it builds.             *)
(***************************************************************************)
EXTENDS CompileTimelines

QueryDates == BaseDate..LastDate

\* A version was appended to the timeline of a by this step.
Appends(a) == Len(timelines'[a]) = Len(timelines[a]) + 1

Appended(a) == timelines'[a][Len(timelines'[a])]

\* The date of the item a step takes.
StepDate == IF opDate' > eventDate' THEN opDate' ELSE eventDate'

(***************************************************************************)
(* While operations run, every cached selection is what selecting afresh   *)
(* would return: no append and no event leaves a stale entry behind        *)
(* (_append_version pops, the event loop clears).                          *)
(***************************************************************************)
CacheCoherent ==
    phase = "ops" =>
        \A e \in cache :
            e.result = SelectActive(timelines[e.addr], Governing(e.date))

(***************************************************************************)
(* Text that an expire or suspend event ended never governs again from the *)
(* end date on, whatever operations and events follow: only what was       *)
(* written at that date or later can (_cap_substantive_versions_at).       *)
(***************************************************************************)
NothingEndedReturns ==
    \A a \in Addr, d \in QueryDates, t \in Territories \cup {None} :
        LET law == LawAt(timelines[a], GoverningIn(d, t))
        IN  d >= ended[a] /\ ~ IsAbsent(law.content) => law.effective >= ended[a]

(***************************************************************************)
(* The path of the selector for one-version timelines answers as the       *)
(* general path does, for every kind of query, on every version compiled:  *)
(* each stands in some state in which the operations are done.             *)
(***************************************************************************)
SingleVersionAgrees ==
    phase = "trailing" =>
        \A a \in Addr : \A i \in DOMAIN timelines[a] :
            \A q \in [asOf : QueryDates, inForce : BOOLEAN,
                      horizon : QueryDates \cup {NoDate},
                      territory : Territories \cup {None}] :
                LET v == timelines[a][i]
                IN  SelectOne(v, q) = SelectAmong(Candidates(<<v>>, q), q)

(***************************************************************************)
(* The past is settled: an operation, or an event that starts or rescopes  *)
(* a text, changes the law of no earlier date.                             *)
(***************************************************************************)
PastUnchanged ==
    ended' = ended /\ phase' # "sorted" =>
        \A a \in Addr, d \in QueryDates, t \in Territories \cup {None} :
            d < StepDate =>
                LawAt(timelines'[a], GoverningIn(d, t)) = LawAt(timelines[a], GoverningIn(d, t))

PastIsSettled == [][PastUnchanged]_vars

(***************************************************************************)
(* Lex posterior: what an act writes, later than everything at the address *)
(* and from another source, is the law there for the whole of its term; no *)
(* older temporary text hides it.                                          *)
(***************************************************************************)
LaterPrevails ==
    \A a \in Addr :
        LET v == Appended(a)
        IN  /\ Appends(a)
            /\ v.scope = {}
            /\ \A i \in DOMAIN timelines[a] : /\ timelines[a][i].effective < v.effective
                                              /\ timelines[a][i].source # v.source
            => \A d \in v.effective..LastDate, t \in Territories :
                  (v.expires = NoDate \/ d < v.expires)
                      => LawAt(timelines'[a], GoverningIn(d, t)) = v

LaterActPrevails == [][LaterPrevails]_vars

(***************************************************************************)
(* The final sort changes no answer, although ties are broken by position  *)
(* and it moves positions.                                                 *)
(***************************************************************************)
SortChangesNothing ==
    phase = "trailing" /\ phase' = "sorted" =>
        \A a \in Addr, d \in QueryDates, t \in Territories \cup {None} :
            LawAt(timelines'[a], GoverningIn(d, t)) = LawAt(timelines[a], GoverningIn(d, t))

SortKeepsLaw == [][SortChangesNothing]_vars

(***************************************************************************)
(* "Replacing a live temporary provision without an explicit new expiry    *)
(* normally preserves the sunset date rather than making the provision     *)
(* permanent by accident": no permanent text is written over a provision   *)
(* whose law, on that day, is temporary texts only, that apply everywhere  *)
(* and all have more than their last day to run.                           *)
(***************************************************************************)
TemporaryOnly(C, w) ==
    /\ C # {}
    /\ \A c \in C : /\ c.version.kind = "temporary"
                    /\ c.version.scope = {}
                    /\ HasText(c.version.content)
                    /\ c.version.expires > w.effective + 1

NoAccidentalPermanence ==
    \A a \in Addr :
        LET w == Appended(a)
        IN  /\ Appends(a)
            /\ TemporaryOnly(Candidates(timelines[a], Governing(w.effective)), w)
            /\ HasText(w.content)
            => w.kind = "temporary"

SunsetHolds == [][NoAccidentalPermanence]_vars

(***************************************************************************)
(* A text that an operation writes where nothing is in force, under a      *)
(* temporary ancestor, is temporary too ("the subtree dies together"),     *)
(* unless a renumbering moved it there.                                    *)
(***************************************************************************)
DyingParents(a, date) ==
    {p \in Addr : /\ Len(p) < Len(a)
                  /\ SubSeq(a, 1, Len(p)) = p
                  /\ LawAt(timelines[p], Governing(date)).expires > date}

ByOperation == taken' # taken /\ opDate' >= eventDate'

NoOrphan ==
    ByOperation => \A a \in Addr :
        LET v == Appended(a)
            parents == DyingParents(a, v.effective)
        IN  /\ Appends(a)
            /\ \A b \in Addr \ {a} : timelines'[b] = timelines[b]
            /\ Candidates(timelines[a], Governing(v.effective)) = {}
            /\ HasText(v.content)
            /\ parents # {}
            => v.expires # NoDate

ChildDiesWithParent == [][NoOrphan]_vars

(***************************************************************************)
(* "End a scoped legal unit without allowing older background text to      *)
(* revive": an end event puts no text in force on a date when that text    *)
(* was not in force before.                                                *)
(***************************************************************************)
EndOnlyEnds ==
    ended' # ended =>
        \A a \in Addr, d \in QueryDates :
            LET before == LawAt(timelines[a], Governing(d))
                after  == LawAt(timelines'[a], Governing(d))
            IN  HasText(after.content) => after.content = before.content

EndRevivesNothing == [][EndOnlyEnds]_vars

TextsInForce(tls, date) ==
    {c \in {LawAt(tls[a], Governing(date)).content : a \in Addr} : HasText(c)}

\* No text in force, and nothing temporary.
Free(law) == ~ HasText(law.content) /\ law.kind = "permanent"

\* What of a timeline is eligible when w begins leaves the address to w: of
\* the same day there is only what the same act wrote, and no placeholder, and
\* no temporary text of that act, which w would not supersede.
LeftTo(w, vs) ==
    /\ Free(LawAt(vs, Governing(w.effective)))
    /\ \A i \in DOMAIN vs :
           Eligible(vs[i], Governing(w.effective)) =>
               /\ vs[i].scope = {}
               /\ vs[i].effective = w.effective =>
                      vs[i].source = w.source /\ ~ IsPlaceholder(vs[i].content)
               /\ vs[i].kind = "temporary" => vs[i].source # w.source

MovesText(from, to) ==
    /\ Appends(from)
    /\ Appends(to)
    /\ IsAbsent(Appended(from).content)
    /\ HasText(Appended(to).content)
    /\ Appended(to).expires = NoDate
    /\ Appended(to).scope = {}
    /\ LeftTo(Appended(to), timelines[to])

LosesNoText == TextsInForce(timelines, opDate') \subseteq TextsInForce(timelines', opDate')

(***************************************************************************)
(* "Renumber should create destination lineage and tombstone the source    *)
(* address": a lasting renumbering takes no text out of force, what was    *)
(* law somewhere on its date still is, provided nothing was written to its *)
(* source that day and its destination is left to it: what                 *)
(* _ordered_renumber_group relies on when it emits a chain so that         *)
(* "occupied destinations are vacated first".                              *)
(***************************************************************************)
WrittenOn(a, date) ==
    \E i \in DOMAIN timelines[a] : /\ timelines[a][i].effective = date
                                   /\ timelines[a][i].source \in Sources

VacatedFirst ==
    \A from, to \in Addr :
        MovesText(from, to) /\ ~ WrittenOn(from, opDate') => LosesNoText

VacatingFirstLosesNoText == [][VacatedFirst]_vars

=============================================================================
