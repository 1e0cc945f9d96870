---------------------------- MODULE WindowScheduler ----------------------------
(***************************************************************************)
(* Temporary windows (core/temporal_scheduler.py): a Finnish act inserts a *)
(* section for a time into a place that another operation of the replay    *)
(* occupies.  The replay reports the window; after the compilation         *)
(* materialize_temporal_write_windows splices the temporary text into the  *)
(* finished timeline, if one operation, the window and the occupant agree; *)
(* otherwise the window stays as a break, and questions about its days go  *)
(* unanswered (tools/timeline_integrity.py, tools/provision_state.py).     *)
(*                                                                         *)
(* The operation list is not kept: the operation a window agrees with is   *)
(* drawn, and is one the compiler has taken or one it has left out.        *)
(***************************************************************************)
EXTENDS TimelineLaws, Functions

CONSTANTS
    MaxWindows,   \* bound: windows scheduled after one compilation
    WindowActs    \* bound: the acts whose windows are drawn

ASSUME WindowAssumption ==
    /\ MaxWindows \in Nat
    /\ WindowActs \subseteq Sources

VARIABLES
    windows,  \* history: the reported windows the scheduler has been through
    breaks    \* unresolved_breaks: the windows it has left as they were

windowVars == <<timelines, cache, snapshots, opDate, eventDate, taken, phase, ended,
                windows, breaks>>

\* Breaks name a section by its number alone.
Label(a) == a[Len(a)]

(***************************************************************************)
(* A window: an act's temporary text for a section from start to before    *)
(* end, reported because the last operation there before it is of another  *)
(* act or another day.                                                     *)
(***************************************************************************)
Window == [act : WindowActs, section : {Label(a) : a \in Addr},
           start : Dates, end : Dates, occupant : Sources, opens : Dates]

\* Before the occupant begins; on the same day; after a bounded occupant has
\* ended (its end is in no part of the break).
Reported(w) ==
    \/ w.start < w.opens /\ w.end <= w.opens
    \/ w.start = w.opens /\ w.start < w.end
    \/ w.opens < w.start /\ w.start < w.end

\* The only operation of that act, section and dates.  Its payload may be
\* text the compiler has written as well.
WindowOps(w) ==
    [target  : {a \in Addr : Label(a) = w.section},
     content : {Numbered(c) : c \in {p \in Payloads : ~ IsAbsent(p)}}
               \cup UNION {{v.content : v \in {u \in {timelines[a][i] : i \in DOMAIN timelines[a]} :
                                                 u.source = w.act /\ ~ IsAbsent(u.content)}} :
                              a \in Addr},
     scope   : TextScopes]

\* Variant: the end of the window is its last day.
WindowThroughEnd(w, op) ==
    [effective |-> w.start, enacted |-> Enacted[w.act], expires |-> w.end + 1,
     kind |-> "temporary", content |-> op.content, source |-> w.act,
     scope |-> op.scope]

\* What the window describes, as a version.
WindowVersion(w, op) ==
    [effective |-> w.start, enacted |-> Enacted[w.act], expires |-> w.end,
     kind |-> "temporary", content |-> op.content, source |-> w.act,
     scope |-> op.scope]

HasOccupant(w, vs) ==
    \E i \in DOMAIN vs : /\ vs[i].effective = w.opens
                         /\ vs[i].source = w.occupant
                         /\ ~ IsAbsent(vs[i].content)

\* Variant: any text of the act from that day on counts.
HasStart(w, op, vs) ==
    \E i \in DOMAIN vs : /\ vs[i].effective = w.start
                         /\ vs[i].source = w.act
                         /\ vs[i].content = op.content

HasInterval(w, op, vs) ==
    \E i \in DOMAIN vs : /\ vs[i].effective = w.start
                         /\ vs[i].expires = w.end
                         /\ vs[i].source = w.act
                         /\ vs[i].content = op.content

Proved(w, op) ==
    /\ Present(op.target)
    /\ HasOccupant(w, timelines[op.target])
    /\ w.start < w.end
    /\ w.end <= w.opens

(***************************************************************************)
(* The scheduler sorts the timeline by its own key: effective date, then   *)
(* expiry, then the act's id and the hash of the text.  Ids and hashes are *)
(* left open: any order of them.                                           *)
(***************************************************************************)
ExpiresBefore(v, w) == v.expires # NoDate /\ (w.expires = NoDate \/ v.expires < w.expires)

ScheduledBefore(v, w) ==
    \/ v.effective < w.effective
    \/ v.effective = w.effective /\ ExpiresBefore(v, w)

Scheduled(vs) ==
    {ws \in {[k \in DOMAIN vs |-> vs[p[k]]] : p \in Bijection(DOMAIN vs, DOMAIN vs)} :
        \A j, k \in DOMAIN vs : j < k => ~ ScheduledBefore(ws[k], ws[j])}

-----------------------------------------------------------------------------
WindowInit ==
    /\ Init
    /\ windows = {}
    /\ breaks = {}

Compile ==
    /\ phase \in {"ops", "trailing"}
    /\ Next
    /\ UNCHANGED <<windows, breaks>>

\* The windows the scheduler may come to next.
Pending ==
    IF phase = "sorted" /\ Cardinality(windows) < MaxWindows
    THEN {w \in Window \ windows : Reported(w)}
    ELSE {}

Takes(w) ==
    /\ windows' = windows \cup {w}
    /\ UNCHANGED <<cache, snapshots, opDate, eventDate, taken, phase, ended>>

\* The window is spliced into the timeline.
Splice(w, op) ==
    /\ Takes(w)
    /\ Proved(w, op)
    /\ ~ HasInterval(w, op, timelines[op.target])
    /\ \E ws \in Scheduled(Append(timelines[op.target], WindowVersion(w, op))) :
          timelines' = [timelines EXCEPT ![op.target] = ws]
    /\ UNCHANGED breaks

\* The compiler has written it already: the break is dropped.
Found(w, op) ==
    /\ Takes(w)
    /\ Proved(w, op)
    /\ HasInterval(w, op, timelines[op.target])
    /\ UNCHANGED <<timelines, breaks>>

\* The break stays: there is no such operation or more than one, which the
\* state does not tell, or the rest does not agree.
KeepBreak(w) ==
    /\ Takes(w)
    /\ breaks' = breaks \cup {w}
    /\ UNCHANGED timelines

WindowNext ==
    \/ Compile
    \/ \E w \in Pending : \E op \in WindowOps(w) : Splice(w, op)
    \/ \E w \in Pending : \E op \in WindowOps(w) : Found(w, op)
    \/ \E w \in Pending : KeepBreak(w)

WindowSpec == WindowInit /\ [][WindowNext]_windowVars

-----------------------------------------------------------------------------
\* Reading: a break withholds the answer on the days of its window.
Governs(w, date) == w.start <= date /\ date < w.end

Withheld(a, date) == \E w \in breaks : w.section = Label(a) /\ Governs(w, date)

=============================================================================
