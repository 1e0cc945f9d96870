------------------------------ MODULE WindowLaws ------------------------------
(***************************************************************************)
(* What the window scheduler promises of the timelines it is handed.       *)
(***************************************************************************)
EXTENDS WindowScheduler

WindowTypeOK ==
    /\ TypeOK
    /\ windows \subseteq Window
    /\ breaks \subseteq windows

(***************************************************************************)
(* A window is a localized claim: on days outside it, and of other         *)
(* sections, the law stays what the compiler made it.  The scheduler's own *)
(* sort key may reorder versions of the same dates; timelines that have    *)
(* such are excepted.                                                      *)
(***************************************************************************)
NoTies(vs) == \A i, j \in DOMAIN vs : i # j => ~ SameRank(vs[i], vs[j])

Localized ==
    \A w \in windows' \ windows, a \in Addr, d \in QueryDates, t \in Territories \cup {None} :
        /\ NoTies(timelines[a])
        /\ w.section # Label(a) \/ ~ Governs(w, d)
        => LawAt(timelines'[a], GoverningIn(d, t)) = LawAt(timelines[a], GoverningIn(d, t))

WindowsAreLocal == [][Localized]_windowVars

(***************************************************************************)
(* No day of a reported window is answered by the law from before it: the  *)
(* answer is withheld, or is text that began with the window or during it, *)
(* wherever the window's text applies.                                     *)
(***************************************************************************)
TextOf(w, v) == v.source = w.act /\ v.effective = w.start /\ v.expires = w.end

WindowsAreAnswered ==
    \A w \in windows, d \in QueryDates, t \in Territories :
        Governs(w, d) =>
            \E a \in Addr :
                /\ w.section = Label(a)
                /\ \/ Withheld(a, d)
                   \/ LawAt(timelines[a], GoverningIn(d, t)).effective >= w.start
                   \/ \E i \in DOMAIN timelines[a] :
                         /\ TextOf(w, timelines[a][i])
                         /\ ~ Applies(timelines[a][i], GoverningIn(d, t))

=============================================================================
