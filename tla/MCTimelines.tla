------------------------------ MODULE MCTimelines ------------------------------
(***************************************************************************)
(* Values of the constants of CompileTimelines for model checking.         *)
(***************************************************************************)
EXTENDS TimelineLaws, TLC

CONSTANTS ActA, ActB

MCSources == {ActA, ActB}

\* The act that sorts first by name was enacted last.
MCEnacted == (ActA :> 3) @@ (ActB :> 2)

\* Every day there is, and a day past the last one asked about.
AllExpiries == Dates \cup {LastDate + 1, NoDate}

\* Nothing runs out before the last day asked about.
FarExpiries == {LastDate + 1, NoDate}

\* Only events end anything.
NoExpiry == {NoDate}

\* What is written is numbered anew; the base texts have other numbers.
Text        == [state |-> "text", text |-> MaxItems + 1, paths |-> {}]
Detached    == [state |-> "detached", text |-> 0, paths |-> {}]

-----------------------------------------------------------------------------
\* One provision with a base text.
Section == <<"9">>

OneAddr  == {Section}
OneBase  == Section :> Text

TextPayload      == {Text}
PlainRepeal      == {NoContent}
EitherRepeal     == {NoContent, Detached}
Everywhere       == {{}}
AnyTerritory     == SUBSET Territories
OneScope         == {OneAddr}

-----------------------------------------------------------------------------
\* Two sections and a paragraph of the first.  The base section holds the
\* paragraph inside its own content, so the paragraph has no timeline until it
\* is written to or something is moved there.
Nine        == <<"9">>
FirstOfNine == <<"9", "1">>
Ten         == <<"10">>

Nesting == [state |-> "text", text |-> MaxItems + 1, paths |-> {<<"1">>}]
Barren  == [state |-> "text", text |-> MaxItems + 2, paths |-> {}]

TreeAddr     == {Nine, FirstOfNine, Ten}
TreeBase     == (Nine :> Nesting) @@ (Ten :> Barren)
TreePayload  == {Nesting}
TreeRelPaths == {<<"1">>}
TreeScopes   == {{Nine}, {Nine, FirstOfNine}}

=============================================================================
