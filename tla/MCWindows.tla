------------------------------- MODULE MCWindows -------------------------------
(***************************************************************************)
(* Values of the constants of WindowScheduler for model checking: those of *)
(* the compiler.                                                           *)
(***************************************************************************)
EXTENDS MCTimelines, WindowLaws

=============================================================================
