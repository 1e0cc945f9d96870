-------------------------------- MODULE MCIndex --------------------------------
(***************************************************************************)
(* Values of the constants of AmendmentIndex for model checking.           *)
(***************************************************************************)
EXTENDS IndexLaws, TLC

\* A first run, an old format, a CSV from before there were sidecars, a cache.
AnyStart ==
    {[source |-> 0, csv |-> Missing, meta |-> Missing],
     [source |-> 0, csv |-> OldSchema, meta |-> Missing],
     [source |-> 1, csv |-> 0, meta |-> Missing],
     [source |-> 0, csv |-> 0, meta |-> 0]}

=============================================================================
