------------------------------ MODULE MCCamRun ------------------------------
(***************************************************************************)
(* Small instance of CamRun: a run of the standard series and a preview,   *)
(* two requests.                                                           *)
(***************************************************************************)
EXTENDS CamRun, TLC

CONSTANTS r1, r2, c1, c2

MCRun  == {r1, r2}
MCCall == {c1, c2}

Symmetry == Permutations(MCRun) \cup Permutations(MCCall)

\* Bound: one run at a time that is not posted yet, one exchange of posted runs.
OneOpen ==
    /\ Cardinality({r \in Run : Exists(r) /\ run[r].status \notin Final}) <= 1
    /\ Cardinality(swaps) <= 1

=============================================================================
