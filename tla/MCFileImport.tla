---------------------------- MODULE MCFileImport ----------------------------
(* Small instances of FileImport. *)
EXTENDS FileImport, TLC

CONSTANTS c1, c2

MCCall == {c1, c2}

\* Only for expenses is there a key in the database.
MCDoc ==
    { [kind |-> "sheet",  expenses |-> TRUE],
      [kind |-> "plain",  expenses |-> FALSE],
      [kind |-> "review", expenses |-> TRUE] }

Symmetry == Permutations(MCCall)

=============================================================================
