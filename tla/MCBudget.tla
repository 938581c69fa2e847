------------------------------ MODULE MCBudget ------------------------------
(***************************************************************************)
(* A small instance of Budget: requests of any kind, two planning sets.     *)
(***************************************************************************)
EXTENDS Budget, TLC

CONSTANTS r1, r2, p1, p2

MCRequest == {r1, r2}
MCPlan    == {p1, p2}

Symmetry == Permutations(MCRequest) \cup Permutations(MCPlan)

=============================================================================
