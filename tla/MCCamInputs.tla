----------------------------- MODULE MCCamInputs -----------------------------
(***************************************************************************)
(* Small instance of CamInputs: two open transactions, two keys, an        *)
(* expense that may change between two amounts, two pools.                 *)
(***************************************************************************)
EXTENDS CamInputs, TLC

CONSTANTS t1, t2, k1, k2, withDefault, without

MCCall       == {t1, t2}
MCKey        == {k1, k2}
MCPool       == {withDefault, without}
MCDefaulting == {withDefault}

Symmetry == Permutations(MCCall) \cup Permutations(MCKey)

\* Bound: the transactions that begin, over the whole behaviour.
CONSTANT MaxCalls
Bounds == clock <= MaxCalls

=============================================================================
