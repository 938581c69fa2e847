--------------------------- MODULE MCEnrichChain ---------------------------
(***************************************************************************)
(* Small instances of EnrichChain: the shortest chain with a sub-stage, the *)
(* reducer that reads it and the final stage that reads the reducer.        *)
(***************************************************************************)
EXTENDS EnrichChain, TLC

CONSTANTS extract, sub, reducer, assembly, w1, w2, h1, h2

MCStage    == {extract, sub, reducer, assembly}
MCSubstage == {sub}
MCChain    == <<sub, reducer, assembly>>
MCNeeds    == (sub :> {}) @@ (reducer :> {sub}) @@ (assembly :> {reducer})
MCWorkers  == {w1, w2}
MCHandlers == {h1, h2}
MCWorker1  == {w1}
MCHandler1 == {h1}

Symmetry == Permutations(MCWorkers) \cup Permutations(MCHandlers)

\* Bound: no duplicate dispatches (the run MCEnrichChain has them).
NoDuplicates == \A i, k \in Invocation : worker[i].pc # "idle" /\ worker[i].job = worker[k].job => i = k

\* Bounds on cancels (MCEnrichChain_generations): only of the first generation,
\* while at most one worker is busy, and no new generation afterwards.
Cancelled(g) == \E s \in Stage : row[<<g, s>>].cancel \/ row[<<g, s>>].status = "cancelled"

CancelAlone ==
    /\ activeGen = 2 => ~Cancelled(2)
    /\ activeGen = 1 /\ Cancelled(1) =>
         \A i, k \in Invocation : worker[i].pc # "idle" /\ worker[k].pc # "idle" => i = k

CancelLast == activeGen = 1 /\ Cancelled(1) => activeGen' = 1

=============================================================================
