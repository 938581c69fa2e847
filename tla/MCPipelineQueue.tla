-------------------------- MODULE MCPipelineQueue --------------------------
(***************************************************************************)
(* Small instance of PipelineQueue: two generations, one sub-stage and its *)
(* reducer, two worker invocations at the same time.                       *)
(***************************************************************************)
EXTENDS PipelineQueue, TLC

CONSTANTS extract, sub, reducer, w1, w2

MCStage    == {extract, sub, reducer}
MCSubstage == {sub}
MCWorkers  == {w1, w2}

WorkerSymmetry == Permutations(MCWorkers)

\* Bound: the second generation supersedes the first and is then left alone.
\* Its own life is the first generation's over again.
NewerGenerationOnlySupersedes ==
    \A s \in MCStage : row[<<2, s>>] \in {NoRow, IF s = extract THEN NewRow ELSE NoRow}

\* Bound: four claims in all, so that two of the three rows can exhaust their
\* budget of two attempts.
ClaimsBounded ==
    row[<<1, extract>>].attempt + row[<<1, sub>>].attempt + row[<<1, reducer>>].attempt <= 3

Bounds == NewerGenerationOnlySupersedes /\ ClaimsBounded

=============================================================================
