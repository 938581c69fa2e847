-------------------------- MODULE MCLeaseApproval --------------------------
(***************************************************************************)
(* Small instance of LeaseApproval: a request, a retry of it with the same *)
(* key, another reviewer's request, and two rent computations.             *)
(***************************************************************************)
EXTENDS LeaseApproval, TLC

CONSTANTS key1, key2, first, retry, other, c1, c2, rr, mine, theirs

MCKey     == {key1, key2}
MCRequest == {first, retry, other}
MCCompute == {c1, c2}
MCRerun   == {rr}
MCReview  == {mine, theirs}

MCKeyOf    == [r \in MCRequest |-> IF r = other THEN key2 ELSE key1]
MCReviewOf == [k \in MCKey |-> IF k = key1 THEN mine ELSE theirs]

Symmetry == Permutations(MCCompute) \cup Permutations({first, retry})

\* Bound: two requests overlap after their commit while they publish, and
\* beyond that there is one.  What two of them could do to each other there is
\* in the two calls of compute-lease.
Following  == {r \in MCRequest : request[r].pc \notin {"idle", "approve", "ended"}}
Publishing == {r \in Following : request[r].pc \in {"backfill", "count", "find", "save"}}

\* Bound: review-approve runs before the first version only, and while nobody
\* computes rent.  It shares no state with the others but the field reviews,
\* which only it reads.
Computing == {c \in MCCompute : compute[c].pc \notin {"idle", "ended", "halfway"}}

\* Bound: once there is a version, the lease is approved or superseded.  What
\* drafts, rejections and send-backs do happens before the first version, too,
\* and their steps from an approved lease are still checked.
Bounds ==
    /\ \/ Cardinality(Following) <= 1
       \/ Cardinality(Following) = 2 /\ Following = Publishing
    /\ rerun[rr].pc # "idle" => Computing = {} /\ versions = <<>>
    /\ versions # <<>> => \/ lease.status = "approved"
                          \/ lease.abstract = "superseded"

=============================================================================
