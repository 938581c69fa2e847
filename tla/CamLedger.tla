------------------------------ MODULE CamLedger ------------------------------
(***************************************************************************)
(* What the ledger of CAM runs promises: results are calculated in the     *)
(* open, submitted when nothing blocks them, and then stand as they were   *)
(* submitted, up to the posting, unless a reviewer returns the run.        *)
(***************************************************************************)
CONSTANTS
    Run,       \* runs
    Result,    \* results of a calculation
    NoResult,  \* of a run that has not been calculated
    Sound(_)   \* whether a result may be submitted

VARIABLES phase, result

ledger == <<phase, result>>

Phase == {"absent", "open", "under_review", "submitted", "approved", "posted", "superseded"}

Init ==
    /\ phase = [r \in Run |-> "absent"]
    /\ result = [r \in Run |-> NoResult]

Moves(r, from, to) == phase[r] \in from /\ phase' = [phase EXCEPT ![r] = to]

Open(r)      == Moves(r, {"absent"}, "open") /\ UNCHANGED result

Calculate(r) ==
    /\ phase[r] = "open"
    /\ \E new \in Result : result' = [result EXCEPT ![r] = new]
    /\ UNCHANGED phase

Submit(r)    == Moves(r, {"open"}, "submitted") /\ Sound(result[r]) /\ UNCHANGED result
Return(r)    == Moves(r, {"under_review", "submitted"}, "open") /\ UNCHANGED result
Reject(r)    == Moves(r, {"submitted"}, "under_review") /\ UNCHANGED result
Approve(r)   == Moves(r, {"submitted"}, "approved") /\ UNCHANGED result
Post(r)      == Moves(r, {"approved"}, "posted") /\ UNCHANGED result
Supersede(r) == Moves(r, {"posted"}, "superseded") /\ UNCHANGED result

Next == \E r \in Run :
    \/ Open(r) \/ Calculate(r) \/ Submit(r) \/ Return(r)
    \/ Reject(r) \/ Approve(r) \/ Post(r) \/ Supersede(r)

Spec == Init /\ [][Next]_ledger

=============================================================================
