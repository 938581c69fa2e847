---------------------------- MODULE MCReminders ----------------------------
(***************************************************************************)
(* A small instance of Reminders: two recipients with email and no phone,   *)
(* and the reminders of the day before and (never due to be sent) the day   *)
(* after; three runs on two days.                                            *)
(***************************************************************************)
EXTENDS Reminders, TLC

CONSTANTS expiry, owner, manager, r1, r2

MCObligation == {expiry}
MCDue        == (expiry :> 1)
MCRecipient  == {owner, manager}
MCReachable  == MCRecipient \X {"email"}
MCRun        == {r1, r2}
MCMilestone  == {1, -1}

Symmetry == Permutations(MCRun) \cup Permutations(MCRecipient)

=============================================================================
