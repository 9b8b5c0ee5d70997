------------------------- MODULE MCReminderDelivery -------------------------
(* Small instances of ReminderDelivery for TLC, with the inductive         *)
(* invariant of its proofs.                                                *)
EXTENDS ReminderDeliveryProofs, TLC

Delays == {-1, 1}
DueNow == {0}

(* Workers run the same program, and rows on one channel are alike.        *)
WorkerSymmetry == Permutations(Worker)
EmailSymmetry == Permutations(Reminder \ Slack)
Symmetry == WorkerSymmetry \cup EmailSymmetry
=============================================================================
