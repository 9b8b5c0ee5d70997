------------------------- MODULE ReminderLifecycle --------------------------
(***************************************************************************)
(* What reminder delivery promises of each reminder, whoever the workers   *)
(* are and however their runs interleave: it is attempted a bounded number *)
(* of times while it is open, it mails at most once per attempt, and it    *)
(* gets one outcome, which is final and which the attempts justify.        *)
(* ReminderDelivery implements this when the lease outlives every run.     *)
(***************************************************************************)
EXTENDS Integers

CONSTANTS Reminder, AttemptBound

VARIABLES
    outcome,  \* absent, open, or how the reminder ended
    tries,    \* attempts begun
    emails    \* emails sent

vars == <<outcome, tries, emails>>

Final == {"sent", "failed_terminal", "skipped"}

Init ==
    /\ outcome = [r \in Reminder |-> "absent"]
    /\ tries = [r \in Reminder |-> 0]
    /\ emails = [r \in Reminder |-> 0]

Schedule(r) ==
    /\ outcome[r] = "absent"
    /\ outcome' = [outcome EXCEPT ![r] = "open"]
    /\ UNCHANGED <<tries, emails>>

Attempt(r) ==
    /\ outcome[r] = "open"
    /\ tries[r] < AttemptBound
    /\ tries' = [tries EXCEPT ![r] = @ + 1]
    /\ UNCHANGED <<outcome, emails>>

Mail(r) ==
    /\ outcome[r] = "open"
    /\ emails[r] < tries[r]
    /\ emails' = [emails EXCEPT ![r] = @ + 1]
    /\ UNCHANGED <<outcome, tries>>

(* An outcome the history of r justifies.                                  *)
Justified(r, o) ==
    \/ o = "sent" /\ emails[r] > 0
    \/ o = "failed_terminal" /\ tries[r] > 0
    \/ o = "skipped" /\ tries[r] = 0

(* One commit settles several reminders at once; a settled one stays.      *)
Settle ==
    /\ outcome' \in [Reminder -> {"absent", "open"} \cup Final]
    /\ \A r \in Reminder :
          outcome'[r] # outcome[r] =>
              outcome[r] = "open" /\ Justified(r, outcome'[r])
    /\ UNCHANGED <<tries, emails>>

Next ==
    \/ Settle
    \/ \E r \in Reminder : Schedule(r) \/ Attempt(r) \/ Mail(r)

Spec == Init /\ [][Next]_vars
=============================================================================
