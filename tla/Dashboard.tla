------------------------------ MODULE Dashboard ------------------------------
(***************************************************************************)
(* What the dashboard shows a user of one series that was not imported, at *)
(* a time now (services/dashboard_service.py, db/repos/dashboard.py), as   *)
(* operators on the state of MeetingRollForward.                           *)
(*                                                                         *)
(* Bound: a user has fewer meetings (20), open tasks (200) and urgent      *)
(* tasks (8) than the lists are cut to, so they are sets here.             *)
(***************************************************************************)
EXTENDS MeetingRollForward

CONSTANT Soon  \* a task due this much later is urgent

ASSUME SoonAssumption == Soon \in Nat

(* visible_occurrence_for_user_predicate                                   *)
Visible(u, o) == status[o] # "absent" /\ (u = Owner \/ <<o, u>> \in link)

(* list_upcoming_meetings: completed ones are listed too.                  *)
Upcoming(u, now) == {o \in Occurrence : Visible(u, o) /\ at[o] >= now}

(* list_outstanding_tasks                                                  *)
Outstanding(u) == {t \in Task \ done : on[t] # None /\ Visible(u, on[t])}

(* get_dashboard_view: overdue, or due soon.                               *)
Urgent(u, now) == {t \in Outstanding(u) : who[t] = u /\ due[t] <= now + Soon}

(* DashboardMeetingItem                                                    *)
MeetingItem(u, o, now) ==
    LET open == {t \in Outstanding(u) : on[t] = o} IN
    [participants |-> 1 + Cardinality({v \in User \cup {Owner} : <<o, v>> \in link}),
     open |-> open,
     urgent |-> \E t \in open : due[t] <= now + Soon]

(* A meeting that a completion may have made.                              *)
MayBeRolled(o) == \E m \in Occurrence : status[m] = "completed" /\ at[m] < at[o]

(* The dashboard a user opens shows each task assigned to that user that   *)
(* is overdue or due soon, among the urgent ones and on its meeting if     *)
(* that is still to come: a task is only hidden from its assignee once it  *)
(* was rolled forward, to a meeting nobody is invited to yet.              *)
UrgentWorkIsSeen ==
    \A t \in Task \ done :
        on[t] # None =>
            \/ MayBeRolled(on[t])
            \/ \A now \in {at[o] : o \in Occurrence} :
                 due[t] <= now + Soon =>
                     /\ t \in Urgent(who[t], now)
                     /\ at[on[t]] >= now =>
                          /\ on[t] \in Upcoming(who[t], now)
                          /\ t \in MeetingItem(who[t], on[t], now).open
                          /\ MeetingItem(who[t], on[t], now).urgent
=============================================================================
