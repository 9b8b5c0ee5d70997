------------------------ MODULE MCMeetingRollForward ------------------------
(* Small instances of MeetingRollForward and the dashboard on it for TLC.  *)
EXTENDS Dashboard, TLC

TwoTimes == {1, 2}
OddTimes == {1, 3}
SecondTime == {2}
NoTimes == {}

GoesOn == {FALSE}
Stops == {TRUE}
Either == BOOLEAN

(* Bound: requests overlap in series whose rule goes on only.              *)
OverlapsGoOn == ~(ends /\ overlap)

(* Bound: once every task of the model exists, meetings are completed and  *)
(* tasks toggled.                                                          *)
ManyTasksMove ==
    (\A t \in Task : on[t] # None) =>
        /\ ~ends
        /\ \A i \in Item : on[i] = None
        /\ \A s \in Session : pc[s] \in {"idle", "finish", "reopen", "find_next",
             "ensure_next", "move_tasks", "lock_tasks", "move_items", "commit"}

(* Bound: with an agenda item, requests that overlap are about users who   *)
(* are invited to one meeting at most.                                     *)
ItemsOrInvitations ==
    overlap /\ (\E i \in Item : on[i] # None) =>
        Cardinality({l \in link : l[2] # Owner}) <= 1

(* Rows of one table are alike, and so are requests and the users who do   *)
(* not own the series.                                                     *)
Symmetry ==
    Permutations(Occurrence) \cup Permutations(Task) \cup Permutations(Item)
        \cup Permutations(Session) \cup Permutations(User \ {Owner})
=============================================================================
