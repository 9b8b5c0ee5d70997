------------------------- MODULE MeetingRollForward -------------------------
(***************************************************************************)
(* One meeting series: its occurrences, their tasks, agenda items and      *)
(* attendees, and the requests that change them                            *)
(* (web/routes/occurrences/router.py, access.py,                           *)
(* services/occurrence_service.py, series_service.py, db/repos).           *)
(*                                                                         *)
(* A request reads and checks, awaits, and writes later, in a transaction  *)
(* of its own at READ COMMITTED, so requests interleave.  What a request   *)
(* has read stays in its session's objects.  Completing an occurrence      *)
(* moves its unfinished tasks and items to the next one by two bulk        *)
(* UPDATEs, which lock the rows they match, one by one, until the commit   *)
(* that makes the whole completion visible.  Row locks are PostgreSQL's.   *)
(* The reminders of meetings are rows of ReminderDelivery.                 *)
(*                                                                         *)
(* Reads of facts that never change back once true (an occurrence exists,  *)
(* a user is linked to it) are part of the step that uses them.            *)
(***************************************************************************)
EXTENDS Integers, FiniteSets

CONSTANTS
    Occurrence,  \* rows of meeting_occurrence
    Task,        \* rows of task
    Item,        \* rows of agenda_item
    User,        \* who is invited and assigned tasks in the model
    Owner,       \* owner of the series
    Session,     \* requests served at the same time
    Rule,        \* times the series' RRULE yields
    Endings,     \* whether the RRULE may stop after them (COUNT, UNTIL)
    ByHand,      \* times at which the owner adds occurrences
    DueInput,    \* due dates typed into the task form
    None

Work == Task \cup Item

ASSUME MeetingAssumption ==
    /\ Rule \subseteq Nat
    /\ ByHand \subseteq Nat
    /\ DueInput \subseteq Nat
    /\ Endings \subseteq BOOLEAN
    /\ Task \cap Item = {}
    /\ None \notin Occurrence \cup Work \cup User

VARIABLES
    ends,      \* whether the series' rule stops after the times in Rule
    status,    \* absent, open or completed, for each occurrence
    at,        \* scheduled_at
    link,      \* attendee links <<occurrence, user>>
    on,        \* occurrence_id of each task and item, None before it exists
    done,      \* tasks and items with is_done set
    due,       \* due_at of each task
    who,       \* assigned_user_id of each task
    pc,        \* where the request of each session is
    form,      \* what it has read and been given
    next,      \* the occurrence a completion rolls into
    scan,      \* rows its UPDATE found when it started and has yet to lock
    moved,     \* rows its UPDATEs have moved and lock
    overlap    \* history: whether two requests have overlapped

meetings == <<ends, status, at, link>>
works == <<on, done, due, who>>
rolls == <<next, scan, moved>>
vars == <<ends, status, at, link, on, done, due, who,
          pc, form, next, scan, moved, overlap>>

-----------------------------------------------------------------------------
NoForm == [on |-> None, work |-> None, who |-> None, due |-> 0, to |-> {}]

(* Mutant of Unfinished: the bulk UPDATE does not look at is_done.         *)
Everything(o, rows) == {x \in rows : on[x] = o}

Unfinished(o, rows) == {x \in rows \ done : on[x] = o}

(* Mutant of IsNextOpen: an earlier open occurrence is accepted.           *)
IsAnyOpen(o, n) == status[n] = "open" /\ n # o

(* get_next_for_series: the earliest later occurrence not completed; of    *)
(* several at one time, any.                                               *)
IsNextOpen(o, n) ==
    /\ status[n] = "open"
    /\ at[n] > at[o]
    /\ \A m \in Occurrence : status[m] = "open" /\ at[m] > at[o] => at[n] <= at[m]

HasNextOpen(o) == \E n \in Occurrence : status[n] = "open" /\ at[n] > at[o]

(* get_default_task_due_at                                                 *)
DefaultDue(o, d) ==
    \/ \E n \in Occurrence : IsNextOpen(o, n) /\ d = at[n]
    \/ ~HasNextOpen(o) /\ d = at[o]

(* _compute_next_occurrence_utc: the first time of the rule after t.       *)
NextInRule(t, k) == k \in Rule /\ k > t /\ \A j \in Rule : j > t => k <= j

RuleHasNext(t) == \E k \in Rule : k > t

(* Mutant of Taken: only open occurrences are found.                       *)
TakenByOpen(k) == \E m \in Occurrence : status[m] = "open" /\ at[m] = k

(* get_for_series_scheduled_at finds an occurrence, completed or not.      *)
Taken(k) == \E m \in Occurrence : status[m] # "absent" /\ at[m] = k

(* A fresh id: neither committed nor inserted by a running request.        *)
Unused(n) == status[n] = "absent" /\ \A s \in Session : next[s] # n

(* Mutant of MayBeAssigned: any user the form names.                       *)
MayBeAnybody(o, u) == TRUE

(* validate_task_assignee; visible_occurrence_for_user_predicate is the    *)
(* same condition.                                                         *)
MayBeAssigned(o, u) == u = Owner \/ <<o, u>> \in link

Quiet == \A s \in Session : pc[s] = "idle"

(* No other session's uncommitted UPDATE locks row x.                      *)
Unlocked(s, x) == \A v \in Session \ {s} : x \notin moved[v]

-----------------------------------------------------------------------------
Init ==
    /\ ends = FALSE
    /\ status = [o \in Occurrence |-> "absent"]
    /\ at = [o \in Occurrence |-> 0]
    /\ link = {}
    /\ on = [x \in Work |-> None]
    /\ done = {}
    /\ due = [t \in Task |-> 0]
    /\ who = [t \in Task |-> None]
    /\ pc = [s \in Session |-> "idle"]
    /\ form = [s \in Session |-> NoForm]
    /\ next = [s \in Session |-> None]
    /\ scan = [s \in Session |-> {}]
    /\ moved = [s \in Session |-> {}]
    /\ overlap = FALSE

(* create_series_for_owner: occurrences at the first times of the rule,    *)
(* each with links for the owner and the invited.                          *)
CreateSeries ==
    /\ \A o \in Occurrence : status[o] = "absent"
    /\ \E new \in SUBSET Occurrence \ {{}}, invited \in SUBSET User :
         /\ at' \in [Occurrence -> Rule \cup {0}]
         /\ \A o \in Occurrence \ new : at'[o] = 0
         /\ \A o \in new : \A k \in Rule : k < at'[o] => \E m \in new : at'[m] = k
         /\ \A o, m \in new : at'[o] = at'[m] => o = m
         /\ \A o \in new : at'[o] \in Rule
         /\ status' = [o \in Occurrence |-> IF o \in new THEN "open" ELSE "absent"]
         /\ link' = new \X (invited \cup {Owner})
    /\ ends' \in Endings
    /\ UNCHANGED <<works, pc, form, rolls, overlap>>

(* create_occurrence_for_owner: nothing asks whether the time is taken,    *)
(* and nobody is linked.                                                   *)
AddByHand(o) ==
    /\ \E m \in Occurrence : status[m] # "absent"
    /\ Unused(o)
    /\ \E k \in ByHand : at' = [at EXCEPT ![o] = k]
    /\ status' = [status EXCEPT ![o] = "open"]
    /\ overlap' = (overlap \/ ~Quiet)
    /\ UNCHANGED <<ends, link, works, pc, form, rolls>>

-----------------------------------------------------------------------------
(* A request starts at step first with what it has been given.             *)
Enter(s, first, f) ==
    /\ pc[s] = "idle"
    /\ pc' = [pc EXCEPT ![s] = first]
    /\ form' = [form EXCEPT ![s] = f]
    /\ overlap' = (overlap \/ ~Quiet)
    /\ UNCHANGED <<meetings, works, rolls>>

(* Mutant of Begin: the handler forgets ensure_occurrence_writable.        *)
BeginUnchecked(s, o, first, f) == status[o] # "absent" /\ Enter(s, first, f)

(* Every request about an occurrence starts by reading it, and the row it  *)
(* is about, and ensure_occurrence_writable refuses a completed one.       *)
Begin(s, o, first, f) == status[o] = "open" /\ Enter(s, first, f)

BeginTask(s, o) == Begin(s, o, "task", [NoForm EXCEPT !.on = o])

BeginItem(s, o) == Begin(s, o, "insert_item", [NoForm EXCEPT !.on = o])

BeginInvite(s, o, u) ==
    Begin(s, o, "invite", [NoForm EXCEPT !.on = o, !.who = u])

(* add_series_attendee: all occurrences of the series, completed or not.   *)
BeginInviteAll(s, u) ==
    LET all == {o \in Occurrence : status[o] # "absent"} IN
    /\ all # {}
    /\ Enter(s, "find_links", [NoForm EXCEPT !.who = u, !.to = all])

BeginComplete(s, o) ==
    /\ ends \/ RuleHasNext(at[o])  \* bound: the horizon of an endless rule
    /\ Begin(s, o, "find_next", [NoForm EXCEPT !.on = o])

(* The handlers of an existing row: is_done as loaded decides what they    *)
(* will write.                                                             *)
BeginToggle(s, x) ==
    /\ on[x] # None
    /\ Begin(s, on[x], IF x \in done THEN "reopen" ELSE "finish",
             [NoForm EXCEPT !.on = on[x], !.work = x])

BeginConvert(s, i) ==
    /\ on[i] # None
    /\ Begin(s, on[i], IF i \in done THEN "convert_done" ELSE "convert",
             [NoForm EXCEPT !.on = on[i], !.work = i])

EndRequest(s) ==
    /\ pc' = [pc EXCEPT ![s] = "idle"]
    /\ form' = [form EXCEPT ![s] = NoForm]
    /\ next' = [next EXCEPT ![s] = None]
    /\ scan' = [scan EXCEPT ![s] = {}]
    /\ moved' = [moved EXCEPT ![s] = {}]
    /\ UNCHANGED overlap

(* The handler fails, or its client or process goes: the transaction is    *)
(* rolled back.                                                            *)
Abort(s) ==
    /\ pc[s] # "idle"
    /\ EndRequest(s)
    /\ UNCHANGED <<meetings, works>>

-----------------------------------------------------------------------------
(* The due date is found, and the assignee is checked.                     *)
Prepare(s, first, then, dates) ==
    /\ pc[s] = first
    /\ \E u \in User, d \in dates :
         /\ MayBeAssigned(form[s].on, u)
         /\ form' = [form EXCEPT ![s] = [@ EXCEPT !.who = u, !.due = d]]
    /\ pc' = [pc EXCEPT ![s] = then]
    /\ UNCHANGED <<meetings, works, rolls, overlap>>

Defaults(s) == {d \in {at[o] : o \in Occurrence} : DefaultDue(form[s].on, d)}

PrepareTask(s) == Prepare(s, "task", "insert_task", DueInput \cup Defaults(s))

PrepareConvert(s) ==
    \/ Prepare(s, "convert", "insert_and_finish", Defaults(s))
    \/ Prepare(s, "convert_done", "insert_task", Defaults(s))

(* Mutant of NewTask: the due date is shifted, as by a wrong timezone.     *)
NewTaskShifted(s, t) ==
    /\ on[t] = None
    /\ on' = [on EXCEPT ![t] = form[s].on]
    /\ due' = [due EXCEPT ![t] = form[s].due - 2]
    /\ who' = [who EXCEPT ![t] = form[s].who]

NewTask(s, t) ==
    /\ on[t] = None
    /\ on' = [on EXCEPT ![t] = form[s].on]
    /\ due' = [due EXCEPT ![t] = form[s].due]
    /\ who' = [who EXCEPT ![t] = form[s].who]

(* create_task_for_occurrence, and convert_agenda_item_to_task when the    *)
(* item was loaded as done: is_done = True is then no change to flush.     *)
InsertTask(s, t) ==
    /\ pc[s] = "insert_task"
    /\ NewTask(s, t)
    /\ EndRequest(s)
    /\ UNCHANGED <<meetings, done>>

(* convert_agenda_item_to_task: one commit for the task and the item.      *)
InsertAndFinish(s, t) ==
    /\ pc[s] = "insert_and_finish"
    /\ Unlocked(s, form[s].work)
    /\ NewTask(s, t)
    /\ done' = done \cup {form[s].work}
    /\ EndRequest(s)
    /\ UNCHANGED meetings

(* add_agenda_item_for_occurrence                                          *)
InsertItem(s, i) ==
    /\ pc[s] = "insert_item"
    /\ on[i] = None
    /\ on' = [on EXCEPT ![i] = form[s].on]
    /\ EndRequest(s)
    /\ UNCHANGED <<meetings, done, due, who>>

(* toggle_task_done, toggle_agenda_item_done: the UPDATE waits for the     *)
(* row's lock, finds the row by its id wherever it is by then, and writes  *)
(* the opposite of what was loaded.                                        *)
Toggle(s) ==
    /\ pc[s] \in {"finish", "reopen"}
    /\ Unlocked(s, form[s].work)
    /\ done' = IF pc[s] = "finish" THEN done \cup {form[s].work}
                                   ELSE done \ {form[s].work}
    /\ EndRequest(s)
    /\ UNCHANGED <<meetings, on, due, who>>

(* add_attendee_by_email: nothing is done for a user already linked; the   *)
(* unique constraint refuses a link added since.                           *)
LookForLink(s) ==
    /\ pc[s] = "invite"
    /\ <<form[s].on, form[s].who>> \notin link
    /\ pc' = [pc EXCEPT ![s] = "insert_link"]
    /\ UNCHANGED <<meetings, works, form, rolls, overlap>>

FindLink(s) ==
    /\ pc[s] \in {"invite", "insert_link"}
    /\ <<form[s].on, form[s].who>> \in link
    /\ EndRequest(s)
    /\ UNCHANGED <<meetings, works>>

InsertLink(s) ==
    /\ pc[s] = "insert_link"
    /\ <<form[s].on, form[s].who>> \notin link
    /\ link' = link \cup {<<form[s].on, form[s].who>>}
    /\ EndRequest(s)
    /\ UNCHANGED <<ends, status, at, works>>

(* add_attendee_to_series_occurrences: links that are missing are added;   *)
(* one that was added meanwhile fails the request (Abort).                 *)
FindLinks(s) ==
    /\ pc[s] = "find_links"
    /\ form' = [form EXCEPT ![s].to = {o \in @ : <<o, form[s].who>> \notin link}]
    /\ pc' = [pc EXCEPT ![s] = "insert_links"]
    /\ UNCHANGED <<meetings, works, rolls, overlap>>

InsertLinks(s) ==
    LET new == form[s].to \X {form[s].who} IN
    /\ pc[s] = "insert_links"
    /\ new \cap link = {}
    /\ link' = link \cup new
    /\ EndRequest(s)
    /\ UNCHANGED <<ends, status, at, works>>

-----------------------------------------------------------------------------
(* complete_occurrence_and_roll_forward, statement by statement.           *)
RollTo(s, n, then) ==
    /\ next' = [next EXCEPT ![s] = n]
    /\ pc' = [pc EXCEPT ![s] = then]
    /\ UNCHANGED <<meetings, works, form, scan, moved, overlap>>

FindNext(s) ==
    /\ pc[s] = "find_next"
    /\ \/ \E n \in Occurrence : IsNextOpen(form[s].on, n) /\ RollTo(s, n, "move_tasks")
       \/ /\ ~HasNextOpen(form[s].on)
          /\ RollTo(s, None, IF RuleHasNext(at[form[s].on]) THEN "ensure_next"
                                                            ELSE "commit")

(* _ensure_next_occurrence_from_rrule: an occurrence at the rule's next    *)
(* time, completed or not, or a new one that only this session sees.       *)
EnsureNext(s) ==
    /\ pc[s] = "ensure_next"
    /\ \E k \in Rule, n \in Occurrence :
         /\ NextInRule(at[form[s].on], k)
         /\ IF Taken(k) THEN status[n] # "absent" /\ at[n] = k ELSE Unused(n)
         /\ RollTo(s, n, "move_tasks")

(* A bulk UPDATE starts with the rows it finds: it sees no row that comes  *)
(* to match after that.                                                    *)
ScanRows(s, rows, first, locking, then) ==
    /\ pc[s] = first
    /\ scan' = [scan EXCEPT ![s] = Unfinished(form[s].on, rows)]
    /\ pc' = [pc EXCEPT ![s] = IF scan'[s] = {} THEN then ELSE locking]
    /\ UNCHANGED <<meetings, works, form, next, moved, overlap>>

(* It locks them one by one, in any order, keeping the locks it has while  *)
(* it waits for another (two such may wait in a circle, which the database *)
(* ends by failing one: Abort), and moves a row that still matches when    *)
(* its lock is there.                                                      *)
MoveRow(s, x, locking, then) ==
    /\ pc[s] = locking
    /\ x \in scan[s]
    /\ Unlocked(s, x)
    /\ scan' = [scan EXCEPT ![s] = @ \ {x}]
    /\ moved' = [moved EXCEPT ![s] = @ \cup Unfinished(form[s].on, {x})]
    /\ pc' = [pc EXCEPT ![s] = IF scan'[s] = {} THEN then ELSE locking]
    /\ UNCHANGED <<meetings, works, form, next, overlap>>

(* reassign_open_tasks                                                     *)
ScanTasks(s) == ScanRows(s, Task, "move_tasks", "lock_tasks", "move_items")
MoveTask(s, t) == MoveRow(s, t, "lock_tasks", "move_items")

(* Mutant of ScanItems: agenda items are forgotten.                        *)
ScanNoItems(s) == ScanRows(s, {}, "move_items", "lock_items", "commit")

(* reassign_open_items                                                     *)
ScanItems(s) == ScanRows(s, Item, "move_items", "lock_items", "commit")
MoveItem(s, i) == MoveRow(s, i, "lock_items", "commit")

(* Mutant of DueOnceMoved: a moved task keeps its due date.                *)
DueKept(s, t, date) == due[t]

(* reassign_open_tasks makes a moved task due at its new occurrence.       *)
DueOnceMoved(s, t, date) == IF t \in moved[s] THEN date ELSE due[t]

(* is_completed is flushed last, and the commit makes it all visible.      *)
CommitRoll(s) ==
    LET o == form[s].on
        n == next[s]
        new == {n} \cap {m \in Occurrence : status[m] = "absent"}
    IN  /\ pc[s] = "commit"
        /\ at' = [m \in Occurrence |->
               IF m \in new THEN CHOOSE k \in Rule : NextInRule(at[o], k) ELSE at[m]]
        /\ status' = [m \in Occurrence |->
               IF m = o THEN "completed" ELSE IF m \in new THEN "open" ELSE status[m]]
        /\ on' = [x \in Work |-> IF x \in moved[s] THEN n ELSE on[x]]
        /\ due' = [t \in Task |-> DueOnceMoved(s, t, at'[n])]
        /\ EndRequest(s)
        /\ UNCHANGED <<ends, link, done, who>>

(* Bound: an insert finds no unused row left in the model, and fails.      *)
TableFull(s) ==
    /\ \/ pc[s] \in {"insert_task", "insert_and_finish"}
          /\ \A t \in Task : on[t] # None
       \/ pc[s] = "insert_item" /\ \A i \in Item : on[i] # None
       \/ /\ pc[s] = "ensure_next"
          /\ \A n \in Occurrence : ~Unused(n)
          /\ \A k \in Rule : NextInRule(at[form[s].on], k) => ~Taken(k)
    /\ EndRequest(s)
    /\ UNCHANGED <<meetings, works>>

-----------------------------------------------------------------------------
Start(s) ==
    \/ \E o \in Occurrence :
         \/ BeginTask(s, o)
         \/ BeginItem(s, o)
         \/ BeginComplete(s, o)
         \/ \E u \in User : BeginInvite(s, o, u)
    \/ \E x \in Work : BeginToggle(s, x)
    \/ \E i \in Item : BeginConvert(s, i)
    \/ \E u \in User : BeginInviteAll(s, u)

Continue(s) ==
    \/ PrepareTask(s)
    \/ PrepareConvert(s)
    \/ \E t \in Task : InsertTask(s, t) \/ InsertAndFinish(s, t)
    \/ \E i \in Item : InsertItem(s, i)
    \/ Toggle(s)
    \/ LookForLink(s)
    \/ FindLink(s)
    \/ InsertLink(s)
    \/ FindLinks(s)
    \/ InsertLinks(s)
    \/ FindNext(s)
    \/ EnsureNext(s)
    \/ ScanTasks(s)
    \/ ScanItems(s)
    \/ \E t \in Task : MoveTask(s, t)
    \/ \E i \in Item : MoveItem(s, i)
    \/ CommitRoll(s)
    \/ TableFull(s)

Next ==
    \/ CreateSeries
    \/ \E o \in Occurrence : AddByHand(o)
    \/ \E s \in Session : Start(s) \/ Continue(s) \/ Abort(s)

Spec == Init /\ [][Next]_vars

-----------------------------------------------------------------------------
Steps == {"idle", "task", "insert_task", "convert", "convert_done",
          "insert_and_finish", "insert_item", "finish", "reopen", "invite",
          "insert_link", "find_links", "insert_links", "find_next", "ensure_next",
          "move_tasks", "lock_tasks", "move_items", "lock_items", "commit"}

TypeOK ==
    /\ ends \in BOOLEAN
    /\ status \in [Occurrence -> {"absent", "open", "completed"}]
    /\ at \in [Occurrence -> Nat]
    /\ link \subseteq Occurrence \X (User \cup {Owner})
    /\ on \in [Work -> Occurrence \cup {None}]
    /\ done \subseteq Work
    /\ due \in [Task -> Nat]
    /\ who \in [Task -> User \cup {None}]
    /\ pc \in [Session -> Steps]
    /\ form \in [Session -> [on : Occurrence \cup {None}, work : Work \cup {None},
                             who : User \cup {None}, due : Nat,
                             to : SUBSET Occurrence]]
    /\ next \in [Session -> Occurrence \cup {None}]
    /\ scan \in [Session -> SUBSET Work]
    /\ moved \in [Session -> SUBSET Work]
    /\ overlap \in BOOLEAN

(* However completions overlap, with each other and with stale requests,   *)
(* work that changes its occurrence goes to a later one: none is lost and  *)
(* none is sent back.                                                      *)
WorkMovesForward ==
    [][\A x \in Work :
          on[x] # None /\ on'[x] # on[x] =>
              on'[x] # None /\ at'[on'[x]] > at[on[x]]]_vars

(* What is finished stays, as the record of the meeting it was done in:    *)
(* a completion never takes along a task or item that was ticked off while *)
(* it ran.                                                                 *)
FinishedWorkStays ==
    [][\A x \in done : on'[x] = on[x]]_vars

(* A task whose due date nobody typed is never due before the meeting it   *)
(* is on, also when meetings were added, completed and rolled meanwhile.   *)
DueNotBeforeMeeting ==
    DueInput = {} => \A t \in Task : on[t] # None => due[t] >= at[on[t]]

(* "Complete meeting & roll unfinished items forward": while requests come *)
(* one at a time and the rule goes on, unfinished work is on an open       *)
(* meeting.                                                                *)
NothingLeftBehind ==
    ~ends /\ ~overlap =>
        \A x \in Work : on[x] # None /\ x \notin done => status[on[x]] = "open"

(* Tasks and items whose occurrence_id is o.                               *)
WorkOf(o) == {x \in Work : on[x] = o}

WorkKept(o) ==
    /\ WorkOf(o)' = WorkOf(o)
    /\ WorkOf(o) \cap done' = WorkOf(o) \cap done

(* "Meeting is completed, so tasks are read-only", "... agenda is          *)
(* read-only".                                                             *)
CompletedIsReadOnly ==
    [][\A o \in Occurrence : status[o] = "completed" => WorkKept(o)]_vars

(* The same, and "... attendees are read-only", while requests come one at *)
(* a time, of a series whose rule goes on, where completing a meeting      *)
(* always leaves a later open one, in whatever order they are completed.   *)
(* Only an invitation to the whole series links users to completed ones.   *)
ReadOnlyWhileRuleGoesOn ==
    [][\A o \in Occurrence :
          status[o] = "completed" /\ ~ends /\ ~overlap =>
              /\ WorkKept(o)
              /\ \A u \in User : <<o, u>> \in link' =>
                    \/ <<o, u>> \in link
                    \/ \E s \in Session : pc[s] = "insert_links" /\ form[s].who = u]_vars

(* A meeting made by rolling forward never doubles one the series has at   *)
(* that time, completed or not, while requests come one at a time.         *)
OneMeetingPerTime ==
    ~overlap =>
        \A o, m \in Occurrence :
            /\ status[o] # "absent"
            /\ status[m] # "absent"
            /\ at[o] = at[m]
            /\ at[o] \notin ByHand
            => o = m
=============================================================================
