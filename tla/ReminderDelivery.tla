-------------------------- MODULE ReminderDelivery --------------------------
(***************************************************************************)
(* Delivery of email reminders by overlapping workers                      *)
(* (services/reminder_delivery_service.py, reminder_claim_service.py,      *)
(* db/repos/reminders.py, cli/reminders.py).                               *)
(*                                                                         *)
(* A run reads the clock once (its "now"), loads the open reminders into   *)
(* its own session, and for each one that is due claims an attempt in a    *)
(* separate, committed transaction, sends the email, and changes the       *)
(* loaded object.  All the changed columns are written by one commit at    *)
(* the end of the run.  The compose worker and the scheduled job run this  *)
(* code at the same time, so runs overlap.                                 *)
(*                                                                         *)
(* Time is relative: row[r].due is how far next_attempt_at lies in the     *)
(* future (negative: in the past), age[w] how long ago run w read its now. *)
(* Hence "next_attempt_at <= now of w" is due <= -age[w], and times in the *)
(* objects of a session are counted from that session's now.               *)
(***************************************************************************)
EXTENDS Integers, FiniteSets

CONSTANTS
    Reminder,     \* rows of table reminder
    Slack,        \* those whose channel is not email
    Worker,       \* processes that deliver reminders
    Lease,        \* reminder_claim_lease_seconds
    Backoff,      \* reminder_retry_backoff_seconds
    MaxAttempts,  \* reminder_retry_max_attempts
    SendDelay,    \* values of send_at - now when a reminder is created
    RunLimit,     \* assumption: a run ends within this time of its start
    MaxFaults,    \* bound: aborted runs and lost SMTP answers
    MaxTries      \* bound: claims of one reminder

ASSUME ReminderAssumption ==
    /\ Slack \subseteq Reminder
    /\ Lease \in Nat \ {0}
    /\ Backoff \in Nat \ {0}
    /\ MaxAttempts \in Nat \ {0}
    /\ SendDelay \subseteq Int
    /\ RunLimit \in Nat \ {0}
    /\ MaxFaults \in Nat
    /\ MaxTries \in Nat

VARIABLES
    row,     \* the committed rows
    phase,   \* where each worker is
    age,     \* time since the run's now
    todo,    \* due reminders the run has not dealt with
    seen,    \* columns as the run's session loaded them
    mine,    \* the session's objects, with the run's assignments
    tries,   \* history: claims committed for a reminder
    emails,  \* history: emails the SMTP server accepted for a reminder
    faults   \* aborted runs and lost answers so far

vars == <<row, phase, age, todo, seen, mine, tries, emails, faults>>

-----------------------------------------------------------------------------
Open == {"pending", "retry_scheduled"}
Settled == {"sent", "failed_terminal", "skipped"}

Row == [status : Open \cup Settled \cup {"absent"}, sentAt : {"null", "set"},
        attempts : Nat, due : Int]
Blank == [status |-> "absent", sentAt |-> "null", attempts |-> 0, due |-> 0]
NoRows == [r \in Reminder |-> Blank]

(* Only comparisons with a run's now are ever made, so instants further in *)
(* the past than any run's start need not be told apart.                   *)
Past(d) == IF d < -RunLimit THEN -RunLimit ELSE d

(* Mutant of Deliverable: a reminder that waits for its retry is not       *)
(* listed again.                                                           *)
DeliverableOnce(x) == x.sentAt = "null" /\ x.status = "pending"

(* WHERE sent_at IS NULL AND delivery_status IN (pending, retry_scheduled) *)
Deliverable(x) == x.sentAt = "null" /\ x.status \in Open

(* Mutant of Claimable: the UPDATE does not compare attempt_count.         *)
ClaimableAnyCount(w, r) == Deliverable(row[r]) /\ row[r].due <= -age[w]

(* The WHERE clause of try_claim_attempt for the attempt count the run     *)
(* loaded, evaluated on the row as it is now.                              *)
Claimable(w, r) ==
    /\ Deliverable(row[r])
    /\ row[r].attempts = mine[w][r].attempts
    /\ row[r].due <= -age[w]

(* Run w has claimed an attempt at r that its session has not written.     *)
Holds(w, r) == mine[w][r].attempts # seen[w][r].attempts

(* list_pending_for_delivery orders by next_attempt_at.                    *)
IsNext(w, r) ==
    /\ r \in todo[w]
    /\ \A q \in todo[w] : seen[w][r].due <= seen[w][q].due

BackoffAfter(n) == Backoff * 2^(n - 1)

-----------------------------------------------------------------------------
Init ==
    /\ row = NoRows
    /\ phase = [w \in Worker |-> "idle"]
    /\ age = [w \in Worker |-> 0]
    /\ todo = [w \in Worker |-> {}]
    /\ seen = [w \in Worker |-> NoRows]
    /\ mine = [w \in Worker |-> NoRows]
    /\ tries = [r \in Reminder |-> 0]
    /\ emails = [r \in Reminder |-> 0]
    /\ faults = 0

(* build_default_email_reminder: the first attempt is at send_at.          *)
NewReminder(d) ==
    [status |-> "pending", sentAt |-> "null", attempts |-> 0, due |-> Past(d)]

(* A series or an occurrence is created together with its reminder.        *)
Schedule(r) ==
    /\ row[r].status = "absent"
    /\ \E d \in SendDelay : row' = [row EXCEPT ![r] = NewReminder(d)]
    /\ UNCHANGED <<phase, age, todo, seen, mine, tries, emails, faults>>

(* run_due_reminders reads the clock.                                      *)
StartRun(w) ==
    /\ phase[w] = "idle"
    /\ phase' = [phase EXCEPT ![w] = "loading"]
    /\ UNCHANGED <<row, age, todo, seen, mine, tries, emails, faults>>

(* The SELECT, and the parts of the loop that touch only the loaded        *)
(* objects: reminders that are not due are passed over, due ones on        *)
(* another channel are marked skipped.                                     *)
Load(w) ==
    LET listed == {r \in Reminder : Deliverable(row[r])}
        isDue(r) == row[r].due <= -age[w]
    IN  /\ phase[w] = "loading"
        /\ phase' = [phase EXCEPT ![w] = "running"]
        /\ seen' = [seen EXCEPT ![w] =
               [r \in Reminder |->
                   IF r \in listed THEN [row[r] EXCEPT !.due = @ + age[w]]
                                   ELSE Blank]]
        /\ mine' = [mine EXCEPT ![w] =
               [r \in Reminder |->
                   IF r \in listed \cap Slack /\ isDue(r)
                   THEN [seen'[w][r] EXCEPT !.status = "skipped"]
                   ELSE seen'[w][r]]]
        /\ todo' = [todo EXCEPT ![w] = {r \in listed \ Slack : isDue(r)}]
        /\ UNCHANGED <<row, age, tries, emails, faults>>

(* Mutants of Attempted: the claim sets no lease; it counts down.          *)
AttemptedNoLease(x, d) == [x EXCEPT !.attempts = @ + 1]
AttemptedDown(x, d) == [x EXCEPT !.attempts = @ - 1, !.due = d]

Attempted(x, d) ==
    [status |-> x.status, sentAt |-> x.sentAt,
     attempts |-> x.attempts + 1, due |-> d]

(* claim_reminder_attempt: the conditional UPDATE is committed at once,    *)
(* and then the loaded object is changed in memory.                        *)
Claim(w, r) ==
    /\ phase[w] = "running"
    /\ IsNext(w, r)
    /\ Claimable(w, r)
    /\ tries[r] < MaxTries
    /\ row' = [row EXCEPT ![r] = Attempted(@, Lease - age[w])]
    /\ mine' = [mine EXCEPT ![w][r] = Attempted(@, @.due)]
    /\ phase' = [phase EXCEPT ![w] = "sending"]
    /\ tries' = [tries EXCEPT ![r] = @ + 1]
    /\ UNCHANGED <<age, todo, seen, emails, faults>>

(* The UPDATE matched no row: the reminder is left to whoever changed it.  *)
LoseClaim(w, r) ==
    /\ phase[w] = "running"
    /\ IsNext(w, r)
    /\ ~Claimable(w, r)
    /\ todo' = [todo EXCEPT ![w] = @ \ {r}]
    /\ UNCHANGED <<row, phase, age, seen, mine, tries, emails, faults>>

(* The end of one iteration of the loop, x being the object it leaves.     *)
FinishReminder(w, r, x) ==
    /\ phase[w] = "sending"
    /\ r \in todo[w]
    /\ Holds(w, r)
    /\ mine' = [mine EXCEPT ![w][r] = x]
    /\ todo' = [todo EXCEPT ![w] = @ \ {r}]
    /\ phase' = [phase EXCEPT ![w] = "running"]
    /\ UNCHANGED <<row, age, seen, tries>>

(* Mutant of AfterSuccess: sent_at is forgotten.                           *)
AfterSuccessUndated(x) == [x EXCEPT !.status = "sent", !.due = 0]

AfterSuccess(x) ==
    [status |-> "sent", sentAt |-> "set", attempts |-> x.attempts, due |-> 0]

(* Mutant of AfterFailure: one retry too many.                             *)
AfterFailureOffByOne(x, transient) ==
    IF transient /\ x.attempts <= MaxAttempts
    THEN [x EXCEPT !.status = "retry_scheduled", !.due = BackoffAfter(x.attempts)]
    ELSE [x EXCEPT !.status = "failed_terminal"]

AfterFailure(x, transient) ==
    IF transient /\ x.attempts < MaxAttempts
    THEN [status |-> "retry_scheduled", sentAt |-> x.sentAt,
          attempts |-> x.attempts, due |-> BackoffAfter(x.attempts)]
    ELSE [x EXCEPT !.status = "failed_terminal"]

SendOk(w, r) ==
    /\ FinishReminder(w, r, AfterSuccess(mine[w][r]))
    /\ emails' = [emails EXCEPT ![r] = @ + 1]
    /\ UNCHANGED faults

SendFails(w, r) ==
    /\ \E transient \in BOOLEAN :
          FinishReminder(w, r, AfterFailure(mine[w][r], transient))
    /\ UNCHANGED <<emails, faults>>

(* The server accepts the message but the sender sees an error afterwards: *)
(* a timeout or closed connection (transient to classify_smtp_error), or a *)
(* bad answer to QUIT.                                                     *)
SendAnswerLost(w, r) ==
    /\ faults < MaxFaults
    /\ faults' = faults + 1
    /\ \E transient \in BOOLEAN :
          FinishReminder(w, r, AfterFailure(mine[w][r], transient))
    /\ emails' = [emails EXCEPT ![r] = @ + 1]

(* Mutant of Flushed: every column of the object is written.               *)
FlushedWhole(w, r) ==
    IF mine[w][r] = Blank
    THEN row[r] ELSE [mine[w][r] EXCEPT !.due = Past(@ - age[w])]

(* What the flush of session w makes of row r: the columns whose value     *)
(* differs from the loaded one are written, whatever the row holds by now. *)
Flushed(w, r) ==
    LET old == seen[w][r]
        new == mine[w][r]
    IN  [status   |-> IF new.status # old.status
                      THEN new.status ELSE row[r].status,
         sentAt   |-> IF new.sentAt # old.sentAt
                      THEN new.sentAt ELSE row[r].sentAt,
         attempts |-> IF new.attempts # old.attempts
                      THEN new.attempts ELSE row[r].attempts,
         due      |-> IF new.due # old.due
                      THEN Past(new.due - age[w]) ELSE row[r].due]

CloseSession(w) ==
    /\ phase' = [phase EXCEPT ![w] = "idle"]
    /\ age' = [age EXCEPT ![w] = 0]
    /\ todo' = [todo EXCEPT ![w] = {}]
    /\ seen' = [seen EXCEPT ![w] = NoRows]
    /\ mine' = [mine EXCEPT ![w] = NoRows]

(* The one commit of the run.                                              *)
CommitRun(w) ==
    /\ phase[w] = "running"
    /\ todo[w] = {}
    /\ row' = [r \in Reminder |-> Flushed(w, r)]
    /\ CloseSession(w)
    /\ UNCHANGED <<tries, emails, faults>>

(* The process dies, or a database error other than a delivery error ends  *)
(* the run; the worker loop logs it and polls again.  What the session had *)
(* not committed is gone, the claims stay.                                 *)
AbortRun(w) ==
    /\ phase[w] # "idle"
    /\ faults < MaxFaults
    /\ faults' = faults + 1
    /\ CloseSession(w)
    /\ UNCHANGED <<row, tries, emails>>

(* Time passes at any moment of a run, held back only by RunLimit.         *)
Tick ==
    /\ \A w \in Worker : phase[w] = "idle" \/ age[w] < RunLimit
    /\ row' = [r \in Reminder |-> [row[r] EXCEPT !.due = Past(@ - 1)]]
    /\ age' = [w \in Worker |-> IF phase[w] = "idle" THEN 0 ELSE age[w] + 1]
    /\ UNCHANGED <<phase, todo, seen, mine, tries, emails, faults>>

Deliver(w, r) ==
    \/ Claim(w, r)
    \/ LoseClaim(w, r)
    \/ SendOk(w, r)
    \/ SendFails(w, r)
    \/ SendAnswerLost(w, r)

Next ==
    \/ Tick
    \/ \E r \in Reminder : Schedule(r)
    \/ \E w \in Worker :
          \/ StartRun(w)
          \/ Load(w)
          \/ \E r \in Reminder : Deliver(w, r)
          \/ CommitRun(w)
          \/ AbortRun(w)

Spec == Init /\ [][Next]_vars

(* A worker that is alive keeps polling and its calls return; nothing      *)
(* makes an abort or a new reminder happen.                                *)
Fairness ==
    /\ WF_vars(Tick)
    /\ \A w \in Worker :
          /\ WF_vars(StartRun(w))
          /\ WF_vars(Load(w))
          /\ WF_vars(\E r \in Reminder : Deliver(w, r))
          /\ WF_vars(CommitRun(w))

FairSpec == Spec /\ Fairness

-----------------------------------------------------------------------------
TypeOK ==
    /\ row \in [Reminder -> Row]
    /\ phase \in [Worker -> {"idle", "loading", "running", "sending"}]
    /\ age \in [Worker -> Nat]
    /\ todo \in [Worker -> SUBSET Reminder]
    /\ seen \in [Worker -> [Reminder -> Row]]
    /\ mine \in [Worker -> [Reminder -> Row]]
    /\ tries \in [Reminder -> Nat]
    /\ emails \in [Reminder -> Nat]
    /\ faults \in Nat

(* The lease outlives every run: what the invariants below rest on.        *)
LeaseOutlivesRun == RunLimit < Lease

(* Two runs never both hold a claim on one reminder: while one of them is  *)
(* sending or has an unwritten outcome, the lease keeps the other away.    *)
NoConcurrentClaims ==
    \A r \in Reminder : \A w, v \in Worker :
        Holds(w, r) /\ Holds(v, r) => w = v

(* attempt_count is the number of claims ever made: the commit at the end  *)
(* of a run, which writes the count the run remembers, never takes back a  *)
(* claim of another run.                                                   *)
AttemptCountExact ==
    \A r \in Reminder : row[r].attempts = tries[r]

(* A recipient gets one email, and one more for each crash or lost answer  *)
(* at most: runs that overlap never mail twice by themselves.              *)
DuplicatesNeedFaults ==
    \A r \in Reminder : emails[r] <= 1 + faults

(* Retries stop at reminder_retry_max_attempts, give or take the attempts  *)
(* whose outcome an aborted run lost.                                      *)
RetriesBounded ==
    \A r \in Reminder : tries[r] <= MaxAttempts + faults

(* sent_at and delivery_status, two columns written from one object but    *)
(* possibly merged with another run's columns, agree; and an email stands  *)
(* behind every reminder recorded as sent.                                 *)
SentRowsAreSent ==
    \A r \in Reminder :
        /\ row[r].sentAt = "set" <=> row[r].status = "sent"
        /\ row[r].sentAt = "set" => emails[r] > 0

(* However runs overlap and however long they take, no stale commit clears *)
(* a recorded sent_at, which is what keeps the reminder from going out     *)
(* again: neither the list nor the claim accepts a row with sent_at.       *)
SentAtStays ==
    [][\A r \in Reminder : row[r].sentAt = "set" => row'[r].sentAt = "set"]_vars

(* What the worker promises of a reminder's life, as the abstract          *)
(* specification states it: bounded attempts, a final outcome.             *)
Outcome(r) == IF row[r].status \in Open THEN "open" ELSE row[r].status

Lifecycle == INSTANCE ReminderLifecycle
                 WITH outcome <- [r \in Reminder |-> Outcome(r)],
                      AttemptBound <- MaxAttempts + MaxFaults
LifecycleSpec == Lifecycle!Spec

(* Every reminder ends up sent, failed for good or skipped, if workers     *)
(* keep polling.                                                           *)
EventuallySettled ==
    \A r \in Reminder :
        row[r].status \in Open ~> row[r].status \in Settled
=============================================================================
