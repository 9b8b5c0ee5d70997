----------------------- MODULE ReminderDeliveryProofs -----------------------
(* Safety of reminder delivery when the lease outlives every run, for any  *)
(* number of reminders and workers and any settings.                       *)
EXTENDS ReminderDelivery, TLAPS

-----------------------------------------------------------------------------
(* The backoff is a delay, whatever attempt it follows.                    *)
LEMMA BackoffInt ==
    ASSUME NEW n \in Nat, n # 0
    PROVE  BackoffAfter(n) \in Int
BY ReminderAssumption DEF BackoffAfter

(* Each assignment to an object or a row gives a row.                      *)
LEMMA RowOps ==
    ASSUME NEW x \in Row
    PROVE  /\ AfterSuccess(x) \in Row
           /\ \A d \in Int : Attempted(x, d) \in Row
           /\ \A d \in Int : NewReminder(d) \in Row
           /\ \A d \in Int : [x EXCEPT !.due = d] \in Row
           /\ [x EXCEPT !.status = "skipped"] \in Row
           /\ x.attempts # 0 =>
                 \A transient \in BOOLEAN : AfterFailure(x, transient) \in Row
<1>1. AfterSuccess(x) \in Row
  BY DEF AfterSuccess, Row, Settled
<1>2. \A d \in Int : Attempted(x, d) \in Row
  BY DEF Attempted, Row
<1>3. \A d \in Int : NewReminder(d) \in Row
  BY ReminderAssumption DEF NewReminder, Row, Open, Past
<1>4. ASSUME x.attempts # 0, NEW transient \in BOOLEAN
      PROVE  AfterFailure(x, transient) \in Row
  <2>1. x.attempts \in Nat /\ BackoffAfter(x.attempts) \in Int
    BY <1>4, BackoffInt DEF Row
  <2>2. CASE transient /\ x.attempts < MaxAttempts
    BY <2>1, <2>2 DEF AfterFailure, Row, Open
  <2>3. CASE ~(transient /\ x.attempts < MaxAttempts)
    BY <2>3 DEF AfterFailure, Row, Settled
  <2>4. QED
    BY <2>2, <2>3
<1>5. \A d \in Int : [x EXCEPT !.due = d] \in Row
  BY DEF Row
<1>6. [x EXCEPT !.status = "skipped"] \in Row
  BY DEF Row, Settled
<1>7. QED
  BY <1>1, <1>2, <1>3, <1>4, <1>5, <1>6

LEMMA FlushedRow ==
    ASSUME TypeOK, NEW w \in Worker, NEW r \in Reminder
    PROVE  Flushed(w, r) \in Row
BY ReminderAssumption DEF TypeOK, Flushed, Past, Row

(* A session's object counts at most one attempt more than was loaded, and *)
(* of the reminders still to do only the one being sent is claimed.        *)
SessionInv(w) ==
    /\ \A r \in Reminder : Holds(w, r) =>
          mine[w][r].attempts = seen[w][r].attempts + 1
    /\ \A r, q \in todo[w] : Holds(w, r) /\ Holds(w, q) => r = q
    /\ phase[w] # "sending" => \A r \in todo[w] : ~Holds(w, r)

TypeInv == TypeOK /\ \A w \in Worker : SessionInv(w)

LEMMA TypeInit == Init => TypeInv
BY ReminderAssumption
   DEF Init, TypeInv, TypeOK, SessionInv, Holds, NoRows, Blank, Row, Open, Settled

(* Ending an iteration with a well-typed object that keeps the count.      *)
LEMMA FinishType ==
    ASSUME TypeInv, NEW w \in Worker, NEW r \in Reminder, NEW x \in Row,
           x.attempts = mine[w][r].attempts,
           FinishReminder(w, r, x), emails' \in [Reminder -> Nat],
           faults' \in Nat
    PROVE  TypeInv'
<1>1. TypeOK'
  BY DEF TypeInv, FinishReminder, TypeOK
<1>2. \A v \in Worker, q \in Reminder : Holds(v, q)' <=> Holds(v, q)
  BY DEF TypeInv, FinishReminder, TypeOK, Holds
<1>3. \A v \in Worker : SessionInv(v)'
  BY <1>2 DEF TypeInv, FinishReminder, TypeOK, SessionInv
<1>4. QED
  BY <1>1, <1>3 DEF TypeInv

LEMMA TypeNext == TypeInv /\ [Next]_vars => TypeInv'
<1> SUFFICES ASSUME TypeInv, [Next]_vars PROVE TypeInv'
    OBVIOUS
<1> USE ReminderAssumption
<1>1. CASE Tick
  <2> DEFINE Aged(r) == [row[r] EXCEPT !.due = Past(@ - 1)]
  <2>1. ASSUME NEW r \in Reminder PROVE Aged(r) \in Row
    <3>1. row[r] \in Row
      BY DEF TypeInv, TypeOK
    <3>2. Past(row[r].due - 1) \in Int
      BY <3>1 DEF Row, Past
    <3>3. QED
      BY <3>1, <3>2, RowOps
  <2>2. TypeOK'
    BY <1>1, <2>1 DEF Tick, TypeInv, TypeOK
  <2>3. \A w \in Worker : SessionInv(w)'
    BY <1>1 DEF Tick, TypeInv, SessionInv, Holds
  <2>4. QED
    BY <2>2, <2>3 DEF TypeInv
<1>2. ASSUME NEW r \in Reminder, Schedule(r) PROVE TypeInv'
  <2>1. \A d \in Int : NewReminder(d) \in Row
    BY RowOps DEF TypeInv, TypeOK
  <2>2. TypeOK'
    BY <1>2, <2>1 DEF Schedule, TypeInv, TypeOK
  <2>3. \A w \in Worker : SessionInv(w)'
    BY <1>2 DEF Schedule, TypeInv, SessionInv, Holds
  <2>4. QED
    BY <2>2, <2>3 DEF TypeInv
<1>3. ASSUME NEW w \in Worker, StartRun(w) PROVE TypeInv'
  BY <1>3 DEF StartRun, TypeInv, TypeOK, SessionInv, Holds
<1>4. ASSUME NEW w \in Worker, Load(w) PROVE TypeInv'
  <2>1. ASSUME NEW r \in Reminder
        PROVE  Blank \in Row /\ [row[r] EXCEPT !.due = @ + age[w]] \in Row
    <3>1. row[r] \in Row /\ Blank \in Row
      BY DEF TypeInv, TypeOK, Row, Blank
    <3>2. row[r].due + age[w] \in Int
      BY <3>1 DEF Row, TypeInv, TypeOK
    <3>3. QED
      BY <3>1, <3>2, RowOps
  <2>2. \A x \in Row : [x EXCEPT !.status = "skipped"] \in Row
    BY RowOps
  <2>3. TypeOK /\ Load(w)
    BY <1>4 DEF TypeInv
  <2>4. seen' \in [Worker -> [Reminder -> Row]]
    BY <2>1, <2>3 DEF Load, TypeOK
  <2>5. mine' \in [Worker -> [Reminder -> Row]]
    BY <2>2, <2>3, <2>4 DEF Load, TypeOK
  <2>6. TypeOK'
    BY <2>3, <2>4, <2>5 DEF Load, TypeOK
  <2>7. ASSUME NEW r \in Reminder PROVE ~Holds(w, r)'
    <3>1. seen'[w][r] \in Row
      BY <2>4
    <3>2. \/ mine'[w][r] = seen'[w][r]
          \/ mine'[w][r] = [seen'[w][r] EXCEPT !.status = "skipped"]
      BY <2>3 DEF Load, TypeOK
    <3>3. QED
      BY <3>1, <3>2 DEF Holds, Row
  <2>8. \A v \in Worker \ {w}, r \in Reminder : Holds(v, r)' <=> Holds(v, r)
    BY <2>3 DEF Load, TypeOK, Holds
  <2>9. todo'[w] \subseteq Reminder
    BY <2>6 DEF TypeOK
  <2>10. \A v \in Worker : SessionInv(v)'
    BY <2>3, <2>7, <2>8, <2>9 DEF Load, TypeInv, TypeOK, SessionInv
  <2>11. QED
    BY <2>6, <2>10 DEF TypeInv
<1>5. ASSUME NEW w \in Worker, NEW r \in Reminder, Claim(w, r) PROVE TypeInv'
  <2>1. TypeOK /\ Claim(w, r) /\ r \in todo[w] /\ ~Holds(w, r)
    BY <1>5 DEF TypeInv, SessionInv, Claim, IsNext
  <2>2. /\ Attempted(row[r], Lease - age[w]) \in Row
        /\ Attempted(mine[w][r], mine[w][r].due) \in Row
    <3>1. /\ row[r] \in Row /\ mine[w][r] \in Row
          /\ Lease - age[w] \in Int
      BY <2>1 DEF TypeOK
    <3>2. mine[w][r].due \in Int
      BY <3>1 DEF Row
    <3>3. QED
      BY <3>1, <3>2, RowOps
  <2>3. TypeOK'
    BY <2>1, <2>2 DEF Claim, TypeOK
  <2>4. Holds(w, r)' /\ mine'[w][r].attempts = seen'[w][r].attempts + 1
    BY <2>1 DEF Claim, TypeOK, Row, Holds, Attempted
  <2>5. \A v \in Worker, q \in Reminder :
           ~(v = w /\ q = r) => mine'[v][q] = mine[v][q]
    BY <2>1 DEF Claim, TypeOK
  <2>6. \A v \in Worker, q \in Reminder :
           ~(v = w /\ q = r) => (Holds(v, q)' <=> Holds(v, q))
    BY <2>1, <2>5 DEF Claim, Holds
  <2>7. ASSUME NEW v \in Worker PROVE SessionInv(v)'
    <3>1. todo' = todo /\ todo[v] \subseteq Reminder
      BY <2>1 DEF Claim, TypeOK
    <3>2. \A q \in Reminder : Holds(v, q)' =>
             mine'[v][q].attempts = seen'[v][q].attempts + 1
      BY <2>1, <2>4, <2>5, <2>6 DEF Claim, TypeInv, SessionInv
    <3>3. CASE v = w
      <4>1. phase[w] = "running" /\ \A q \in todo[w] : ~Holds(w, q)
        BY <2>1 DEF Claim, TypeInv, SessionInv
      <4>2. \A q \in todo[w] : Holds(w, q)' => q = r
        BY <3>1, <3>3, <4>1, <2>6
      <4>3. phase'[w] = "sending"
        BY <2>1 DEF Claim, TypeOK
      <4>4. QED
        BY <3>1, <3>2, <3>3, <4>2, <4>3 DEF SessionInv
    <3>4. CASE v # w
      <4>1. phase'[v] = phase[v] /\ \A q \in todo[v] : Holds(v, q)' <=> Holds(v, q)
        BY <2>1, <2>6, <3>1, <3>4 DEF Claim, TypeOK
      <4>2. QED
        BY <3>1, <3>2, <4>1 DEF TypeInv, SessionInv
    <3>5. QED
      BY <3>3, <3>4
  <2>8. QED
    BY <2>3, <2>7 DEF TypeInv
<1>6. ASSUME NEW w \in Worker, NEW r \in Reminder, LoseClaim(w, r)
      PROVE  TypeInv'
  BY <1>6 DEF LoseClaim, TypeInv, TypeOK, SessionInv, Holds
<1>7. ASSUME NEW w \in Worker, CommitRun(w) PROVE TypeInv'
  BY <1>7, FlushedRow
     DEF CommitRun, CloseSession, TypeInv, TypeOK, SessionInv, Holds, Row, NoRows, Blank
<1>8. ASSUME NEW w \in Worker, AbortRun(w) PROVE TypeInv'
  BY <1>8
     DEF AbortRun, CloseSession, TypeInv, TypeOK, SessionInv, Holds, Row, NoRows, Blank
<1>9. ASSUME NEW w \in Worker, NEW r \in Reminder,
             SendOk(w, r) \/ SendFails(w, r) \/ SendAnswerLost(w, r)
      PROVE  TypeInv'
  <2> DEFINE x == mine[w][r]
  <2>1. Holds(w, r) /\ x \in Row /\ x.attempts # 0
    BY <1>9 DEF TypeInv, SessionInv, TypeOK, Row, SendOk, SendFails,
                SendAnswerLost, FinishReminder, Holds
  <2>2. AfterSuccess(x) \in Row /\ AfterSuccess(x).attempts = x.attempts
    BY <2>1, RowOps DEF AfterSuccess
  <2>3. \A transient \in BOOLEAN :
           /\ AfterFailure(x, transient) \in Row
           /\ AfterFailure(x, transient).attempts = x.attempts
    BY <2>1, RowOps DEF AfterFailure, Row
  <2>4. emails' \in [Reminder -> Nat] /\ faults' \in Nat
    BY <1>9 DEF TypeInv, TypeOK, SendOk, SendFails, SendAnswerLost
  <2>5. \E y \in Row : FinishReminder(w, r, y) /\ y.attempts = x.attempts
    BY <1>9, <2>2, <2>3 DEF SendOk, SendFails, SendAnswerLost
  <2>6. QED
    BY <2>4, <2>5, FinishType
<1>10. CASE UNCHANGED vars
  BY <1>10 DEF vars, TypeInv, TypeOK, SessionInv, Holds
<1>11. QED
  BY <1>1, <1>2, <1>3, <1>4, <1>5, <1>6, <1>7, <1>8, <1>9, <1>10
     DEF Next, Deliver

(* Type correctness of delivery, whatever the lease and however long runs  *)
(* take.                                                                   *)
THEOREM TypeCorrect == Spec => []TypeOK
<1>1. TypeInv => TypeOK
  BY DEF TypeInv
<1>2. QED
  BY TypeInit, TypeNext, <1>1, PTL DEF Spec

-----------------------------------------------------------------------------
(* Someone holds a claim on r; and someone holds one whose email is out.   *)
Held(r) == \E w \in Worker : Holds(w, r)
HeldSent(r) == \E w \in Worker : Holds(w, r) /\ mine[w][r].sentAt = "set"

(* A run is never older than RunLimit, and without one there is no session.*)
WorkerInv(w) ==
    /\ age[w] <= RunLimit
    /\ phase[w] = "idle" => age[w] = 0
    /\ phase[w] \in {"idle", "loading"} =>
          todo[w] = {} /\ seen[w] = NoRows /\ mine[w] = NoRows

(* A held reminder still looks in the table as its holder left it, so the  *)
(* holder's commit overwrites nothing.                                     *)
HeldInv(w, r) ==
    /\ r \notin Slack
    /\ row[r].status \in Open
    /\ row[r].status = seen[w][r].status
    /\ row[r].sentAt = "null"
    /\ seen[w][r].sentAt = "null"
    /\ row[r].attempts = mine[w][r].attempts
    /\ row[r].due = Lease - age[w]
    /\ mine[w][r].attempts = seen[w][r].attempts + 1
    /\ \/ /\ r \in todo[w]
          /\ phase[w] = "sending"
          /\ mine[w][r].status = seen[w][r].status
          /\ mine[w][r].sentAt = "null"
       \/ /\ r \notin todo[w]
          /\ mine[w][r].status = "sent"
          /\ mine[w][r].sentAt = "set"
          /\ emails[r] > 0
       \/ /\ r \notin todo[w]
          /\ mine[w][r].status = "retry_scheduled"
          /\ mine[w][r].sentAt = "null"
          /\ mine[w][r].attempts < MaxAttempts
       \/ /\ r \notin todo[w]
          /\ mine[w][r].status = "failed_terminal"
          /\ mine[w][r].sentAt = "null"

(* A reminder the run does not hold is as loaded, but for a skipped one.   *)
UnheldInv(w, r) ==
    \/ mine[w][r] = seen[w][r]
    \/ /\ r \in Slack
       /\ mine[w][r] = [seen[w][r] EXCEPT !.status = "skipped"]
       /\ row[r].status \in Open \cup {"skipped"}

(* A reminder still to do was loaded while nobody held it, so if its count *)
(* is still the loaded one, nothing has happened to it since.              *)
TodoInv(w, r) ==
    /\ seen[w][r].attempts <= row[r].attempts
    /\ seen[w][r].attempts = row[r].attempts =>
          /\ ~Held(r)
          /\ seen[w][r].status = row[r].status
          /\ seen[w][r].sentAt = row[r].sentAt

PairInv(w, r) ==
    /\ Holds(w, r) => HeldInv(w, r)
    /\ ~Holds(w, r) => UnheldInv(w, r)
    /\ r \in todo[w] => r \notin Slack /\ seen[w][r].status \in Open
    /\ r \in todo[w] /\ ~Holds(w, r) => TodoInv(w, r)

RowInv(r) ==
    /\ row[r].attempts = tries[r]
    /\ row[r].sentAt = "set" <=> row[r].status = "sent"
    /\ row[r].sentAt = "set" => emails[r] > 0
    /\ row[r].status = "absent" => tries[r] = 0 /\ emails[r] = 0
    /\ r \in Slack => tries[r] = 0
    /\ row[r].status = "failed_terminal" => tries[r] > 0
    /\ emails[r] <= tries[r]
    /\ tries[r] <= MaxAttempts + faults
    /\ row[r].status \in Open /\ ~Held(r) =>
          tries[r] <= MaxAttempts - 1 + faults
    /\ emails[r] <= 1 + faults
    /\ row[r].sentAt = "null" /\ ~HeldSent(r) => emails[r] <= faults
    /\ \A w \in Worker : Holds(w, r) /\ r \in todo[w] => emails[r] < tries[r]

(* The inductive invariant.                                                *)
IInv ==
    /\ TypeInv
    /\ faults <= MaxFaults
    /\ NoConcurrentClaims
    /\ \A w \in Worker : WorkerInv(w)
    /\ \A w \in Worker, r \in Reminder : PairInv(w, r)
    /\ \A r \in Reminder : RowInv(r)


(* No run can claim a reminder that another one holds: its lease lies in   *)
(* the future of every run's now.                                          *)
LEMMA ClaimUnheld ==
    ASSUME LeaseOutlivesRun, IInv, NEW w \in Worker, NEW r \in Reminder,
           Claim(w, r)
    PROVE  ~Held(r)
<1> SUFFICES ASSUME NEW v \in Worker, Holds(v, r) PROVE FALSE
    BY DEF Held
<1>1. row[r].due = Lease - age[v] /\ age[v] <= RunLimit
  BY DEF IInv, PairInv, HeldInv, WorkerInv
<1>2. row[r].due <= -age[w]
  BY DEF Claim, Claimable
<1>3. age[w] \in Nat /\ age[v] \in Nat
  BY DEF IInv, TypeInv, TypeOK
<1>4. QED
  BY <1>1, <1>2, <1>3, ReminderAssumption DEF LeaseOutlivesRun

(* The steps of a claim.                                                   *)
LEMMA ClaimStep ==
    ASSUME LeaseOutlivesRun, IInv, TypeInv', NEW w \in Worker,
           NEW r \in Reminder, Claim(w, r)
    PROVE  IInv'
<1>1. /\ \A v \in Worker : ~Holds(v, r)
      /\ TypeOK /\ TypeOK'
      /\ r \in todo[w] /\ phase[w] = "running"
  BY ClaimUnheld DEF Held, IInv, TypeInv, Claim, IsNext
<1>2. /\ \A q \in Reminder \ {r} : row'[q] = row[q] /\ tries'[q] = tries[q]
      /\ \A v \in Worker, q \in Reminder :
            ~(v = w /\ q = r) => mine'[v][q] = mine[v][q]
      /\ seen' = seen /\ todo' = todo /\ age' = age /\ emails' = emails
      /\ faults' = faults
      /\ \A v \in Worker \ {w} : phase'[v] = phase[v]
      /\ phase'[w] = "sending"
  BY <1>1 DEF Claim, TypeOK
<1>3. /\ row'[r] = Attempted(row[r], Lease - age[w])
      /\ mine'[w][r] = Attempted(mine[w][r], mine[w][r].due)
      /\ tries'[r] = tries[r] + 1
      /\ row[r].status \in Open /\ row[r].sentAt = "null"
      /\ row[r].attempts = mine[w][r].attempts
  BY <1>1 DEF Claim, Claimable, Deliverable, TypeOK
<1>4. \A v \in Worker, q \in Reminder :
         ~(v = w /\ q = r) => (Holds(v, q)' <=> Holds(v, q))
  BY <1>2 DEF Holds
<1>5. NoConcurrentClaims'
  BY <1>1, <1>4 DEF NoConcurrentClaims, IInv
<1>6. ASSUME NEW v \in Worker PROVE WorkerInv(v)'
  BY <1>1, <1>2 DEF IInv, WorkerInv, TypeOK
<1>7. ASSUME NEW v \in Worker, NEW q \in Reminder PROVE PairInv(v, q)'
  <2> row[q] \in Row /\ seen[v][q] \in Row /\ mine[v][q] \in Row
    BY <1>1 DEF TypeOK
  <2>1. CASE v = w /\ q = r
    <3>1. r \notin Slack /\ UnheldInv(w, r) /\ TodoInv(w, r)
      BY <1>1 DEF IInv, PairInv
    <3>2. mine[w][r] = seen[w][r]
      BY <3>1 DEF UnheldInv
    <3>3. seen[w][r].status = row[r].status
      BY <1>3, <3>1, <3>2 DEF TodoInv
    <3>4. /\ row'[r].status = row[r].status
          /\ row'[r].sentAt = "null"
          /\ row'[r].attempts = row[r].attempts + 1
          /\ row'[r].due = Lease - age[w]
          /\ mine'[w][r].status = seen[w][r].status
          /\ mine'[w][r].sentAt = "null"
          /\ mine'[w][r].attempts = row[r].attempts + 1
          /\ seen[w][r].attempts = row[r].attempts
          /\ seen[w][r].sentAt = "null"
      BY <1>3, <3>1, <3>2 DEF Attempted, TodoInv
    <3>5. HeldInv(w, r)'
      BY <1>1, <1>2, <1>3, <3>1, <3>3, <3>4 DEF HeldInv
    <3>6. Holds(w, r)'
      BY <1>2, <2>1, <3>4 DEF Holds, Row
    <3>7. r \in todo[w] => seen[w][r].status \in Open
      BY DEF IInv, PairInv
    <3>8. QED
      BY <1>2, <2>1, <3>1, <3>5, <3>6, <3>7 DEF PairInv
  <2>2. CASE q = r /\ v # w
    <3>1. ~Holds(v, r)' /\ PairInv(v, r) /\ ~Holds(v, r)
      BY <1>1, <1>4, <2>2 DEF IInv
    <3>2. UnheldInv(v, r)'
      BY <1>2, <1>3, <2>2, <3>1 DEF PairInv, UnheldInv, Attempted
    <3>3. r \in todo[v] => TodoInv(v, r)'
      BY <1>2, <1>3, <2>2, <3>1 DEF PairInv, TodoInv, Attempted, Row
    <3>4. QED
      BY <1>2, <2>2, <3>1, <3>2, <3>3 DEF PairInv
  <2>3. CASE q # r
    <3>1. q \in todo[w] => ~Holds(w, q)
      BY <1>1 DEF IInv, TypeInv, SessionInv
    <3>2. Holds(v, q)' <=> Holds(v, q)
      BY <1>4, <2>3
    <3>3. Held(q)' <=> Held(q)
      BY <1>4, <2>3 DEF Held
    <3>4. PairInv(v, q) /\ row'[q] = row[q] /\ mine'[v][q] = mine[v][q]
      BY <1>2, <2>3 DEF IInv
    <3>5. QED
      BY <1>2, <3>1, <3>2, <3>3, <3>4
         DEF PairInv, HeldInv, UnheldInv, TodoInv
  <2>4. QED
    BY <2>1, <2>2, <2>3
<1>8. ASSUME NEW q \in Reminder PROVE RowInv(q)'
  <2>1. CASE q = r
    <3>1. ~Held(r) /\ ~HeldSent(r) /\ r \notin Slack
      BY <1>1 DEF Held, HeldSent, IInv, PairInv
    <3>2. RowInv(r) /\ emails[r] \in Nat /\ tries[r] \in Nat
      BY <1>1 DEF IInv, TypeOK
    <3>3. Holds(w, r)'
      BY <1>1, <1>2, <1>3 DEF IInv, TypeInv, SessionInv, Holds, Attempted, TypeOK, Row, PairInv, UnheldInv
    <3>4. QED
      BY <1>1, <1>2, <1>3, <2>1, <3>1, <3>2, <3>3, ReminderAssumption
         DEF RowInv, Attempted, Held, Open, TypeOK
  <2>2. CASE q # r
    <3>1. /\ Held(q)' <=> Held(q)
          /\ HeldSent(q)' <=> HeldSent(q)
      BY <1>2, <1>4, <2>2 DEF Held, HeldSent
    <3>2. QED
      BY <1>2, <1>4, <2>2, <3>1 DEF IInv, RowInv
  <2>3. QED
    BY <2>1, <2>2
<1>9. QED
  BY <1>2, <1>5, <1>6, <1>7, <1>8 DEF IInv

(* A step that leaves the rows' contents and the sessions alone.           *)
LEMMA TickStep ==
    ASSUME LeaseOutlivesRun, IInv, TypeInv', Tick
    PROVE  IInv'
<1>1. /\ TypeOK /\ TypeOK'
      /\ UNCHANGED <<phase, todo, seen, mine, tries, emails, faults>>
  BY DEF IInv, TypeInv, Tick
<1>2. ASSUME NEW r \in Reminder
      PROVE  /\ row'[r].status = row[r].status
             /\ row'[r].sentAt = row[r].sentAt
             /\ row'[r].attempts = row[r].attempts
             /\ row'[r].due = Past(row[r].due - 1)
  BY <1>1 DEF Tick, TypeOK, Row
<1>3. ASSUME NEW w \in Worker
      PROVE  /\ phase[w] = "idle" => age'[w] = 0
             /\ phase[w] # "idle" => age'[w] = age[w] + 1 /\ age[w] < RunLimit
  BY DEF Tick
<1>4. /\ \A w \in Worker, r \in Reminder : Holds(w, r)' <=> Holds(w, r)
      /\ \A r \in Reminder :
            (Held(r)' <=> Held(r)) /\ (HeldSent(r)' <=> HeldSent(r))
  BY <1>1 DEF Holds, Held, HeldSent
<1>5. NoConcurrentClaims'
  BY <1>4 DEF NoConcurrentClaims, IInv
<1>6. ASSUME NEW w \in Worker PROVE WorkerInv(w)'
  <2>1. age[w] \in Nat
    BY <1>1 DEF TypeOK
  <2>2. QED
    BY <1>1, <1>3, <2>1, ReminderAssumption DEF IInv, WorkerInv
<1>7. ASSUME NEW w \in Worker, NEW r \in Reminder PROVE PairInv(w, r)'
  <2>1. PairInv(w, r) /\ WorkerInv(w)
    BY DEF IInv
  <2>2. ASSUME Holds(w, r) PROVE row'[r].due = Lease - age'[w]
    <3>1. row[r].due = Lease - age[w] /\ age[w] \in Nat
      BY <1>1, <2>1, <2>2 DEF PairInv, HeldInv, TypeOK
    <3>2. phase[w] # "idle"
      BY <2>1, <2>2 DEF WorkerInv, Holds
    <3>3. Past(row[r].due - 1) = row[r].due - 1
      BY <1>3, <3>1, <3>2, ReminderAssumption DEF Past, LeaseOutlivesRun
    <3>4. QED
      BY <1>2, <1>3, <3>1, <3>2, <3>3, ReminderAssumption
  <2>3. QED
    BY <1>1, <1>2, <1>4, <2>1, <2>2
       DEF PairInv, HeldInv, UnheldInv, TodoInv
<1>8. ASSUME NEW r \in Reminder PROVE RowInv(r)'
  <2>1. RowInv(r)
    BY DEF IInv
  <2>2. QED
    BY <1>1, <1>2, <1>4, <2>1 DEF RowInv
<1>9. QED
  BY <1>1, <1>5, <1>6, <1>7, <1>8 DEF IInv

(* A new reminder is nobody's.                                             *)
LEMMA ScheduleStep ==
    ASSUME LeaseOutlivesRun, IInv, TypeInv', NEW r \in Reminder, Schedule(r)
    PROVE  IInv'
<1>1. /\ TypeOK /\ TypeOK'
      /\ UNCHANGED <<phase, age, todo, seen, mine, tries, emails, faults>>
  BY DEF IInv, TypeInv, Schedule
<1>2. /\ \A q \in Reminder \ {r} : row'[q] = row[q]
      /\ row'[r].status = "pending" /\ row'[r].sentAt = "null"
      /\ row'[r].attempts = 0 /\ row[r].status = "absent"
  BY <1>1 DEF Schedule, TypeOK, NewReminder
<1>3. /\ \A w \in Worker, q \in Reminder : Holds(w, q)' <=> Holds(w, q)
      /\ \A q \in Reminder :
            (Held(q)' <=> Held(q)) /\ (HeldSent(q)' <=> HeldSent(q))
  BY <1>1 DEF Holds, Held, HeldSent
<1>4. NoConcurrentClaims'
  BY <1>3 DEF NoConcurrentClaims, IInv
<1>5. \A w \in Worker : WorkerInv(w)'
  BY <1>1 DEF IInv, WorkerInv
<1>6. RowInv(r) /\ row[r].attempts = 0
  BY <1>2 DEF IInv, RowInv
<1>7. ASSUME NEW w \in Worker, NEW q \in Reminder PROVE PairInv(w, q)'
  <2>1. PairInv(w, q)
    BY DEF IInv
  <2>2. CASE q # r
    BY <1>1, <1>2, <1>3, <2>1, <2>2
       DEF PairInv, HeldInv, UnheldInv, TodoInv
  <2>3. CASE q = r
    <3>1. ~Holds(w, r)
      BY <1>2, <2>1, <2>3 DEF PairInv, HeldInv, Open
    <3>2. UnheldInv(w, r)'
      BY <1>1, <1>2, <2>1, <2>3, <3>1 DEF PairInv, UnheldInv, Open
    <3>3. r \in todo[w] => TodoInv(w, r)'
      <4>1. CASE r \in todo[w]
        <5>1. TodoInv(w, r) /\ seen[w][r].status # row[r].status
          BY <1>2, <2>1, <2>3, <3>1, <4>1 DEF PairInv, Open
        <5>2. QED
          BY <1>1, <1>2, <1>6, <5>1 DEF TodoInv
      <4>2. QED
        BY <4>1
    <3>4. QED
      BY <1>1, <1>3, <2>1, <2>3, <3>1, <3>2, <3>3 DEF PairInv
  <2>4. QED
    BY <2>2, <2>3
<1>8. ASSUME NEW q \in Reminder PROVE RowInv(q)'
  <2>1. RowInv(q) /\ tries[q] \in Nat /\ faults \in Nat
    BY <1>1 DEF IInv, TypeOK
  <2>2. CASE q # r
    BY <1>1, <1>2, <1>3, <2>1, <2>2 DEF RowInv
  <2>3. CASE q = r
    BY <1>1, <1>2, <1>3, <1>6, <2>1, <2>3, ReminderAssumption DEF RowInv, Open
  <2>4. QED
    BY <2>2, <2>3
<1>9. QED
  BY <1>1, <1>4, <1>5, <1>7, <1>8 DEF IInv

(* Reading the clock, and losing a claim, change no row and no object.     *)
LEMMA QuietStep ==
    ASSUME LeaseOutlivesRun, IInv, TypeInv', NEW w \in Worker,
           StartRun(w) \/ \E r \in Reminder : LoseClaim(w, r)
    PROVE  IInv'
<1>1. /\ TypeOK /\ TypeOK'
      /\ UNCHANGED <<row, age, seen, mine, tries, emails, faults>>
      /\ \A v \in Worker : todo'[v] \subseteq todo[v]
      /\ \A v \in Worker \ {w} : phase'[v] = phase[v]
  <2>1. TypeOK /\ TypeOK'
    BY DEF IInv, TypeInv
  <2>2. CASE StartRun(w)
    BY <2>1, <2>2 DEF StartRun, TypeOK
  <2>3. ASSUME NEW r \in Reminder, LoseClaim(w, r)
        PROVE  /\ UNCHANGED <<row, age, seen, mine, tries, emails, faults>>
               /\ \A v \in Worker : todo'[v] \subseteq todo[v]
               /\ \A v \in Worker \ {w} : phase'[v] = phase[v]
    <3>1. \A v \in Worker : todo'[v] \subseteq todo[v]
      BY <2>1, <2>3 DEF LoseClaim, TypeOK
    <3>2. QED
      BY <2>3, <3>1 DEF LoseClaim
  <2>4. QED
    BY <2>1, <2>2, <2>3
<1>2. \/ phase[w] = "idle" /\ phase'[w] = "loading" /\ todo'[w] = todo[w]
      \/ phase[w] = "running" /\ phase'[w] = "running"
  BY <1>1 DEF StartRun, LoseClaim, TypeOK
<1>3. /\ \A v \in Worker, q \in Reminder : Holds(v, q)' <=> Holds(v, q)
      /\ \A q \in Reminder :
            (Held(q)' <=> Held(q)) /\ (HeldSent(q)' <=> HeldSent(q))
  BY <1>1 DEF Holds, Held, HeldSent
<1>4. NoConcurrentClaims'
  BY <1>3 DEF NoConcurrentClaims, IInv
<1>5. ASSUME NEW v \in Worker PROVE WorkerInv(v)'
  BY <1>1, <1>2 DEF IInv, WorkerInv
<1>6. ASSUME NEW v \in Worker, NEW q \in Reminder PROVE PairInv(v, q)'
  <2>1. PairInv(v, q) /\ UNCHANGED <<row[q], seen[v][q], mine[v][q], age[v]>>
    BY <1>1 DEF IInv
  <2>2. CASE Holds(v, q) /\ q \in todo[v]
    <3>1. phase[v] = "sending"
      BY <2>1, <2>2 DEF PairInv, HeldInv
    <3>2. v # w
      BY <1>2, <3>1
    <3>3. UNCHANGED <<todo[v], phase[v]>>
      BY <1>1, <3>2 DEF StartRun, LoseClaim, TypeOK
    <3>4. QED
      BY <1>1, <1>3, <2>1, <2>2, <3>3 DEF PairInv, HeldInv
  <2>3. CASE Holds(v, q) /\ q \notin todo[v]
    BY <1>1, <1>3, <2>1, <2>3 DEF PairInv, HeldInv
  <2>4. CASE ~Holds(v, q)
    BY <1>1, <1>3, <2>1, <2>4 DEF PairInv, UnheldInv, TodoInv
  <2>5. QED
    BY <2>2, <2>3, <2>4
<1>7. ASSUME NEW q \in Reminder PROVE RowInv(q)'
  BY <1>1, <1>3 DEF IInv, RowInv
<1>8. QED
  BY <1>1, <1>4, <1>5, <1>6, <1>7 DEF IInv

(* A session that has just been loaded holds nothing.                      *)
LEMMA LoadStep ==
    ASSUME LeaseOutlivesRun, IInv, TypeInv', NEW w \in Worker, Load(w)
    PROVE  IInv'
<1>1. /\ TypeOK /\ TypeOK'
      /\ UNCHANGED <<row, age, tries, emails, faults>>
      /\ \A v \in Worker \ {w} :
            UNCHANGED <<phase[v], todo[v], seen[v], mine[v]>>
      /\ phase[w] = "loading" /\ phase'[w] = "running"
  <2>1. TypeOK /\ TypeOK'
    BY DEF IInv, TypeInv
  <2>2. ASSUME NEW v \in Worker \ {w}
        PROVE  UNCHANGED <<phase[v], todo[v], seen[v], mine[v]>>
    BY <2>1 DEF Load, TypeOK
  <2>3. /\ UNCHANGED <<row, age, tries, emails, faults>>
        /\ phase[w] = "loading" /\ phase'[w] = "running"
    BY <2>1 DEF Load, TypeOK
  <2>4. QED
    BY <2>1, <2>2, <2>3
<1>2. ASSUME NEW q \in Reminder
      PROVE  /\ \/ mine'[w][q] = seen'[w][q]
                \/ /\ q \in Slack
                   /\ mine'[w][q] = [seen'[w][q] EXCEPT !.status = "skipped"]
                   /\ row[q].status \in Open
             /\ q \in todo'[w] =>
                   /\ q \notin Slack
                   /\ row[q].status \in Open
                   /\ row[q].due <= -age[w]
                   /\ seen'[w][q].status = row[q].status
                   /\ seen'[w][q].sentAt = row[q].sentAt
                   /\ seen'[w][q].attempts = row[q].attempts
  BY <1>1 DEF Load, TypeOK, Deliverable, Row
<1>3. ASSUME NEW q \in Reminder PROVE ~Holds(w, q) /\ ~Holds(w, q)'
  <2>1. ~Holds(w, q)
    BY <1>1 DEF IInv, WorkerInv, Holds
  <2>2. seen'[w][q] \in Row
    BY <1>1 DEF TypeOK
  <2>3. QED
    BY <1>2, <2>1, <2>2 DEF Holds, Row
<1>4. \A v \in Worker, q \in Reminder : Holds(v, q)' <=> Holds(v, q)
  <2>1. ASSUME NEW v \in Worker \ {w}, NEW q \in Reminder
        PROVE  Holds(v, q)' <=> Holds(v, q)
    BY <1>1 DEF Holds
  <2>2. QED
    BY <1>3, <2>1
<1>5. ASSUME NEW q \in Reminder
      PROVE  (Held(q)' <=> Held(q)) /\ (HeldSent(q)' <=> HeldSent(q))
  BY <1>1, <1>3, <1>4 DEF Held, HeldSent
<1>6. NoConcurrentClaims'
  BY <1>4 DEF NoConcurrentClaims, IInv
<1>7. ASSUME NEW v \in Worker PROVE WorkerInv(v)'
  BY <1>1 DEF IInv, WorkerInv
<1>8. ASSUME NEW v \in Worker, NEW q \in Reminder PROVE PairInv(v, q)'
  <2>1. CASE v = w
    <3>1. UnheldInv(w, q)'
      BY <1>1, <1>2 DEF UnheldInv
    <3>2. ASSUME q \in todo'[w] PROVE TodoInv(w, q)'
      <4>1. ~Held(q)
        <5> SUFFICES ASSUME NEW u \in Worker, Holds(u, q) PROVE FALSE
            BY DEF Held
        <5>1. row[q].due = Lease - age[u] /\ age[u] <= RunLimit
          BY DEF IInv, PairInv, HeldInv, WorkerInv
        <5>2. row[q].due <= -age[w] /\ age[w] \in Nat /\ age[u] \in Nat
          BY <1>1, <1>2, <3>2 DEF TypeOK
        <5>3. QED
          BY <5>1, <5>2, ReminderAssumption DEF LeaseOutlivesRun
      <4>2. seen'[w][q] \in Row
        BY <1>1 DEF TypeOK
      <4>3. seen'[w][q].attempts \in Nat
        BY <4>2 DEF Row
      <4>4. ~Held(q)'
        BY <1>5, <4>1
      <4>5. /\ seen'[w][q].status = row'[q].status
            /\ seen'[w][q].sentAt = row'[q].sentAt
            /\ seen'[w][q].attempts = row'[q].attempts
        BY <1>1, <1>2, <3>2
      <4>6. seen'[w][q].attempts <= row'[q].attempts
        BY <4>3, <4>5
      <4>7. QED
        BY <4>4, <4>5, <4>6 DEF TodoInv
    <3>3. q \in todo'[w] => q \notin Slack /\ seen'[w][q].status \in Open
      BY <1>2
    <3>4. QED
      BY <1>3, <2>1, <3>1, <3>2, <3>3 DEF PairInv
  <2>2. CASE v # w
    BY <1>1, <1>4, <1>5, <2>2 DEF IInv, PairInv, HeldInv, UnheldInv, TodoInv
  <2>3. QED
    BY <2>1, <2>2
<1>9. ASSUME NEW q \in Reminder PROVE RowInv(q)'
  <2>1. RowInv(q) /\ UNCHANGED <<row[q], tries[q], emails[q], faults>>
    BY <1>1 DEF IInv
  <2>2. \A v \in Worker : Holds(v, q)' /\ q \in todo'[v] =>
                             Holds(v, q) /\ q \in todo[v]
    BY <1>1, <1>3, <1>4
  <2>3. QED
    BY <1>5, <2>1, <2>2 DEF RowInv
<1>10. QED
  BY <1>1, <1>6, <1>7, <1>8, <1>9 DEF IInv

(* The end of an iteration: x is one of the objects it may leave, m what   *)
(* it adds to the emails and f to the faults.                              *)
LEMMA FinishStep ==
    ASSUME LeaseOutlivesRun, IInv, TypeInv', NEW w \in Worker,
           NEW r \in Reminder, NEW x \in Row, NEW m \in {0, 1}, NEW f \in {0, 1},
           FinishReminder(w, r, x),
           emails' = [emails EXCEPT ![r] = @ + m],
           faults' = faults + f, faults' <= MaxFaults,
           x.attempts = mine[w][r].attempts,
           \/ x.status = "sent" /\ x.sentAt = "set" /\ m = 1
           \/ /\ \/ x.status = "retry_scheduled" /\ x.attempts < MaxAttempts
                 \/ x.status = "failed_terminal"
              /\ x.sentAt = mine[w][r].sentAt
              /\ m <= f
    PROVE  IInv'
<1>1. /\ TypeOK /\ TypeOK'
      /\ UNCHANGED <<row, age, seen, tries>>
      /\ phase[w] = "sending" /\ phase'[w] = "running"
      /\ r \in todo[w] /\ todo'[w] = todo[w] \ {r}
      /\ Holds(w, r) /\ mine'[w][r] = x
  BY DEF IInv, TypeInv, FinishReminder, TypeOK
<1>2. \A v \in Worker, q \in Reminder :
         ~(v = w /\ q = r) => mine'[v][q] = mine[v][q]
  BY <1>1 DEF FinishReminder, TypeOK
<1>3. \A v \in Worker \ {w} : UNCHANGED <<phase[v], todo[v]>>
  BY <1>1 DEF FinishReminder, TypeOK
<1>4. \A v \in Worker, q \in Reminder : Holds(v, q)' <=> Holds(v, q)
  BY <1>1, <1>2 DEF Holds
<1>5. \A q \in Reminder :
         /\ Held(q)' <=> Held(q)
         /\ q # r => (HeldSent(q)' <=> HeldSent(q))
  BY <1>2, <1>4 DEF Held, HeldSent
<1>6. /\ \A q \in Reminder \ {r} : emails'[q] = emails[q]
      /\ emails'[r] = emails[r] + m
      /\ emails[r] \in Nat /\ faults \in Nat /\ tries[r] \in Nat
  BY <1>1 DEF TypeOK
<1>7. HeldInv(w, r) /\ mine[w][r].sentAt = "null" /\ PairInv(w, r)
  BY <1>1 DEF IInv, PairInv, HeldInv
<1>8. \A v \in Worker : Holds(v, r) => v = w
  BY <1>1 DEF IInv, NoConcurrentClaims
<1>9. NoConcurrentClaims'
  BY <1>4 DEF NoConcurrentClaims, IInv
<1>10. ASSUME NEW v \in Worker PROVE WorkerInv(v)'
  <2>1. CASE v = w
    BY <1>1, <2>1 DEF IInv, WorkerInv
  <2>2. CASE v # w
    <3>1. UNCHANGED <<phase[v], todo[v], age[v], seen[v], mine[v]>>
      BY <1>1, <1>3, <2>2 DEF FinishReminder, TypeOK
    <3>2. QED
      BY <3>1 DEF IInv, WorkerInv
  <2>3. QED
    BY <2>1, <2>2
<1>11. ASSUME NEW v \in Worker, NEW q \in Reminder PROVE PairInv(v, q)'
  <2>1. CASE v = w /\ q = r
    <3>1. HeldInv(w, r)'
      <4>1. \/ /\ x.status = "sent" /\ x.sentAt = "set" /\ emails'[r] > 0
            \/ /\ x.status = "retry_scheduled" /\ x.sentAt = "null"
               /\ x.attempts < MaxAttempts
            \/ x.status = "failed_terminal" /\ x.sentAt = "null"
        BY <1>6, <1>7
      <4>2. r \notin todo'[w]
        BY <1>1
      <4>3. QED
        BY <1>1, <1>7, <4>1, <4>2 DEF HeldInv
    <3>2. QED
      BY <1>1, <1>4, <1>7, <2>1, <3>1 DEF PairInv
  <2>2. CASE v = w /\ q # r
    <3>1. q \in todo[w] => ~Holds(w, q)
      BY <1>1, <2>2 DEF IInv, TypeInv, SessionInv
    <3>2. /\ UNCHANGED <<row[q], seen[w][q], mine[w][q], age[w], emails[q]>>
          /\ q \in todo'[w] <=> q \in todo[w]
          /\ PairInv(w, q)
      BY <1>1, <1>2, <1>6, <2>2 DEF IInv
    <3>3. QED
      BY <1>4, <1>5, <2>2, <3>1, <3>2
         DEF PairInv, HeldInv, UnheldInv, TodoInv
  <2>3. CASE v # w
    <3>1. UNCHANGED <<row[q], seen[v][q], mine[v][q], age[v], phase[v], todo[v]>>
      BY <1>1, <1>2, <1>3, <2>3
    <3>2. Holds(v, q) => emails'[q] = emails[q]
      BY <1>6, <1>8, <2>3
    <3>3. PairInv(v, q)
      BY DEF IInv
    <3>4. Holds(v, q) => HeldInv(v, q)'
      BY <3>1, <3>2, <3>3 DEF PairInv, HeldInv
    <3>5. QED
      BY <1>4, <1>5, <3>1, <3>3, <3>4 DEF PairInv, UnheldInv, TodoInv
  <2>4. QED
    BY <2>1, <2>2, <2>3
<1>12. ASSUME NEW q \in Reminder PROVE RowInv(q)'
  <2>1. CASE q = r
    <3>1. RowInv(r) /\ row[r].sentAt = "null" /\ emails[r] < tries[r]
      BY <1>1, <1>7 DEF IInv, RowInv, HeldInv
    <3>2. ~HeldSent(r) /\ Held(r)
      BY <1>1, <1>7, <1>8 DEF HeldSent, Held
    <3>3. emails[r] <= faults /\ row[r].status \in Open
      BY <1>7, <3>1, <3>2 DEF RowInv, HeldInv
    <3>4. m = 1 /\ f = 0 => HeldSent(r)'
      BY <1>1, <1>4 DEF HeldSent
    <3>5. ASSUME NEW v \in Worker, Holds(v, r)', r \in todo'[v] PROVE FALSE
      BY <1>1, <1>4, <1>8, <3>5
    <3>6. emails'[r] <= 1 + faults' /\ emails'[r] <= tries'[r]
      BY <1>1, <1>6, <3>1, <3>3
    <3>7. row'[r].sentAt = "null" /\ ~HeldSent(r)' => emails'[r] <= faults'
      BY <1>6, <3>3, <3>4
    <3>8. tries'[r] <= MaxAttempts + faults'
      BY <1>1, <1>6, <3>1, ReminderAssumption DEF RowInv
    <3>9. UNCHANGED <<row[r], tries[r]>> /\ Held(r)'
      BY <1>1, <1>5, <3>2
    <3>10. row[r].status # "absent"
      BY <3>3 DEF Open
    <3>11. QED
      BY <2>1, <3>1, <3>3, <3>5, <3>6, <3>7, <3>8, <3>9, <3>10 DEF RowInv
  <2>2. CASE q # r
    <3>1. UNCHANGED <<row[q], tries[q], emails[q]>> /\ RowInv(q) /\ q \in Reminder \ {r}
      BY <1>1, <1>6, <2>2 DEF IInv
    <3>2. \A v \in Worker : Holds(v, q)' /\ q \in todo'[v] =>
                               Holds(v, q) /\ q \in todo[v]
      BY <1>1, <1>3, <1>4
    <3>3. faults <= faults' /\ tries[q] \in Nat /\ emails[q] \in Nat /\ faults' \in Nat
      BY <1>1 DEF TypeOK
    <3>4. QED
      BY <1>5, <1>6, <2>2, <3>1, <3>2, <3>3, ReminderAssumption DEF RowInv
  <2>3. QED
    BY <2>1, <2>2
<1>13. QED
  BY <1>9, <1>10, <1>11, <1>12 DEF IInv

(* Each answer of the SMTP server ends an iteration.                       *)
LEMMA SendStep ==
    ASSUME LeaseOutlivesRun, IInv, TypeInv', NEW w \in Worker,
           NEW r \in Reminder,
           SendOk(w, r) \/ SendFails(w, r) \/ SendAnswerLost(w, r)
    PROVE  IInv'
<1> DEFINE x == mine[w][r]
<1>1. /\ x \in Row /\ x.attempts # 0 /\ x.attempts \in Nat
      /\ emails \in [Reminder -> Nat] /\ faults \in Nat /\ faults <= MaxFaults
  <2>1. Holds(w, r) /\ TypeInv
    BY DEF IInv, SendOk, SendFails, SendAnswerLost, FinishReminder
  <2>2. x \in Row /\ seen[w][r] \in Row
    BY <2>1 DEF TypeInv, TypeOK
  <2>3. x.attempts = seen[w][r].attempts + 1
    BY <2>1 DEF TypeInv, SessionInv
  <2>4. QED
    BY <2>1, <2>2, <2>3 DEF Row, IInv, TypeInv, TypeOK
<1>2. ASSUME NEW t \in BOOLEAN
      PROVE  /\ AfterFailure(x, t) \in Row
             /\ AfterFailure(x, t).attempts = x.attempts
             /\ AfterFailure(x, t).sentAt = x.sentAt
             /\ \/ /\ AfterFailure(x, t).status = "retry_scheduled"
                   /\ x.attempts < MaxAttempts
                \/ AfterFailure(x, t).status = "failed_terminal"
  <2>1. AfterFailure(x, t) \in Row
    BY <1>1, RowOps
  <2>2. CASE t /\ x.attempts < MaxAttempts
    BY <2>1, <2>2 DEF AfterFailure
  <2>3. CASE ~(t /\ x.attempts < MaxAttempts)
    BY <1>1, <2>1, <2>3 DEF AfterFailure, Row
  <2>4. QED
    BY <2>2, <2>3
<1>3. CASE SendOk(w, r)
  <2>1. /\ AfterSuccess(x) \in Row
        /\ AfterSuccess(x).attempts = x.attempts
        /\ AfterSuccess(x).status = "sent" /\ AfterSuccess(x).sentAt = "set"
    BY <1>1, RowOps DEF AfterSuccess
  <2>2. faults' = faults + 0 /\ faults' <= MaxFaults
    BY <1>1, <1>3 DEF SendOk
  <2>3. QED
    BY <1>1, <1>3, <2>1, <2>2, FinishStep DEF SendOk
<1>4. CASE SendFails(w, r)
  <2>1. PICK t \in BOOLEAN : FinishReminder(w, r, AfterFailure(x, t))
    BY <1>4 DEF SendFails
  <2>2. /\ faults' = faults + 0 /\ faults' <= MaxFaults
        /\ emails' = [emails EXCEPT ![r] = @ + 0]
    BY <1>1, <1>4 DEF SendFails
  <2> DEFINE y == AfterFailure(x, t)
  <2>3. /\ y \in Row /\ y.attempts = mine[w][r].attempts
        /\ \/ y.status = "retry_scheduled" /\ y.attempts < MaxAttempts
           \/ y.status = "failed_terminal"
        /\ y.sentAt = mine[w][r].sentAt
    BY <1>2
  <2> HIDE DEF y
  <2>4. FinishReminder(w, r, y) /\ 0 \in {0, 1} /\ 0 <= 0
    BY <2>1 DEF y
  <2>5. QED
    BY <2>2, <2>3, <2>4, FinishStep
<1>5. CASE SendAnswerLost(w, r)
  <2>1. PICK t \in BOOLEAN : FinishReminder(w, r, AfterFailure(x, t))
    BY <1>5 DEF SendAnswerLost
  <2>2. /\ faults' = faults + 1 /\ faults' <= MaxFaults
        /\ emails' = [emails EXCEPT ![r] = @ + 1]
    BY <1>1, <1>5, ReminderAssumption DEF SendAnswerLost
  <2> DEFINE y == AfterFailure(x, t)
  <2>3. /\ y \in Row /\ y.attempts = mine[w][r].attempts
        /\ \/ y.status = "retry_scheduled" /\ y.attempts < MaxAttempts
           \/ y.status = "failed_terminal"
        /\ y.sentAt = mine[w][r].sentAt
    BY <1>2
  <2> HIDE DEF y
  <2>4. FinishReminder(w, r, y) /\ 1 \in {0, 1} /\ 1 <= 1
    BY <2>1 DEF y
  <2>5. QED
    BY <2>2, <2>3, <2>4, FinishStep
<1>6. QED
  BY <1>3, <1>4, <1>5

(* What the end of a run does to the sessions.                             *)
LEMMA CloseFacts ==
    ASSUME TypeOK, NEW w \in Worker, CloseSession(w)
    PROVE  /\ phase'[w] = "idle" /\ age'[w] = 0 /\ todo'[w] = {}
           /\ seen'[w] = NoRows /\ mine'[w] = NoRows
           /\ \A v \in Worker \ {w} :
                 UNCHANGED <<phase[v], age[v], todo[v], seen[v], mine[v]>>
           /\ \A q \in Reminder : ~Holds(w, q)'
           /\ \A v \in Worker \ {w}, q \in Reminder :
                 Holds(v, q)' <=> Holds(v, q)
<1>1. /\ phase'[w] = "idle" /\ age'[w] = 0 /\ todo'[w] = {}
      /\ seen'[w] = NoRows /\ mine'[w] = NoRows
  BY DEF CloseSession, TypeOK
<1>2. \A v \in Worker \ {w} :
         UNCHANGED <<phase[v], age[v], todo[v], seen[v], mine[v]>>
  BY DEF CloseSession, TypeOK
<1>3. QED
  BY <1>1, <1>2 DEF Holds

(* What the commit of a run makes of a row: a held one becomes the         *)
(* session's object, another one stays, unless it is skipped.              *)
LEMMA FlushFacts ==
    ASSUME IInv, NEW w \in Worker, NEW q \in Reminder
    PROVE  /\ Holds(w, q) =>
                 /\ Flushed(w, q).status = mine[w][q].status
                 /\ Flushed(w, q).sentAt = mine[w][q].sentAt
                 /\ Flushed(w, q).attempts = row[q].attempts
           /\ ~Holds(w, q) =>
                 \/ /\ Flushed(w, q).status = row[q].status
                    /\ Flushed(w, q).sentAt = row[q].sentAt
                    /\ Flushed(w, q).attempts = row[q].attempts
                    /\ Flushed(w, q).due = row[q].due
                 \/ /\ q \in Slack
                    /\ row[q].status \in Open \cup {"skipped"}
                    /\ Flushed(w, q).status \in {row[q].status, "skipped"}
                    /\ Flushed(w, q).sentAt = row[q].sentAt
                    /\ Flushed(w, q).attempts = row[q].attempts
<1>1. row[q] \in Row /\ seen[w][q] \in Row /\ mine[w][q] \in Row /\ PairInv(w, q)
  BY DEF IInv, TypeInv, TypeOK
<1>2. CASE Holds(w, q)
  BY <1>1, <1>2 DEF PairInv, HeldInv, Flushed
<1>3. CASE ~Holds(w, q) /\ mine[w][q] = seen[w][q]
  BY <1>1, <1>3 DEF Flushed
<1>4. CASE ~Holds(w, q) /\ mine[w][q] # seen[w][q]
  <2>1. /\ q \in Slack
        /\ mine[w][q] = [seen[w][q] EXCEPT !.status = "skipped"]
        /\ row[q].status \in Open \cup {"skipped"}
    BY <1>1, <1>4 DEF PairInv, UnheldInv
  <2>2. /\ mine[w][q].status = "skipped"
        /\ mine[w][q].sentAt = seen[w][q].sentAt
        /\ mine[w][q].attempts = seen[w][q].attempts
    BY <1>1, <2>1 DEF Row
  <2>3. QED
    BY <1>4, <2>1, <2>2 DEF Flushed
<1>5. QED
  BY <1>2, <1>3, <1>4

(* The commit of a run.                                                    *)
LEMMA CommitStep ==
    ASSUME LeaseOutlivesRun, IInv, TypeInv', NEW w \in Worker, CommitRun(w)
    PROVE  IInv'
<1>1. /\ TypeOK /\ TypeOK' /\ CloseSession(w)
      /\ phase[w] = "running" /\ todo[w] = {}
      /\ UNCHANGED <<tries, emails, faults>>
      /\ \A q \in Reminder : row'[q] = Flushed(w, q)
  BY DEF IInv, TypeInv, CommitRun
<1>2. /\ \A v \in Worker \ {w} :
            UNCHANGED <<phase[v], age[v], todo[v], seen[v], mine[v]>>
      /\ \A q \in Reminder : ~Holds(w, q)'
      /\ \A v \in Worker \ {w}, q \in Reminder : Holds(v, q)' <=> Holds(v, q)
  BY <1>1, CloseFacts
<1>3. \A v \in Worker \ {w}, q \in Reminder :
         Holds(v, q) => ~Holds(w, q) /\ q \notin Slack
  BY DEF IInv, NoConcurrentClaims, PairInv, HeldInv
<1>4. NoConcurrentClaims'
  BY <1>2 DEF NoConcurrentClaims, IInv
<1>5. ASSUME NEW v \in Worker PROVE WorkerInv(v)'
  <2>1. CASE v = w
    BY <1>1, <2>1, CloseFacts, ReminderAssumption DEF WorkerInv
  <2>2. CASE v # w
    BY <1>2, <2>2 DEF IInv, WorkerInv
  <2>3. QED
    BY <2>1, <2>2
<1>6. \A q \in Reminder : Held(q)' => Held(q) /\ ~Holds(w, q)
  BY <1>2, <1>3 DEF Held
<1>7. ASSUME NEW v \in Worker, NEW q \in Reminder PROVE PairInv(v, q)'
  <2>1. CASE v = w
    <3>1. mine'[w] = NoRows /\ seen'[w] = NoRows /\ todo'[w] = {}
      BY <1>1, CloseFacts
    <3>2. QED
      BY <1>2, <2>1, <3>1 DEF PairInv, UnheldInv
  <2>2. CASE v # w
    <3>1. PairInv(v, q) /\ UNCHANGED <<phase[v], age[v], todo[v], seen[v], mine[v], emails>>
      BY <1>1, <1>2, <2>2 DEF IInv
    <3>2. CASE Holds(v, q)
      <4>1. /\ UNCHANGED <<row[q].status, row[q].sentAt, row[q].attempts, row[q].due>>
        BY <1>1, <1>3, <2>2, <3>2, FlushFacts
      <4>2. HeldInv(v, q)'
        BY <3>1, <3>2, <4>1 DEF PairInv, HeldInv
      <4>3. QED
        BY <1>2, <2>2, <3>1, <3>2, <4>2 DEF PairInv
    <3>3. CASE ~Holds(v, q)
      <4>1. UnheldInv(v, q)'
        <5>1. q \in Slack /\ row[q].status \in Open \cup {"skipped"} =>
                 row'[q].status \in Open \cup {"skipped"}
          <6>1. q \in Slack => ~Holds(w, q)
            BY DEF IInv, PairInv, HeldInv
          <6>2. QED
            BY <1>1, <6>1, FlushFacts
        <5>2. QED
          BY <3>1, <3>3, <5>1 DEF PairInv, UnheldInv
      <4>2. ASSUME q \in todo[v] PROVE TodoInv(v, q)'
        <5>1. TodoInv(v, q) /\ q \notin Slack
          BY <3>1, <3>3, <4>2 DEF PairInv
        <5>2. row'[q].attempts = row[q].attempts
          BY <1>1, FlushFacts
        <5>3. ASSUME seen[v][q].attempts = row[q].attempts
              PROVE  /\ ~Held(q)'
                     /\ UNCHANGED <<row[q].status, row[q].sentAt>>
          <6>1. ~Held(q) /\ ~Holds(w, q)
            BY <5>1, <5>3 DEF TodoInv, Held
          <6>2. QED
            BY <1>1, <1>6, <5>1, <6>1, FlushFacts
        <5>4. QED
          BY <3>1, <5>1, <5>2, <5>3 DEF TodoInv
      <4>3. QED
        BY <1>2, <2>2, <3>1, <3>3, <4>1, <4>2 DEF PairInv
    <3>4. QED
      BY <3>2, <3>3
  <2>3. QED
    BY <2>1, <2>2
<1>8. ASSUME NEW q \in Reminder PROVE RowInv(q)'
  <2>1. /\ RowInv(q) /\ row'[q].attempts = row[q].attempts
        /\ tries[q] \in Nat /\ emails[q] \in Nat /\ faults \in Nat
    BY <1>1, FlushFacts DEF IInv, TypeOK
  <2>2. \A v \in Worker : Holds(v, q)' /\ q \in todo'[v] =>
                             Holds(v, q) /\ q \in todo[v]
    BY <1>2
  <2>3. CASE Holds(w, q)
    <3>1. HeldInv(w, q) /\ ~Held(q)' /\ Held(q)
      BY <1>6, <2>3 DEF IInv, PairInv, Held
    <3>2. /\ row'[q].status = mine[w][q].status
          /\ row'[q].sentAt = mine[w][q].sentAt
      BY <1>1, <2>3, FlushFacts
    <3>3. tries[q] = mine[w][q].attempts /\ tries[q] > 0
      <4>1. seen[w][q].attempts \in Nat
        BY <1>1 DEF TypeOK, Row
      <4>2. QED
        BY <2>1, <3>1, <4>1 DEF RowInv, HeldInv
    <3>4. q \notin todo[w]
      BY <1>1
    <3>5. row'[q].sentAt = "null" => emails[q] <= faults
      <4>1. mine[w][q].sentAt = "null" => ~HeldSent(q)
        BY <2>3 DEF HeldSent, IInv, NoConcurrentClaims
      <4>2. QED
        BY <2>1, <3>1, <3>2, <4>1 DEF RowInv, HeldInv
    <3>6. row'[q].status \in Open => tries[q] <= MaxAttempts - 1 + faults
      BY <2>1, <3>1, <3>2, <3>3, <3>4, ReminderAssumption DEF HeldInv, Open
    <3>7. /\ row'[q].sentAt = "set" <=> row'[q].status = "sent"
          /\ row'[q].sentAt = "set" => emails[q] > 0
          /\ row'[q].status # "absent"
      BY <3>1, <3>2, <3>4 DEF HeldInv
    <3>8. QED
      BY <1>1, <2>1, <2>2, <3>1, <3>3, <3>5, <3>6, <3>7 DEF RowInv, HeldInv
  <2>4. CASE ~Holds(w, q)
    <3>1. /\ Held(q)' <=> Held(q)
          /\ HeldSent(q)' <=> HeldSent(q)
      BY <1>2, <2>4 DEF Held, HeldSent
    <3>2. \/ UNCHANGED <<row[q].status, row[q].sentAt>>
          \/ /\ row[q].status \in Open \cup {"skipped"}
             /\ row'[q].status \in {row[q].status, "skipped"}
             /\ UNCHANGED row[q].sentAt
      BY <1>1, <2>4, FlushFacts
    <3>3. QED
      BY <1>1, <2>1, <2>2, <3>1, <3>2 DEF RowInv, Open
  <2>5. QED
    BY <2>3, <2>4
<1>9. QED
  BY <1>1, <1>4, <1>5, <1>7, <1>8 DEF IInv

(* A crash drops a session and counts a fault.                             *)
LEMMA AbortStep ==
    ASSUME LeaseOutlivesRun, IInv, TypeInv', NEW w \in Worker, AbortRun(w)
    PROVE  IInv'
<1>1. /\ TypeOK /\ TypeOK' /\ CloseSession(w)
      /\ UNCHANGED <<row, tries, emails>>
      /\ faults' = faults + 1 /\ faults' <= MaxFaults
  BY ReminderAssumption DEF IInv, TypeInv, TypeOK, AbortRun
<1>2. /\ \A v \in Worker \ {w} :
            UNCHANGED <<phase[v], age[v], todo[v], seen[v], mine[v]>>
      /\ \A q \in Reminder : ~Holds(w, q)'
      /\ \A v \in Worker \ {w}, q \in Reminder : Holds(v, q)' <=> Holds(v, q)
  BY <1>1, CloseFacts
<1>3. NoConcurrentClaims'
  BY <1>2 DEF NoConcurrentClaims, IInv
<1>4. ASSUME NEW v \in Worker PROVE WorkerInv(v)'
  <2>1. CASE v = w
    BY <1>1, <2>1, CloseFacts, ReminderAssumption DEF WorkerInv
  <2>2. CASE v # w
    BY <1>2, <2>2 DEF IInv, WorkerInv
  <2>3. QED
    BY <2>1, <2>2
<1>5. \A q \in Reminder : (Held(q)' => Held(q)) /\ (HeldSent(q)' => HeldSent(q))
  BY <1>2 DEF Held, HeldSent
<1>6. ASSUME NEW v \in Worker, NEW q \in Reminder PROVE PairInv(v, q)'
  <2>1. CASE v = w
    <3>1. mine'[w] = NoRows /\ seen'[w] = NoRows /\ todo'[w] = {}
      BY <1>1, CloseFacts
    <3>2. QED
      BY <1>2, <2>1, <3>1 DEF PairInv, UnheldInv
  <2>2. CASE v # w
    BY <1>1, <1>2, <1>5, <2>2 DEF IInv, PairInv, HeldInv, UnheldInv, TodoInv
  <2>3. QED
    BY <2>1, <2>2
<1>7. ASSUME NEW q \in Reminder PROVE RowInv(q)'
  <2>1. /\ RowInv(q)
        /\ tries[q] \in Nat /\ emails[q] \in Nat /\ faults \in Nat
    BY <1>1 DEF IInv, TypeOK
  <2>2. \A v \in Worker : Holds(v, q)' /\ q \in todo'[v] =>
                             Holds(v, q) /\ q \in todo[v]
    BY <1>2
  <2>3. QED
    BY <1>1, <2>1, <2>2, ReminderAssumption DEF RowInv
<1>8. QED
  BY <1>1, <1>3, <1>4, <1>6, <1>7 DEF IInv

-----------------------------------------------------------------------------
(* The invariant holds initially and every step keeps it.                  *)
LEMMA InvInit == Init => IInv
<1> SUFFICES ASSUME Init PROVE IInv
    OBVIOUS
<1>1. TypeInv /\ faults <= MaxFaults
  BY TypeInit, ReminderAssumption DEF Init
<1>2. /\ \A w \in Worker, r \in Reminder : ~Holds(w, r)
      /\ \A r \in Reminder : ~Held(r) /\ ~HeldSent(r)
  BY DEF Init, Holds, Held, HeldSent
<1>3. \A w \in Worker : WorkerInv(w)
  BY ReminderAssumption DEF Init, WorkerInv
<1>4. \A w \in Worker, r \in Reminder : PairInv(w, r)
  BY <1>2 DEF Init, PairInv, UnheldInv
<1>5. \A r \in Reminder : RowInv(r)
  BY <1>2, ReminderAssumption DEF Init, RowInv, NoRows, Blank, Open
<1>6. NoConcurrentClaims
  BY <1>2 DEF NoConcurrentClaims
<1>7. QED
  BY <1>1, <1>3, <1>4, <1>5, <1>6 DEF IInv

LEMMA InvNext ==
    ASSUME LeaseOutlivesRun
    PROVE  IInv /\ [Next]_vars => IInv'
<1> SUFFICES ASSUME IInv, [Next]_vars PROVE IInv'
    OBVIOUS
<1>1. TypeInv'
  BY TypeNext DEF IInv
<1>2. CASE Tick
  BY <1>1, <1>2, TickStep
<1>3. ASSUME NEW r \in Reminder, Schedule(r) PROVE IInv'
  BY <1>1, <1>3, ScheduleStep
<1>4. ASSUME NEW w \in Worker, StartRun(w) PROVE IInv'
  BY <1>1, <1>4, QuietStep
<1>5. ASSUME NEW w \in Worker, Load(w) PROVE IInv'
  BY <1>1, <1>5, LoadStep
<1>6. ASSUME NEW w \in Worker, NEW r \in Reminder, Deliver(w, r) PROVE IInv'
  BY <1>1, <1>6, ClaimStep, QuietStep, SendStep DEF Deliver
<1>7. ASSUME NEW w \in Worker, CommitRun(w) PROVE IInv'
  BY <1>1, <1>7, CommitStep
<1>8. ASSUME NEW w \in Worker, AbortRun(w) PROVE IInv'
  BY <1>1, <1>8, AbortStep
<1>9. CASE UNCHANGED vars
  BY <1>1, <1>9
     DEF vars, IInv, NoConcurrentClaims, WorkerInv, PairInv, HeldInv, UnheldInv,
         TodoInv, RowInv, Held, HeldSent, Holds
<1>10. QED
  BY <1>2, <1>3, <1>4, <1>5, <1>6, <1>7, <1>8, <1>9 DEF Next

THEOREM Invariance ==
    ASSUME LeaseOutlivesRun
    PROVE  Spec => []IInv
BY InvInit, InvNext, PTL DEF Spec

(* If no run outlives the lease, no two runs ever work on one reminder at  *)
(* the same time: the claim of reminder_claim_service is mutual exclusion. *)
THEOREM ClaimsExclude ==
    ASSUME LeaseOutlivesRun
    PROVE  Spec => []NoConcurrentClaims
<1>1. IInv => NoConcurrentClaims
  BY DEF IInv
<1>2. QED
  BY <1>1, Invariance, PTL

(* Then no end-of-run commit takes back another run's claim.               *)
THEOREM CountsExact ==
    ASSUME LeaseOutlivesRun
    PROVE  Spec => []AttemptCountExact
<1>1. IInv => AttemptCountExact
  BY DEF IInv, RowInv, AttemptCountExact
<1>2. QED
  BY <1>1, Invariance, PTL

(* Then a second email needs a crash or a lost answer.                     *)
THEOREM OneEmail ==
    ASSUME LeaseOutlivesRun
    PROVE  Spec => []DuplicatesNeedFaults
<1>1. IInv => DuplicatesNeedFaults
  BY DEF IInv, RowInv, DuplicatesNeedFaults
<1>2. QED
  BY <1>1, Invariance, PTL

(* Then a reminder is tried max_attempts times, and once more per crash.   *)
THEOREM AttemptsBounded ==
    ASSUME LeaseOutlivesRun
    PROVE  Spec => []RetriesBounded
<1>1. IInv => RetriesBounded
  BY DEF IInv, RowInv, RetriesBounded
<1>2. QED
  BY <1>1, Invariance, PTL

(* Then the status and sent_at of a row always agree, and tell the truth.  *)
THEOREM SentIsTrue ==
    ASSUME LeaseOutlivesRun
    PROVE  Spec => []SentRowsAreSent
<1>1. IInv => SentRowsAreSent
  BY DEF IInv, RowInv, SentRowsAreSent
<1>2. QED
  BY <1>1, Invariance, PTL

-----------------------------------------------------------------------------
(* However long runs last: no session loads a reminder that has been sent, *)
(* and none has anything to write for one that is not there yet.           *)
SessionUnsent(w, r) ==
    /\ seen[w][r].sentAt = "null"
    /\ mine[w][r].status = "absent" => seen[w][r].status = "absent"

AbsentUnsent(r) ==
    row[r].status = "absent" =>
        /\ row[r].sentAt = "null"
        /\ \A w \in Worker : r \notin todo[w] /\ mine[w][r].sentAt = "null"

Unsent ==
    /\ TypeInv
    /\ \A w \in Worker, r \in Reminder : SessionUnsent(w, r)
    /\ \A r \in Reminder : AbsentUnsent(r)

LEMMA UnsentLoad ==
    ASSUME Unsent, TypeInv', NEW w \in Worker, Load(w)
    PROVE  Unsent'
<1>1. TypeOK /\ row' = row
  BY DEF Unsent, TypeInv, Load
<1>2. ASSUME NEW r \in Reminder
      PROVE  /\ SessionUnsent(w, r)'
             /\ row[r].status = "absent" => r \notin todo'[w] /\ mine'[w][r].sentAt = "null"
  <2>1. row[r] \in Row
    BY <1>1 DEF TypeOK
  <2>2. /\ \/ seen'[w][r] = Blank
           \/ Deliverable(row[r]) /\ seen'[w][r] = [row[r] EXCEPT !.due = @ + age[w]]
        /\ \/ mine'[w][r] = seen'[w][r]
           \/ mine'[w][r] = [seen'[w][r] EXCEPT !.status = "skipped"]
        /\ r \in todo'[w] => Deliverable(row[r])
    BY <1>1 DEF Load, TypeOK
  <2>3. seen'[w][r].sentAt = "null" /\ mine'[w][r].sentAt = "null"
    BY <2>1, <2>2 DEF Row, Blank, Deliverable
  <2>4. mine'[w][r].status = "absent" => seen'[w][r].status = "absent"
    BY <2>1, <2>2 DEF Row, Blank
  <2> QED
    BY <2>2, <2>3, <2>4 DEF SessionUnsent, Deliverable, Open
<1>3. \A v \in Worker \ {w} : UNCHANGED <<seen[v], mine[v], todo[v]>>
  BY <1>1 DEF Load, TypeOK
<1> QED
  BY <1>1, <1>2, <1>3 DEF Unsent, SessionUnsent, AbsentUnsent

LEMMA UnsentFinish ==
    ASSUME Unsent, TypeInv', NEW w \in Worker, NEW q \in Reminder, NEW x,
           x.status # "absent", FinishReminder(w, q, x)
    PROVE  Unsent'
<1>1. TypeOK /\ q \in todo[w] /\ UNCHANGED <<row, seen>>
  BY DEF Unsent, TypeInv, FinishReminder
<1>2. /\ mine'[w][q] = x
      /\ \A v \in Worker, r \in Reminder : v # w \/ r # q => mine'[v][r] = mine[v][r]
      /\ \A v \in Worker : todo'[v] \subseteq todo[v]
  BY <1>1 DEF FinishReminder, TypeOK
<1>3. row[q].status # "absent"
  BY <1>1 DEF Unsent, AbsentUnsent
<1> QED
  BY <1>1, <1>2, <1>3 DEF Unsent, SessionUnsent, AbsentUnsent

LEMMA UnsentClaim ==
    ASSUME Unsent, TypeInv', NEW w \in Worker, NEW q \in Reminder, Claim(w, q)
    PROVE  Unsent'
<1>1. TypeOK /\ UNCHANGED <<seen, todo>>
  BY DEF Unsent, TypeInv, Claim
<1>2. \A r \in Reminder :
         row'[r].status = row[r].status /\ row'[r].sentAt = row[r].sentAt
  BY <1>1 DEF Claim, TypeOK, Attempted
<1>3. \A v \in Worker, r \in Reminder :
         mine'[v][r].status = mine[v][r].status /\ mine'[v][r].sentAt = mine[v][r].sentAt
  BY <1>1 DEF Claim, TypeOK, Attempted
<1> QED
  BY <1>1, <1>2, <1>3 DEF Unsent, SessionUnsent, AbsentUnsent

(* A session that closes, having written its rows or not.                  *)
LEMMA UnsentClose ==
    ASSUME Unsent, TypeInv', NEW w \in Worker, CloseSession(w),
           row' = row \/ CommitRun(w)
    PROVE  Unsent'
<1>1. TypeOK
  BY DEF Unsent, TypeInv
<1>2. /\ todo'[w] = {} /\ seen'[w] = NoRows /\ mine'[w] = NoRows
      /\ \A v \in Worker \ {w} : UNCHANGED <<todo[v], seen[v], mine[v]>>
  BY <1>1, CloseFacts
<1>3. ASSUME NEW r \in Reminder, row'[r].status = "absent"
      PROVE  row'[r].sentAt = "null" /\ row[r].status = "absent"
  <2>1. SessionUnsent(w, r) /\ AbsentUnsent(r)
    BY DEF Unsent
  <2>2. CASE row' = row
    BY <1>3, <2>1, <2>2 DEF AbsentUnsent
  <2>3. CASE CommitRun(w)
    <3>1. row'[r] = Flushed(w, r)
      BY <2>3 DEF CommitRun
    <3> QED
      BY <1>3, <2>1, <3>1 DEF Flushed, SessionUnsent, AbsentUnsent
  <2> QED
    BY <2>2, <2>3
<1>4. \A v \in Worker, r \in Reminder : SessionUnsent(v, r)'
  BY <1>2 DEF Unsent, SessionUnsent, NoRows, Blank
<1>5. \A r \in Reminder : AbsentUnsent(r)'
  BY <1>2, <1>3 DEF Unsent, AbsentUnsent, NoRows, Blank
<1> QED
  BY <1>4, <1>5 DEF Unsent

LEMMA UnsentNext == Unsent /\ [Next]_vars => Unsent'
<1> SUFFICES ASSUME Unsent, [Next]_vars PROVE Unsent'
    OBVIOUS
<1>1. TypeOK /\ TypeInv'
  BY TypeNext DEF Unsent, TypeInv
<1>2. CASE Tick
  <2>1. \A r \in Reminder :
           row'[r].status = row[r].status /\ row'[r].sentAt = row[r].sentAt
    BY <1>1, <1>2 DEF Tick, TypeOK, Row
  <2> QED
    BY <1>1, <1>2, <2>1 DEF Tick, Unsent, SessionUnsent, AbsentUnsent
<1>3. ASSUME NEW q \in Reminder, Schedule(q) PROVE Unsent'
  <2>1. /\ row'[q].status = "pending"
        /\ \A r \in Reminder \ {q} : row'[r] = row[r]
        /\ UNCHANGED <<todo, seen, mine>>
    BY <1>1, <1>3 DEF Schedule, TypeOK, NewReminder
  <2> QED
    BY <1>1, <2>1 DEF Unsent, SessionUnsent, AbsentUnsent
<1>4. ASSUME NEW w \in Worker, NEW q \in Reminder, LoseClaim(w, q) PROVE Unsent'
  <2>1. UNCHANGED <<row, seen, mine>> /\ \A v \in Worker : todo'[v] \subseteq todo[v]
    BY <1>1, <1>4 DEF LoseClaim, TypeOK
  <2> QED
    BY <1>1, <2>1 DEF Unsent, SessionUnsent, AbsentUnsent
<1>5. ASSUME NEW w \in Worker, NEW q \in Reminder,
             SendOk(w, q) \/ SendFails(w, q) \/ SendAnswerLost(w, q)
      PROVE  Unsent'
  <2>1. mine[w][q] \in Row
    BY <1>1 DEF TypeOK
  <2>2. CASE SendOk(w, q)
    <3>1. AfterSuccess(mine[w][q]).status # "absent"
      BY DEF AfterSuccess
    <3> QED
      BY <1>1, <2>2, <3>1, UnsentFinish DEF SendOk
  <2>3. CASE SendFails(w, q) \/ SendAnswerLost(w, q)
    <3>1. PICK t \in BOOLEAN : FinishReminder(w, q, AfterFailure(mine[w][q], t))
      BY <2>3 DEF SendFails, SendAnswerLost
    <3>2. AfterFailure(mine[w][q], t).status # "absent"
      BY <2>1 DEF AfterFailure, Row
    <3> QED
      BY <1>1, <3>1, <3>2, UnsentFinish
  <2> QED
    BY <1>5, <2>2, <2>3
<1>6. ASSUME NEW w \in Worker, CommitRun(w) \/ AbortRun(w) PROVE Unsent'
  BY <1>1, <1>6, UnsentClose DEF CommitRun, AbortRun
<1>7. CASE UNCHANGED <<row, todo, seen, mine>>
  BY <1>1, <1>7 DEF Unsent, SessionUnsent, AbsentUnsent
<1> QED
  BY <1>1, <1>2, <1>3, <1>4, <1>5, <1>6, <1>7, UnsentLoad, UnsentClaim
     DEF Next, vars, StartRun, Deliver

(* Whatever the lease and however long runs last, no commit takes back a   *)
(* recorded sent_at: the flush writes only what the session changed.       *)
THEOREM SentForGood == Spec => SentAtStays
<1>1. Init => Unsent
  BY TypeInit DEF Init, Unsent, SessionUnsent, AbsentUnsent, NoRows, Blank
<1>2. Unsent /\ [Next]_vars => Unsent'
  BY UnsentNext
<1>3. Unsent /\ [Next]_vars
         => [\A r \in Reminder : row[r].sentAt = "set" => row'[r].sentAt = "set"]_vars
  <2> SUFFICES ASSUME Unsent, [Next]_vars, NEW r \in Reminder,
                      row[r].sentAt = "set"
               PROVE  row'[r].sentAt = "set"
      OBVIOUS
  <2>1. TypeOK /\ row[r] \in Row
    BY DEF Unsent, TypeInv, TypeOK
  <2>2. CASE Tick
    BY <2>1, <2>2 DEF Tick, Row
  <2>3. ASSUME NEW q \in Reminder, Schedule(q) PROVE row'[r].sentAt = "set"
    <3>1. q # r
      BY <2>3 DEF Schedule, Unsent, AbsentUnsent
    <3> QED
      BY <2>1, <2>3, <3>1 DEF Schedule, TypeOK
  <2>4. ASSUME NEW w \in Worker, NEW q \in Reminder, Claim(w, q)
        PROVE  row'[r].sentAt = "set"
    <3>1. q # r
      BY <2>4 DEF Claim, Claimable, Deliverable
    <3> QED
      BY <2>1, <2>4, <3>1 DEF Claim, TypeOK
  <2>5. ASSUME NEW w \in Worker, CommitRun(w) PROVE row'[r].sentAt = "set"
    <3>1. seen[w][r].sentAt = "null" /\ mine[w][r] \in Row
      BY <2>1 DEF Unsent, SessionUnsent, TypeOK
    <3>2. Flushed(w, r).sentAt = "set"
      BY <3>1 DEF Flushed, Row
    <3> QED
      BY <2>5, <3>2 DEF CommitRun
  <2>6. CASE UNCHANGED row
    BY <2>6
  <2> QED
    BY <2>2, <2>3, <2>4, <2>5, <2>6
       DEF Next, vars, StartRun, Load, Deliver, LoseClaim, SendOk, SendFails,
           SendAnswerLost, FinishReminder, AbortRun
<1> QED
  BY <1>1, <1>2, <1>3, PTL DEF Spec, SentAtStays

-----------------------------------------------------------------------------
(* Delivery implements the life of a reminder: a claim is an attempt, what *)
(* the server accepts is a mail, a run's commit settles, and the rest is   *)
(* not seen.                                                               *)
Life == [r \in Reminder |-> Outcome(r)]

(* Steps that change no status, no attempt and no email.                   *)
LEMMA SameLife ==
    ASSUME TypeOK, TypeOK', UNCHANGED <<tries, emails>>,
           \A r \in Reminder : row'[r].status = row[r].status
    PROVE  UNCHANGED Lifecycle!vars
BY DEF Lifecycle!vars, Outcome

LEMMA LifeSchedule ==
    ASSUME TypeOK, NEW r \in Reminder, Schedule(r)
    PROVE  Lifecycle!Schedule(r)
<1>1. /\ row[r].status = "absent" /\ row'[r].status = "pending"
      /\ \A q \in Reminder \ {r} : row'[q] = row[q]
      /\ UNCHANGED <<tries, emails>>
  BY DEF Schedule, TypeOK, NewReminder
<1>2. Life[r] = "absent" /\ Life' = [Life EXCEPT ![r] = "open"]
  BY <1>1 DEF Life, Outcome, Open
<1> QED
  BY <1>1, <1>2 DEF Lifecycle!Schedule, Life

LEMMA LifeClaim ==
    ASSUME LeaseOutlivesRun, IInv, NEW w \in Worker, NEW r \in Reminder,
           Claim(w, r)
    PROVE  Lifecycle!Attempt(r)
<1>1. TypeOK /\ RowInv(r) /\ faults <= MaxFaults /\ ~Held(r)
  BY ClaimUnheld DEF IInv, TypeInv
<1>2. /\ row[r].status \in Open
      /\ \A q \in Reminder : row'[q].status = row[q].status
      /\ tries' = [tries EXCEPT ![r] = @ + 1] /\ emails' = emails
  BY <1>1 DEF Claim, Claimable, Deliverable, TypeOK, Attempted
<1>3. Life[r] = "open" /\ Life' = Life
  BY <1>2 DEF Life, Outcome
<1>4. tries[r] < MaxAttempts + MaxFaults
  BY <1>1, <1>2, ReminderAssumption DEF RowInv, TypeOK
<1> QED
  BY <1>2, <1>3, <1>4 DEF Lifecycle!Attempt, Life

LEMMA LifeMail ==
    ASSUME IInv, NEW w \in Worker, NEW r \in Reminder, NEW x,
           FinishReminder(w, r, x), emails' = [emails EXCEPT ![r] = @ + 1]
    PROVE  Lifecycle!Mail(r)
<1>1. Holds(w, r) /\ r \in todo[w] /\ UNCHANGED <<row, tries>>
  BY DEF FinishReminder
<1>2. row[r].status \in Open /\ emails[r] < tries[r]
  BY <1>1 DEF IInv, PairInv, HeldInv, RowInv
<1>3. Life[r] = "open" /\ Life' = Life
  BY <1>1, <1>2 DEF Life, Outcome
<1> QED
  BY <1>1, <1>2, <1>3 DEF Lifecycle!Mail, Life

LEMMA LifeCommit ==
    ASSUME IInv, IInv', NEW w \in Worker, CommitRun(w)
    PROVE  Lifecycle!Settle
<1>1. /\ TypeOK /\ phase[w] = "running" /\ todo[w] = {}
      /\ \A q \in Reminder : row'[q] = Flushed(w, q)
      /\ UNCHANGED <<tries, emails>>
  BY DEF IInv, TypeInv, CommitRun
<1>2. ASSUME NEW r \in Reminder, Life'[r] # Life[r]
      PROVE  Life[r] = "open" /\ Lifecycle!Justified(r, Life'[r])
  <2>1. row[r] \in Row /\ mine[w][r] \in Row /\ seen[w][r] \in Row
    BY <1>1 DEF TypeOK
  <2>2. Life[r] = Outcome(r) /\ Life'[r] = Outcome(r)'
    BY DEF Life
  <2>3. CASE Holds(w, r)
    <3>1. HeldInv(w, r) /\ RowInv(r)
      BY <2>3 DEF IInv, PairInv
    <3>2. row'[r].status = mine[w][r].status /\ tries[r] > 0
      BY <1>1, <2>1, <2>3, <3>1, FlushFacts DEF HeldInv, RowInv, Row
    <3>3. mine[w][r].status \in {"sent", "retry_scheduled", "failed_terminal"}
      BY <1>1, <3>1 DEF HeldInv
    <3>4. mine[w][r].status = "sent" => emails[r] > 0
      BY <1>1, <3>1 DEF HeldInv
    <3> QED
      BY <1>2, <2>2, <3>1, <3>2, <3>3, <3>4
         DEF HeldInv, Outcome, Open, Lifecycle!Justified
  <2>4. CASE ~Holds(w, r)
    <3>1. row'[r].status # row[r].status
      BY <1>2, <2>2 DEF Outcome
    <3>2. /\ r \in Slack
          /\ row[r].status \in Open \cup {"skipped"}
          /\ row'[r].status = "skipped"
      BY <1>1, <2>4, <3>1, FlushFacts
    <3>3. tries[r] = 0
      BY <3>2 DEF IInv, RowInv
    <3> QED
      BY <2>2, <3>1, <3>2, <3>3 DEF Outcome, Open, Lifecycle!Justified
  <2> QED
    BY <2>3, <2>4
<1>3. Life' \in [Reminder -> {"absent", "open"} \cup Lifecycle!Final]
  <2>1. \A r \in Reminder : Outcome(r)' \in {"absent", "open"} \cup Settled
    BY DEF IInv, TypeInv, TypeOK, Row, Outcome, Open, Settled
  <2> QED
    BY <2>1 DEF Life, Lifecycle!Final, Settled
<1> QED
  BY <1>1, <1>2, <1>3 DEF Lifecycle!Settle, Life

(* If no run outlives the lease, overlapping workers deliver every         *)
(* reminder as ReminderLifecycle says: bounded attempts, at most one email *)
(* for each, and one outcome, final and earned.                            *)
THEOREM ImplementsLifecycle ==
    ASSUME LeaseOutlivesRun
    PROVE  Spec => LifecycleSpec
<1>1. Init => Lifecycle!Init
  BY DEF Init, Lifecycle!Init, NoRows, Blank, Outcome, Open
<1>2. IInv /\ IInv' /\ [Next]_vars => [Lifecycle!Next]_(Lifecycle!vars)
  <2> SUFFICES ASSUME IInv, IInv', [Next]_vars
               PROVE  Lifecycle!Next \/ UNCHANGED Lifecycle!vars
      OBVIOUS
  <2>1. TypeOK /\ TypeOK'
    BY DEF IInv, TypeInv
  <2>2. CASE Tick
    <3>1. \A r \in Reminder : row'[r].status = row[r].status
      BY <2>1, <2>2 DEF Tick, TypeOK, Row
    <3> QED
      BY <2>1, <2>2, <3>1, SameLife DEF Tick
  <2>3. ASSUME NEW r \in Reminder, Schedule(r) PROVE Lifecycle!Next
    BY <2>1, <2>3, LifeSchedule DEF Lifecycle!Next
  <2>4. ASSUME NEW w \in Worker, NEW r \in Reminder, Claim(w, r)
        PROVE  Lifecycle!Next
    BY <2>4, LifeClaim DEF Lifecycle!Next
  <2>5. ASSUME NEW w \in Worker, NEW r \in Reminder,
               SendOk(w, r) \/ SendAnswerLost(w, r)
        PROVE  Lifecycle!Next
    BY <2>5, LifeMail DEF SendOk, SendAnswerLost, Lifecycle!Next
  <2>6. ASSUME NEW w \in Worker, CommitRun(w) PROVE Lifecycle!Next
    BY <2>6, LifeCommit DEF Lifecycle!Next
  <2>7. CASE UNCHANGED <<row, tries, emails>>
    BY <2>1, <2>7, SameLife
  <2> QED
    BY <2>2, <2>3, <2>4, <2>5, <2>6, <2>7
       DEF Next, vars, StartRun, Load, Deliver, LoseClaim, SendFails,
           FinishReminder, AbortRun
<1> QED
  BY <1>1, <1>2, Invariance, PTL DEF Spec, LifecycleSpec, Lifecycle!Spec
=============================================================================
