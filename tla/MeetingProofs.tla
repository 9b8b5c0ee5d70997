---------------------------- MODULE MeetingProofs ----------------------------
(* Safety of the meetings of a series and of the dashboard on them, for    *)
(* any number of meetings, tasks, items, users and overlapping requests.   *)
EXTENDS Dashboard, TLAPS

-----------------------------------------------------------------------------
(* Steps of a request about one occurrence, of one about one row, of an    *)
(* invitation, of an insert of a task, and of a completion.                *)
OnOne == Steps \ {"idle", "find_links", "insert_links"}
OnRow == {"convert", "convert_done", "insert_and_finish", "finish", "reopen"}
Inviting == {"invite", "insert_link", "find_links", "insert_links"}
Inserting == {"insert_task", "insert_and_finish"}
Rolling == {"move_tasks", "lock_tasks", "move_items", "lock_items", "commit"}
Moving == Rolling \ {"commit"}

(* What a request remembers is there, and facts it has checked that never  *)
(* change back still hold.                                                 *)
FormOf(s) ==
    /\ pc[s] \in OnOne => form[s].on \in Occurrence /\ status[form[s].on] # "absent"
    /\ pc[s] \in OnRow => form[s].work \in Work /\ on[form[s].work] # None
    /\ pc[s] \in Inviting => form[s].who \in User
    /\ pc[s] \in Inserting => form[s].who \in User /\ MayBeAssigned(form[s].on, form[s].who)
    /\ pc[s] \in Inserting /\ DueInput = {} => form[s].due >= at[form[s].on]

FormInv == \A s \in Session : FormOf(s)

(* Where a completion rolls to is later, or will be when it is made, and   *)
(* is made by one session only; the rows a session has moved are its own.  *)
RollOf(s) ==
    /\ next[s] # None => pc[s] \in Rolling
    /\ pc[s] \in Moving => next[s] # None
    /\ next[s] # None =>
         IF status[next[s]] = "absent" THEN \E k \in Rule : NextInRule(at[form[s].on], k)
                                       ELSE at[next[s]] > at[form[s].on]
    /\ moved[s] # {} => pc[s] \in Rolling /\ next[s] # None
    /\ pc[s] = "move_tasks" => moved[s] = {}
    /\ \A x \in moved[s] : on[x] = form[s].on /\ x \notin done

Apart(s, v) ==
    /\ moved[s] \cap moved[v] = {}
    /\ next[s] = next[v] /\ next[s] # None => status[next[s]] # "absent"

RollInv ==
    /\ \A s \in Session : RollOf(s)
    /\ \A s, v \in Session : s # v => Apart(s, v)

(* The tables.                                                             *)
WorkIsPlaced ==
    /\ \A x \in Work : on[x] # None => status[on[x]] # "absent"
    /\ \A x \in done : on[x] # None

AssigneeIsInvited ==
    \A t \in Task : on[t] # None =>
        who[t] \in User /\ (MayBeRolled(on[t]) \/ MayBeAssigned(on[t], who[t]))

TableInv ==
    /\ WorkIsPlaced
    /\ AssigneeIsInvited
    /\ DueNotBeforeMeeting

(* While requests come one at a time, nobody changes what one remembers.   *)
AloneOf(s) ==
    /\ pc[s] \in OnOne => status[form[s].on] = "open"
    /\ pc[s] \in OnRow => on[form[s].work] = form[s].on
    /\ pc[s] = "lock_tasks" => Unfinished(form[s].on, Task) \subseteq moved[s] \cup scan[s]
    /\ pc[s] \in {"move_items", "lock_items"} => Unfinished(form[s].on, Task) \subseteq moved[s]
    /\ pc[s] = "lock_items" => Unfinished(form[s].on, Item) \subseteq moved[s] \cup scan[s]
    /\ pc[s] = "commit" /\ next[s] # None => Unfinished(form[s].on, Work) \subseteq moved[s]
    /\ next[s] # None /\ status[next[s]] = "absent" =>
         \A k \in Rule : NextInRule(at[form[s].on], k) => ~Taken(k)

AloneInv ==
    ~overlap =>
        /\ \A s, v \in Session : pc[s] # "idle" /\ pc[v] # "idle" => s = v
        /\ \A s \in Session : AloneOf(s)
        /\ OneMeetingPerTime

(* Then, of a rule that goes on, every completed meeting has a later open  *)
(* one, so that a completion never rolls into a completed one.             *)
CompletedIsFollowed == \A o \in Occurrence : status[o] = "completed" => HasNextOpen(o)

GoesOnOf(s) ==
    /\ pc[s] \in {"find_next", "ensure_next"} => RuleHasNext(at[form[s].on])
    /\ pc[s] = "ensure_next" => ~HasNextOpen(form[s].on)
    /\ pc[s] = "commit" => next[s] # None
    /\ next[s] # None => status[next[s]] # "completed"

GoesOnInv ==
    ~overlap /\ ~ends =>
        /\ CompletedIsFollowed
        /\ \A s \in Session : GoesOnOf(s)
        /\ NothingLeftBehind

MeetingInv == TypeOK /\ FormInv /\ RollInv /\ TableInv /\ AloneInv /\ GoesOnInv

-----------------------------------------------------------------------------
Forms == [on : Occurrence \cup {None}, work : Work \cup {None},
          who : User \cup {None}, due : Nat, to : SUBSET Occurrence]

(* What every request has when it starts, whatever it is about.            *)
Started(s, first, f) ==
    /\ Enter(s, first, f)
    /\ f \in Forms
    /\ first \in Steps \ (Inserting \cup Rolling \cup {"idle", "insert_link", "insert_links",
                                                       "ensure_next"})
    /\ first \in OnOne => f.on \in Occurrence /\ status[f.on] = "open"
    /\ first \in OnRow => f.work \in Work /\ on[f.work] = f.on
    /\ first \in Inviting => f.who \in User
    /\ first = "find_next" => ends \/ RuleHasNext(at[f.on])

LEMMA StartShape ==
    ASSUME TypeOK, NEW s \in Session, Start(s)
    PROVE  \E first \in Steps, f \in Forms : Started(s, first, f)
<1> USE MeetingAssumption
    DEF Begin, Started, Forms, NoForm, Steps, Inserting, Rolling, OnOne, OnRow, Inviting
<1>0. Work = Task \cup Item /\ NoForm \in Forms
  BY DEF Work
<1>1. ASSUME NEW o \in Occurrence, BeginTask(s, o)
      PROVE  \E first \in Steps, f \in Forms : Started(s, first, f)
  BY <1>1 DEF BeginTask
<1>2. ASSUME NEW o \in Occurrence, BeginItem(s, o)
      PROVE  \E first \in Steps, f \in Forms : Started(s, first, f)
  BY <1>2 DEF BeginItem
<1>3. ASSUME NEW o \in Occurrence, BeginComplete(s, o)
      PROVE  \E first \in Steps, f \in Forms : Started(s, first, f)
  BY <1>3 DEF BeginComplete
<1>4. ASSUME NEW o \in Occurrence, NEW u \in User, BeginInvite(s, o, u)
      PROVE  \E first \in Steps, f \in Forms : Started(s, first, f)
  BY <1>4 DEF BeginInvite
<1>5. ASSUME NEW u \in User, BeginInviteAll(s, u)
      PROVE  \E first \in Steps, f \in Forms : Started(s, first, f)
  BY <1>5 DEF BeginInviteAll
<1>6. ASSUME NEW x \in Work, BeginToggle(s, x)
      PROVE  \E first \in Steps, f \in Forms : Started(s, first, f)
  <2> DEFINE f == [NoForm EXCEPT !.on = on[x], !.work = x]
  <2>1. f \in Forms /\ f.on = on[x] /\ f.work = x /\ on[x] \in Occurrence
    BY <1>6 DEF BeginToggle, TypeOK
  <2>2. Started(s, "reopen", f) \/ Started(s, "finish", f)
    BY <1>6, <2>1 DEF BeginToggle
  <2>3. QED
    BY <2>1, <2>2
<1>7. ASSUME NEW i \in Item, BeginConvert(s, i)
      PROVE  \E first \in Steps, f \in Forms : Started(s, first, f)
  <2> DEFINE f == [NoForm EXCEPT !.on = on[i], !.work = i]
  <2>1. f \in Forms /\ f.on = on[i] /\ f.work = i /\ on[i] \in Occurrence /\ i \in Work
    BY <1>0, <1>7 DEF BeginConvert, TypeOK
  <2>2. Started(s, "convert_done", f) \/ Started(s, "convert", f)
    BY <1>7, <2>1 DEF BeginConvert
  <2>3. QED
    BY <2>1, <2>2
<1>8. QED
  BY <1>1, <1>2, <1>3, <1>4, <1>5, <1>6, <1>7 DEF Start

-----------------------------------------------------------------------------
LEMMA InitInv == Init => MeetingInv
<1> SUFFICES ASSUME Init PROVE MeetingInv
  OBVIOUS
<1> USE MeetingAssumption DEF Init
<1>1. TypeOK
  BY DEF TypeOK, NoForm, Steps
<1>2. FormInv
  BY DEF FormInv, FormOf, OnOne, OnRow, Inviting, Inserting
<1>3. RollInv
  BY DEF RollInv, RollOf, Apart, Rolling, Moving
<1>4. TableInv
  BY DEF TableInv, WorkIsPlaced, AssigneeIsInvited, DueNotBeforeMeeting, Work
<1>5. AloneInv
  BY DEF AloneInv, AloneOf, OneMeetingPerTime, OnOne, OnRow
<1>6. GoesOnInv
  BY DEF GoesOnInv, CompletedIsFollowed, GoesOnOf, NothingLeftBehind
<1>7. QED
  BY <1>1, <1>2, <1>3, <1>4, <1>5, <1>6 DEF MeetingInv

-----------------------------------------------------------------------------
(* A completion that is about to commit knows the time of the meeting it   *)
(* makes, and what it moves it moves to a meeting.                         *)
LEMMA NewTime ==
    ASSUME TypeOK, RollInv, NEW s \in Session, CommitRoll(s)
    PROVE  LET o == form[s].on
               n == next[s]
               k == CHOOSE j \in Rule : NextInRule(at[o], j)
           IN  /\ n # None /\ status[n] = "absent" =>
                    k \in Rule /\ NextInRule(at[o], k) /\ at'[n] = k /\ k > at[o]
               /\ \A m \in Occurrence :
                    ~(m = n /\ status[m] = "absent") => at'[m] = at[m]
               /\ at' \in [Occurrence -> Nat]
               /\ n # None => at'[n] > at[o]
               /\ moved[s] # {} => n \in Occurrence
<1> DEFINE o == form[s].on
           n == next[s]
           k == CHOOSE j \in Rule : NextInRule(at[o], j)
<1>1. ASSUME n # None, status[n] = "absent"
      PROVE  k \in Rule /\ NextInRule(at[o], k)
  <2>1. \E j \in Rule : NextInRule(at[o], j)
    BY <1>1 DEF RollInv, RollOf
  <2>2. QED
    BY <2>1
<1>2. n \in Occurrence \cup {None}
  BY DEF TypeOK
<1>3. at' = [m \in Occurrence |->
               IF m = n /\ status[m] = "absent" THEN k ELSE at[m]]
  BY DEF CommitRoll
<1>4. \A m \in Occurrence : ~(m = n /\ status[m] = "absent") => at'[m] = at[m]
  BY <1>3
<1>5. n # None /\ status[n] = "absent" => at'[n] = k /\ k > at[o]
  BY <1>1, <1>2, <1>3 DEF NextInRule
<1>6. at' \in [Occurrence -> Nat]
  <2>1. ASSUME NEW m \in Occurrence
        PROVE  at'[m] \in Nat
    BY <1>1, <1>2, <1>3, <1>4, <1>5, MeetingAssumption DEF TypeOK
  <2>2. QED
    BY <1>3, <2>1
<1>7. n # None => at'[n] > at[o]
  BY <1>2, <1>4, <1>5 DEF RollInv, RollOf
<1>8. moved[s] # {} => n \in Occurrence
  BY <1>2 DEF RollInv, RollOf
<1>9. QED
  BY <1>1, <1>4, <1>5, <1>6, <1>7, <1>8

(* A step of a bulk UPDATE, its start or the lock of one more row: what it *)
(* moves, and that no row that matches is forgotten but by a new request.  *)
UpdatePath(rows, first, then) ==
    \/ /\ rows = Task
       /\ first \in {"move_tasks", "lock_tasks"}
       /\ then \in {"lock_tasks", "move_items"}
    \/ /\ rows = Item
       /\ first \in {"move_items", "lock_items"}
       /\ then \in {"lock_items", "commit"}

Updates(s, rows, first, then) ==
    /\ UpdatePath(rows, first, then)
    /\ pc[s] = first
    /\ pc' = [pc EXCEPT ![s] = then]
    /\ UNCHANGED <<meetings, works, form, next, overlap>>
    /\ \E more \in SUBSET Unfinished(form[s].on, rows), rest \in SUBSET Work :
         /\ \A x \in more : Unlocked(s, x)
         /\ moved' = [moved EXCEPT ![s] = @ \cup more]
         /\ scan' = [scan EXCEPT ![s] = rest]
         /\ IF first \in {"move_tasks", "move_items"}
            THEN Unfinished(form[s].on, rows) \subseteq rest
            ELSE scan[s] \cap Unfinished(form[s].on, rows) \subseteq rest \cup more
         /\ then \in {"move_items", "commit"} => rest = {}

LEMMA ScanShape ==
    ASSUME TypeOK, NEW s \in Session, NEW rows \in SUBSET Work,
           NEW first \in {"move_tasks", "move_items"}, NEW locking, NEW then,
           ScanRows(s, rows, first, locking, then),
           UpdatePath(rows, first, then), UpdatePath(rows, first, locking),
           locking \notin {"move_items", "commit"}
    PROVE  Updates(s, rows, first, then) \/ Updates(s, rows, first, locking)
<1> DEFINE rest == Unfinished(form[s].on, rows)
<1>1. rest \in SUBSET Work
  BY DEF Unfinished
<1>2. scan' = [scan EXCEPT ![s] = rest] /\ scan'[s] = rest
  BY DEF ScanRows, TypeOK
<1>3. moved' = [moved EXCEPT ![s] = @ \cup {}]
  BY DEF ScanRows, TypeOK
<1>4. CASE rest = {}
  <2>1. Updates(s, rows, first, then)
    BY <1>1, <1>2, <1>3, <1>4 DEF ScanRows, Updates
  <2>2. QED
    BY <2>1
<1>5. CASE rest # {}
  <2>1. /\ pc[s] = first /\ pc' = [pc EXCEPT ![s] = locking]
        /\ UNCHANGED <<meetings, works, form, next, overlap>>
    BY <1>2, <1>5 DEF ScanRows
  <2>2. \E more \in SUBSET rest, left \in SUBSET Work :
          /\ \A x \in more : Unlocked(s, x)
          /\ moved' = [moved EXCEPT ![s] = @ \cup more]
          /\ scan' = [scan EXCEPT ![s] = left]
          /\ rest \subseteq left
    <3>1. {} \in SUBSET rest /\ \A x \in {} : Unlocked(s, x)
      OBVIOUS
    <3>2. QED
      BY <1>1, <1>2, <1>3, <3>1
  <2>3. Updates(s, rows, first, locking)
    BY <2>1, <2>2 DEF Updates
  <2>4. QED
    BY <2>3
<1>6. QED
  BY <1>4, <1>5

LEMMA MoveShape ==
    ASSUME TypeOK, NEW s \in Session, NEW rows \in SUBSET Work,
           NEW first \in {"lock_tasks", "lock_items"}, NEW then, NEW x \in rows,
           MoveRow(s, x, first, then),
           UpdatePath(rows, first, then), UpdatePath(rows, first, first)
    PROVE  Updates(s, rows, first, then) \/ Updates(s, rows, first, first)
<1> DEFINE rest == scan[s] \ {x}
           more == Unfinished(form[s].on, {x})
<1>1. rest \in SUBSET Work /\ more \in SUBSET Unfinished(form[s].on, rows)
  BY DEF Unfinished, TypeOK
<1>2. scan' = [scan EXCEPT ![s] = rest] /\ scan'[s] = rest
  BY DEF MoveRow, TypeOK
<1>3. scan[s] \cap Unfinished(form[s].on, rows) \subseteq rest \cup more
  BY DEF Unfinished
<1>4. \A y \in more : Unlocked(s, y)
  BY DEF MoveRow, Unfinished
<1>5. moved' = [moved EXCEPT ![s] = @ \cup more]
  BY DEF MoveRow
<1>6. QED
  BY <1>1, <1>2, <1>3, <1>4, <1>5 DEF MoveRow, Updates

LEMMA UpdateCases ==
    ASSUME TypeOK, NEW s \in Session,
           \/ ScanTasks(s) \/ ScanItems(s)
           \/ \E t \in Task : MoveTask(s, t)
           \/ \E i \in Item : MoveItem(s, i)
    PROVE  \E rows \in SUBSET Work, first, then \in Steps : Updates(s, rows, first, then)
<1>1. /\ Task \in SUBSET Work /\ Item \in SUBSET Work
      /\ {"move_tasks", "lock_tasks", "move_items", "lock_items", "commit"} \subseteq Steps
  BY DEF Work, Steps
<1>2. CASE ScanTasks(s)
  BY <1>1, <1>2, ScanShape DEF ScanTasks, UpdatePath
<1>3. CASE ScanItems(s)
  BY <1>1, <1>3, ScanShape DEF ScanItems, UpdatePath
<1>4. ASSUME NEW t \in Task, MoveTask(s, t)
      PROVE  \E rows \in SUBSET Work, first, then \in Steps : Updates(s, rows, first, then)
  BY <1>1, <1>4, MoveShape DEF MoveTask, UpdatePath
<1>5. ASSUME NEW i \in Item, MoveItem(s, i)
      PROVE  \E rows \in SUBSET Work, first, then \in Steps : Updates(s, rows, first, then)
  BY <1>1, <1>5, MoveShape DEF MoveItem, UpdatePath
<1>6. QED
  BY <1>2, <1>3, <1>4, <1>5

(* The ways a request goes on.                                             *)
LEMMA Cases ==
    ASSUME TypeOK, NEW s \in Session, Continue(s) \/ Abort(s)
    PROVE  \/ EndRequest(s) /\ UNCHANGED <<meetings, works>>
           \/ \E first, then \in Steps, dates \in SUBSET Nat :
                 Prepare(s, first, then, dates)
                 /\ <<first, then>> \in {<<"task", "insert_task">>,
                       <<"convert", "insert_and_finish">>, <<"convert_done", "insert_task">>}
                 /\ dates \subseteq DueInput \cup Defaults(s)
           \/ \E t \in Task : InsertTask(s, t) \/ InsertAndFinish(s, t)
           \/ \E i \in Item : InsertItem(s, i)
           \/ Toggle(s)
           \/ LookForLink(s) \/ InsertLink(s) \/ FindLinks(s) \/ InsertLinks(s)
           \/ FindNext(s) \/ EnsureNext(s)
           \/ \E rows \in SUBSET Work, first, then \in Steps : Updates(s, rows, first, then)
           \/ CommitRoll(s)
<1>1. Defaults(s) \subseteq Nat
  BY DEF Defaults, TypeOK
<1>2. ASSUME PrepareTask(s) \/ PrepareConvert(s)
      PROVE  \E first, then \in Steps, dates \in SUBSET Nat :
                 Prepare(s, first, then, dates)
                 /\ <<first, then>> \in {<<"task", "insert_task">>,
                       <<"convert", "insert_and_finish">>, <<"convert_done", "insert_task">>}
                 /\ dates \subseteq DueInput \cup Defaults(s)
  BY <1>1, <1>2, MeetingAssumption DEF PrepareTask, PrepareConvert, Steps
<1>3. QED
  BY <1>2, UpdateCases DEF Continue, Abort, FindLink, TableFull

LEMMA RollToCases ==
    ASSUME TypeOK, NEW s \in Session, FindNext(s) \/ EnsureNext(s)
    PROVE  \E n \in Occurrence \cup {None}, then \in Steps : RollTo(s, n, then)
BY DEF FindNext, EnsureNext, Steps

(* Types: a request that ends, and one that goes on.                       *)
LEMMA EndType ==
    ASSUME TypeOK, NEW s \in Session, EndRequest(s)
    PROVE  /\ pc' \in [Session -> Steps]
           /\ form' \in [Session -> Forms]
           /\ next' \in [Session -> Occurrence \cup {None}]
           /\ scan' \in [Session -> SUBSET Work]
           /\ moved' \in [Session -> SUBSET Work]
           /\ overlap' \in BOOLEAN
<1>1. NoForm \in Forms
  BY DEF NoForm, Forms
<1>2. QED
  BY <1>1 DEF TypeOK, EndRequest, Steps, Forms

LEMMA TypeStep ==
    ASSUME TypeOK, FormInv, RollInv, [Next]_vars
    PROVE  TypeOK'
<1> USE DEF Forms, meetings, works, rolls
<1>1. CASE UNCHANGED vars
  BY <1>1 DEF vars, TypeOK
<1>2. CASE CreateSeries
  <2>1. PICK new \in SUBSET Occurrence \ {{}}, invited \in SUBSET User :
          link' = new \X (invited \cup {Owner})
          /\ at' \in [Occurrence -> Rule \cup {0}]
          /\ status' = [o \in Occurrence |-> IF o \in new THEN "open" ELSE "absent"]
    BY <1>2 DEF CreateSeries
  <2>2. link' \subseteq Occurrence \X (User \cup {Owner})
    BY <2>1
  <2>3. at' \in [Occurrence -> Nat]
    <3>1. Rule \cup {0} \subseteq Nat
      BY MeetingAssumption
    <3>2. at' = [o \in Occurrence |-> at'[o]]
          /\ \A o \in Occurrence : at'[o] \in Rule \cup {0}
      BY <2>1
    <3>3. QED
      BY <3>1, <3>2
  <2>4. status' \in [Occurrence -> {"absent", "open", "completed"}] /\ ends' \in BOOLEAN
    BY <1>2, <2>1, MeetingAssumption DEF CreateSeries
  <2>5. QED
    BY <1>2, <2>2, <2>3, <2>4 DEF CreateSeries, TypeOK
<1>3. ASSUME NEW o \in Occurrence, AddByHand(o)
      PROVE  TypeOK'
  BY <1>3, MeetingAssumption DEF AddByHand, TypeOK
<1>4. ASSUME NEW s \in Session, Start(s)
      PROVE  TypeOK'
  <2>1. PICK first \in Steps, f \in Forms : Started(s, first, f)
    BY <1>4, StartShape
  <2>2. QED
    BY <2>1 DEF Started, Enter, TypeOK
<1>5. ASSUME NEW s \in Session, EndRequest(s), UNCHANGED <<meetings, works>>
      PROVE  TypeOK'
  BY <1>5, EndType DEF TypeOK
<1>6. ASSUME NEW s \in Session, NEW first \in Steps, NEW then \in Steps,
             NEW dates \in SUBSET Nat, Prepare(s, first, then, dates)
      PROVE  TypeOK'
  <2>2. PICK u \in User, d \in dates : form' = [form EXCEPT ![s] = [@ EXCEPT !.who = u, !.due = d]]
    BY <1>6 DEF Prepare
  <2>1. form[s] \in Forms /\ d \in Nat
    BY <2>2 DEF TypeOK
  <2>3. [form[s] EXCEPT !.who = u, !.due = d] \in Forms
    BY <2>1
  <2>4. form' \in [Session -> Forms]
    BY <2>2, <2>3 DEF TypeOK
  <2>5. QED
    BY <1>6, <2>4 DEF Prepare, TypeOK
<1>7. ASSUME NEW s \in Session, NEW t \in Task, InsertTask(s, t) \/ InsertAndFinish(s, t)
      PROVE  TypeOK'
  <2>1. on' \in [Work -> Occurrence \cup {None}] /\ due' \in [Task -> Nat]
        /\ who' \in [Task -> User \cup {None}]
    BY <1>7 DEF InsertTask, InsertAndFinish, NewTask, TypeOK
  <2>2. done' \subseteq Work /\ EndRequest(s) /\ UNCHANGED meetings
    <3>1. CASE InsertTask(s, t)
      BY <3>1 DEF InsertTask, TypeOK
    <3>2. CASE InsertAndFinish(s, t)
      BY <3>2 DEF InsertAndFinish, TypeOK, FormInv, FormOf, OnRow
    <3>3. QED
      BY <1>7, <3>1, <3>2
  <2>3. QED
    BY <2>1, <2>2, EndType DEF TypeOK
<1>8. ASSUME NEW s \in Session, NEW i \in Item, InsertItem(s, i)
      PROVE  TypeOK'
  BY <1>8, EndType DEF InsertItem, TypeOK
<1>9. ASSUME NEW s \in Session, Toggle(s)
      PROVE  TypeOK'
  BY <1>9, EndType DEF Toggle, TypeOK, FormInv, FormOf, OnRow
<1>10. ASSUME NEW s \in Session, LookForLink(s)
       PROVE  TypeOK'
  BY <1>10 DEF LookForLink, TypeOK, Steps
<1>11. ASSUME NEW s \in Session, InsertLink(s)
       PROVE  TypeOK'
  <2>1. form[s].on \in Occurrence /\ form[s].who \in User
    BY <1>11 DEF InsertLink, FormInv, FormOf, OnOne, Inviting, Steps
  <2>2. link' \subseteq Occurrence \X (User \cup {Owner})
    BY <1>11, <2>1 DEF InsertLink, TypeOK
  <2>3. QED
    BY <1>11, <2>2, EndType DEF InsertLink, TypeOK
<1>12. ASSUME NEW s \in Session, FindLinks(s)
       PROVE  TypeOK'
  BY <1>12 DEF FindLinks, TypeOK, Steps
<1>13. ASSUME NEW s \in Session, InsertLinks(s)
       PROVE  TypeOK'
  <2>1. form[s].to \subseteq Occurrence /\ form[s].who \in User
    BY <1>13 DEF InsertLinks, FormInv, FormOf, Inviting, TypeOK
  <2>2. link' \subseteq Occurrence \X (User \cup {Owner})
    BY <1>13, <2>1 DEF InsertLinks, TypeOK
  <2>3. QED
    BY <1>13, <2>2, EndType DEF InsertLinks, TypeOK
<1>14. ASSUME NEW s \in Session, NEW n \in Occurrence \cup {None}, NEW then \in Steps,
              RollTo(s, n, then)
       PROVE  TypeOK'
  BY <1>14 DEF RollTo, TypeOK
<1>15. ASSUME NEW s \in Session, NEW rows \in SUBSET Work, NEW first \in Steps,
              NEW then \in Steps, Updates(s, rows, first, then)
       PROVE  TypeOK'
  <2>1. PICK more \in SUBSET Unfinished(form[s].on, rows), rest \in SUBSET Work :
          /\ moved' = [moved EXCEPT ![s] = @ \cup more]
          /\ scan' = [scan EXCEPT ![s] = rest]
    BY <1>15 DEF Updates
  <2>2. moved' \in [Session -> SUBSET Work] /\ scan' \in [Session -> SUBSET Work]
    BY <2>1 DEF TypeOK, Unfinished
  <2>3. QED
    BY <1>15, <2>2 DEF Updates, TypeOK
<1>16. ASSUME NEW s \in Session, CommitRoll(s)
       PROVE  TypeOK'
  <2>1. at' \in [Occurrence -> Nat] /\ (moved[s] # {} => next[s] \in Occurrence)
        /\ next[s] \in Occurrence \cup {None}
    BY <1>16, NewTime DEF TypeOK
  <2>2. due' = [t \in Task |-> IF t \in moved[s] THEN at'[next[s]] ELSE due[t]]
    BY <1>16 DEF CommitRoll, DueOnceMoved
  <2>3. due' \in [Task -> Nat]
    BY <2>1, <2>2 DEF TypeOK
  <2>4. on' \in [Work -> Occurrence \cup {None}]
    BY <1>16, <2>1 DEF CommitRoll, TypeOK
  <2>5. status' \in [Occurrence -> {"absent", "open", "completed"}]
    BY <1>16 DEF CommitRoll, TypeOK
  <2>6. EndRequest(s) /\ UNCHANGED <<ends, link, done, who>>
    BY <1>16 DEF CommitRoll
  <2>7. QED
    BY <2>1, <2>3, <2>4, <2>5, <2>6, EndType DEF TypeOK
<1>17. ASSUME NEW s \in Session, Continue(s) \/ Abort(s)
       PROVE  TypeOK'
  BY <1>5, <1>6, <1>7, <1>8, <1>9, <1>10, <1>11, <1>12, <1>13, <1>14, <1>15, <1>16,
     <1>17, Cases, RollToCases
<1>18. QED
  BY <1>1, <1>2, <1>3, <1>4, <1>17 DEF Next

-----------------------------------------------------------------------------
(* What a step leaves: a meeting stays at its time, completed if it is, a  *)
(* link stays.                                                             *)
Kept(o) ==
    /\ status'[o] # "absent"
    /\ at'[o] = at[o]
    /\ status[o] = "completed" => status'[o] = "completed"
    /\ \A u \in User \cup {Owner} : <<o, u>> \in link => <<o, u>> \in link'

LEMMA Stable ==
    ASSUME TypeOK, RollInv, [Next]_vars,
           NEW o \in Occurrence, status[o] # "absent"
    PROVE  Kept(o)
<1> USE DEF Kept, meetings, works, rolls
<1>1. CASE UNCHANGED vars
  BY <1>1 DEF vars
<1>2. CASE CreateSeries
  BY <1>2 DEF CreateSeries
<1>3. ASSUME NEW m \in Occurrence, AddByHand(m)
      PROVE  Kept(o)
  BY <1>3 DEF AddByHand, Unused, TypeOK
<1>4. ASSUME NEW s \in Session, Start(s)
      PROVE  Kept(o)
  <2>1. PICK first \in Steps, f \in Forms : Started(s, first, f)
    BY <1>4, StartShape
  <2>2. QED
    BY <2>1 DEF Started, Enter
<1>5. ASSUME NEW s \in Session, CommitRoll(s)
      PROVE  Kept(o)
  <2>1. at'[o] = at[o]
    BY <1>5, NewTime
  <2>2. QED
    BY <1>5, <2>1 DEF CommitRoll, TypeOK
<1>6. ASSUME NEW s \in Session, Continue(s) \/ Abort(s)
      PROVE  Kept(o)
  <2>1. ASSUME UNCHANGED <<status, at>>, link \subseteq link'
        PROVE  Kept(o)
    BY <2>1
  <2>2. QED
    BY <1>5, <1>6, <2>1, Cases
    DEF Prepare, InsertTask, InsertAndFinish, InsertItem, Toggle, LookForLink, InsertLink,
        FindLinks, InsertLinks, FindNext, EnsureNext, RollTo, Updates
<1>7. QED
  BY <1>1, <1>2, <1>3, <1>4, <1>6 DEF Next

(* A step of session s leaves what the others hold.                        *)
Elsewhere(s) ==
    \A v \in Session \ {s} :
        /\ pc'[v] = pc[v]
        /\ form'[v] = form[v]
        /\ next'[v] = next[v]
        /\ moved'[v] = moved[v]

LEMMA Others ==
    ASSUME TypeOK, NEW s \in Session, Start(s) \/ Continue(s) \/ Abort(s)
    PROVE  Elsewhere(s)
<1> USE DEF Elsewhere, TypeOK, rolls
<1>1. ASSUME Start(s)
      PROVE  Elsewhere(s)
  <2>1. PICK first \in Steps, f \in Forms : Started(s, first, f)
    BY <1>1, StartShape
  <2>2. QED
    BY <2>1 DEF Started, Enter
<1>2. ASSUME EndRequest(s)
      PROVE  Elsewhere(s)
  BY <1>2 DEF EndRequest
<1>3. ASSUME NEW first \in Steps, NEW then \in Steps, NEW dates \in SUBSET Nat,
             Prepare(s, first, then, dates)
      PROVE  Elsewhere(s)
  BY <1>3 DEF Prepare
<1>4. ASSUME FindLinks(s)
      PROVE  Elsewhere(s)
  BY <1>4 DEF FindLinks
<1>5. ASSUME NEW n \in Occurrence \cup {None}, NEW then \in Steps, RollTo(s, n, then)
      PROVE  Elsewhere(s)
  BY <1>5 DEF RollTo
<1>6. ASSUME NEW rows \in SUBSET Work, NEW first \in Steps, NEW then \in Steps,
             Updates(s, rows, first, then)
      PROVE  Elsewhere(s)
  BY <1>6 DEF Updates
<1>7. ASSUME LookForLink(s)
      PROVE  Elsewhere(s)
  BY <1>7 DEF LookForLink
<1>8. ASSUME Continue(s) \/ Abort(s)
      PROVE  Elsewhere(s)
  BY <1>2, <1>3, <1>4, <1>5, <1>6, <1>7, <1>8, Cases, RollToCases
  DEF InsertTask, InsertAndFinish, InsertItem, Toggle, InsertLink, InsertLinks, CommitRoll
<1>9. QED
  BY <1>1, <1>8

-----------------------------------------------------------------------------
(* How a row is where it is after a step: as before, inserted, or moved.   *)
Stays(x) == on'[x] = on[x] /\ (x \in Task => who'[x] = who[x] /\ due'[x] = due[x])

Inserted(s, x) ==
    /\ on[x] = None
    /\ \/ x \in Task /\ (InsertTask(s, x) \/ InsertAndFinish(s, x))
       \/ x \in Item /\ InsertItem(s, x)

Rolled(s, x) == CommitRoll(s) /\ x \in moved[s]

LEMMA RowSteps ==
    ASSUME TypeOK, [Next]_vars, NEW x \in Work
    PROVE  Stays(x) \/ \E s \in Session : Inserted(s, x) \/ Rolled(s, x)
<1> USE DEF meetings, works, rolls, Stays
<1>1. CASE UNCHANGED works
  BY <1>1
<1>2. ASSUME NEW s \in Session, Start(s)
      PROVE  Stays(x)
  <2>1. PICK first \in Steps, f \in Forms : Started(s, first, f)
    BY <1>2, StartShape
  <2>2. QED
    BY <2>1 DEF Started, Enter
<1>3. ASSUME NEW s \in Session, NEW t \in Task, InsertTask(s, t) \/ InsertAndFinish(s, t)
      PROVE  Stays(x) \/ Inserted(s, x)
  <2>1. CASE x = t
    BY <1>3, <2>1 DEF Inserted, InsertTask, InsertAndFinish, NewTask
  <2>2. CASE x # t
    BY <1>3, <2>2 DEF InsertTask, InsertAndFinish, NewTask, TypeOK
  <2>3. QED
    BY <2>1, <2>2
<1>4. ASSUME NEW s \in Session, NEW i \in Item, InsertItem(s, i)
      PROVE  Stays(x) \/ Inserted(s, x)
  <2>1. CASE x = i
    BY <1>4, <2>1 DEF Inserted, InsertItem
  <2>2. CASE x # i
    BY <1>4, <2>2 DEF InsertItem, TypeOK
  <2>3. QED
    BY <2>1, <2>2
<1>5. ASSUME NEW s \in Session, CommitRoll(s)
      PROVE  Stays(x) \/ Rolled(s, x)
  BY <1>5 DEF Rolled, CommitRoll, DueOnceMoved
<1>6. ASSUME NEW s \in Session, Continue(s) \/ Abort(s)
      PROVE  Stays(x) \/ Inserted(s, x) \/ Rolled(s, x)
  BY <1>1, <1>3, <1>4, <1>5, <1>6, Cases
  DEF Prepare, Toggle, LookForLink, InsertLink, FindLinks, InsertLinks, FindNext,
      EnsureNext, RollTo, Updates
<1>7. QED
  BY <1>1, <1>2, <1>6 DEF Next, vars, CreateSeries, AddByHand

LEMMA PlacedKept ==
    ASSUME TypeOK, RollInv, [Next]_vars, NEW x \in Work, on[x] # None
    PROVE  on'[x] # None
<1>1. ASSUME NEW s \in Session, Rolled(s, x)
      PROVE  on'[x] # None
  BY <1>1 DEF Rolled, CommitRoll, RollInv, RollOf
<1>2. QED
  BY <1>1, RowSteps DEF Stays, Inserted

-----------------------------------------------------------------------------
(* A request that is not the one that steps keeps what it has checked.     *)
LEMMA FormElsewhere ==
    ASSUME TypeOK, FormInv, RollInv, [Next]_vars, NEW v \in Session,
           pc'[v] = pc[v], form'[v] = form[v]
    PROVE  FormOf(v)'
<1>1. FormOf(v)
  BY DEF FormInv
<1>2. pc[v] \in OnOne => Kept(form[v].on)
  BY <1>1, Stable DEF FormOf
<1>3. Inserting \subseteq OnOne
  BY DEF Inserting, OnOne, Steps
<1>4. \A u \in User : pc[v] \in OnOne /\ MayBeAssigned(form[v].on, u)
                          => MayBeAssigned(form[v].on, u)'
  BY <1>1, <1>2 DEF MayBeAssigned, Kept, FormOf
<1>5. pc[v] \in OnRow => form[v].work \in Work /\ on'[form[v].work] # None
  BY <1>1, PlacedKept DEF FormOf
<1>6. QED
  BY <1>1, <1>2, <1>3, <1>4, <1>5 DEF FormOf, Kept

LEMMA FormStep ==
    ASSUME TypeOK, FormInv, RollInv, [Next]_vars
    PROVE  FormInv'
<1> USE DEF meetings, works, rolls
<1>1. CASE UNCHANGED <<pc, form>>
  BY <1>1, FormElsewhere DEF FormInv
<1>2. ASSUME NEW s \in Session, Start(s) \/ Continue(s) \/ Abort(s), FormOf(s)'
      PROVE  FormInv'
  BY <1>2, FormElsewhere, Others DEF FormInv, Elsewhere
<1>3. ASSUME NEW s \in Session, Start(s)
      PROVE  FormOf(s)'
  <2>1. PICK first \in Steps, f \in Forms : Started(s, first, f)
    BY <1>3, StartShape
  <2>2. pc'[s] = first /\ form'[s] = f /\ UNCHANGED <<status, at, link, on>>
    BY <2>1 DEF Started, Enter, TypeOK
  <2>3. first \in OnRow => on[f.work] # None
    BY <2>1, MeetingAssumption DEF Started, OnRow, OnOne, Steps
  <2>4. QED
    BY <2>1, <2>2, <2>3 DEF Started, FormOf, Inserting, Rolling
<1>4. ASSUME NEW s \in Session, EndRequest(s)
      PROVE  FormOf(s)'
  <2>1. pc'[s] = "idle"
    BY <1>4 DEF EndRequest, TypeOK
  <2>2. QED
    BY <2>1 DEF FormOf, OnOne, OnRow, Inviting, Inserting
<1>5. ASSUME NEW s \in Session, NEW first \in Steps, NEW then \in Steps,
             NEW dates \in SUBSET Nat, Prepare(s, first, then, dates),
             <<first, then>> \in {<<"task", "insert_task">>,
                 <<"convert", "insert_and_finish">>, <<"convert_done", "insert_task">>},
             dates \subseteq DueInput \cup Defaults(s)
      PROVE  FormOf(s)'
  <2>1. PICK u \in User, d \in dates :
          /\ MayBeAssigned(form[s].on, u)
          /\ form' = [form EXCEPT ![s] = [@ EXCEPT !.who = u, !.due = d]]
    BY <1>5 DEF Prepare
  <2>2. pc[s] = first /\ pc'[s] = then /\ UNCHANGED <<status, at, link, on>>
    BY <1>5 DEF Prepare, TypeOK
  <2>3. /\ form'[s].on = form[s].on
        /\ form'[s].work = form[s].work
        /\ form'[s].who = u
        /\ form'[s].due = d
    BY <2>1 DEF TypeOK
  <2>4. form[s].on \in Occurrence /\ status[form[s].on] # "absent"
    BY <1>5, <2>2 DEF FormInv, FormOf, OnOne, Steps
  <2>5. DueInput = {} => d >= at[form[s].on]
    <3>1. ASSUME d \in Defaults(s)
          PROVE  d >= at[form[s].on]
      BY <2>4, <3>1 DEF Defaults, DefaultDue, IsNextOpen, TypeOK
    <3>2. QED
      BY <1>5, <3>1
  <2>6. then \in OnRow => form[s].work \in Work /\ on[form[s].work] # None
    BY <1>5, <2>2 DEF FormInv, FormOf, OnRow
  <2>7. MayBeAssigned(form[s].on, u)'
    BY <2>1, <2>2 DEF MayBeAssigned
  <2>8. then \notin Inviting
    BY <1>5 DEF Inviting
  <2>9. MayBeAssigned(form[s].on, form[s].who)'
    BY <2>3, <2>7 DEF MayBeAssigned
  <2>10. QED
    BY <2>2, <2>3, <2>4, <2>5, <2>6, <2>8, <2>9 DEF FormOf
<1>6. ASSUME NEW s \in Session, LookForLink(s)
      PROVE  FormOf(s)'
  BY <1>6 DEF LookForLink, FormInv, FormOf, TypeOK, OnOne, OnRow, Inviting, Inserting, Steps
<1>7. ASSUME NEW s \in Session, FindLinks(s)
      PROVE  FormOf(s)'
  BY <1>7 DEF FindLinks, FormInv, FormOf, TypeOK, OnOne, OnRow, Inviting, Inserting, Steps
<1>8. ASSUME NEW s \in Session, UNCHANGED <<status, form>>, pc'[s] \in Rolling \cup {"ensure_next"},
             pc[s] \in Rolling \cup {"find_next", "ensure_next"}
      PROVE  FormOf(s)'
  BY <1>8 DEF FormInv, FormOf, TypeOK, OnOne, OnRow, Inviting, Inserting, Rolling, Steps
<1>9. ASSUME NEW s \in Session, FindNext(s) \/ EnsureNext(s)
      PROVE  FormOf(s)'
  BY <1>8, <1>9 DEF FindNext, EnsureNext, RollTo, TypeOK, Rolling
<1>10. ASSUME NEW s \in Session, NEW rows \in SUBSET Work, NEW first \in Steps,
              NEW then \in Steps, Updates(s, rows, first, then)
       PROVE  FormOf(s)'
  <2>1. pc[s] = first /\ pc'[s] = then /\ UNCHANGED <<status, form>>
    BY <1>10 DEF Updates, TypeOK
  <2>2. first \in Rolling /\ then \in Rolling
    BY <1>10 DEF Updates, UpdatePath, Rolling
  <2>3. QED
    BY <1>8, <2>1, <2>2
<1>11. ASSUME NEW s \in Session, Continue(s) \/ Abort(s)
       PROVE  FormOf(s)'
  BY <1>4, <1>5, <1>6, <1>7, <1>9, <1>10, <1>11, Cases
  DEF InsertTask, InsertAndFinish, InsertItem, Toggle, InsertLink, InsertLinks, CommitRoll
<1>12. QED
  BY <1>1, <1>2, <1>3, <1>11 DEF Next, vars, CreateSeries, AddByHand

-----------------------------------------------------------------------------
(* A step leaves a completion of another session what it has found and     *)
(* the rows it has locked.                                                 *)
LEMMA RollKept ==
    ASSUME TypeOK, FormInv, RollInv, [Next]_vars, NEW v \in Session,
           pc'[v] = pc[v], form'[v] = form[v], next'[v] = next[v], moved'[v] = moved[v],
           \A x \in moved[v] : on'[x] = on[x] /\ x \notin done',
           next[v] # None /\ status[next[v]] = "absent" => status'[next[v]] = "absent"
    PROVE  RollOf(v)'
<1>1. RollOf(v) /\ FormOf(v)
  BY DEF RollInv, FormInv
<1>2. next[v] # None => Kept(form[v].on)
  BY <1>1, Stable DEF RollOf, FormOf, Rolling, OnOne, Steps
<1>3. next[v] # None /\ status[next[v]] # "absent" => Kept(next[v])
  BY Stable DEF TypeOK
<1>4. next[v] # None =>
         IF status'[next[v]] = "absent"
         THEN \E k \in Rule : NextInRule(at'[form[v].on], k)
         ELSE at'[next[v]] > at'[form[v].on]
  <2>1. CASE status[next[v]] = "absent"
    BY <1>1, <1>2, <2>1 DEF RollOf, Kept
  <2>2. CASE status[next[v]] # "absent"
    BY <1>1, <1>2, <1>3, <2>2 DEF RollOf, Kept
  <2>3. QED
    BY <2>1, <2>2
<1>5. QED
  BY <1>1, <1>4 DEF RollOf, NextInRule

(* Rows locked by another session wait for its commit.                     *)
LEMMA RowsKept ==
    ASSUME TypeOK, FormInv, RollInv, NEW s \in Session,
           Start(s) \/ Continue(s) \/ Abort(s),
           NEW v \in Session \ {s}, NEW x \in moved[v]
    PROVE  on'[x] = on[x] /\ x \notin done'
<1> USE DEF meetings, works, rolls, EndRequest
<1>1. RollOf(v) /\ FormOf(v) /\ Apart(s, v)
  BY DEF RollInv, FormInv
<1>2. on[x] # None /\ x \notin done /\ x \in Work /\ x \notin moved[s]
  <2>1. form[v].on \in Occurrence
    BY <1>1 DEF RollOf, FormOf, OnOne, Rolling, Steps
  <2>2. QED
    BY <1>1, <2>1, MeetingAssumption DEF RollOf, Apart, TypeOK
<1>3. ASSUME UNCHANGED <<on, done>>
      PROVE  on'[x] = on[x] /\ x \notin done'
  BY <1>2, <1>3
<1>4. ASSUME Start(s)
      PROVE  on'[x] = on[x] /\ x \notin done'
  <2>1. PICK first \in Steps, f \in Forms : Started(s, first, f)
    BY <1>4, StartShape
  <2>2. QED
    BY <1>3, <2>1 DEF Started, Enter
<1>5. ASSUME NEW t \in Task, InsertTask(s, t) \/ InsertAndFinish(s, t)
      PROVE  on'[x] = on[x] /\ x \notin done'
  BY <1>2, <1>5 DEF InsertTask, InsertAndFinish, NewTask, Unlocked, TypeOK
<1>6. ASSUME NEW i \in Item, InsertItem(s, i)
      PROVE  on'[x] = on[x] /\ x \notin done'
  BY <1>2, <1>6 DEF InsertItem, TypeOK
<1>7. ASSUME Toggle(s)
      PROVE  on'[x] = on[x] /\ x \notin done'
  BY <1>2, <1>7 DEF Toggle, Unlocked
<1>8. ASSUME CommitRoll(s)
      PROVE  on'[x] = on[x] /\ x \notin done'
  BY <1>2, <1>8 DEF CommitRoll
<1>9. ASSUME Continue(s) \/ Abort(s)
      PROVE  on'[x] = on[x] /\ x \notin done'
  BY <1>3, <1>5, <1>6, <1>7, <1>8, <1>9, Cases
  DEF Prepare, LookForLink, InsertLink, FindLinks, InsertLinks, FindNext, EnsureNext,
      RollTo, Updates
<1>10. QED
  BY <1>4, <1>9

(* A meeting one session is making stays its own until it commits.         *)
LEMMA FreshKept ==
    ASSUME TypeOK, FormInv, NEW s \in Session,
           Start(s) \/ Continue(s) \/ Abort(s),
           NEW o \in Occurrence, status[o] = "absent", status'[o] # "absent"
    PROVE  next[s] = o /\ CommitRoll(s)
<1> USE DEF meetings, works, rolls
<1>1. ASSUME Start(s)
      PROVE  FALSE
  <2>1. PICK first \in Steps, f \in Forms : Started(s, first, f)
    BY <1>1, StartShape
  <2>2. QED
    BY <2>1 DEF Started, Enter
<1>2. ASSUME Continue(s) \/ Abort(s)
      PROVE  CommitRoll(s)
  BY <1>2, Cases
  DEF Prepare, InsertTask, InsertAndFinish, InsertItem, Toggle, LookForLink, InsertLink,
      FindLinks, InsertLinks, FindNext, EnsureNext, RollTo, Updates
<1>3. CommitRoll(s)
  BY <1>1, <1>2
<1>4. form[s].on # o
  BY <1>3 DEF CommitRoll, FormInv, FormOf, OnOne, Steps
<1>5. QED
  BY <1>3, <1>4 DEF CommitRoll, TypeOK

(* A request that has ended holds nothing.                                 *)
LEMMA Released ==
    ASSUME TypeOK, NEW s \in Session, EndRequest(s)
    PROVE  pc'[s] = "idle" /\ next'[s] = None /\ moved'[s] = {} /\ RollOf(s)'
<1>1. pc'[s] = "idle" /\ next'[s] = None /\ moved'[s] = {}
  BY DEF EndRequest, TypeOK
<1>2. QED
  BY <1>1 DEF RollOf, Rolling, Moving

(* How the session that steps changes what it holds itself.                *)
LEMMA RollOwn ==
    ASSUME TypeOK, FormInv, RollInv, NEW s \in Session,
           Start(s) \/ Continue(s) \/ Abort(s)
    PROVE  /\ RollOf(s)'
           /\ \A v \in Session \ {s} : moved'[s] \cap moved[v] = {}
           /\ next'[s] # None =>
                \/ next'[s] = next[s] /\ UNCHANGED status
                \/ status'[next'[s]] # "absent"
                \/ \A v \in Session : next[v] # next'[s]
<1> DEFINE Own == /\ RollOf(s)'
                  /\ \A v \in Session \ {s} : moved'[s] \cap moved[v] = {}
                  /\ next'[s] # None =>
                       \/ next'[s] = next[s] /\ UNCHANGED status
                       \/ status'[next'[s]] # "absent"
                       \/ \A v \in Session : next[v] # next'[s]
<1> USE DEF meetings, works, rolls
<1>0. /\ RollOf(s) /\ FormOf(s)
      /\ \A v \in Session \ {s} : moved[s] \cap moved[v] = {}
  BY DEF RollInv, FormInv, Apart
<1>1. ASSUME EndRequest(s)
      PROVE  Own
  BY <1>1, Released
<1>2. ASSUME Start(s)
      PROVE  Own
  <2>1. PICK first \in Steps, f \in Forms : Started(s, first, f)
    BY <1>2, StartShape
  <2>2. pc[s] = "idle" /\ pc'[s] = first /\ UNCHANGED <<meetings, works, rolls>>
    BY <2>1 DEF Started, Enter, TypeOK
  <2>3. next[s] = None /\ moved[s] = {}
    BY <1>0, <2>2 DEF RollOf, Rolling
  <2>4. first \notin Rolling
    BY <2>1 DEF Started
  <2>5. QED
    BY <1>0, <2>2, <2>3, <2>4 DEF RollOf, Rolling, Moving
<1>3. ASSUME UNCHANGED <<meetings, works, rolls>>, pc[s] \notin Rolling, pc'[s] \notin Rolling
      PROVE  Own
  <2>1. next[s] = None /\ moved[s] = {}
    BY <1>0, <1>3 DEF RollOf, Rolling
  <2>2. QED
    BY <1>0, <1>3, <2>1 DEF RollOf, Rolling, Moving
<1>4. ASSUME NEW first \in Steps, NEW then \in Steps, NEW dates \in SUBSET Nat,
             Prepare(s, first, then, dates),
             <<first, then>> \in {<<"task", "insert_task">>,
                 <<"convert", "insert_and_finish">>, <<"convert_done", "insert_task">>}
      PROVE  Own
  BY <1>3, <1>4 DEF Prepare, Rolling, TypeOK
<1>5. ASSUME LookForLink(s) \/ FindLinks(s)
      PROVE  Own
  BY <1>3, <1>5 DEF LookForLink, FindLinks, Rolling, TypeOK
<1>6. ASSUME NEW n \in Occurrence \cup {None}, NEW then \in Steps, RollTo(s, n, then),
             pc[s] \notin Rolling, then \in Rolling \cup {"ensure_next"},
             n = None => then \in {"ensure_next", "commit"},
             n # None =>
               /\ then = "move_tasks"
               /\ IF status[n] = "absent"
                  THEN Unused(n) /\ \E k \in Rule : NextInRule(at[form[s].on], k)
                  ELSE at[n] > at[form[s].on]
      PROVE  Own
  <2>1. /\ next'[s] = n /\ pc'[s] = then /\ form' = form
        /\ UNCHANGED <<meetings, works, moved>>
    BY <1>6 DEF RollTo, TypeOK
  <2>2. moved[s] = {}
    BY <1>0, <1>6 DEF RollOf, Rolling
  <2>3. RollOf(s)'
    BY <1>6, <2>1, <2>2 DEF RollOf, NextInRule, Rolling, Moving
  <2>4. n # None /\ status[n] = "absent" => \A v \in Session : next[v] # n
    BY <1>6 DEF Unused
  <2>5. QED
    BY <1>0, <2>1, <2>2, <2>3, <2>4
<1>7. ASSUME FindNext(s)
      PROVE  Own
  <2>1. PICK n \in Occurrence \cup {None}, then \in Steps :
          /\ RollTo(s, n, then) /\ pc[s] = "find_next"
          /\ \/ n \in Occurrence /\ IsNextOpen(form[s].on, n) /\ then = "move_tasks"
             \/ n = None /\ then \in {"ensure_next", "commit"}
    BY <1>7 DEF FindNext, Steps
  <2>2. QED
    BY <1>6, <2>1, MeetingAssumption DEF IsNextOpen, Rolling
<1>8. ASSUME EnsureNext(s)
      PROVE  Own
  <2>1. PICK k \in Rule, n \in Occurrence :
          /\ NextInRule(at[form[s].on], k)
          /\ IF Taken(k) THEN status[n] # "absent" /\ at[n] = k ELSE Unused(n)
          /\ RollTo(s, n, "move_tasks")
    BY <1>8 DEF EnsureNext
  <2>2. pc[s] = "ensure_next" /\ n # None /\ "move_tasks" \in Steps
    BY <1>8, MeetingAssumption DEF EnsureNext, Steps
  <2>3. IF status[n] = "absent"
        THEN Unused(n) /\ \E j \in Rule : NextInRule(at[form[s].on], j)
        ELSE at[n] > at[form[s].on]
    BY <2>1 DEF Unused, NextInRule
  <2>4. QED
    BY <1>6, <2>1, <2>2, <2>3 DEF Rolling
<1>9. ASSUME NEW rows \in SUBSET Work, NEW first \in Steps, NEW then \in Steps,
             Updates(s, rows, first, then)
      PROVE  Own
  <2>1. PICK more \in SUBSET Unfinished(form[s].on, rows) :
          /\ \A x \in more : Unlocked(s, x)
          /\ moved' = [moved EXCEPT ![s] = @ \cup more]
    BY <1>9 DEF Updates
  <2>2. /\ pc[s] = first /\ pc'[s] = then /\ form' = form /\ next' = next
        /\ UNCHANGED <<meetings, works>>
        /\ moved'[s] = moved[s] \cup more
    BY <1>9, <2>1 DEF Updates, TypeOK
  <2>3. first \in Moving /\ then \in Rolling /\ then # "move_tasks"
    BY <1>9 DEF Updates, UpdatePath, Moving, Rolling
  <2>4. next[s] # None
    BY <1>0, <2>2, <2>3 DEF RollOf
  <2>5. \A x \in more : on[x] = form[s].on /\ x \notin done
    BY DEF Unfinished
  <2>6. RollOf(s)'
    BY <1>0, <2>2, <2>3, <2>4, <2>5 DEF RollOf, NextInRule
  <2>7. \A v \in Session \ {s} : moved'[s] \cap moved[v] = {}
    BY <1>0, <2>1, <2>2 DEF Unlocked
  <2>8. QED
    BY <2>2, <2>6, <2>7
<1>10. ASSUME Continue(s) \/ Abort(s)
       PROVE  Own
  BY <1>1, <1>4, <1>5, <1>7, <1>8, <1>9, <1>10, Cases
  DEF InsertTask, InsertAndFinish, InsertItem, Toggle, InsertLink, InsertLinks, CommitRoll
<1>11. QED
  BY <1>2, <1>10

LEMMA RollStep ==
    ASSUME TypeOK, FormInv, RollInv, [Next]_vars
    PROVE  RollInv'
<1> USE DEF meetings, works, rolls
<1>1. CASE UNCHANGED vars
  BY <1>1 DEF vars, RollInv, RollOf, Apart, NextInRule
<1>2. ASSUME UNCHANGED <<pc, form, rolls, works>>,
             \A v \in Session : next[v] # None /\ status[next[v]] = "absent"
                                    => status'[next[v]] = "absent"
      PROVE  RollInv'
  <2>1. \A v \in Session : RollOf(v)'
    <3>1. ASSUME NEW v \in Session
          PROVE  RollOf(v)'
      <4>1. \A x \in moved[v] : on'[x] = on[x] /\ x \notin done'
        BY <1>2 DEF RollInv, RollOf
      <4>2. QED
        BY <1>2, <4>1, RollKept
    <3>2. QED
      BY <3>1
  <2>2. \A v \in Session : next[v] # None /\ status[next[v]] # "absent"
                               => status'[next[v]] # "absent"
    BY Stable DEF Kept, TypeOK
  <2>3. QED
    BY <1>2, <2>1, <2>2 DEF RollInv, Apart
<1>3. CASE CreateSeries
  <2>1. \A v \in Session : next[v] = None
    BY <1>3 DEF CreateSeries, RollInv, RollOf, FormInv, FormOf, Rolling, OnOne, Steps
  <2>2. QED
    BY <1>2, <1>3, <2>1 DEF CreateSeries
<1>4. ASSUME NEW o \in Occurrence, AddByHand(o)
      PROVE  RollInv'
  BY <1>2, <1>4 DEF AddByHand, Unused, TypeOK
<1>5. ASSUME NEW s \in Session, Start(s) \/ Continue(s) \/ Abort(s)
      PROVE  RollInv'
  <2>1. Elsewhere(s)
    BY <1>5, Others
  <2>2. ASSUME NEW v \in Session \ {s}
        PROVE  RollOf(v)' /\ Apart(s, v)' /\ Apart(v, s)'
    <3>1. Apart(s, v) /\ RollOf(v)
      BY DEF RollInv
    <3>2. \A x \in moved[v] : on'[x] = on[x] /\ x \notin done'
      BY <1>5, RowsKept
    <3>3. next[v] # None /\ status[next[v]] = "absent" => status'[next[v]] = "absent"
      <4>1. ASSUME next[v] # None, status[next[v]] = "absent", status'[next[v]] # "absent"
            PROVE  FALSE
        <5>1. next[s] = next[v]
          BY <1>5, <4>1, FreshKept DEF TypeOK
        <5>2. QED
          BY <3>1, <4>1, <5>1 DEF Apart
      <4>2. QED
        BY <4>1
    <3>4. /\ pc'[v] = pc[v] /\ form'[v] = form[v]
          /\ next'[v] = next[v] /\ moved'[v] = moved[v]
      BY <2>1 DEF Elsewhere
    <3>5. RollOf(v)'
      BY <3>2, <3>3, <3>4, RollKept
    <3>6. moved'[s] \cap moved'[v] = {}
      BY <1>5, <3>4, RollOwn
    <3>7. next'[s] = next'[v] /\ next'[s] # None => status'[next'[s]] # "absent"
      <4>1. ASSUME next'[s] = next[v], next'[s] # None, status'[next[v]] = "absent"
            PROVE  FALSE
        <5>1. \/ next'[s] = next[s] /\ UNCHANGED status
              \/ \A w \in Session : next[w] # next'[s]
          BY <1>5, <4>1, RollOwn
        <5>2. QED
          BY <3>1, <4>1, <5>1 DEF Apart
      <4>2. QED
        BY <3>4, <4>1
    <3>8. QED
      BY <3>5, <3>6, <3>7 DEF Apart
  <2>3. RollOf(s)'
    BY <1>5, RollOwn
  <2>4. \A v, w \in Session : v # w /\ v # s /\ w # s => Apart(v, w)'
    <3>1. ASSUME NEW v \in Session \ {s}, NEW w \in Session \ {s}, v # w
          PROVE  Apart(v, w)'
      <4>1. Apart(v, w)
        BY <3>1 DEF RollInv
      <4>2. next[v] # None /\ status[next[v]] # "absent" => status'[next[v]] # "absent"
        BY Stable DEF Kept, TypeOK
      <4>3. QED
        BY <2>1, <4>1, <4>2 DEF Apart, Elsewhere
    <3>2. QED
      BY <3>1
  <2>5. QED
    BY <2>2, <2>3, <2>4 DEF RollInv
<1>6. QED
  BY <1>1, <1>3, <1>4, <1>5 DEF Next

-----------------------------------------------------------------------------
(* Only a request about a row ticks it off.                                *)
LEMMA DoneSteps ==
    ASSUME TypeOK, [Next]_vars, NEW x \in done', x \notin done
    PROVE  \E s \in Session : pc[s] \in OnRow /\ x = form[s].work
<1> USE DEF meetings, works, rolls
<1>1. ASSUME NEW s \in Session, Start(s)
      PROVE  FALSE
  <2>1. PICK first \in Steps, f \in Forms : Started(s, first, f)
    BY <1>1, StartShape
  <2>2. QED
    BY <2>1 DEF Started, Enter
<1>2. ASSUME NEW s \in Session, Continue(s) \/ Abort(s)
      PROVE  pc[s] \in OnRow /\ x = form[s].work
  BY <1>2, Cases
  DEF Prepare, InsertTask, InsertAndFinish, InsertItem, Toggle, LookForLink, InsertLink,
      FindLinks, InsertLinks, FindNext, EnsureNext, RollTo, Updates, CommitRoll, OnRow
<1>3. QED
  BY <1>1, <1>2 DEF Next, vars, CreateSeries, AddByHand

(* Where a completion moves rows: to a later meeting than the one it       *)
(* completes, which the step makes if it was not there.                    *)
LEMMA RollTarget ==
    ASSUME TypeOK, FormInv, RollInv, [Next]_vars,
           NEW s \in Session, CommitRoll(s), NEW n \in Occurrence, next[s] = n
    PROVE  LET o == form[s].on
           IN  /\ o \in Occurrence /\ Kept(o)
               /\ status'[o] = "completed" /\ status'[n] # "absent"
               /\ at'[n] > at'[o]
               /\ MayBeRolled(n)'
               /\ \A x \in moved[s] : on[x] = o /\ on'[x] = n
               /\ \A t \in moved[s] \cap Task : due'[t] = at'[n] /\ who'[t] = who[t]
<1> DEFINE o == form[s].on
<1>1. o \in Occurrence /\ status[o] # "absent" /\ n # None
  BY MeetingAssumption DEF CommitRoll, FormInv, FormOf, OnOne, Steps, TypeOK
<1>2. Kept(o) /\ at'[n] > at'[o]
  BY <1>1, NewTime, Stable DEF Kept
<1>3. status'[o] = "completed" /\ status'[n] # "absent"
  BY <1>1 DEF CommitRoll, TypeOK
<1>4. MayBeRolled(n)'
  BY <1>1, <1>2, <1>3 DEF MayBeRolled
<1>5. \A x \in moved[s] : x \in Work /\ on[x] = o /\ on'[x] = n
  BY DEF CommitRoll, RollInv, RollOf, TypeOK
<1>6. \A t \in moved[s] \cap Task : due'[t] = at'[n] /\ who'[t] = who[t]
  BY DEF CommitRoll, DueOnceMoved
<1>7. QED
  BY <1>1, <1>2, <1>3, <1>4, <1>5, <1>6

LEMMA RolledKept ==
    ASSUME TypeOK, RollInv, [Next]_vars,
           NEW o \in Occurrence, status[o] # "absent", MayBeRolled(o)
    PROVE  MayBeRolled(o)'
<1>1. PICK m \in Occurrence : status[m] = "completed" /\ at[m] < at[o]
  BY DEF MayBeRolled
<1>2. Kept(o) /\ Kept(m)
  BY <1>1, Stable
<1>3. QED
  BY <1>1, <1>2 DEF Kept, MayBeRolled

LEMMA TableStep ==
    ASSUME TypeOK, FormInv, RollInv, TableInv, [Next]_vars
    PROVE  TableInv'
<1>1. ASSUME NEW x \in Work, Stays(x), on[x] # None
      PROVE  /\ on[x] \in Occurrence /\ on'[x] = on[x] /\ Kept(on[x])
             /\ MayBeRolled(on[x]) => MayBeRolled(on[x])'
             /\ \A u \in User : MayBeAssigned(on[x], u) => MayBeAssigned(on[x], u)'
  <2>1. on[x] \in Occurrence /\ status[on[x]] # "absent"
    BY <1>1 DEF TableInv, WorkIsPlaced, TypeOK
  <2>2. Kept(on[x])
    BY <2>1, Stable
  <2>3. QED
    BY <1>1, <2>1, <2>2, RolledKept DEF Stays, Kept, MayBeAssigned
<1>2. ASSUME NEW x \in Work, NEW s \in Session, Inserted(s, x)
      PROVE  /\ on'[x] = form[s].on /\ form[s].on \in Occurrence /\ Kept(form[s].on)
             /\ x \in Task => /\ pc[s] \in Inserting
                              /\ who'[x] = form[s].who /\ due'[x] = form[s].due
                              /\ link' = link
  <2>1. on'[x] = form[s].on /\ pc[s] \in Inserting \cup {"insert_item"}
    BY <1>2 DEF Inserted, InsertTask, InsertAndFinish, InsertItem, NewTask, TypeOK, Inserting
  <2>2. form[s].on \in Occurrence /\ status[form[s].on] # "absent"
    BY <2>1 DEF FormInv, FormOf, Inserting, OnOne, Steps
  <2>3. Kept(form[s].on)
    BY <2>2, Stable
  <2>4. x \in Task => InsertTask(s, x) \/ InsertAndFinish(s, x)
    BY <1>2, MeetingAssumption DEF Inserted
  <2>5. x \in Task => /\ pc[s] \in Inserting
                      /\ who'[x] = form[s].who /\ due'[x] = form[s].due
                      /\ link' = link
    BY <2>4 DEF InsertTask, InsertAndFinish, NewTask, TypeOK, Inserting, meetings
  <2>6. QED
    BY <2>1, <2>2, <2>3, <2>5
<1>3. ASSUME NEW x \in Work, NEW s \in Session, Rolled(s, x)
      PROVE  CommitRoll(s) /\ x \in moved[s] /\ next[s] \in Occurrence
  BY <1>3 DEF Rolled, RollInv, RollOf, TypeOK
<1>4. WorkIsPlaced'
  <2>0. ASSUME NEW x \in done'
        PROVE  x \in Work /\ on'[x] # None
    <3>1. x \in Work
      BY <2>0, TypeStep DEF TypeOK
    <3>2. CASE x \in done
      BY <3>1, <3>2, PlacedKept DEF TableInv, WorkIsPlaced
    <3>3. ASSUME NEW s \in Session, pc[s] \in OnRow, x = form[s].work
          PROVE  on'[x] # None
      BY <3>1, <3>3, PlacedKept DEF FormInv, FormOf
    <3>4. QED
      BY <2>0, <3>1, <3>2, <3>3, DoneSteps
  <2>1. ASSUME NEW x \in Work, on'[x] # None
        PROVE  status'[on'[x]] # "absent"
    <3>1. CASE Stays(x)
      BY <1>1, <2>1, <3>1 DEF Stays, Kept
    <3>2. ASSUME NEW s \in Session, Inserted(s, x)
          PROVE  status'[on'[x]] # "absent"
      BY <1>2, <3>2 DEF Kept
    <3>3. ASSUME NEW s \in Session, Rolled(s, x)
          PROVE  status'[on'[x]] # "absent"
      BY <1>3, <3>3, RollTarget
    <3>4. QED
      BY <3>1, <3>2, <3>3, RowSteps
  <2>2. QED
    BY <2>0, <2>1 DEF WorkIsPlaced
<1>5. AssigneeIsInvited'
  <2> DEFINE Known(t) == who[t] \in User /\ (MayBeRolled(on[t]) \/ MayBeAssigned(on[t], who[t]))
  <2>1. ASSUME NEW t \in Task, on'[t] # None
        PROVE  /\ who'[t] \in User
               /\ MayBeRolled(on[t])' \/ MayBeAssigned(on[t], who[t])'
    <3>0. t \in Work
      BY DEF Work
    <3>1. CASE Stays(t)
      <4>1. on[t] # None /\ who'[t] = who[t]
        BY <2>1, <3>1 DEF Stays
      <4>2. Known(t)
        BY <4>1 DEF TableInv, AssigneeIsInvited
      <4>3. on'[t] = on[t] /\ (MayBeRolled(on[t]) => MayBeRolled(on[t])')
        BY <1>1, <3>0, <3>1, <4>1
      <4>4. MayBeAssigned(on[t], who[t]) => MayBeAssigned(on[t], who[t])'
        BY <1>1, <3>0, <3>1, <4>1, <4>2, <4>3 DEF MayBeAssigned
      <4>5. QED
        BY <4>1, <4>2, <4>3, <4>4
    <3>2. ASSUME NEW s \in Session, Inserted(s, t)
          PROVE  who'[t] \in User /\ MayBeAssigned(on[t], who[t])'
      <4>1. form[s].who \in User /\ MayBeAssigned(form[s].on, form[s].who)
        BY <1>2, <3>0, <3>2 DEF FormInv, FormOf
      <4>2. QED
        BY <1>2, <3>0, <3>2, <4>1 DEF MayBeAssigned
    <3>3. ASSUME NEW s \in Session, Rolled(s, t)
          PROVE  who'[t] \in User /\ MayBeRolled(on[t])'
      <4>1. PICK n \in Occurrence : next[s] = n
        BY <1>3, <3>0, <3>3
      <4>2. on[t] \in Occurrence /\ on'[t] = n /\ who'[t] = who[t] /\ MayBeRolled(n)'
        BY <1>3, <3>0, <3>3, <4>1, RollTarget
      <4>3. who[t] \in User
        BY <4>2, MeetingAssumption DEF TableInv, AssigneeIsInvited
      <4>4. QED
        BY <4>2, <4>3 DEF MayBeRolled
    <3>4. QED
      BY <3>0, <3>1, <3>2, <3>3, RowSteps
  <2>2. QED
    BY <2>1 DEF AssigneeIsInvited
<1>6. DueNotBeforeMeeting'
  <2>1. ASSUME DueInput = {}, NEW t \in Task, on'[t] # None
        PROVE  due'[t] >= at'[on'[t]]
    <3>0. t \in Work
      BY DEF Work
    <3>1. CASE Stays(t)
      <4>1. due[t] >= at[on[t]]
        BY <2>1, <3>1 DEF Stays, TableInv, DueNotBeforeMeeting
      <4>2. QED
        BY <1>1, <2>1, <3>0, <3>1, <4>1 DEF Stays, Kept
    <3>2. ASSUME NEW s \in Session, Inserted(s, t)
          PROVE  due'[t] >= at'[on'[t]]
      BY <1>2, <2>1, <3>0, <3>2 DEF FormInv, FormOf, Kept
    <3>3. ASSUME NEW s \in Session, Rolled(s, t)
          PROVE  due'[t] >= at'[on'[t]]
      <4>1. due'[t] = at'[next[s]] /\ on'[t] = next[s] /\ next[s] \in Occurrence
        BY <1>3, <3>0, <3>3, RollTarget
      <4>2. at'[next[s]] \in Nat
        BY <4>1, TypeStep DEF TypeOK
      <4>3. QED
        BY <4>1, <4>2
    <3>4. QED
      BY <3>0, <3>1, <3>2, <3>3, RowSteps
  <2>2. QED
    BY <2>1 DEF DueNotBeforeMeeting
<1>7. QED
  BY <1>4, <1>5, <1>6 DEF TableInv

-----------------------------------------------------------------------------
(* While no two requests have overlapped: the session that steps is the    *)
(* only one, and the others hold nothing.                                  *)
Alone(s) ==
    /\ ~overlap
    /\ \A v \in Session \ {s} : pc[v] = "idle" /\ pc'[v] = "idle" /\ next'[v] = None

LEMMA StepsAlone ==
    ASSUME TypeOK, RollInv, AloneInv, ~overlap', NEW s \in Session,
           Start(s) \/ Continue(s) \/ Abort(s)
    PROVE  Alone(s)
<1> USE DEF meetings, works, rolls
<1>1. Elsewhere(s)
  BY Others
<1>2. \A v \in Session : pc[v] = "idle" => next[v] = None
  BY DEF RollInv, RollOf, Rolling
<1>3. ~overlap /\ \A v \in Session \ {s} : pc[v] = "idle"
  <2>1. CASE Start(s)
    <3>1. PICK first \in Steps, f \in Forms : Started(s, first, f)
      BY <2>1, StartShape
    <3>2. QED
      BY <3>1 DEF Started, Enter, Quiet
  <2>2. CASE Continue(s) \/ Abort(s)
    <3>1. pc[s] # "idle"
      BY <2>2
      DEF Continue, Abort, PrepareTask, PrepareConvert, Prepare, InsertTask,
          InsertAndFinish, InsertItem, Toggle, LookForLink, FindLink, InsertLink, FindLinks,
          InsertLinks, FindNext, EnsureNext, ScanTasks, ScanItems, ScanRows, MoveTask,
          MoveItem, MoveRow, CommitRoll, TableFull
    <3>2. overlap' = overlap
      BY <2>2, Cases
      DEF Prepare, InsertTask, InsertAndFinish, InsertItem, Toggle, LookForLink, InsertLink,
          FindLinks, InsertLinks, FindNext, EnsureNext, RollTo, Updates, CommitRoll, EndRequest
    <3>3. QED
      BY <3>1, <3>2 DEF AloneInv
  <2>3. QED
    BY <2>1, <2>2
<1>4. QED
  BY <1>1, <1>2, <1>3 DEF Alone, Elsewhere

LEMMA IdleAlone ==
    ASSUME TypeOK, NEW v \in Session, pc[v] = "idle", next[v] = None
    PROVE  AloneOf(v) /\ GoesOnOf(v)
BY DEF AloneOf, GoesOnOf, OnOne, OnRow

LEMMA AloneStep ==
    ASSUME TypeOK, FormInv, RollInv, AloneInv, [Next]_vars
    PROVE  AloneInv'
<1> USE DEF meetings, works, rolls
<1> SUFFICES ASSUME ~overlap' PROVE AloneInv'
  BY DEF AloneInv
<1>0. TypeOK' /\ RollInv'
  BY TypeStep, RollStep
<1>1. CASE UNCHANGED vars
  BY <1>1 DEF vars, AloneInv, AloneOf, OneMeetingPerTime, Unfinished, NextInRule, Taken
<1>2. CASE CreateSeries
  <2>1. \A v \in Session : pc[v] \notin OnOne /\ next[v] = None /\ UNCHANGED <<pc, form, rolls, overlap>>
    BY <1>2 DEF CreateSeries, FormInv, FormOf, RollInv, RollOf, Rolling, OnOne, Steps
  <2>2. \A v \in Session : AloneOf(v)'
    BY <2>1 DEF AloneOf, OnOne, OnRow, Steps
  <2>3. OneMeetingPerTime'
    BY <1>2 DEF CreateSeries, OneMeetingPerTime
  <2>4. QED
    BY <2>1, <2>2, <2>3 DEF AloneInv
<1>3. ASSUME NEW o \in Occurrence, AddByHand(o)
      PROVE  AloneInv'
  <2>1. ~overlap /\ UNCHANGED <<pc, form, rolls>> /\ \A v \in Session : pc[v] = "idle"
    BY <1>3 DEF AddByHand, Quiet
  <2>2. \A v \in Session : next'[v] = None
    BY <1>0, <2>1 DEF RollInv, RollOf, Rolling
  <2>3. \A v \in Session : AloneOf(v)'
    BY <2>1, <2>2 DEF AloneOf, OnOne, OnRow
  <2>4. OneMeetingPerTime'
    <3>1. at'[o] \in ByHand
      BY <1>3 DEF AddByHand, TypeOK
    <3>2. \A m \in Occurrence : m # o => at'[m] = at[m] /\ status'[m] = status[m]
      BY <1>3 DEF AddByHand, TypeOK
    <3>3. QED
      BY <2>1, <3>1, <3>2 DEF OneMeetingPerTime, AloneInv
  <2>5. QED
    BY <2>1, <2>3, <2>4 DEF AloneInv
<1>4. ASSUME NEW s \in Session, Start(s) \/ Continue(s) \/ Abort(s),
             AloneOf(s)', OneMeetingPerTime'
      PROVE  AloneInv'
  <2>1. Alone(s)
    BY <1>4, StepsAlone
  <2>2. \A v \in Session \ {s} : AloneOf(v)'
    BY <2>1 DEF Alone, AloneOf, OnOne, OnRow
  <2>3. QED
    BY <1>4, <2>1, <2>2 DEF Alone, AloneInv
<1>5. ASSUME NEW s \in Session, Start(s)
      PROVE  AloneOf(s)' /\ OneMeetingPerTime'
  <2>1. PICK first \in Steps, f \in Forms : Started(s, first, f)
    BY <1>5, StartShape
  <2>2. /\ pc[s] = "idle" /\ pc'[s] = first /\ form'[s] = f
        /\ UNCHANGED <<meetings, works, rolls>>
    BY <2>1 DEF Started, Enter, TypeOK
  <2>3. next[s] = None
    BY <2>2 DEF RollInv, RollOf, Rolling
  <2>4. AloneOf(s)'
    BY <2>1, <2>2, <2>3 DEF AloneOf, Started, Rolling
  <2>5. Alone(s)
    BY <1>5, StepsAlone
  <2>6. QED
    BY <2>2, <2>4, <2>5 DEF Alone, AloneInv, OneMeetingPerTime
<1>6. ASSUME NEW s \in Session, Continue(s) \/ Abort(s)
      PROVE  AloneOf(s)' /\ OneMeetingPerTime'
  <2>0. Alone(s) /\ AloneOf(s) /\ OneMeetingPerTime
    BY <1>6, StepsAlone DEF Alone, AloneInv
  <2>1. ASSUME UNCHANGED <<status, at>>
        PROVE  OneMeetingPerTime'
    BY <2>0, <2>1 DEF Alone, OneMeetingPerTime
  <2>2. ASSUME EndRequest(s)
        PROVE  AloneOf(s)'
    <3>1. pc'[s] = "idle" /\ next'[s] = None
      BY <2>2, Released
    <3>2. QED
      BY <3>1 DEF AloneOf, OnOne, OnRow
  <2>3. ASSUME EndRequest(s), UNCHANGED <<status, at>>
        PROVE  AloneOf(s)' /\ OneMeetingPerTime'
    BY <2>1, <2>2, <2>3
  <2>4. ASSUME UNCHANGED <<meetings, works, rolls>>, pc[s] \notin Rolling, pc'[s] \notin Rolling,
               pc'[s] \in OnOne => pc[s] \in OnOne, pc'[s] \in OnRow => pc[s] \in OnRow,
               form'[s].on = form[s].on, form'[s].work = form[s].work
        PROVE  AloneOf(s)' /\ OneMeetingPerTime'
    <3>1. next[s] = None
      BY <2>4 DEF RollInv, RollOf
    <3>2. QED
      BY <2>0, <2>1, <2>4, <3>1 DEF AloneOf, Rolling
  <2>5. ASSUME NEW first \in Steps, NEW then \in Steps, NEW dates \in SUBSET Nat,
               Prepare(s, first, then, dates),
               <<first, then>> \in {<<"task", "insert_task">>,
                   <<"convert", "insert_and_finish">>, <<"convert_done", "insert_task">>}
        PROVE  AloneOf(s)' /\ OneMeetingPerTime'
    <3>1. form'[s].on = form[s].on /\ form'[s].work = form[s].work
      <4>1. PICK u \in User, d \in dates : form' = [form EXCEPT ![s] = [@ EXCEPT !.who = u, !.due = d]]
        BY <2>5 DEF Prepare
      <4>2. QED
        BY <4>1 DEF TypeOK
    <3>2. pc[s] = first /\ pc'[s] = then /\ UNCHANGED <<meetings, works, rolls>>
      BY <2>5 DEF Prepare, TypeOK
    <3>3. QED
      BY <2>4, <2>5, <3>1, <3>2 DEF Rolling, OnOne, OnRow, Steps
  <2>6. ASSUME LookForLink(s) \/ FindLinks(s)
        PROVE  AloneOf(s)' /\ OneMeetingPerTime'
    BY <2>4, <2>6 DEF LookForLink, FindLinks, TypeOK, Rolling, OnOne, OnRow, Steps
  <2>7. ASSUME NEW n \in Occurrence \cup {None}, NEW then \in Steps, RollTo(s, n, then),
               pc[s] \in {"find_next", "ensure_next"},
               then \in {"ensure_next", "move_tasks", "commit"},
               n # None /\ status[n] = "absent" =>
                 \A k \in Rule : NextInRule(at[form[s].on], k) => ~Taken(k),
               n # None => then # "commit"
        PROVE  AloneOf(s)' /\ OneMeetingPerTime'
    <3>1. /\ next'[s] = n /\ pc'[s] = then /\ form' = form
          /\ UNCHANGED <<meetings, works>>
      BY <2>7 DEF RollTo, TypeOK
    <3>2. status[form[s].on] = "open"
      BY <2>0, <2>7 DEF AloneOf, OnOne, Steps
    <3>3. QED
      BY <2>1, <2>7, <3>1, <3>2 DEF AloneOf, OnRow, NextInRule, Taken
  <2>8. ASSUME FindNext(s)
        PROVE  AloneOf(s)' /\ OneMeetingPerTime'
    <3>1. PICK n \in Occurrence \cup {None}, then \in Steps :
            /\ RollTo(s, n, then) /\ pc[s] = "find_next"
            /\ \/ n \in Occurrence /\ IsNextOpen(form[s].on, n) /\ then = "move_tasks"
               \/ n = None /\ then \in {"ensure_next", "commit"}
      BY <2>8 DEF FindNext, Steps
    <3>2. QED
      BY <2>7, <3>1 DEF IsNextOpen
  <2>9. ASSUME EnsureNext(s)
        PROVE  AloneOf(s)' /\ OneMeetingPerTime'
    <3>1. PICK k \in Rule, n \in Occurrence :
            /\ NextInRule(at[form[s].on], k)
            /\ IF Taken(k) THEN status[n] # "absent" /\ at[n] = k ELSE Unused(n)
            /\ RollTo(s, n, "move_tasks")
      BY <2>9 DEF EnsureNext
    <3>2. pc[s] = "ensure_next" /\ "move_tasks" \in Steps
      BY <2>9 DEF EnsureNext, Steps
    <3>3. \A j \in Rule : NextInRule(at[form[s].on], j) => j = k
      BY <3>1, MeetingAssumption DEF NextInRule
    <3>4. QED
      BY <2>7, <3>1, <3>2, <3>3
  <2>10. ASSUME NEW rows \in SUBSET Work, NEW first \in Steps, NEW then \in Steps,
                Updates(s, rows, first, then)
         PROVE  AloneOf(s)' /\ OneMeetingPerTime'
    <3> DEFINE Found(r) == Unfinished(form[s].on, r)
    <3>1. PICK more \in SUBSET Found(rows), rest \in SUBSET Work :
            /\ moved' = [moved EXCEPT ![s] = @ \cup more]
            /\ scan' = [scan EXCEPT ![s] = rest]
            /\ IF first \in {"move_tasks", "move_items"}
               THEN Found(rows) \subseteq rest
               ELSE scan[s] \cap Found(rows) \subseteq rest \cup more
            /\ then \in {"move_items", "commit"} => rest = {}
      BY <2>10 DEF Updates
    <3>2. /\ pc[s] = first /\ pc'[s] = then /\ form' = form /\ next' = next
          /\ UNCHANGED <<meetings, works>>
          /\ moved'[s] = moved[s] \cup more /\ scan'[s] = rest
      BY <2>10, <3>1 DEF Updates, TypeOK
    <3>3. UpdatePath(rows, first, then)
      BY <2>10 DEF Updates
    <3>4. status[form[s].on] = "open"
      BY <2>0, <3>2, <3>3 DEF AloneOf, OnOne, Steps, UpdatePath
    <3>5. first \in {"move_items", "lock_items"} => Found(Task) \subseteq moved[s]
      BY <2>0, <3>2 DEF AloneOf
    <3>6. Found(rows) \subseteq moved'[s] \cup scan'[s]
      <4>1. first \in {"lock_tasks", "lock_items"} => Found(rows) \subseteq moved[s] \cup scan[s]
        BY <2>0, <3>2, <3>3 DEF AloneOf, UpdatePath
      <4>2. CASE first \in {"move_tasks", "move_items"}
        BY <3>1, <3>2, <4>2
      <4>3. CASE first \in {"lock_tasks", "lock_items"}
        BY <3>1, <3>2, <4>1, <4>3
      <4>4. QED
        BY <3>3, <4>2, <4>3 DEF UpdatePath
    <3>7. then \in {"move_items", "commit"} => Found(rows) \subseteq moved'[s]
      BY <3>1, <3>2, <3>6
    <3>8. then \in {"lock_items", "commit"} => rows = Item /\ Found(Task) \subseteq moved'[s]
      BY <3>2, <3>3, <3>5 DEF UpdatePath
    <3>9. Found(Work) = Found(Task) \cup Found(Item)
      BY DEF Unfinished, Work
    <3>10. \A r : Unfinished(form[s].on, r)' = Unfinished(form[s].on, r)
      BY <3>2 DEF Unfinished
    <3>11. next[s] # None /\ status[next[s]] = "absent" =>
             \A k \in Rule : NextInRule(at[form[s].on], k) => ~Taken(k)
      BY <2>0 DEF AloneOf
    <3>12. /\ then = "lock_tasks" => Found(Task) \subseteq moved'[s] \cup scan'[s]
           /\ then \in {"move_items", "lock_items"} => Found(Task) \subseteq moved'[s]
           /\ then = "lock_items" => Found(Item) \subseteq moved'[s] \cup scan'[s]
           /\ then = "commit" => Found(Work) \subseteq moved'[s]
      BY <3>3, <3>6, <3>7, <3>8, <3>9 DEF UpdatePath
    <3>13. then \notin OnRow
      BY <3>3 DEF UpdatePath, OnRow
    <3>14. AloneOf(s)'
      BY <3>2, <3>4, <3>10, <3>11, <3>12, <3>13 DEF AloneOf, NextInRule, Taken
    <3>15. QED
      BY <2>1, <3>2, <3>14
  <2>11. ASSUME CommitRoll(s)
         PROVE  OneMeetingPerTime'
    <3>1. CASE next[s] # None /\ status[next[s]] = "absent"
      <4>1. /\ at'[next[s]] \in Rule /\ ~Taken(at'[next[s]])
            /\ \A m \in Occurrence : m # next[s] => at'[m] = at[m]
        BY <2>0, <2>11, <3>1, NewTime DEF AloneOf
      <4>2. \A m \in Occurrence : status'[m] # "absent" /\ m # next[s] => status[m] # "absent"
        BY <1>6, <2>11, FreshKept
      <4>3. QED
        BY <2>0, <4>1, <4>2 DEF OneMeetingPerTime, Taken, Alone
    <3>2. CASE ~(next[s] # None /\ status[next[s]] = "absent")
      <4>1. \A m \in Occurrence : at'[m] = at[m]
        BY <2>11, <3>2, NewTime, MeetingAssumption
      <4>2. \A m \in Occurrence : status'[m] # "absent" => status[m] # "absent"
        BY <1>6, <2>11, <3>2, FreshKept, MeetingAssumption
      <4>3. QED
        BY <2>0, <4>1, <4>2 DEF OneMeetingPerTime, Alone
    <3>3. QED
      BY <3>1, <3>2
  <2>12. QED
    BY <1>6, <2>2, <2>3, <2>5, <2>6, <2>8, <2>9, <2>10, <2>11, Cases
    DEF InsertTask, InsertAndFinish, InsertItem, Toggle, InsertLink, InsertLinks, CommitRoll
<1>7. QED
  BY <1>1, <1>2, <1>3, <1>4, <1>5, <1>6 DEF Next

-----------------------------------------------------------------------------
(* As long as the rule goes on, too.                                       *)
LEMMA GoesOnStep ==
    ASSUME TypeOK, FormInv, RollInv, TableInv, AloneInv, GoesOnInv, [Next]_vars
    PROVE  GoesOnInv'
<1> USE DEF meetings, works, rolls
<1> SUFFICES ASSUME ~overlap', ~ends' PROVE GoesOnInv'
  BY DEF GoesOnInv
<1>0. TypeOK' /\ RollInv'
  BY TypeStep, RollStep
<1>1. CASE UNCHANGED vars
  BY <1>1 DEF vars, GoesOnInv, CompletedIsFollowed, GoesOnOf, NothingLeftBehind,
              HasNextOpen, RuleHasNext
<1>2. CASE CreateSeries
  <2>1. \A v \in Session : /\ pc[v] \notin OnOne /\ next[v] = None
                           /\ UNCHANGED <<pc, form, rolls, overlap>>
    BY <1>2 DEF CreateSeries, FormInv, FormOf, RollInv, RollOf, Rolling, OnOne, Steps
  <2>2. \A v \in Session : GoesOnOf(v)'
    BY <2>1 DEF GoesOnOf, OnOne, Steps
  <2>3. CompletedIsFollowed'
    BY <1>2 DEF CreateSeries, CompletedIsFollowed
  <2>4. NothingLeftBehind'
    BY <1>2 DEF CreateSeries, NothingLeftBehind, TableInv, WorkIsPlaced, TypeOK
  <2>5. QED
    BY <2>2, <2>3, <2>4 DEF GoesOnInv
<1>3. ASSUME NEW o \in Occurrence, AddByHand(o)
      PROVE  GoesOnInv'
  <2>1. /\ ~overlap /\ ~ends /\ UNCHANGED <<pc, form, rolls, works>>
        /\ \A v \in Session : pc[v] = "idle"
    BY <1>3 DEF AddByHand, Quiet
  <2>2. \A v \in Session : GoesOnOf(v)'
    <3>1. \A v \in Session : next'[v] = None
      BY <1>0, <2>1 DEF RollInv, RollOf, Rolling
    <3>2. QED
      BY <2>1, <3>1 DEF GoesOnOf
  <2>3. /\ status[o] = "absent" /\ status'[o] = "open"
        /\ \A m \in Occurrence : m # o => at'[m] = at[m] /\ status'[m] = status[m]
    BY <1>3 DEF AddByHand, Unused, TypeOK
  <2>4. CompletedIsFollowed'
    BY <2>1, <2>3 DEF GoesOnInv, CompletedIsFollowed, HasNextOpen
  <2>5. NothingLeftBehind'
    BY <2>1, <2>3 DEF GoesOnInv, NothingLeftBehind, TypeOK
  <2>6. QED
    BY <2>2, <2>4, <2>5 DEF GoesOnInv
<1>4. ASSUME NEW s \in Session, Start(s) \/ Continue(s) \/ Abort(s)
      PROVE  /\ ~overlap /\ ~ends /\ Alone(s)
             /\ AloneOf(s) /\ GoesOnOf(s) /\ CompletedIsFollowed /\ NothingLeftBehind
  <2>1. Alone(s)
    BY <1>4, StepsAlone
  <2>2. ends' = ends
    <3>1. CASE Start(s)
      <4>1. PICK first \in Steps, f \in Forms : Started(s, first, f)
        BY <3>1, StartShape
      <4>2. QED
        BY <4>1 DEF Started, Enter
    <3>2. CASE Continue(s) \/ Abort(s)
      BY <3>2, Cases
      DEF Prepare, InsertTask, InsertAndFinish, InsertItem, Toggle, LookForLink, InsertLink,
          FindLinks, InsertLinks, FindNext, EnsureNext, RollTo, Updates, CommitRoll
    <3>3. QED
      BY <1>4, <3>1, <3>2
  <2>3. QED
    BY <2>1, <2>2 DEF Alone, AloneInv, GoesOnInv
<1>5. ASSUME NEW s \in Session, Start(s) \/ Continue(s) \/ Abort(s),
             GoesOnOf(s)', CompletedIsFollowed', NothingLeftBehind'
      PROVE  GoesOnInv'
  <2>1. \A v \in Session \ {s} : GoesOnOf(v)'
    BY <1>4, <1>5 DEF Alone, GoesOnOf
  <2>2. QED
    BY <1>5, <2>1 DEF GoesOnInv
<1>6. ASSUME UNCHANGED <<status, at>>, CompletedIsFollowed
      PROVE  CompletedIsFollowed'
  BY <1>6 DEF CompletedIsFollowed, HasNextOpen
<1>7. ASSUME UNCHANGED <<status, on, done>>, NothingLeftBehind, ~ends, ~overlap
      PROVE  NothingLeftBehind'
  BY <1>7 DEF NothingLeftBehind
<1>8. ASSUME NEW s \in Session, Start(s)
      PROVE  GoesOnOf(s)' /\ CompletedIsFollowed' /\ NothingLeftBehind'
  <2>1. PICK first \in Steps, f \in Forms : Started(s, first, f)
    BY <1>8, StartShape
  <2>2. /\ pc[s] = "idle" /\ pc'[s] = first /\ form'[s] = f
        /\ UNCHANGED <<meetings, works, rolls>>
    BY <2>1 DEF Started, Enter, TypeOK
  <2>3. next[s] = None
    BY <2>2 DEF RollInv, RollOf, Rolling
  <2>4. GoesOnOf(s)'
    BY <1>4, <1>8, <2>1, <2>2, <2>3 DEF GoesOnOf, Started, Rolling, RuleHasNext
  <2>5. QED
    BY <1>4, <1>6, <1>7, <1>8, <2>2, <2>4
<1>9. ASSUME NEW s \in Session, EndRequest(s)
      PROVE  GoesOnOf(s)'
  <2>1. pc'[s] = "idle" /\ next'[s] = None
    BY <1>9, Released
  <2>2. QED
    BY <2>1 DEF GoesOnOf
<1>10. ASSUME NEW s \in Session, Continue(s) \/ Abort(s)
       PROVE  GoesOnOf(s)' /\ CompletedIsFollowed' /\ NothingLeftBehind'
  <2> DEFINE Own == GoesOnOf(s)' /\ CompletedIsFollowed' /\ NothingLeftBehind'
             o == form[s].on
  <2>0. /\ ~overlap /\ ~ends /\ Alone(s) /\ AloneOf(s) /\ GoesOnOf(s)
        /\ CompletedIsFollowed /\ NothingLeftBehind /\ FormOf(s)
    BY <1>4, <1>10 DEF FormInv
  <2>1. ASSUME UNCHANGED <<meetings, works>>, EndRequest(s)
        PROVE  Own
    BY <1>6, <1>7, <1>9, <2>0, <2>1
  <2>2. ASSUME UNCHANGED <<meetings, works, rolls>>, pc[s] \notin Rolling,
               pc'[s] \notin Rolling \cup {"find_next", "ensure_next"}
        PROVE  Own
    <3>1. next'[s] = None
      BY <2>2 DEF RollInv, RollOf
    <3>2. GoesOnOf(s)'
      BY <2>2, <3>1 DEF GoesOnOf, Rolling
    <3>3. QED
      BY <1>6, <1>7, <2>0, <2>2, <3>2
  <2>3. ASSUME NEW first \in Steps, NEW then \in Steps, NEW dates \in SUBSET Nat,
               Prepare(s, first, then, dates),
               <<first, then>> \in {<<"task", "insert_task">>,
                   <<"convert", "insert_and_finish">>, <<"convert_done", "insert_task">>}
        PROVE  Own
    BY <2>2, <2>3 DEF Prepare, TypeOK, Rolling
  <2>4. ASSUME LookForLink(s) \/ FindLinks(s)
        PROVE  Own
    BY <2>2, <2>4 DEF LookForLink, FindLinks, TypeOK, Rolling
  <2>5. ASSUME InsertLink(s) \/ InsertLinks(s)
        PROVE  Own
    BY <1>6, <1>7, <1>9, <2>0, <2>5 DEF InsertLink, InsertLinks
  <2>6. ASSUME UNCHANGED <<meetings>>, EndRequest(s), status[o] = "open",
               \A x \in Work : \/ on'[x] = on[x] /\ (x \in done => x \in done')
                               \/ on'[x] = o
        PROVE  Own
    <3>1. NothingLeftBehind'
      <4>1. ASSUME NEW x \in Work, on'[x] # None, x \notin done'
            PROVE  status'[on'[x]] = "open"
        <5>1. CASE on'[x] = o
          BY <2>6, <5>1
        <5>2. CASE on'[x] # o
          <6>1. on'[x] = on[x] /\ x \notin done
            BY <2>6, <4>1, <5>2
          <6>2. QED
            BY <2>0, <2>6, <4>1, <6>1 DEF NothingLeftBehind
        <5>3. QED
          BY <5>1, <5>2
      <4>2. QED
        BY <4>1 DEF NothingLeftBehind
    <3>2. QED
      BY <1>6, <1>9, <2>0, <2>6, <3>1
  <2>7. pc[s] \in OnOne => status[o] = "open"
    BY <2>0 DEF AloneOf
  <2>8. ASSUME NEW t \in Task, InsertTask(s, t) \/ InsertAndFinish(s, t)
        PROVE  Own
    <3>1. pc[s] \in OnOne
      BY <2>8 DEF InsertTask, InsertAndFinish, OnOne, Steps
    <3>2. on' = [on EXCEPT ![t] = o] /\ done \subseteq done' /\ EndRequest(s) /\ UNCHANGED meetings
      BY <2>8 DEF InsertTask, InsertAndFinish, NewTask
    <3>3. \A x \in Work : \/ on'[x] = on[x] /\ (x \in done => x \in done')
                          \/ on'[x] = o
      BY <3>2 DEF TypeOK
    <3>4. QED
      BY <2>6, <2>7, <3>1, <3>2, <3>3
  <2>9. ASSUME NEW i \in Item, InsertItem(s, i)
        PROVE  Own
    <3>1. pc[s] \in OnOne
      BY <2>9 DEF InsertItem, OnOne, Steps
    <3>2. \A x \in Work : \/ on'[x] = on[x] /\ (x \in done => x \in done')
                          \/ on'[x] = o
      BY <2>9 DEF InsertItem, TypeOK
    <3>3. QED
      BY <2>6, <2>7, <2>9, <3>1, <3>2 DEF InsertItem
  <2>10. ASSUME Toggle(s)
         PROVE  Own
    <3>1. pc[s] \in OnOne /\ on[form[s].work] = o
      BY <2>0, <2>10 DEF Toggle, AloneOf, OnRow, OnOne, Steps
    <3>2. \A x \in Work : \/ on'[x] = on[x] /\ (x \in done => x \in done')
                          \/ on'[x] = o
      BY <2>10, <3>1 DEF Toggle
    <3>3. QED
      BY <2>6, <2>7, <2>10, <3>1, <3>2 DEF Toggle
  <2>11. ASSUME NEW n \in Occurrence \cup {None}, NEW then \in Steps, RollTo(s, n, then),
                then = "ensure_next" => RuleHasNext(at[o]) /\ ~HasNextOpen(o),
                then # "find_next",
                then = "commit" => n # None,
                n # None => status[n] # "completed"
         PROVE  Own
    <3>1. /\ next'[s] = n /\ pc'[s] = then /\ form' = form
          /\ UNCHANGED <<meetings, works>>
      BY <2>11 DEF RollTo, TypeOK
    <3>2. GoesOnOf(s)'
      BY <2>11, <3>1 DEF GoesOnOf, RuleHasNext, HasNextOpen
    <3>3. QED
      BY <1>6, <1>7, <2>0, <3>1, <3>2
  <2>12. ASSUME FindNext(s)
         PROVE  Own
    <3>0. pc[s] = "find_next" /\ RuleHasNext(at[o])
      BY <2>0, <2>12 DEF FindNext, GoesOnOf
    <3>1. PICK n \in Occurrence \cup {None}, then \in Steps :
            /\ RollTo(s, n, then)
            /\ \/ n \in Occurrence /\ IsNextOpen(o, n) /\ then = "move_tasks"
               \/ n = None /\ then = "ensure_next" /\ ~HasNextOpen(o)
      BY <2>12, <3>0 DEF FindNext, Steps
    <3>2. QED
      BY <2>11, <3>0, <3>1 DEF IsNextOpen
  <2>13. ASSUME EnsureNext(s)
         PROVE  Own
    <3>1. PICK k \in Rule, n \in Occurrence :
            /\ NextInRule(at[o], k)
            /\ IF Taken(k) THEN status[n] # "absent" /\ at[n] = k ELSE Unused(n)
            /\ RollTo(s, n, "move_tasks")
      BY <2>13 DEF EnsureNext
    <3>2. /\ pc[s] = "ensure_next" /\ "move_tasks" \in Steps /\ o \in Occurrence
          /\ ~HasNextOpen(o)
      BY <2>0, <2>13 DEF EnsureNext, Steps, GoesOnOf, FormOf, OnOne
    <3>3. status[n] # "completed"
      <4>1. ASSUME status[n] = "completed"
            PROVE  FALSE
        <5>1. at[n] > at[o]
          BY <3>1, <4>1 DEF NextInRule, Unused
        <5>2. PICK m \in Occurrence : status[m] = "open" /\ at[m] > at[n]
          BY <2>0, <4>1 DEF CompletedIsFollowed, HasNextOpen
        <5>3. at[m] > at[o]
          BY <3>2, <5>1, <5>2 DEF TypeOK
        <5>4. QED
          BY <3>2, <5>2, <5>3 DEF HasNextOpen
      <4>2. QED
        BY <4>1
    <3>4. QED
      BY <2>11, <3>1, <3>2, <3>3, MeetingAssumption
  <2>14. ASSUME NEW rows \in SUBSET Work, NEW first \in Steps, NEW then \in Steps,
                Updates(s, rows, first, then)
         PROVE  Own
    <3>1. /\ pc[s] = first /\ pc'[s] = then /\ form' = form /\ next' = next
          /\ UNCHANGED <<meetings, works>>
      BY <2>14 DEF Updates, TypeOK
    <3>2. first \in Moving /\ then \in Rolling
      BY <2>14 DEF Updates, UpdatePath, Moving, Rolling
    <3>3. next[s] # None /\ status[next[s]] # "completed"
      BY <2>0, <3>1, <3>2 DEF RollInv, RollOf, GoesOnOf
    <3>4. GoesOnOf(s)'
      BY <3>1, <3>2, <3>3 DEF GoesOnOf, Rolling
    <3>5. QED
      BY <1>6, <1>7, <2>0, <3>1, <3>4
  <2>15. ASSUME CommitRoll(s)
         PROVE  Own
    <3> DEFINE n == next[s]
    <3>1. /\ EndRequest(s) /\ done' = done
          /\ n \in Occurrence /\ status[n] # "completed" /\ n # None
      BY <2>0, <2>15 DEF CommitRoll, GoesOnOf, TypeOK
    <3>2. /\ o \in Occurrence /\ Kept(o) /\ status'[o] = "completed" /\ at'[n] > at'[o]
          /\ \A x \in moved[s] : on'[x] = n
      BY <2>15, <3>1, RollTarget
    <3>3. n # o
      BY <1>0, <3>1, <3>2 DEF TypeOK
    <3>4. status'[n] = "open"
      BY <2>15, <3>1, <3>3 DEF CommitRoll, TypeOK
    <3>5. \A m \in Occurrence \ {o, n} : status'[m] = status[m] /\ at'[m] = at[m]
      BY <2>15, NewTime DEF CommitRoll
    <3>6. at'[o] = at[o] /\ (status[n] = "open" => at'[n] = at[n])
      BY <2>15, <3>1, <3>2, NewTime DEF Kept
    <3>7. CompletedIsFollowed'
      <4>1. ASSUME NEW m \in Occurrence, status'[m] = "completed"
            PROVE  \E p \in Occurrence : status'[p] = "open" /\ at'[p] > at'[m]
        <5>1. CASE m = o
          BY <3>1, <3>2, <3>4, <5>1
        <5>2. CASE m # o
          <6>1. status[m] = "completed" /\ at'[m] = at[m]
            BY <3>4, <3>5, <4>1, <5>2
          <6>2. PICK p \in Occurrence : status[p] = "open" /\ at[p] > at[m]
            BY <2>0, <6>1 DEF CompletedIsFollowed, HasNextOpen
          <6>3. CASE p = o
            <7>1. at'[n] > at'[m]
              BY <1>0, <3>1, <3>2, <3>6, <6>1, <6>2, <6>3 DEF TypeOK
            <7>2. QED
              BY <3>1, <3>4, <7>1
          <6>4. CASE p # o
            BY <3>4, <3>5, <3>6, <6>1, <6>2, <6>4
          <6>5. QED
            BY <6>3, <6>4
        <5>3. QED
          BY <5>1, <5>2
      <4>2. QED
        BY <4>1 DEF CompletedIsFollowed, HasNextOpen
    <3>8. NothingLeftBehind'
      <4>1. ASSUME NEW x \in Work, on'[x] # None, x \notin done'
            PROVE  status'[on'[x]] = "open"
        <5>1. CASE x \in moved[s]
          BY <3>2, <3>4, <5>1
        <5>2. CASE x \notin moved[s]
          <6>1. on'[x] = on[x] /\ x \notin done
            BY <2>15, <3>1, <4>1, <5>2 DEF CommitRoll
          <6>2. on[x] # o
            <7>1. Unfinished(o, Work) \subseteq moved[s]
              BY <2>0, <2>15, <3>1 DEF CommitRoll, AloneOf
            <7>2. QED
              BY <5>2, <6>1, <7>1 DEF Unfinished
          <6>3. on[x] \in Occurrence /\ status[on[x]] = "open"
            BY <2>0, <4>1, <6>1 DEF NothingLeftBehind, TypeOK
          <6>4. QED
            BY <3>4, <3>5, <6>1, <6>2, <6>3
        <5>3. QED
          BY <5>1, <5>2
      <4>2. QED
        BY <4>1 DEF NothingLeftBehind
    <3>9. QED
      BY <1>9, <3>1, <3>7, <3>8
  <2>16. QED
    BY <1>10, <2>1, <2>3, <2>4, <2>5, <2>8, <2>9, <2>10, <2>12, <2>13, <2>14, <2>15, Cases
<1>11. QED
  BY <1>1, <1>2, <1>3, <1>5, <1>8, <1>10 DEF Next

-----------------------------------------------------------------------------
(* Every reachable state satisfies the inductive invariant.                *)
THEOREM Invariance == Spec => []MeetingInv
<1>1. Init => MeetingInv
  BY InitInv
<1>2. MeetingInv /\ [Next]_vars => MeetingInv'
  BY TypeStep, FormStep, RollStep, TableStep, AloneStep, GoesOnStep DEF MeetingInv
<1>3. QED
  BY <1>1, <1>2, PTL DEF Spec

(* The rows of the database and what the requests remember keep their      *)
(* shape, whatever interleaves.                                            *)
THEOREM TypeCorrect == Spec => []TypeOK
<1>1. MeetingInv => TypeOK
  BY DEF MeetingInv
<1>2. QED
  BY <1>1, Invariance, PTL

(* A due date the service has chosen is never before the task's meeting    *)
(* (get_default_task_due_at, reassign_open_tasks).                         *)
THEOREM DueDates == Spec => []DueNotBeforeMeeting
<1>1. MeetingInv => DueNotBeforeMeeting
  BY DEF MeetingInv, TableInv
<1>2. QED
  BY <1>1, Invariance, PTL

(* While requests come one at a time, rolling forward doubles no meeting   *)
(* (get_for_series_scheduled_at before an occurrence is made).             *)
THEOREM NoDoubles == Spec => []OneMeetingPerTime
<1>1. MeetingInv => OneMeetingPerTime
  BY DEF MeetingInv, AloneInv, OneMeetingPerTime
<1>2. QED
  BY <1>1, Invariance, PTL

(* Nor does it then leave unfinished work on a completed meeting, of a     *)
(* rule that goes on (complete_occurrence_and_roll_forward).               *)
THEOREM NoneLeftBehind == Spec => []NothingLeftBehind
<1>1. MeetingInv => NothingLeftBehind
  BY DEF MeetingInv, GoesOnInv, NothingLeftBehind
<1>2. QED
  BY <1>1, Invariance, PTL

(* The dashboard hides no urgent task from its assignee, but for one that  *)
(* was rolled forward (get_dashboard_view).                                *)
THEOREM DashboardShows == Spec => []UrgentWorkIsSeen
<1>1. ASSUME MeetingInv
      PROVE  UrgentWorkIsSeen
  <2>1. ASSUME NEW t \in Task \ done, on[t] # None, ~MayBeRolled(on[t]),
               NEW now \in {at[o] : o \in Occurrence}, due[t] <= now + Soon
        PROVE  /\ t \in Urgent(who[t], now)
               /\ at[on[t]] >= now =>
                    /\ on[t] \in Upcoming(who[t], now)
                    /\ t \in MeetingItem(who[t], on[t], now).open
                    /\ MeetingItem(who[t], on[t], now).urgent
    <3>1. on[t] \in Occurrence /\ status[on[t]] # "absent" /\ t \in Work
      BY <1>1, <2>1 DEF MeetingInv, TypeOK, TableInv, WorkIsPlaced, Work
    <3>2. MayBeAssigned(on[t], who[t])
      BY <1>1, <2>1 DEF MeetingInv, TableInv, AssigneeIsInvited
    <3>3. Visible(who[t], on[t])
      BY <3>1, <3>2 DEF Visible, MayBeAssigned
    <3>4. t \in Outstanding(who[t])
      BY <2>1, <3>3 DEF Outstanding
    <3>5. t \in Urgent(who[t], now)
      BY <2>1, <3>4 DEF Urgent
    <3>6. at[on[t]] >= now => on[t] \in Upcoming(who[t], now)
      BY <3>1, <3>3 DEF Upcoming
    <3>7. t \in MeetingItem(who[t], on[t], now).open
      BY <3>4 DEF MeetingItem
    <3>8. MeetingItem(who[t], on[t], now).urgent
      BY <2>1, <3>4 DEF MeetingItem
    <3>9. QED
      BY <3>5, <3>6, <3>7, <3>8
  <2>2. QED
    BY <2>1 DEF UrgentWorkIsSeen
<1>2. QED
  BY <1>1, Invariance, PTL

(* Work only ever changes to a later meeting, also when completions        *)
(* overlap with each other and with requests that read before them.        *)
THEOREM NeverSentBack == Spec => WorkMovesForward
<1>1. ASSUME MeetingInv, [Next]_vars
      PROVE  [\A x \in Work : on[x] # None /\ on'[x] # on[x] =>
                 on'[x] # None /\ at'[on'[x]] > at[on[x]]]_vars
  <2>1. ASSUME NEW x \in Work, on[x] # None, on'[x] # on[x]
        PROVE  on'[x] # None /\ at'[on'[x]] > at[on[x]]
    <3>1. PICK s \in Session : Rolled(s, x)
      BY <1>1, <2>1, RowSteps DEF Stays, Inserted, MeetingInv
    <3>2. PICK n \in Occurrence : next[s] = n
      BY <1>1, <3>1 DEF Rolled, MeetingInv, RollInv, RollOf, TypeOK
    <3>3. /\ on[x] = form[s].on /\ on'[x] = n
          /\ at'[n] > at'[form[s].on] /\ Kept(form[s].on)
      BY <1>1, <3>1, <3>2, RollTarget DEF Rolled, MeetingInv
    <3>4. QED
      BY <3>2, <3>3, MeetingAssumption DEF Kept
  <2>2. QED
    BY <2>1
<1>2. QED
  BY <1>1, Invariance, PTL DEF Spec, WorkMovesForward

(* What is ticked off stays with its meeting (reassign_open_tasks and      *)
(* reassign_open_items match what is unfinished when they lock it).        *)
THEOREM RecordsStay == Spec => FinishedWorkStays
<1>1. ASSUME MeetingInv, [Next]_vars
      PROVE  [\A x \in done : on'[x] = on[x]]_vars
  <2>1. ASSUME NEW x \in done
        PROVE  on'[x] = on[x]
    <3>1. x \in Work /\ on[x] # None
      BY <1>1 DEF MeetingInv, TypeOK, TableInv, WorkIsPlaced
    <3>2. ASSUME NEW s \in Session, Rolled(s, x)
          PROVE  FALSE
      BY <1>1, <3>2 DEF Rolled, MeetingInv, RollInv, RollOf
    <3>3. QED
      BY <1>1, <3>1, <3>2, RowSteps DEF Stays, Inserted, MeetingInv
  <2>2. QED
    BY <2>1
<1>2. QED
  BY <1>1, Invariance, PTL DEF Spec, FinishedWorkStays

(* A completed meeting is read-only while requests come one at a time and  *)
(* the rule goes on (ensure_occurrence_writable, and no completion moves   *)
(* work into it).                                                          *)
THEOREM ReadOnly == Spec => ReadOnlyWhileRuleGoesOn
<1> DEFINE NewLinks(o) == \A u \in User : <<o, u>> \in link' =>
                             \/ <<o, u>> \in link
                             \/ \E s \in Session : pc[s] = "insert_links" /\ form[s].who = u
<1>1. ASSUME MeetingInv, [Next]_vars
      PROVE  [\A o \in Occurrence :
                 status[o] = "completed" /\ ~ends /\ ~overlap =>
                     /\ WorkKept(o)
                     /\ \A u \in User : <<o, u>> \in link' =>
                           \/ <<o, u>> \in link
                           \/ \E s \in Session : pc[s] = "insert_links" /\ form[s].who = u]_vars
  <2>1. ASSUME NEW o \in Occurrence, status[o] = "completed", ~ends, ~overlap
        PROVE  WorkKept(o) /\ NewLinks(o)
    <3> USE DEF meetings, works, rolls
    <3>1. ASSUME UNCHANGED <<on, done>>
          PROVE  WorkKept(o)
      BY <3>1 DEF WorkKept, WorkOf
    <3>2. ASSUME UNCHANGED <<on, done, link>>
          PROVE  WorkKept(o) /\ NewLinks(o)
      BY <3>1, <3>2
    <3>3. ASSUME NEW s \in Session, Start(s)
          PROVE  WorkKept(o) /\ NewLinks(o)
      <4>1. PICK first \in Steps, f \in Forms : Started(s, first, f)
        BY <1>1, <3>3, StartShape DEF MeetingInv
      <4>2. QED
        BY <3>2, <4>1 DEF Started, Enter
    <3>4. ASSUME NEW s \in Session, Continue(s) \/ Abort(s)
          PROVE  WorkKept(o) /\ NewLinks(o)
      <4>1. TypeOK /\ AloneOf(s) /\ GoesOnOf(s) /\ FormOf(s) /\ RollOf(s)
        BY <1>1, <2>1 DEF MeetingInv, AloneInv, GoesOnInv, FormInv, RollInv
      <4>2. pc[s] \in OnOne => form[s].on # o
        BY <2>1, <4>1 DEF AloneOf
      <4>3. ASSUME \A x \in Work : on'[x] = o <=> on[x] = o,
                   \A x \in Work : on[x] = o => (x \in done' <=> x \in done)
            PROVE  WorkKept(o)
        BY <4>3 DEF WorkKept, WorkOf
      <4>4. ASSUME NEW t \in Task, InsertTask(s, t) \/ InsertAndFinish(s, t)
            PROVE  WorkKept(o) /\ NewLinks(o)
        <5>1. pc[s] \in OnOne /\ (InsertAndFinish(s, t) => pc[s] \in OnRow)
          BY <4>4 DEF InsertTask, InsertAndFinish, OnOne, OnRow, Steps
        <5>2. on[t] = None /\ on' = [on EXCEPT ![t] = form[s].on] /\ link' = link
          BY <4>4 DEF InsertTask, InsertAndFinish, NewTask
        <5>3. \A x \in Work : on'[x] = o <=> on[x] = o
          BY <4>1, <4>2, <5>1, <5>2, MeetingAssumption DEF TypeOK
        <5>4. \A x \in Work : on[x] = o => (x \in done' <=> x \in done)
          BY <4>1, <4>2, <4>4, <5>1 DEF InsertTask, InsertAndFinish, AloneOf
        <5>5. QED
          BY <4>3, <5>2, <5>3, <5>4
      <4>5. ASSUME NEW i \in Item, InsertItem(s, i)
            PROVE  WorkKept(o) /\ NewLinks(o)
        <5>1. pc[s] \in OnOne
          BY <4>5 DEF InsertItem, OnOne, Steps
        <5>2. \A x \in Work : on'[x] = o <=> on[x] = o
          BY <4>1, <4>2, <4>5, <5>1, MeetingAssumption DEF InsertItem, TypeOK
        <5>3. QED
          BY <4>3, <4>5, <5>2 DEF InsertItem
      <4>6. ASSUME Toggle(s)
            PROVE  WorkKept(o) /\ NewLinks(o)
        <5>1. pc[s] \in OnOne /\ pc[s] \in OnRow
          BY <4>6 DEF Toggle, OnOne, OnRow, Steps
        <5>2. \A x \in Work : on[x] = o => (x \in done' <=> x \in done)
          BY <4>1, <4>2, <4>6, <5>1 DEF Toggle, AloneOf
        <5>3. QED
          BY <4>3, <4>6, <5>2 DEF Toggle
      <4>7. ASSUME InsertLink(s)
            PROVE  WorkKept(o) /\ NewLinks(o)
        <5>1. form[s].on # o
          BY <4>2, <4>7 DEF InsertLink, OnOne, Steps
        <5>2. QED
          BY <3>1, <4>7, <5>1 DEF InsertLink
      <4>8. ASSUME InsertLinks(s)
            PROVE  WorkKept(o) /\ NewLinks(o)
        BY <3>1, <4>8 DEF InsertLinks
      <4>9. ASSUME CommitRoll(s)
            PROVE  WorkKept(o) /\ NewLinks(o)
        <5>1. form[s].on # o /\ next[s] # o
          BY <2>1, <4>1, <4>2, <4>9 DEF CommitRoll, OnOne, Steps, GoesOnOf
        <5>2. \A x \in Work : on'[x] = o <=> on[x] = o
          BY <4>1, <4>9, <5>1 DEF CommitRoll, RollOf
        <5>3. QED
          BY <4>3, <4>9, <5>2 DEF CommitRoll
      <4>10. QED
        BY <3>2, <3>4, <4>1, <4>4, <4>5, <4>6, <4>7, <4>8, <4>9, Cases
        DEF Prepare, LookForLink, FindLinks, FindNext, EnsureNext, RollTo, Updates
    <3>5. QED
      BY <1>1, <2>1, <3>2, <3>3, <3>4 DEF Next, vars, CreateSeries, AddByHand
  <2>2. QED
    BY <2>1
<1>2. QED
  BY <1>1, Invariance, PTL DEF Spec, ReadOnlyWhileRuleGoesOn
=============================================================================
