# Agendable, verified

TLA+ models, model-checking runs and machine-checked proofs about agendable, a
FastAPI and SQLAlchemy application for recurring meetings: series, occurrences,
tasks, agendas, reminders by email, an import from Google Calendar, and several
ways to sign in.  Paths below are relative to `src/agendable/` unless they
start at the repository root.

## 1. The system

### Components

| Component | State it keeps | Operations | Correct when |
|---|---|---|---|
| **Reminder delivery** (`services/reminder_delivery_service.py`, `reminder_claim_service.py`, `db/repos/reminders.py`, `reminders.py`, `cli/reminders.py`) | table `reminder`: status, sent_at, attempt_count, next_attempt_at | start of a run, load, claim, send, record, commit; polling worker and one-shot job | nobody is mailed twice, attempts are counted and bounded, every reminder is settled |
| **Meetings** (`services/occurrence_service.py`, `web/routes/occurrences/*`, `db/repos/{meeting_occurrences,tasks,agenda_items,meeting_occurrence_attendees}.py`) | `meeting_occurrence`, `task`, `agenda_item`, `meeting_occurrence_attendee` | create, toggle, convert, invite to one or to all, complete and roll forward | unfinished work always moves on to a later open meeting, a completed meeting stays as it was |
| **Dashboard** (`services/dashboard_service.py`, `db/repos/dashboard.py`, `access_predicates.py`) | none | upcoming meetings, outstanding and urgent tasks | an urgent task is seen by its assignee |
| **Series and recurrence** (`services/series_service.py`, `recurrence.py`, `web/routes/series*.py`, `common.py`) | `meeting_series`: its RRULE, stored start and zone | create from the form, label, next time after a completed meeting | a meeting at each time the form asked for and no other; the label tells the truth |
| **Rate limits** (`rate_limit.py`, `web/routes/auth/rate_limits.py`) | in-process dictionaries of attempt times | ask, consume, sweep | a sliding window, in bounded memory |
| **Calendar synchronisation** (`services/google_calendar_sync_service.py`, `calendar_event_mapping_service.py`, `google_imported_series_service.py`, `external_calendar_api.py`, `cli/calendar_sync.py`) | connections (tokens, sync cursor, status), event mirrors, import decisions | sync under an advisory lock, map events, keep or reject an imported series | every change of the calendar is mapped once and in order, a failed connection does not stop the others, a rejected series does not return |
| **Accounts** (`services/{auth,oidc,oidc_persistence,admin}_service.py`, `web/routes/auth/*`, `web/routes/admin.py`, `auth.py`) | `users`, `external_identity`, the session cookie | sign up, sign in, OIDC callback, link, unlink, change role or activity | an identity belongs to the account of its email, a user can always sign in, an administrator remains |
| **Collaboration presence** (`web/routes/occurrences/collab.py`) | in-process presence and activity maps | heartbeat, poll | people who left disappear |
| Settings, logging, app factory, seeds; templates and migrations | none at run time | | not modelled: wiring, presentation, schema history |

### How they interact

- All persistent state is in one SQL database.  A web request has one session,
  hence one transaction at READ COMMITTED, and awaits at every statement, so
  requests interleave between statements.  Objects a session has loaded keep
  the values they were loaded with; a flush writes only the columns whose value
  changed.
- The signed session cookie is state of the browser: a request works on the
  cookie it came with, and its answer replaces whatever the browser has by then.
- Series and occurrence creation insert `reminder` rows; the reminder worker
  and the scheduled job read them, at the same time as each other.
- Completing a meeting asks the series' rule for the next time, moves rows of
  `task` and `agenda_item` and may insert a `meeting_occurrence`.  Calendar
  sync inserts, reschedules, reopens and completes the same rows; rejecting an
  import deletes them.
- The dashboard reads meetings, attendees and tasks.
- A connection is synchronised under a PostgreSQL advisory *transaction* lock,
  which every commit releases.  The first sync of a captured calendar runs, and
  commits, inside a login.
- Rate limits are per process, guarded by a `threading.Lock`, and touched by
  login, OIDC callback and link start.

### What is hard here

The full list, with lines, is under `hazards` in `PROJECT.json`.  In short:
claims whose lease runs from the start of the run and not from the claim; one
commit at the end of a run that writes remembered values; a read-only check
made on an object loaded before an await; a next meeting chosen before the bulk
UPDATEs that move rows to it; row locks taken one by one by two concurrent
completions; meetings completed out of order; a rule started again from a start
that the database has changed; a link id left in a cookie; a commit in the
middle of a login; logins judged before and recorded after an await; a sweep
that forgets; an advisory lock lost at a commit, and a sync token read before
it; a review and a sync that each see the old state of the other; a full listing
that begins at a window and leaves out what was mirrored; checks of
"the last one" (identity, administrator) that two requests make at once.

## 2. Modules

| Module | Models |
|---|---|
| `ReminderDelivery` | reminder rows and overlapping runs |
| `ReminderLifecycle` | the abstract promise `ReminderDelivery` implements |
| `ReminderDeliveryProofs` | theorems about `ReminderDelivery` |
| `MeetingRollForward` | one series, its meetings, their work, and the requests on them |
| `Dashboard` | what the dashboard shows of that state; extends `MeetingRollForward` |
| `MeetingProofs` | theorems about `MeetingRollForward` and `Dashboard` |
| `SeriesRecurrence` | a series from its form: rule, meetings, label, next times, on clocks that change and on both databases |
| `RecurrenceProofs` | theorems about `SeriesRecurrence` |
| `LoginRateLimit` | the rate limiter and the requests that use it |
| `RateWindow` | the ideal sliding window `LoginRateLimit` implements |
| `RateLimitProofs` | theorems about `LoginRateLimit`, the refinement among them |
| `LeastNumber` | lemmas the last two share: a set of numbers has a least, a bounded one a greatest |
| `CalendarSync` | one calendar connection and one recurring series of it: sync, mapping, review of the import |
| `CalendarProofs` | theorems about `CalendarSync`: tokens, mirrors, decisions |
| `FollowProofs` | that meetings follow the calendar; extends `CalendarProofs` |
| `Accounts` | accounts, identities, cookies and the requests that change them |
| `AccountsProofs` | theorems about `Accounts` |
| `MCReminderDelivery`, `MCMeetingRollForward`, `MCSeriesRecurrence`, `MCLoginRateLimit`, `MCCalendarSync`, `MCAccounts` | instances for TLC |

A definition whose comment begins with "Mutant of" is a wrong version of the
one after it.  No specification uses it; it shows that a property can fail.

### ReminderDelivery

`row[r]` is the committed row; `seen[w]` and `mine[w]` are the columns the
session of worker `w` loaded and the same objects with the run's assignments.
`Flushed` writes the columns in which they differ, as the unit of work does.
One action per step: `StartRun` reads the clock, `Load` is the SELECT with the
marking of other channels as skipped, `Claim` and `LoseClaim` are the
conditional UPDATE in its own committed transaction, `SendOk`, `SendFails` and
`SendAnswerLost` are the outcomes of SMTP, `CommitRun` is the commit at the
end.  `AbortRun` is a crash or an exception of another kind at any point.
`Schedule` stands for the creation of a series or meeting.

Time is relative: `row[r].due` is how far `next_attempt_at` is in the future,
`age[w]` how long ago the run read its clock.  No clock bounds the behaviours;
`RunLimit` bounds how long a run may take and is the one assumption about the
environment.  Instants earlier than the start of any run are identified.

`tries`, `emails` and `faults` are history.  Text of the emails is left out.

### MeetingRollForward and Dashboard

`status`, `at`, `link`, `on`, `done`, `due` and `who` are the tables.  `pc` and
`form` hold where the request of each session is and what it has read; `next` is
a completion's uncommitted choice, `scan` the rows its UPDATE found and has yet
to lock, `moved` those it has moved and locks.  A request about one occurrence begins with `Begin`,
the load and the read-only check, and goes on one awaited statement at a time;
an invitation to all occurrences (`BeginInviteAll`, `FindLinks`, `InsertLinks`)
has no such check in the code and none here.  The completion is `FindNext`,
`EnsureNext` (from the RRULE), `ScanTasks` and a `MoveTask` for each task,
`ScanItems` and a `MoveItem` for each item, `CommitRoll`.  A bulk UPDATE finds the
rows that match and locks them one by one in any order, keeping the locks it has
while it waits for another session's (`Unlocked`); once it has a lock it looks at
the row again, as PostgreSQL does at READ COMMITTED.  Two completions that lock
the same rows in different orders can wait in a circle, of which the database
fails one: an `Abort`.  `CreateSeries` makes the initial meetings,
`AddByHand` one more.  `Abort` rolls back at any point.  `overlap` is history:
whether a request ever started, or a meeting was added, while another request
was in progress.

Simplifications, each of which keeps the order of state changes: facts that
never change back are read by the step that uses them; titles and bodies are
left out; reminders of meetings are `ReminderDelivery`'s; the access check is left out of `Begin` because the owner always passes it, so every
sequence of requests is one the owner can send.

`Dashboard` adds operators for the queries, one user and one instant at a time,
and one property of them on every reachable state of the meetings.

### SeriesRecurrence

A wall time is a number of hours on a zone's clock, an instant one in UTC;
`Local` and `Instant` convert, with the gap and the fold of a clock change
(`fold = 0`, a skipped time read with the offset before).  `Accepted` and
`BuildRule` are the form's validation and `build_rrule`; `Recurs` is what the
RRULE means to dateutil, for the parts `build_rrule` writes: FREQ, INTERVAL,
BYDAY, BYMONTHDAY, BYSETPOS, weeks from Monday.  `CreateSeries` takes the first
`COUNT` times from the start as typed; `Complete` asks the rule again from the
start as the database gives it back (`ReadBack`): the same instant in UTC on
PostgreSQL, the digits of the clock without their zone on SQLite.

`AskedTimes` is the reference: it reads the form, not the rule, and uses weeks
of the month ("the third seven days") where the rule counts positions among
matching days.  `MeetingsAreAsked` says the two agree on every series,
however many meetings are completed and in whatever order.  `LabelNames` is
`describe_recurrence`.

### LoginRateLimit

`mem` is the module's dictionaries and its counter.  `AfterAsk` and
`AfterConsume` are `is_rate_limited` and `consume_rate_limit` as functions of
that memory; each counts as one operation and may sweep.  A login asks both
keys (`StartLogin`), awaits, and then records with both (`FailLogin`) or not at
all (`Succeed`); `Consume` is the callback and the start of a link.  `Prune` is the
loop that pops times from the left of a deque.  `granted` and `failed` are
history: the times of all attempts ever recorded with a key, and for each
failed login in its window when it was, how many attempts had been recorded by
then, and how many logins had failed since the last of those.

### CalendarSync

`cursor`, `mirror`, `link`, `meeting` and `decision` are the committed columns.
A session is a transaction: `draft[s]` holds what it has flushed and not
committed, laid over the tables by `Mirrors`, `Links`, `Meetings` and
`Decision`, and a row in it is locked for the others (`MirrorFree`,
`MeetingFree`, `SeriesFree`).  `lock` is the advisory lock of the connection,
which every commit releases.  `work[s]` is what the objects of the session
remember: the sync token as loaded, before the lock was asked for; the events
still to do; the links the mirrors were loaded with.

A sync is `LoadConnection`, `TakeLock` or `SkipSync`, `ListEvents`, then
`FetchMirror` and `StoreMirror` for each event, `StartMapping`, one of the four
`Map` actions for each mirror, `CommitSync`.  `RefreshToken` (401) commits and so
loses the lock before `TakeLockAgain`; `TokenExpired` (410) clears the token and
lists everything.  `CommitAfterError` is the commit in the handlers of
`sync_all_enabled_connections` and of the login callback, which keeps what was
flushed; `Abort` rolls back.  A review is `OpenReview`, then `Keep`, the mapping
of all mirrors, `CommitKeep`; or `Reject`, `CommitReject`.

Google is the pair `calendar`, `version`: a sync token is the number of changes
so far, and an incremental listing has every event changed after it.  A full
listing, the first or one after a 410, has the events from the start of its
window on (`timeMin`, any time in `Window`), and of cancelled and all-day ones
those Google still keeps in it.  `missed` is history: the events that a full
listing left out and that have not changed since.  Events come in every order.

Simplifications: one connection and one series; title and RRULE do not change;
series matched by their group key, events that do not recur, and backlinks
written to Google are left out; the loads of `Keep` are one step, and so are
the deletions of `CommitReject`.  `overlap` is history.  The connection lock is
PostgreSQL's: on another database it is a function that returns True
(`google_calendar_sync_service.py:207`), and this module says nothing of
overlapping syncs there.

### Accounts

An account is named by its email, which is unique and never changes.  `row` and
`identity` are the tables, `session[b]` the cookie of a browser: the user id
and the id of a link in progress.  A request `r` keeps in `req[r]` the step it
is at, the cookie it came with and what it will make of it (`jar`), the row as
loaded (`old`), and what it is about.  `Answer` puts the jar in the browser,
whatever the browser has received since.

Every handler is a start, which loads and checks, and a finish, which writes,
commits and answers.  The callback of either provider is longer: it starts with
the claims, is refused (`RefuseCallback`, `BlockDomain`), or resolved as a link
when the cookie has a link id (`ResolveLink`, `RefuseLink`, `FinishLink`) and as
a login otherwise (`ResolveLogin`, `RefuseLogin`, `FinishCallback`).  Where a
Google calendar token is captured, `SyncCommits` is the commit of the first
synchronisation in the middle of the login.  `Abort` is a failure at any point,
also of a write a unique constraint refuses.  `alone` marks, for unlinking and
for administration, the requests that no other such request overlapped, and
`proved` the users who typed their password to link; both are history.

Providers assert only pairs in `Claim`: one subject may be asserted with several
emails, as an address can pass from one person to another.

## 3. Runs

| Run | Instance | Shows |
|---|---|---|
| `ReminderPrompt` | 2 workers, 2 email reminders, 1 fault, runs shorter than the lease | claims exclude each other, counts are exact, emails and attempts bounded by faults, `sent_at` stays, the inductive invariant, refinement of `ReminderLifecycle` |
| `ReminderLive` | 2 workers, one reminder by email and one on another channel, 1 fault, fairness | every reminder is settled |
| `ReminderLeaseTooShort` | a run as long as the lease, no fault | **violation** of `NoConcurrentClaims` |
| `Meeting` | 2 requests interleaved, 3 meetings at two times of a rule and one by hand between them, a rule that stops or goes on, 2 tasks, 1 item, the owner and 1 user | work moves forward only, finished work stays, default due dates, what the dashboard hides; one request at a time: nothing left behind, one meeting per time, completed meetings do not change |
| `MeetingStaleCheck` | 2 requests | **violation** of `CompletedIsReadOnly` |
| `LoginRateLimit` | 2 logins in progress, 2 login keys, a callback whose ip rule is off | sliding window, recent memory, bounded failures |
| `CalendarSync` | 2 overlapping syncs, 1 review, 2 events, 2 meeting rows, 2 changes of the calendar, full listings from the first time or the second | the token claims nothing that is not mirrored, nothing old overwrites something new, decisions are final, a rejected series stays empty, kept meetings follow the calendar unless a review overlaps a sync |
| `CalendarKeepRace` | 1 sync, 1 review, 1 event | **violation** of `FollowsCalendar` |
| `Accounts` | 2 emails, 2 subjects of which one is asserted with both, 1 browser, 2 requests, one subject with a calendar, one bootstrap administrator | identities match emails and need passwords, sign-in methods and administrators are lost only to overlaps, stale objects write their own column, the inductive invariant |
| `AccountsUnlinkRace` | the same | **violation** of `EveryUserCanSignIn` |
| `SeriesRecurrence` | forms of every frequency in 4 zones around their clock changes, on both databases, up to 4 meetings | meetings are those the form asked for, on the days the label names unless the clock skips their hour |
| `SeriesOnSqlite` | one start, SQLite | **violation** of `MeetingsAsLabelled` |

### Bounds

- `MaxFaults = 1`: one crash or lost answer is enough for a second email; the
  proofs hold for every number.  `MaxTries = 4` is above
  `MaxAttempts + MaxFaults = 3`, so that it never hides an attempt.
- `MaxAttempts = 2` gives a retry and a terminal failure; `Lease = 2` with
  `RunLimit = 1` is the smallest pair with `RunLimit < Lease`, and `RunLimit = 2`
  the smallest that breaks it.
- Three meetings: two to roll between and one to be found, added by hand, or
  made.  `Rule` is a finite set of times; when the rule does not stop (`ends`
  false) a completion that would look past the last time is left out by
  `BeginComplete`: the horizon of an endless rule.  The constraint
  `OverlapsGoOn` leaves overlapping requests on a rule that stops unexplored.
  Two tasks are what two UPDATEs need to lock rows in different orders;
  `ManyTasksMove` leaves to states with both only a rule that goes on, no item,
  and the requests that complete, finish and reopen; `ItemsOrInvitations` leaves
  to overlapping requests, once there is an item, one invitation.  The proofs
  have no such bounds.  `TableFull`: an insert with no unused row in
  the model fails.
- `MaxVersion = 2` changes of the calendar: one that is imported and one that
  moves, cancels or restores it, or one for each of two events.  Two rows are
  one meeting each, or one and the next that a cancellation makes.  `ByHand`
  lets the owner add a meeting at the time of the rule, which events find by
  time.  Meetings are added by hand only when no review is open, and never to a
  rejected series, which no page lists.
- `Window = {0, 2}` of two times: a full listing begins before both or leaves out
  what is at the first.  A window may begin earlier than the one before, as
  `initial_sync_days_back` is a setting.  `OverlapsMissNothing` leaves full
  listings that leave something out, together with reviews that overlap a sync,
  unexplored, and `OverlapsArePairs` a third session after such an overlap; the
  proofs have no such bounds.
- `Horizon = 5` of the rate limiter is more than two windows and one stale age.
- `SeriesRecurrence` has the first half of 2030 with UTC, New York (forward on
  March 10), Nuuk (forward on March 30 from 23 h to midnight) and Sydney (back on
  April 7); starts on days and hours that a clock
  skips, shows twice, or that are another day in UTC; the 30th and 31st; first,
  third, fourth, fifth and last weekdays; every other period.  Intervals 0 and
  366, day 32 and position 6 are typed and refused.  Hours of a clock change are
  whole.

Deadlock is checked where the system cannot stop.  `LoginRateLimit` reaches the
end of time, and the two runs of `SeriesRecurrence` the last of their meetings.

### Fairness

`FairSpec` of `ReminderDelivery` assumes weak fairness of the clock and of each
step of a worker: the worker's loop polls for ever and catches every exception
(`cli/reminders.py:44`), and SMTP and database calls have timeouts or return.
Faults, failures and new reminders are never assumed to happen, and success is
not: a reminder is settled because attempts are bounded.  No other run uses
fairness: requests of users need not come, and a handler may fail at any await.

### Disagreements found

1. The lease counts from the start of the run (`reminder_delivery_service.py:90`),
   so late in a run a claim has expired when it is made and two workers mail
   the same reminder (`ReminderLeaseTooShort`).  README.md:94 calls the lease a
   means "to prevent duplicate concurrent claims".
2. `ensure_occurrence_writable` looks at an object loaded before the await
   (`MeetingStaleCheck`), although the page says a completed meeting is
   read-only.
3. Keeping an imported series takes no connection lock.  When a sync holds a
   newer state of its events, the review maps the old state and the sync, which
   sees the series as pending, maps nothing; the token advances and the meeting
   stays at the old time (`CalendarKeepRace`).  `RejectedIsEmpty` holds in
   spite of such overlaps, and `FollowsCalendar` holds without them.
4. Two unlink requests of one user each count the identity the other deletes,
   and the user is left with none (`AccountsUnlinkRace`).  README.md:233 says
   unlinking is blocked when it would remove the only sign-in method.
5. On SQLite the stored start has lost its zone, is taken for UTC, and the
   meetings rolled from it are at another hour than the label says
   (`SeriesOnSqlite`).

Smaller ones, which the properties above state as exceptions and no run of
their own shows:

- Completing an earlier meeting after the last of a finished rule moves work
  into a completed meeting (`occurrence_service.py:150`);
  `ReadOnlyWhileRuleGoesOn` and `NothingLeftBehind` are about rules that go on.
- A meeting made by rolling forward has no reminder (`occurrence_service.py:153`),
  although README.md:103 says each new one gets it, and no attendees, so that
  the assignee of a rolled task does not see it (`UrgentWorkIsSeen`).  A meeting
  made by mapping a calendar event has no reminder either
  (`calendar_event_mapping_service.py:110`).
- A full listing begins at `now - initial_sync_days_back`
  (`google_calendar_client.py:197`).  When a token has expired, an event that was
  moved to before that is not listed and the new token covers it all the same,
  so its mirror and its meeting stay at the old time, although
  docs/google-calendar-sync-issue-draft.md:14 says reschedules are handled; and
  so with a cancellation that Google has forgotten.  `missed` has these events,
  and `CursorCovers` and `FollowsCalendar` exempt them until they change again.
- An invitation to the series links users to completed meetings, although their
  page says attendees are read-only.
- The dashboard's count of participants counts an owner who is linked twice
  (`dashboard_service.py:99`).
- A meeting at an hour that the clock skips over midnight (23:00 in Nuuk on the
  last Saturday of March) is shown on the day after the one its label names
  (`recurrence.py:365`).  `DaysAsLabelled` says so; the case was found by the
  attempt to prove it without.
- On PostgreSQL the label names the hour in UTC beside the name of the zone,
  and a start that the clock skips moves the rolled meetings by an hour.

## 4. Proofs

Every theorem is checked by TLAPS for any values of the constants that satisfy
the assumptions named in the modules.

### ReminderDeliveryProofs

- `TypeCorrect`: `TypeOK`, with no assumption.  Its strengthening adds that a
  session's object counts at most one attempt more than was loaded and that at
  most one reminder still to do is claimed (`SessionInv`); without that
  `attempts - 1` of a backoff would not be a natural number.
- `Invariance`: `IInv`, assuming `LeaseOutlivesRun` (`RunLimit < Lease`).  The
  properties are not inductive by themselves: that no two sessions hold a claim
  needs to know that the holder's lease is still in the row, which in turn
  needs that no other session can have written `next_attempt_at` since, hence
  that whoever is not the holder has an older attempt count or a clean object.
  `IInv` says this row by row.
- `ClaimsExclude`, `CountsExact`, `OneEmail`, `AttemptsBounded`, `SentIsTrue`
  follow.
- `ImplementsLifecycle`: the refinement of `ReminderLifecycle`, from `IInv`.  A
  claim is an `Attempt`, an accepted message a `Mail`, which comes before the
  next claim because a reminder still to do has fewer emails than claims, and a
  run's commit is a `Settle`; every other step is a stutter.
- `SentForGood`: `SentAtStays`, with no assumption on the lease or on how long
  runs last.  A session never loads a reminder that was sent (`SessionUnsent`),
  so a `sent_at` it writes is one it has set; and no session has anything to
  write for a reminder that is created after it loaded (`AbsentUnsent`).

### MeetingProofs

For any numbers of meetings, tasks, items, users and overlapping requests, any
rule, stopping or not, and without the constraint of the run.  `MeetingInv` is
the conjunction of

- `FormInv`: what a request remembers exists, and what it has checked and cannot
  change back (a link, a time, that a row is on a meeting) still holds;
- `RollInv`: the meeting a completion rolls to is later than the one it
  completes, or is its own to make at the rule's next time; the rows it has moved
  are still where it found them, unfinished, and no other completion's;
- `TableInv`: work is on meetings that exist, and the properties of due dates
  and assignees;
- `AloneInv` and `GoesOnInv`: while requests have not overlapped, what a request
  read is still so, and the rows that have yet to move are those its UPDATE
  found; and if moreover the rule goes on, every completed meeting is
  followed by an open one, so that no completion rolls into a completed one.

From it follow all properties of the run `Meeting`: `TypeCorrect`, `DueDates`,
`NoDoubles`, `NoneLeftBehind`, `DashboardShows`, and the action properties
`NeverSentBack`, `RecordsStay` and `ReadOnly`.

### CalendarProofs

For any events, meetings, rule, changes of the calendar and overlapping syncs.
`CalendarInv` is the conjunction of

- `TypeInv`: types, also of what sessions have loaded and not committed;
- `PastInv`: every mirror is an event as the calendar had it at some time; a
  sync between taking the lock and its commit holds the lock, a sync elsewhere
  has written nothing, and what one has listed or written is as of the version
  it listed at, and no older than the mirror it replaces;
- `CoverInv`: `CursorCovers` said of the sync token, of every token a sync has
  loaded or sent, and of the one a listing will store, counting what that sync
  has written or is about to.

`NothingGoesBack` and `CursorCovers` follow (`NeverBack`, `TokenIsTrue`).  The
argument in one line: the lock makes what a sync has listed newer than any
mirror until its commit, although it was lost and taken again at the refresh of
an access token, because nothing is listed before that.  What a full listing
left out is exempt from `CursorCovers` (see the disagreements), so `CoverInv` is
about the events that are `Shown`: in the calendar and not in `missed`.

`DecidedOnce` and `RejectedStaysEmpty` assume `OneReview`, that a series is not
reviewed twice at the same time, which the code does not ensure.  They add
`DecisionInv` (a series under review is pending until that review decides; a
sync makes a series pending only if there is none) and `LinkInv` (nothing is
linked, nor remembered as linked, unless the series is kept).

### FollowProofs

`MeetingsFollow` states `FollowsCalendarUnlessOverlapped` for any events,
meetings, rule, changes of the calendar and overlapping syncs, assuming
`OneReview`.  The promise is about what is committed, but a sync keeps it over
many steps in its own uncommitted view, and another sync or a later request may
hold an earlier token.  `Following`, which holds as long as no review has
overlapped a sync, is the conjunction of

- `Exclusive`: while a review is open, every sync is idle or still about to take
  the lock; together with the lock this leaves one session at a time that has
  listed events (`OneLists`);
- `FollowsTo` of the committed token and of every token a sync has loaded: a
  timed event that has not changed since it, and that no full listing left out,
  has a meeting as the property says;
- `Hold`: no event is linked to a meeting that is gone, without which mapping
  would take a linked event for a new one;
- `SessionInv`, of each session: it writes links and meetings only while mapping,
  asks Google with the token it loaded or with none, and its view (`ViewInv`)
  follows every event that it followed before, and every event as of its listing
  that it is not still to map; the link it loaded for an event still to be
  mapped is the one it sees, as no event is listed twice;
- `TokenBefore`: no sync has loaded a token later than what another has listed,
  so that when that one commits, its view follows the other's token too.

The argument in one line: an event not listed has not changed since the token
that was sent, and was followed already, or is `missed`; an event listed is mapped as it was
listed (`MapView`), and mapping it changes the meeting of another event only if
the two share it (`MappingKeeps`); and a commit shows all of it at once
(`SyncTokens`).  A commit after an error shows part, but each event that had not
changed since the kept token is in that part as it was.  Keeping a series maps
every mirror, and by `CoverInv` the mirrors are the calendar as of every token
(`CommitKeepFollow`).

That `~overlap` is needed is the disagreement `FollowsCalendar` shows: a review
that overlaps a sync maps the mirrors that were committed and not those the sync
has written, and the sync, which saw the series pending, maps nothing.

### AccountsProofs

For any users, subjects, claims, browsers and requests.  `IInv` is

- `TypeInv`: types, and that a request that still has claims to act on has a
  pair of `Claim`;
- `LinkInv`: whoever an identity, the link id of a cookie or a linking request
  names exists and, having a password, has typed it; an account about to be
  adopted still has none;
- `UnlinkInv`: an unlink request that no other overlapped leaves a way to sign in;
- `AdminInv`: the administrator behind a request that no other overlapped still
  is one, and takes nothing from themselves.

TLC checks it too.  `MailMatches`, `PasswordGuards`, `SignInKept`, `AdminRemains`
and `ColumnsOwn` follow, beside `TypeCorrect` and `Invariance`.

### RecurrenceProofs

For any calendar whose months start 28 to 31 days apart, any zones with one
change of the clock, any forms, both databases and any number of meetings.

- `TypeCorrect`: from `FormInv`, which says that the row of a series is the one
  its form makes, and that a form with a rule has its start in the calendar.
- `Labelled`: every meeting was made from a wall time on a day that the label
  names (`LabelInv`); the clock shows that wall time unless it skips it
  (`LocalInstant`).
- `Asked`: `MeetingsAreAsked`.  Its first half says that the times of the rule
  are the times of the form (`TimesAreAsked`).  The step that matters is
  `PositionsAsked`: the position of a day among the days of its month that are
  one weekday is its week of the month, because those up to it are the days
  whole weeks before it (`WeeksBefore`), counted from the end likewise
  (`LastWeek`).  The second half is the invariant `AskedInv`: the meetings are
  made from a set of wall times that has no gap (`First`).  A completion makes
  the first time after the meeting completed, or the one already there, and
  either leaves no gap, in whatever order meetings are completed.

`MeetingsAreAsked` is about a start that comes back from the database as it was
stored, and about clocks that never skip a whole day; where one does (Samoa,
December 30, 2011), two days of the calendar are one instant and a meeting is
missing.  Both conditions are part of the property, so that the run says no more
than the theorem.

### RateLimitProofs

For any keys, limits, windows, multipliers and numbers of logins in progress.
`RateLimitAssumption` says that the two keys of a login differ and that no rule
shares keys with another, as each has a bucket of its own.

- `MemOK` ties the memory to the attempts ever recorded: what is kept of a key
  is what is left of them after some that are out of the window (`LeftOf`), and
  a key that is not kept has none in the window.  Because times are in order,
  pruning leaves exactly those in the window (`PrunedIsWindow`), so that the
  length of a pruned deque is the number of recent attempts (`KeyPruned`); a
  sweep only forgets keys that have no recent ones, as a stale age is never
  below its window (`SweepOK`).
- `TypeCorrect`, `Recently` and the refinement `Implements` follow: asking about
  two keys is an `Ask` of `RateWindow`, recording with them an `Attempt`, whose
  second key is judged after the first is recorded and independently of it
  (`GrantedOther`).
- `Bounded` needs `FailInv`.  While a key is at its limit, the logins that
  failed since it reached it and those in progress are together no more than
  the sessions (`LimitHolds`): a login that starts then is answered 429.  Hence
  failures after one attempt are numbered from 0 to `Logins - 1`, and number 0
  is the attempt itself (`Numbered`).  Failures in the window then belong to
  one of at most `Max` attempts in it, or are late ones of the last attempt
  before it: `Max * Logins + (Logins - 1)` in all (`NumberedBound`).

### Only model-checked

Liveness, which is beyond this prover, and the properties of the runs that expect
a violation.  Every safety invariant, action property and refinement that a
passing run checks is a theorem.

## 5. Not modelled

- Collaboration presence: advisory, in memory, lost at a restart, and nothing
  else reads it.
- Accounts: edits of the profile, the suggestions of attendees, expiry of the
  cookie, an administrator's reading of other pages.
- Meetings: the conversion of one agenda item into several tasks is possible in
  the model as in the code, and no property forbids it, as nothing says which
  is meant.
- Series: RRULEs imported from Google, which have parts `build_rrule` never
  writes; their next times are those of any rule in `MeetingRollForward`.
- Calendar: overlapping syncs on a database other than PostgreSQL, SQLite by
  default, where the connection lock always succeeds
  (`google_calendar_sync_service.py:207`); a pass over several connections, backlinks, series that were local
  before their events were imported.  Two reviews of one series at the same time
  overwrite each other's decision; the run has one.  Events that share a meeting,
  because they were at one time when they were mapped, are left out of
  `FollowsCalendar`: the code gives neither of them the meeting.
- Compositions: the import with rolled work (an event reopens a meeting whose
  work has moved on), and the deletion of reminders of a rejected import under
  the run that delivers them, of which only the lost run (`AbortRun`) is
  modelled.
- Page rendering, wording of emails and of audit records, OIDC and HTTP
  encodings, settings, seeds, templates and migrations have no protocol of their
  own.

## 6. Plan

1. *Done:* reminder delivery, its abstract specification, safety and refinement
   proofs.
2. *Done:* meetings, rolling forward, dashboard, with interleaved requests, and
   their safety proofs.
3. *Done:* rate limits and the ideal window.
4. *Done:* `CalendarSync`, one connection and one series, with proofs.
5. *Done:* accounts, identities, cookies and administration, with proofs.
6. *Done:* series, recurrence and their labels.
7. `CalendarPass`: several connections in one pass, and what an error of the
   database in one does to the others; two reviews at once; the composition of
   mapping with `MeetingRollForward`, and rejecting under a run of reminders.
8. Collaboration presence.
9. *Done:* a proof for each safety property, action property and refinement
   that a passing run checks.
