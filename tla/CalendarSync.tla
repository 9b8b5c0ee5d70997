--------------------------- MODULE CalendarSync ---------------------------
(***************************************************************************)
(* One Google calendar connection and one recurring series of it:          *)
(* synchronisation, the mapping of mirrored events to meetings, and the    *)
(* review of the imported series                                           *)
(* (services/google_calendar_sync_service.py,                              *)
(* calendar_event_mapping_service.py, google_imported_series_service.py).  *)
(*                                                                         *)
(* A session is one transaction at READ COMMITTED: it sees what has been   *)
(* committed and, over it, its own flushed writes (draft).  A written row  *)
(* is locked until the commit.  The advisory lock is of the transaction:   *)
(* every commit and rollback releases it.  Objects keep the values they    *)
(* were loaded with.  All this is PostgreSQL: on another database the      *)
(* advisory lock is a function that returns True, and nothing here is said *)
(* of overlapping syncs.                                                   *)
(***************************************************************************)
EXTENDS Integers, SequencesExt

CONSTANTS
    Event,      \* instances of the recurring event, in Google
    Time,       \* start times
    Rule,       \* times the series' RRULE yields
    ByHand,     \* times at which the owner adds meetings
    Row,        \* rows of meeting_occurrence
    Syncer,     \* sessions of the worker, the profile page and the login callback
    Reviewer,   \* sessions in which the owner decides about the import
    MaxVersion, \* bound: changes of the calendar
    Window,     \* times at which the window of a full listing may start
    Cancelled, AllDay, None

Session == Syncer \cup Reviewer

ASSUME CalendarAssumption ==
    /\ Time \subseteq Nat
    /\ Rule \subseteq Time
    /\ ByHand \subseteq Time
    /\ MaxVersion \in Nat
    /\ Window \subseteq Nat
    /\ Syncer \cap Reviewer = {}
    /\ IsFiniteSet(Event)
    /\ {Cancelled, AllDay, None} \cap (Nat \cup Row \cup Session) = {}
    /\ None \notin {Cancelled, AllDay, "pending", "kept", "rejected"}
    /\ None \notin [at : Time, done : BOOLEAN]

VARIABLES
    calendar,  \* what Google holds: each event and the version it last changed in
    version,   \* number of changes so far; a sync token is a version
    cursor,    \* sync_token of the connection
    mirror,    \* mirrored events, with the version they were listed in
    link,      \* linked_occurrence_id of each mirror
    meeting,   \* rows of meeting_occurrence: time and is_completed
    decision,  \* import_decision; None while there is no series
    lock,      \* holder of the connection's advisory lock
    pc,        \* where each session is
    work,      \* what it has loaded and been given
    draft,     \* what it has written and not committed
    missed,    \* history: events that a full listing left out as they are
    overlap    \* history: a review and a sync have overlapped

google == <<calendar, version>>
tables == <<cursor, mirror, link, meeting, decision>>
history == <<missed, overlap>>
vars == <<google, tables, lock, pc, work, draft, history>>

-----------------------------------------------------------------------------
NoEvent == [is |-> None, v |-> 0]
NoWork == [token |-> None, asked |-> None, cleared |-> FALSE, next |-> None,
           batch |-> <<>>, links |-> [e \in Event |-> None], i |-> 1]
NoDraft == [mirror |-> [e \in Event |-> NoEvent], link |-> [e \in Event |-> None],
            meeting |-> [o \in Row |-> None], decision |-> None]

(* What a session sees.                                                    *)
Seen(written, committed, nothing) ==
    [x \in DOMAIN committed |-> IF written[x] # nothing THEN written[x] ELSE committed[x]]

Mirrors(s) == Seen(draft[s].mirror, mirror, NoEvent)
Links(s) == Seen(draft[s].link, link, None)
Meetings(s) == Seen(draft[s].meeting, meeting, None)
Decision(s) == IF draft[s].decision # None THEN draft[s].decision ELSE decision

Others(s) == Session \ {s}

(* No other session holds the row's lock.                                  *)
MirrorFree(s, e) ==
    \A v \in Others(s) : draft[v].mirror[e] = NoEvent /\ draft[v].link[e] = None
MeetingFree(s, o) == \A v \in Others(s) : draft[v].meeting[o] = None
SeriesFree(s) == \A v \in Others(s) : draft[v].decision = None

(* A fresh id.                                                             *)
Unused(s, o) == Meetings(s)[o] = None /\ MeetingFree(s, o)

MeetingsAt(s, t) == {o \in Row : Meetings(s)[o] # None /\ Meetings(s)[o].at = t}

-----------------------------------------------------------------------------
Init ==
    /\ calendar = [e \in Event |-> NoEvent]
    /\ version = 0
    /\ cursor = None
    /\ mirror = [e \in Event |-> NoEvent]
    /\ link = [e \in Event |-> None]
    /\ meeting = [o \in Row |-> None]
    /\ decision = None
    /\ lock = None
    /\ pc = [s \in Session |-> "idle"]
    /\ work = [s \in Session |-> NoWork]
    /\ draft = [s \in Session |-> NoDraft]
    /\ missed = {}
    /\ overlap = FALSE

(* The user adds, moves, cancels or restores an instance in Google.        *)
ChangeEvent(e) ==
    /\ version < MaxVersion
    /\ \E c \in (Time \cup {Cancelled, AllDay}) \ {calendar[e].is} :
         /\ calendar[e].is = None => c # Cancelled
         /\ calendar' = [calendar EXCEPT ![e] = [is |-> c, v |-> version + 1]]
    /\ version' = version + 1
    /\ missed' = missed \ {e}
    /\ UNCHANGED <<tables, lock, pc, work, draft, overlap>>

(* create_occurrence_for_owner.  Bound: none is added to a series that is  *)
(* being reviewed or was rejected; no page lists it.                       *)
AddByHand(o) ==
    /\ decision \in {"pending", "kept"}
    /\ meeting[o] = None
    /\ \A s \in Session : draft[s].meeting[o] = None
    /\ \A r \in Reviewer : pc[r] = "idle"
    /\ \E t \in ByHand : meeting' = [meeting EXCEPT ![o] = [at |-> t, done |-> FALSE]]
    /\ UNCHANGED <<google, cursor, mirror, link, decision, lock, pc, work, draft, history>>

-----------------------------------------------------------------------------
Goto(s, step) == pc' = [pc EXCEPT ![s] = step]

Quit(s) ==
    /\ Goto(s, "idle")
    /\ work' = [work EXCEPT ![s] = NoWork]
    /\ draft' = [draft EXCEPT ![s] = NoDraft]
    /\ lock' = IF lock = s THEN None ELSE lock

(* The commit makes a session's writes visible.                            *)
Publish(s) ==
    /\ mirror' = Mirrors(s)
    /\ link' = Links(s)
    /\ meeting' = Meetings(s)
    /\ decision' = Decision(s)

-----------------------------------------------------------------------------
(* The connection is loaded, by itself or in the list of all; a token      *)
(* about to expire is refreshed and committed before the lock is asked.    *)
LoadConnection(s) ==
    /\ pc[s] = "idle"
    /\ Goto(s, "lock")
    /\ work' = [work EXCEPT ![s].token = cursor]
    /\ UNCHANGED <<google, tables, lock, draft, history>>

HasMirrors == \E e \in Event : mirror[e] # NoEvent

(* _resolve_sync_token_for_request                                         *)
TokenToSend(s) == IF HasMirrors THEN work[s].token ELSE None

(* _try_acquire_connection_sync_lock, on PostgreSQL                        *)
TakeLock(s) ==
    /\ pc[s] = "lock"
    /\ lock = None
    /\ lock' = s
    /\ Goto(s, "list")
    /\ work' = [work EXCEPT ![s].asked = TokenToSend(s)]
    /\ overlap' = (overlap \/ \E r \in Reviewer : pc[r] # "idle")
    /\ UNCHANGED <<google, tables, draft, missed>>

(* Mutant of TakeLockAgain: after the refresh the sync goes on unlocked.   *)
GoOnUnlocked(s) ==
    /\ pc[s] = "lock_again"
    /\ Goto(s, "list_again")
    /\ UNCHANGED <<google, tables, lock, work, draft, history>>

TakeLockAgain(s) ==
    /\ pc[s] = "lock_again"
    /\ lock = None
    /\ lock' = s
    /\ Goto(s, "list_again")
    /\ UNCHANGED <<google, tables, work, draft, history>>

SkipSync(s) ==
    /\ pc[s] \in {"lock", "lock_again"}
    /\ lock # None
    /\ Quit(s)
    /\ UNCHANGED <<google, tables, history>>

(* 401: the refreshed access token is committed, and the lock is lost.     *)
RefreshToken(s) ==
    /\ pc[s] = "list"
    /\ lock' = None
    /\ Goto(s, "lock_again")
    /\ UNCHANGED <<google, tables, work, draft, history>>

(* 410 on the first request made with a token.                             *)
TokenExpired(s) ==
    /\ pc[s] = "list"
    /\ work[s].asked # None
    /\ Goto(s, "list_again")
    /\ work' = [work EXCEPT ![s].asked = None, ![s].cleared = TRUE]
    /\ UNCHANGED <<google, tables, lock, draft, history>>

(* The parameters of a request: with a token, changes since; without, all  *)
(* events from the start of the window, timeMin, which moves with the      *)
(* clock and with initial_sync_days_back.                                  *)
Listable(since, timeMin) ==
    {e \in Event :
        /\ calendar[e] # NoEvent
        /\ IF since # None THEN calendar[e].v > since
           ELSE calendar[e].is \in Time => calendar[e].is >= timeMin}

InOrder(order, table) ==
    [i \in DOMAIN order |->
        [event |-> order[i], is |-> table[order[i]].is, v |-> table[order[i]].v]]

(* list_events: all pages, in the order Google gives.  A full listing has  *)
(* those of the events that are cancelled or all day that Google still     *)
(* keeps in the window.                                                    *)
ListEvents(s) ==
    /\ pc[s] \in {"list", "list_again"}
    /\ \E timeMin \in Window,
          gone \in SUBSET {e \in Event : calendar[e].is \in {Cancelled, AllDay}} :
         LET listed == Listable(work[s].asked, timeMin) \ gone
         IN  /\ work[s].asked # None => gone = {}
             /\ missed' = missed \cup (Listable(work[s].asked, 0) \ listed)
             /\ \E order \in SetToSeqs(listed) :
                  work' = [work EXCEPT
                      ![s].asked = None,
                      ![s].next = version,
                      ![s].batch = InOrder(order, calendar)]
    /\ Goto(s, "fetch")
    /\ UNCHANGED <<google, tables, lock, draft, overlap>>

Finished(s) == work[s].i > Len(work[s].batch)
Item(s) == work[s].batch[work[s].i]

Advance(s) == work' = [work EXCEPT ![s].i = @ + 1]

(* _upsert_mirror_event: the row is loaded or inserted, and then updated   *)
(* once nobody else locks it.                                              *)
FetchMirror(s) ==
    /\ pc[s] = "fetch"
    /\ ~Finished(s)
    /\ work' = [work EXCEPT ![s].links[Item(s).event] = link[Item(s).event]]
    /\ Goto(s, "store")
    /\ UNCHANGED <<google, tables, lock, draft, history>>

(* Mutant of Stored: an event that came without a start is not written.    *)
StoredIfTimed(s, old) ==
    IF Item(s).is \in {Cancelled, AllDay} THEN old ELSE [is |-> Item(s).is, v |-> Item(s).v]

Stored(s, old) == [is |-> Item(s).is, v |-> Item(s).v]

StoreMirror(s) ==
    /\ pc[s] = "store"
    /\ MirrorFree(s, Item(s).event)
    /\ draft' = [draft EXCEPT ![s].mirror[Item(s).event] =
           Stored(s, mirror[Item(s).event])]
    /\ Advance(s)
    /\ Goto(s, "fetch")
    /\ UNCHANGED <<google, tables, lock, history>>

(* Details of the recurring event are fetched; its RRULE is taken to be    *)
(* Rule throughout.                                                        *)
StartMapping(s) ==
    /\ pc[s] = "fetch"
    /\ Finished(s)
    /\ Goto(s, "map")
    /\ work' = [work EXCEPT ![s].i = 1]
    /\ UNCHANGED <<google, tables, lock, draft, history>>

-----------------------------------------------------------------------------
(* _map_single_mirror, for a sync and for a review.                        *)
Mapping(s) == pc[s] = "map" /\ ~Finished(s)

LinkOf(s) == work[s].links[Item(s).event]
Linked(s) == LinkOf(s) # None /\ Meetings(s)[LinkOf(s)] # None
Timed(s) == Item(s).is \in Time

Mapped(s, d) ==
    /\ draft' = [draft EXCEPT ![s] = d]
    /\ Advance(s)
    /\ UNCHANGED <<google, tables, lock, pc, history>>

(* Mutant of MayMap: only a pending series is left alone.                  *)
MayMapRejected(d) == d # "pending"

MayMap(d) == d = "kept"

(* Cancelled and never linked, all day, or of a series not kept.           *)
MapNothing(s) ==
    /\ Mapping(s)
    /\ \/ Item(s).is = Cancelled /\ ~Linked(s)
       \/ Item(s).is = AllDay
       \/ Timed(s) /\ Decision(s) # None /\ ~MayMap(Decision(s))
    /\ Mapped(s, draft[s])

(* _resolve_series: the first timed instance makes a series to be          *)
(* reviewed.                                                               *)
MapNewSeries(s) ==
    /\ Mapping(s)
    /\ Timed(s)
    /\ Decision(s) = None
    /\ Mapped(s, [draft[s] EXCEPT !.decision = "pending"])

(* A linked meeting is moved and reopened; else one at the time is taken,  *)
(* or a new one made.                                                      *)
MapMeeting(s) ==
    /\ Mapping(s)
    /\ Timed(s)
    /\ Decision(s) # None
    /\ MayMap(Decision(s))
    /\ MirrorFree(s, Item(s).event)
    /\ \E o \in Row :
         /\ MeetingFree(s, o)
         /\ IF Linked(s) THEN o = LinkOf(s)
            ELSE IF MeetingsAt(s, Item(s).is) # {} THEN o \in MeetingsAt(s, Item(s).is)
            ELSE Unused(s, o)
         /\ Mapped(s, [draft[s] EXCEPT
                !.meeting[o] = [at |-> Item(s).is, done |-> FALSE],
                !.link[Item(s).event] = o])

NextOfRule(t, k) == k \in Rule /\ k > t /\ \A j \in Rule : j > t => k <= j

(* complete_occurrence_and_roll_forward: whether it makes a meeting k.     *)
RollsInto(s, o, k) ==
    LET m == Meetings(s)
    IN  /\ \A n \in Row : m[n] # None /\ m[n].at > m[o].at => m[n].done
        /\ NextOfRule(m[o].at, k)
        /\ MeetingsAt(s, k) = {}

(* A cancelled instance completes its meeting.                             *)
MapCancelled(s) ==
    LET o == LinkOf(s)
        closed == [at |-> Meetings(s)[o].at, done |-> TRUE]
    IN  /\ Mapping(s)
        /\ Item(s).is = Cancelled
        /\ Linked(s)
        /\ MeetingFree(s, o)
        /\ \/ /\ \A k \in Rule : ~RollsInto(s, o, k)
              /\ Mapped(s, [draft[s] EXCEPT !.meeting[o] = closed])
           \/ \E k \in Rule, n \in Row :
                /\ RollsInto(s, o, k)
                /\ Unused(s, n)
                /\ Mapped(s, [draft[s] EXCEPT
                       !.meeting[o] = closed, !.meeting[n] = [at |-> k, done |-> FALSE]])

-----------------------------------------------------------------------------
(* Mutant of NextToken: the token is one change ahead.                     *)
NextTokenAhead(s) == work[s].next + 1

NextToken(s) == work[s].next

(* The token is written if it is not the one that was loaded, or if its    *)
(* clearing has been flushed with the mirrors.                             *)
CommitSync(s) ==
    /\ s \in Syncer
    /\ pc[s] = "map"
    /\ Finished(s)
    /\ Publish(s)
    /\ cursor' = IF \/ NextToken(s) # work[s].token
                    \/ work[s].cleared /\ work[s].batch # <<>>
                 THEN NextToken(s) ELSE cursor
    /\ Quit(s)
    /\ UNCHANGED <<google, history>>

(* An exception, a crash or a deadlock of row locks: all is rolled back.   *)
Abort(s) ==
    /\ pc[s] # "idle"
    /\ Quit(s)
    /\ UNCHANGED <<google, tables, history>>

(* Mutant of TokenAfterError: the token was set before mapping began.      *)
TokenBeforeMapping(s) == IF work[s].next # None THEN work[s].next ELSE cursor

TokenAfterError(s) == IF work[s].cleared THEN None ELSE cursor

(* sync_all_enabled_connections and the login callback commit after an     *)
(* exception, which succeeds unless it came from the database: what was    *)
(* flushed stays, the token does not advance.                              *)
CommitAfterError(s) ==
    /\ s \in Syncer
    /\ pc[s] \in {"list", "list_again", "map"}
    /\ Publish(s)
    /\ cursor' = TokenAfterError(s)
    /\ Quit(s)
    /\ UNCHANGED <<google, history>>

-----------------------------------------------------------------------------
(* Mutant of MayReview: a decision already made can be made again.         *)
MayReviewAgain == decision # None

(* get_pending_google_import_for_owner                                     *)
MayReview == decision = "pending"

OpenReview(r) ==
    /\ pc[r] = "idle"
    /\ MayReview
    /\ \E choice \in {"keep", "reject"} : Goto(r, choice)
    /\ overlap' = (overlap \/ \E s \in Syncer : pc[s] \notin {"idle", "lock"})
    /\ UNCHANGED <<google, tables, lock, work, draft, missed>>

ToKeep == {e \in Event : mirror[e] # NoEvent}

(* keep_pending_google_series: the decision is flushed, which waits for    *)
(* the series row, and the mirrors are loaded.                             *)
Keep(r) ==
    /\ pc[r] = "keep"
    /\ SeriesFree(r)
    /\ \E order \in SetToSeqs(ToKeep) :
         work' = [work EXCEPT
             ![r].batch = InOrder(order, mirror),
             ![r].links = link]
    /\ draft' = [draft EXCEPT ![r].decision = "kept"]
    /\ Goto(r, "map")
    /\ UNCHANGED <<google, tables, lock, history>>

CommitKeep(r) ==
    /\ pc[r] = "map"
    /\ Finished(r)
    /\ Publish(r)
    /\ Quit(r)
    /\ UNCHANGED <<google, cursor, history>>

(* reject_pending_google_series: the decision is flushed, the linked       *)
(* mirrors are loaded, ...                                                 *)
Reject(r) ==
    /\ pc[r] = "reject"
    /\ SeriesFree(r)
    /\ draft' = [draft EXCEPT ![r].decision = "rejected"]
    /\ work' = [work EXCEPT ![r].links = link]
    /\ Goto(r, "delete")
    /\ UNCHANGED <<google, tables, lock, history>>

Deletable == {o \in Row : meeting[o] # None}

(* ... they are unlinked, and the meetings deleted, which the foreign key  *)
(* refuses for one that another mirror is linked to.                       *)
CommitReject(r) ==
    LET linked == {e \in Event : work[r].links[e] # None}
    IN  /\ pc[r] = "delete"
        /\ \A e \in linked : MirrorFree(r, e)
        /\ \A o \in Deletable : MeetingFree(r, o)
        /\ \A e \in Event \ linked : link[e] = None
        /\ link' = [e \in Event |-> IF e \in linked THEN None ELSE link[e]]
        /\ meeting' = [o \in Row |-> IF o \in Deletable THEN None ELSE meeting[o]]
        /\ decision' = "rejected"
        /\ Quit(r)
        /\ UNCHANGED <<google, cursor, mirror, history>>

-----------------------------------------------------------------------------
Sync(s) ==
    \/ LoadConnection(s) \/ TakeLock(s) \/ SkipSync(s)
    \/ ListEvents(s) \/ RefreshToken(s) \/ TakeLockAgain(s) \/ TokenExpired(s)
    \/ FetchMirror(s) \/ StoreMirror(s) \/ StartMapping(s)
    \/ CommitSync(s) \/ CommitAfterError(s)

Map(s) == MapNothing(s) \/ MapNewSeries(s) \/ MapMeeting(s) \/ MapCancelled(s)

Review(r) == OpenReview(r) \/ Keep(r) \/ CommitKeep(r) \/ Reject(r) \/ CommitReject(r)

Next ==
    \/ \E e \in Event : ChangeEvent(e)
    \/ \E o \in Row : AddByHand(o)
    \/ \E s \in Syncer : Sync(s)
    \/ \E r \in Reviewer : Review(r)
    \/ \E s \in Session : Map(s) \/ Abort(s)

Spec == Init /\ [][Next]_vars

-----------------------------------------------------------------------------
Steps == {"idle", "lock", "list", "lock_again", "list_again", "fetch", "store", "map",
          "keep", "reject", "delete"}

Token == 0 .. MaxVersion \cup {None}
Content == Time \cup {Cancelled, AllDay, None}
Listed == [is : Content, v : 0 .. MaxVersion]

TypeOK ==
    /\ calendar \in [Event -> Listed]
    /\ version \in 0 .. MaxVersion
    /\ cursor \in Token
    /\ mirror \in [Event -> Listed]
    /\ link \in [Event -> Row \cup {None}]
    /\ \A o \in Row : meeting[o] = None \/ meeting[o] \in [at : Time, done : BOOLEAN]
    /\ decision \in {None, "pending", "kept", "rejected"}
    /\ lock \in Syncer \cup {None}
    /\ pc \in [Session -> Steps]
    /\ missed \subseteq Event
    /\ overlap \in BOOLEAN

(* What the sync token claims is mirrored: an event that has not changed   *)
(* since the token is in the mirror as Google has it, whatever sync        *)
(* failed, was repeated or overlapped another; unless a full listing left  *)
(* it out as it is now: from before the window, or forgotten by Google.    *)
CursorCovers ==
    \A e \in Event :
        /\ cursor # None
        /\ calendar[e] # NoEvent
        /\ calendar[e].v <= cursor
        /\ e \notin missed
        => mirror[e] = calendar[e]

(* "Prevents overlapping syncs": no late or repeated sync writes an older  *)
(* state of an event over a newer one, or sets the token back, except to   *)
(* none.                                                                   *)
NothingGoesBack ==
    [][/\ \A e \in Event : mirror'[e].v >= mirror[e].v
       /\ cursor # None /\ cursor' # None => cursor' >= cursor]_vars

(* "Keep the series row as a tombstone so this external recurring ID stays *)
(* rejected": a decision is made once.                                     *)
DecisionIsFinal ==
    [][(decision \in {"kept", "rejected"}) => (decision' = decision)]_vars

(* A rejected series has no meetings, and syncs never bring one back.      *)
RejectedIsEmpty ==
    decision = "rejected" =>
        (\A e \in Event : link[e] = None) /\ (\A o \in Row : meeting[o] = None)

Alone(e) == \A f \in Event \ {e} : link[f] # link[e]

(* "Handle reschedules/cancellations": in a kept series every timed event  *)
(* that has not changed since the token, and that no full listing left     *)
(* out, has a meeting, and one that is its own is open and at its time.    *)
FollowsCalendar ==
    \A e \in Event :
        /\ decision = "kept"
        /\ cursor # None
        /\ calendar[e].is \in Time
        /\ calendar[e].v <= cursor
        /\ e \notin missed
        => /\ link[e] # None
           /\ Alone(e) => meeting[link[e]] = [at |-> calendar[e].is, done |-> FALSE]

(* The same as long as no review overlapped a sync.                        *)
FollowsCalendarUnlessOverlapped == ~overlap => FollowsCalendar
=============================================================================
