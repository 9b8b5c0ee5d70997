--------------------------- MODULE CalendarProofs ---------------------------
(* Safety of calendar synchronisation, for any number of events, meetings  *)
(* and overlapping syncs, and for one review at a time.                    *)
EXTENDS CalendarSync, FiniteSetTheorems, TLAPS

-----------------------------------------------------------------------------
(* Where a session is: a sync that holds the lock, one that has listed     *)
(* events, a review that has written its decision.                         *)
Locked == {"list", "list_again", "fetch", "store", "map"}
Listing == {"fetch", "store", "map"}
SyncSteps == {"idle", "lock", "lock_again"} \cup Locked
ReviewSteps == {"idle", "keep", "reject", "map", "delete"}

MeetingRow == [at : Time, done : BOOLEAN]
ListedItem == [event : Event, is : Content, v : 0 .. MaxVersion]
Draft == [mirror : [Event -> Listed], link : [Event -> Row \cup {None}],
          meeting : [Row -> MeetingRow \cup {None}],
          decision : {None, "pending", "kept", "rejected"}]
Work == [token : Token, asked : Token, cleared : BOOLEAN, next : Token,
         batch : Seq(ListedItem), links : [Event -> Row \cup {None}], i : Nat \ {0}]

TypeInv ==
    /\ TypeOK
    /\ meeting \in [Row -> MeetingRow \cup {None}]
    /\ work \in [Session -> Work]
    /\ draft \in [Session -> Draft]
    /\ \A s \in Syncer : pc[s] \in SyncSteps
    /\ \A r \in Reviewer : pc[r] \in ReviewSteps
    /\ \A s \in Syncer : pc[s] = "store" => ~Finished(s)

(* An event as the calendar had it at some time, and at version n.         *)
PastOf(e, x) == x.v <= calendar[e].v /\ (x.v = calendar[e].v => x = calendar[e])
AsOf(n, e, x) == x.v <= n /\ (calendar[e].v <= n => x = calendar[e])
As(item) == [is |-> item.is, v |-> item.v]

(* Who holds the lock writes mirrors and nobody else does; what it has     *)
(* written and has still to write is as listed, and newer than the mirror. *)
Newer(n, e, x) == AsOf(n, e, x) /\ mirror[e].v <= x.v

WritesOf(s) ==
    /\ pc[s] \in Locked => lock = s
    /\ pc[s] \notin Listing =>
         draft[s] = NoDraft /\ work[s].batch = <<>> /\ work[s].i = 1
    /\ pc[s] \in Listing =>
         /\ work[s].next \in 0 .. version
         /\ cursor # None => cursor <= work[s].next
         /\ \A j \in DOMAIN work[s].batch :
               Newer(work[s].next, work[s].batch[j].event, As(work[s].batch[j]))
         /\ \A e \in Event : draft[s].mirror[e] # NoEvent =>
               Newer(work[s].next, e, draft[s].mirror[e])

PastInv ==
    /\ \A e \in Event : calendar[e].v <= version /\ PastOf(e, mirror[e])
    /\ cursor # None => cursor <= version
    /\ \A s \in Syncer : WritesOf(s)
    /\ \A r \in Reviewer : draft[r].mirror = NoDraft.mirror

(* An event of the calendar that no full listing left out is mirrored as   *)
(* it is when it has not changed since t; at the end of a listing those    *)
(* that have not changed since it are, counting what is written or about   *)
(* to be.                                                                  *)
Shown(e) == calendar[e] # NoEvent /\ e \notin missed

Covers(t) ==
    t # None =>
        /\ t <= version
        /\ \A e \in Event : Shown(e) /\ calendar[e].v <= t => mirror[e] = calendar[e]

ToStore(s, e) ==
    /\ pc[s] # "map"
    /\ \E j \in DOMAIN work[s].batch : j >= work[s].i /\ work[s].batch[j].event = e

ListingCovers(s) ==
    pc[s] \in Listing => \A e \in Event :
        Shown(e) /\ calendar[e].v <= work[s].next =>
            mirror[e] = calendar[e] \/ draft[s].mirror[e] # NoEvent \/ ToStore(s, e)

CoverInv ==
    /\ Covers(cursor)
    /\ \A s \in Syncer : Covers(work[s].token) /\ Covers(work[s].asked) /\ ListingCovers(s)

(* One review at a time: a pending series stays so until it is decided,    *)
(* and nothing is linked before it is kept.                                *)
OneReview == \A q, r \in Reviewer : q = r

SyncDecides(s) ==
    draft[s].decision # None =>
        draft[s].decision = "pending" /\ decision = None /\ pc[s] = "map"

ReviewDecides(r) ==
    /\ pc[r] # "idle" => decision = "pending"
    /\ draft[r].decision = CASE pc[r] = "map" -> "kept"
                             [] pc[r] = "delete" -> "rejected"
                             [] OTHER -> None

DecisionInv ==
    /\ \A s \in Syncer : SyncDecides(s)
    /\ \A r \in Reviewer : ReviewDecides(r)

NoLink == [e \in Event |-> None]
NoMeeting == [o \in Row |-> None]

Unlinked(s) ==
    /\ work[s].links = NoLink
    /\ draft[s].decision # "kept" => draft[s].link = NoLink /\ draft[s].meeting = NoMeeting

LinkInv ==
    /\ decision # "kept" => link = NoLink /\ \A s \in Session : Unlinked(s)
    /\ decision = "rejected" => meeting = NoMeeting

CalendarInv == TypeInv /\ PastInv /\ CoverInv

-----------------------------------------------------------------------------
(* Where a session starts and ends, and what a commit makes visible, is of *)
(* the type of the tables.                                                 *)
LEMMA NothingIsTyped == NoWork \in Work /\ NoDraft \in Draft
<1>1. NoEvent \in Listed
    BY CalendarAssumption DEF NoEvent, Listed, Content
<1>2. NoDraft \in Draft
    BY <1>1 DEF NoDraft, Draft
<1>3. <<>> \in Seq(ListedItem)
    OBVIOUS
<1>4. NoWork \in Work
    BY <1>3 DEF NoWork, Work, Token
<1> QED
    BY <1>2, <1>4

LEMMA SessionsAreApart == Syncer \cap Reviewer = {} /\ None \notin Session
BY CalendarAssumption DEF Session

LEMMA QuitIsTyped ==
    ASSUME NEW s \in Session, TypeInv, Quit(s)
    PROVE  /\ lock' \in Syncer \cup {None}
           /\ pc' \in [Session -> Steps]
           /\ work' \in [Session -> Work]
           /\ draft' \in [Session -> Draft]
           /\ \A v \in Syncer : pc'[v] \in SyncSteps
           /\ \A r \in Reviewer : pc'[r] \in ReviewSteps
           /\ \A v \in Syncer : pc'[v] = "store" => ~Finished(v)'
BY NothingIsTyped DEF TypeInv, TypeOK, Quit, Finished, Goto, Steps, SyncSteps, ReviewSteps, Session

LEMMA PublishIsTyped ==
    ASSUME NEW s \in Session, TypeInv, Publish(s)
    PROVE  /\ mirror' \in [Event -> Listed]
           /\ link' \in [Event -> Row \cup {None}]
           /\ meeting' \in [Row -> MeetingRow \cup {None}]
           /\ decision' \in {None, "pending", "kept", "rejected"}
<1>1. draft[s] \in Draft /\ mirror \in [Event -> Listed] /\ link \in [Event -> Row \cup {None}]
    BY DEF TypeInv, TypeOK
<1>2. Mirrors(s) \in [Event -> Listed]
    BY <1>1 DEF Mirrors, Seen, Draft
<1>3. Links(s) \in [Event -> Row \cup {None}]
    BY <1>1 DEF Links, Seen, Draft
<1>4. Meetings(s) \in [Row -> MeetingRow \cup {None}]
    BY <1>1 DEF Meetings, Seen, Draft, TypeInv
<1>5. Decision(s) \in {None, "pending", "kept", "rejected"}
    BY <1>1 DEF Decision, Draft, TypeInv, TypeOK
<1> QED
    BY <1>2, <1>3, <1>4, <1>5 DEF Publish

LEMMA BatchIsTyped ==
    ASSUME NEW s \in Session, TypeInv
    PROVE  \A j \in DOMAIN work[s].batch : work[s].batch[j] \in ListedItem
<1>1. work[s].batch \in Seq(ListedItem)
    BY DEF TypeInv, Work
<1>2. DOMAIN work[s].batch = 1 .. Len(work[s].batch)
    BY <1>1
<1> QED
    BY <1>1, <1>2

LEMMA ItemIsTyped ==
    ASSUME NEW s \in Session, TypeInv, ~Finished(s)
    PROVE  Item(s) \in ListedItem
<1>1. work[s].batch \in Seq(ListedItem) /\ work[s].i \in Nat \ {0}
    BY DEF TypeInv, Work
<1> QED
    BY <1>1 DEF Finished, Item

(* A listing, whatever was asked: every event that the parameters without  *)
(* a window allow is in it, or is noted as left out.                       *)
Lists(s, listed, order) ==
    /\ missed' = missed \cup (Listable(work[s].asked, 0) \ listed)
    /\ work' = [work EXCEPT ![s].asked = None, ![s].next = version,
                            ![s].batch = InOrder(order, calendar)]

LEMMA TimesAreNumbers == /\ \A t \in Time : t \in Nat /\ t >= 0
                         /\ Window \subseteq Nat
<1>1. Time \subseteq Nat /\ Window \subseteq Nat
    BY CalendarAssumption
<1> QED
    BY <1>1

LEMMA ListShape ==
    ASSUME NEW s \in Session, ListEvents(s)
    PROVE  \E listed \in SUBSET Listable(work[s].asked, 0) :
              \E order \in SetToSeqs(listed) : Lists(s, listed, order)
<1>1. PICK timeMin \in Window, gone \in SUBSET Event :
        LET listed == Listable(work[s].asked, timeMin) \ gone
        IN  /\ missed' = missed \cup (Listable(work[s].asked, 0) \ listed)
            /\ \E order \in SetToSeqs(listed) :
                 work' = [work EXCEPT ![s].asked = None, ![s].next = version,
                                      ![s].batch = InOrder(order, calendar)]
    BY DEF ListEvents
<1>2. Listable(work[s].asked, timeMin) \subseteq Listable(work[s].asked, 0)
    BY TimesAreNumbers DEF Listable
<1> QED
    BY <1>1, <1>2 DEF Lists

(* A listing in any order is a sequence that has each event listed.        *)
LEMMA OrderIsOnto ==
    ASSUME NEW S \in SUBSET Event, NEW order \in SetToSeqs(S)
    PROVE  /\ \E n \in Nat : order \in [1 .. n -> S]
           /\ \A e \in S : \E j \in DOMAIN order : order[j] = e
<1> DEFINE n == Cardinality(S)
           D == 1 .. n
<1>1. IsFiniteSet(S) /\ n \in Nat
    BY CalendarAssumption, FS_Subset, FS_CardinalityType
<1>2. order \in [D -> S] /\ \A i, j \in D : i # j => order[i] # order[j]
    BY DEF SetToSeqs
<1>3. order \in Injection(D, S)
    BY <1>2 DEF Injection, IsInjective
<1>4. Cardinality(D) = n
    BY <1>1, FS_Interval
<1>5. order \in Surjection(D, S)
    BY <1>1, <1>3, <1>4, FS_Injection
<1> QED
    BY <1>1, <1>2, <1>5 DEF Surjection

LEMMA InOrderIsTyped ==
    ASSUME NEW S \in SUBSET Event, NEW order \in SetToSeqs(S),
           NEW table \in [Event -> Listed]
    PROVE  InOrder(order, table) \in Seq(ListedItem)
<1>1. PICK n \in Nat : order \in [1 .. n -> S]
    BY OrderIsOnto
<1>2. InOrder(order, table) \in [1 .. n -> ListedItem]
    BY <1>1 DEF InOrder, ListedItem, Listed
<1> QED
    BY <1>2

LEMMA IndexIsTyped ==
    ASSUME NEW s \in Session, TypeInv, NEW n \in Nat \ {0}, work' = [work EXCEPT ![s].i = n]
    PROVE  work' \in [Session -> Work]
<1>1. work[s] \in Work
    BY DEF TypeInv
<1>2. [work[s] EXCEPT !.i = n] \in Work
    BY <1>1 DEF Work
<1>3. work' = [work EXCEPT ![s] = [work[s] EXCEPT !.i = n]]
    OBVIOUS
<1> QED
    BY <1>2, <1>3 DEF TypeInv

LEMMA AdvanceIsTyped ==
    ASSUME NEW s \in Session, TypeInv, Advance(s)
    PROVE  work' \in [Session -> Work]
<1>1. work[s].i \in Nat \ {0}
    BY DEF TypeInv, Work
<1>2. work[s].i + 1 \in Nat \ {0}
    BY <1>1
<1> QED
    BY <1>2, IndexIsTyped DEF Advance

-----------------------------------------------------------------------------
(* Types.                                                                  *)
LEMMA OthersStore ==
    ASSUME TypeInv, NEW s \in Session, pc' = pc \/ (\E step : Goto(s, step)), pc'[s] # "store",
           \A v \in Others(s) : work'[v] = work[v]
    PROVE  \A v \in Syncer : pc'[v] = "store" => ~Finished(v)'
<1> SUFFICES ASSUME NEW v \in Syncer, pc'[v] = "store"
             PROVE  ~Finished(v)'
    OBVIOUS
<1>1. v \in Others(s) /\ pc[v] = "store"
    BY DEF Goto, Others, Session, TypeInv, TypeOK
<1> QED
    BY <1>1 DEF TypeInv, Finished

LEMMA CalendarTyped ==
    ASSUME TypeInv, NEW e \in Event, ChangeEvent(e)
    PROVE  TypeInv'
<1>1. PICK c \in Content : calendar' = [calendar EXCEPT ![e] = [is |-> c, v |-> version + 1]]
    BY DEF ChangeEvent, Content
<1>2. version + 1 \in 0 .. MaxVersion
    BY CalendarAssumption DEF ChangeEvent, TypeInv, TypeOK
<1>3. calendar' \in [Event -> Listed]
    BY <1>1, <1>2 DEF TypeInv, TypeOK, Listed
<1> QED
    BY <1>2, <1>3 DEF ChangeEvent, TypeInv, TypeOK, Finished, tables

LEMMA ByHandTyped ==
    ASSUME TypeInv, NEW o \in Row, AddByHand(o)
    PROVE  TypeInv'
<1>1. PICK t \in Time : meeting' = [meeting EXCEPT ![o] = [at |-> t, done |-> FALSE]]
    BY CalendarAssumption DEF AddByHand
<1>2. meeting' \in [Row -> MeetingRow \cup {None}]
    BY <1>1 DEF TypeInv, MeetingRow
<1>3. \A n \in Row : meeting'[n] = None \/ meeting'[n] \in [at : Time, done : BOOLEAN]
    BY <1>2 DEF MeetingRow
<1> QED
    BY <1>2, <1>3 DEF AddByHand, TypeInv, TypeOK, Finished, google, history

LEMMA SyncTyped ==
    ASSUME TypeInv, NEW s \in Syncer, Sync(s)
    PROVE  TypeInv'
<1> s \in Session /\ s \notin Reviewer /\ work[s] \in Work /\ draft[s] \in Draft
    BY SessionsAreApart DEF Session, TypeInv
<1> USE DEF google, tables, history
<1>1. CASE LoadConnection(s)
  <2>1. work' \in [Session -> Work]
    BY <1>1 DEF LoadConnection, TypeInv, TypeOK, Work
  <2> QED
    BY <1>1, <2>1 DEF LoadConnection, TypeInv, TypeOK, Finished, Goto, Steps, SyncSteps
<1>2. CASE TakeLock(s)
  <2>1. TokenToSend(s) \in Token
    BY DEF TokenToSend, Work, Token
  <2>2. work' \in [Session -> Work]
    BY <1>2, <2>1 DEF TakeLock, TypeInv, Work
  <2>3. overlap' \in BOOLEAN
    BY <1>2 DEF TakeLock
  <2> QED
    BY <1>2, <2>2, <2>3 DEF TakeLock, TypeInv, TypeOK, Finished, Goto, Steps, SyncSteps, Locked
<1>3. CASE SkipSync(s)
    BY <1>3, QuitIsTyped DEF SkipSync, TypeInv, TypeOK
<1>4. CASE ListEvents(s)
  <2>0. PICK listed \in SUBSET Listable(work[s].asked, 0) :
          \E order \in SetToSeqs(listed) : Lists(s, listed, order)
    BY <1>4, ListShape
  <2>1. PICK order \in SetToSeqs(listed) : Lists(s, listed, order)
    BY <2>0
  <2>2. missed' \subseteq Event
    BY <2>1 DEF Lists, Listable, TypeInv, TypeOK
  <2>3. InOrder(order, calendar) \in Seq(ListedItem)
    BY InOrderIsTyped DEF Listable, TypeInv, TypeOK
  <2>4. work' \in [Session -> Work]
    BY <2>1, <2>3 DEF Lists, Work, TypeInv, TypeOK, Token
  <2>5. \A v \in Syncer : pc'[v] = "store" => ~Finished(v)'
    BY <1>4, OthersStore DEF ListEvents, Goto, Others, TypeInv, TypeOK
  <2> QED
    BY <1>4, <2>5, <2>2, <2>4 DEF ListEvents, TypeInv, TypeOK, Goto, Steps, SyncSteps, Locked
<1>5. CASE RefreshToken(s)
    BY <1>5 DEF RefreshToken, TypeInv, TypeOK, Finished, Goto, Steps, SyncSteps
<1>6. CASE TakeLockAgain(s)
    BY <1>6 DEF TakeLockAgain, TypeInv, TypeOK, Finished, Goto, Steps, SyncSteps, Locked
<1>7. CASE TokenExpired(s)
  <2>1. work' \in [Session -> Work]
    BY <1>7 DEF TokenExpired, TypeInv, Work, Token
  <2>2. \A v \in Syncer : pc'[v] = "store" => ~Finished(v)'
    BY <1>7, OthersStore DEF TokenExpired, Goto, Others, TypeInv, TypeOK
  <2> QED
    BY <1>7, <2>2, <2>1 DEF TokenExpired, TypeInv, TypeOK, Goto, Steps, SyncSteps, Locked
<1>8. CASE FetchMirror(s)
  <2>1. Item(s) \in ListedItem
    BY <1>8, ItemIsTyped DEF FetchMirror
  <2>2. work' \in [Session -> Work]
    BY <1>8, <2>1 DEF FetchMirror, TypeInv, TypeOK, Work, ListedItem
  <2> QED
    BY <1>8, <2>2 DEF FetchMirror, TypeInv, TypeOK, Finished, Goto, Steps, SyncSteps, Locked
<1>9. CASE StoreMirror(s)
  <2>1. Item(s) \in ListedItem
    BY <1>9, ItemIsTyped DEF StoreMirror, TypeInv
  <2>2. draft' = [draft EXCEPT ![s] = [@ EXCEPT !.mirror[Item(s).event] = As(Item(s))]]
    BY <1>9 DEF StoreMirror, Stored, As
  <2>3. [draft[s] EXCEPT !.mirror[Item(s).event] = As(Item(s))] \in Draft
    <3>1. Item(s).event \in Event /\ As(Item(s)) \in Listed
      BY <2>1 DEF As, ListedItem, Listed
    <3> QED
      BY <3>1 DEF Draft
  <2>4. draft' \in [Session -> Draft]
    BY <2>2, <2>3 DEF TypeInv
  <2>5. work' \in [Session -> Work]
    BY <1>9, AdvanceIsTyped DEF StoreMirror
  <2>6. \A v \in Syncer : pc'[v] = "store" => ~Finished(v)'
    BY <1>9, OthersStore DEF StoreMirror, Advance, Goto, Others, TypeInv, TypeOK
  <2> QED
    BY <1>9, <2>4, <2>5, <2>6 DEF StoreMirror, TypeInv, TypeOK, Goto, Steps, SyncSteps, Locked
<1>10. CASE StartMapping(s)
  <2>1. work' \in [Session -> Work]
    BY <1>10, IndexIsTyped, 1 \in Nat \ {0} DEF StartMapping
  <2>2. \A v \in Syncer : pc'[v] = "store" => ~Finished(v)'
    BY <1>10, OthersStore DEF StartMapping, Goto, Others, TypeInv, TypeOK
  <2> QED
    BY <1>10, <2>2, <2>1 DEF StartMapping, TypeInv, TypeOK, Goto, Steps, SyncSteps, Locked
<1>11. CASE CommitSync(s)
  <2>1. cursor' \in Token
    BY <1>11 DEF CommitSync, NextToken, TypeInv, TypeOK, Work
  <2> QED
    BY <1>11, <2>1, QuitIsTyped, PublishIsTyped
       DEF CommitSync, TypeInv, TypeOK, MeetingRow
<1>12. CASE CommitAfterError(s)
  <2>1. cursor' \in Token
    BY <1>12 DEF CommitAfterError, TokenAfterError, TypeInv, TypeOK, Token
  <2> QED
    BY <1>12, <2>1, QuitIsTyped, PublishIsTyped
       DEF CommitAfterError, TypeInv, TypeOK, MeetingRow
<1> QED
    BY <1>1, <1>2, <1>3, <1>4, <1>5, <1>6, <1>7, <1>8, <1>9, <1>10, <1>11, <1>12 DEF Sync

LEMMA MapTyped ==
    ASSUME TypeInv, NEW s \in Session, Map(s)
    PROVE  TypeInv'
<1>1. /\ work[s] \in Work
      /\ draft[s] \in Draft
      /\ Meetings(s) \in [Row -> MeetingRow \cup {None}]
      /\ Item(s) \in ListedItem
    BY ItemIsTyped DEF Map, MapNothing, MapNewSeries, MapMeeting, MapCancelled,
                       Mapping, TypeInv, Meetings, Seen, Draft
<1>2. ASSUME NEW d \in Draft, Mapping(s), Mapped(s, d)
      PROVE  TypeInv'
  <2>1. draft' \in [Session -> Draft]
    BY <1>2 DEF Mapped, TypeInv
  <2>2. work' \in [Session -> Work]
    BY <1>2, AdvanceIsTyped DEF Mapped
  <2>3. \A v \in Syncer : pc'[v] = "store" => ~Finished(v)'
    BY <1>2, OthersStore DEF Mapping, Mapped, Advance, Others, TypeInv
  <2> QED
    BY <1>2, <2>1, <2>2, <2>3 DEF Mapped, TypeInv, TypeOK, google, tables, history
<1>3. CASE MapNothing(s)
    BY <1>1, <1>2, <1>3 DEF MapNothing
<1>4. CASE MapNewSeries(s)
  <2>1. [draft[s] EXCEPT !.decision = "pending"] \in Draft
    BY <1>1 DEF Draft
  <2> QED
    BY <1>2, <1>4, <2>1 DEF MapNewSeries
<1>5. CASE MapMeeting(s)
  <2>1. PICK o \in Row : Mapped(s, [draft[s] EXCEPT
                !.meeting[o] = [at |-> Item(s).is, done |-> FALSE],
                !.link[Item(s).event] = o])
    BY <1>5 DEF MapMeeting
  <2>2. [at |-> Item(s).is, done |-> FALSE] \in MeetingRow
    BY <1>5 DEF MapMeeting, Timed, MeetingRow
  <2>3. [draft[s] EXCEPT
                !.meeting[o] = [at |-> Item(s).is, done |-> FALSE],
                !.link[Item(s).event] = o] \in Draft
    BY <1>1, <2>2 DEF Draft
  <2> QED
    BY <1>2, <1>5, <2>1, <2>3 DEF MapMeeting
<1>6. CASE MapCancelled(s)
  <2> DEFINE o == LinkOf(s)
             closed == [at |-> Meetings(s)[o].at, done |-> TRUE]
  <2>1. o \in Row /\ closed \in MeetingRow
    BY <1>1, <1>6 DEF MapCancelled, LinkOf, Linked, Work, ListedItem, MeetingRow
  <2>2. [draft[s] EXCEPT !.meeting[o] = closed] \in Draft
    BY <1>1, <2>1 DEF Draft
  <2>3. ASSUME NEW k \in Rule, NEW n \in Row
        PROVE  [draft[s] EXCEPT !.meeting[o] = closed,
                                !.meeting[n] = [at |-> k, done |-> FALSE]] \in Draft
    <3>1. [at |-> k, done |-> FALSE] \in MeetingRow
      BY CalendarAssumption DEF MeetingRow
    <3> QED
      BY <1>1, <2>1, <3>1 DEF Draft
  <2> QED
    BY <1>2, <1>6, <2>2, <2>3 DEF MapCancelled
<1> QED
    BY <1>3, <1>4, <1>5, <1>6 DEF Map

LEMMA ReviewTyped ==
    ASSUME TypeInv, NEW r \in Reviewer, Review(r)
    PROVE  TypeInv'
<1> r \in Session /\ r \notin Syncer /\ work[r] \in Work /\ draft[r] \in Draft
    BY SessionsAreApart DEF Session, TypeInv
<1> USE DEF google, tables, history
<1>1. CASE OpenReview(r)
  <2>1. overlap' \in BOOLEAN
    BY <1>1 DEF OpenReview
  <2> QED
    BY <1>1, <2>1 DEF OpenReview, TypeInv, TypeOK, Finished, Goto, Steps, ReviewSteps
<1>2. CASE Keep(r)
  <2>1. PICK order \in SetToSeqs(ToKeep) :
          work' = [work EXCEPT ![r].batch = InOrder(order, mirror), ![r].links = link]
    BY <1>2 DEF Keep
  <2>2. InOrder(order, mirror) \in Seq(ListedItem)
    BY InOrderIsTyped DEF ToKeep, TypeInv, TypeOK
  <2>3. work' \in [Session -> Work]
    BY <2>1, <2>2 DEF Work, TypeInv, TypeOK
  <2>4. draft' \in [Session -> Draft]
    BY <1>2 DEF Keep, Draft, TypeInv
  <2>5. \A v \in Syncer : pc'[v] = "store" => ~Finished(v)'
    BY <1>2, <2>1, OthersStore DEF Keep, Goto, Others, TypeInv, TypeOK
  <2> QED
    BY <1>2, <2>3, <2>4, <2>5 DEF Keep, TypeInv, TypeOK, Goto, Steps, ReviewSteps
<1>3. CASE CommitKeep(r)
    BY <1>3, QuitIsTyped, PublishIsTyped DEF CommitKeep, TypeInv, TypeOK, MeetingRow
<1>4. CASE Reject(r)
  <2>1. work' \in [Session -> Work]
    BY <1>4 DEF Reject, Work, TypeInv, TypeOK
  <2>2. draft' \in [Session -> Draft]
    BY <1>4 DEF Reject, Draft, TypeInv
  <2>3. \A v \in Syncer : pc'[v] = "store" => ~Finished(v)'
    BY <1>4, OthersStore DEF Reject, Goto, Others, TypeInv, TypeOK
  <2> QED
    BY <1>4, <2>1, <2>2, <2>3 DEF Reject, TypeInv, TypeOK, Goto, Steps, ReviewSteps
<1>5. CASE CommitReject(r)
  <2>1. link' \in [Event -> Row \cup {None}]
    BY <1>5 DEF CommitReject, TypeInv, TypeOK
  <2>2. meeting' \in [Row -> MeetingRow \cup {None}]
    BY <1>5 DEF CommitReject, TypeInv
  <2> QED
    BY <1>5, <2>1, <2>2, QuitIsTyped DEF CommitReject, TypeInv, TypeOK, MeetingRow
<1> QED
    BY <1>1, <1>2, <1>3, <1>4, <1>5 DEF Review

LEMMA StepTyped == TypeInv /\ [Next]_vars => TypeInv'
<1> SUFFICES ASSUME TypeInv, [Next]_vars
             PROVE  TypeInv'
    OBVIOUS
<1>1. ASSUME NEW s \in Session, Abort(s)
      PROVE  TypeInv'
  <2>1. Quit(s) /\ UNCHANGED <<calendar, version, cursor, mirror, link, meeting, decision,
                                missed, overlap>>
    BY <1>1 DEF Abort, google, tables, history
  <2>2. TypeOK'
    BY <2>1, QuitIsTyped DEF TypeInv, TypeOK
  <2> QED
    BY <2>1, <2>2, QuitIsTyped DEF TypeInv
<1>2. CASE UNCHANGED vars
    BY <1>2 DEF vars, google, tables, history, TypeInv, TypeOK, Finished
<1> QED
    BY <1>1, <1>2, CalendarTyped, ByHandTyped, SyncTyped, ReviewTyped, MapTyped DEF Next

LEMMA InitTyped == Init => TypeInv
<1> SUFFICES ASSUME Init
             PROVE  TypeInv
    OBVIOUS
<1>1. work \in [Session -> Work] /\ draft \in [Session -> Draft]
    BY NothingIsTyped DEF Init
<1>2. NoEvent \in Listed /\ MaxVersion \in Nat
    BY NothingIsTyped, CalendarAssumption DEF NoEvent, Listed, Content
<1>3. calendar \in [Event -> Listed] /\ mirror \in [Event -> Listed] /\ version \in 0 .. MaxVersion
    BY <1>2 DEF Init
<1>4. pc \in [Session -> Steps] /\ \A s \in Session : pc[s] = "idle"
    BY DEF Init, Steps
<1>5. TypeOK
    BY <1>3, <1>4 DEF Init, TypeOK, Token
<1> QED
    BY <1>1, <1>4, <1>5 DEF Init, TypeInv, SyncSteps, ReviewSteps, Session

(* Every variable keeps its type, and a lock's holder is a sync.           *)
THEOREM TypeCorrect == Spec => []TypeOK
<1>1. TypeInv => TypeOK
    BY DEF TypeInv
<1> QED
    BY <1>1, InitTyped, StepTyped, PTL DEF Spec

-----------------------------------------------------------------------------
(* A step of one session changes nothing that others remember, and takes   *)
(* no lock away from them.                                                 *)
OnlyBy(s) ==
    \A v \in Others(s) : work'[v] = work[v] /\ draft'[v] = draft[v] /\ pc'[v] = pc[v]

LockKept(s) == lock' = lock \/ lock = None \/ lock = s

Step(s) ==
    \/ s \in Syncer /\ Sync(s)
    \/ s \in Reviewer /\ Review(s)
    \/ Map(s)
    \/ Abort(s)

LEMMA QuitIsLocal ==
    ASSUME TypeInv, NEW s \in Session, Quit(s)
    PROVE  /\ OnlyBy(s) /\ LockKept(s)
           /\ work'[s] = NoWork /\ draft'[s] = NoDraft /\ pc'[s] = "idle"
BY DEF Quit, Goto, OnlyBy, LockKept, Others, TypeInv, TypeOK

LEMMA StepIsLocal ==
    ASSUME TypeInv, PastInv, NEW s \in Session, Step(s)
    PROVE  OnlyBy(s) /\ LockKept(s)
<1>1. CASE Abort(s)
    BY <1>1, QuitIsLocal DEF Abort
<1>2. CASE Map(s)
  <2>1. PICK d : Mapped(s, d)
    BY <1>2 DEF Map, MapNothing, MapNewSeries, MapMeeting, MapCancelled
  <2> QED
    BY <2>1 DEF Mapped, Advance, OnlyBy, LockKept, Others, TypeInv
<1>3. CASE s \in Reviewer /\ Review(s)
  <2>1. CASE CommitKeep(s) \/ CommitReject(s)
    BY <2>1, QuitIsLocal DEF CommitKeep, CommitReject
  <2>2. CASE OpenReview(s) \/ Keep(s) \/ Reject(s)
    BY <2>2 DEF OpenReview, Keep, Reject, Goto, OnlyBy, LockKept, Others, TypeInv, TypeOK
  <2> QED
    BY <1>3, <2>1, <2>2 DEF Review
<1>4. CASE s \in Syncer /\ Sync(s)
  <2> USE DEF OnlyBy, LockKept, Others, TypeInv, TypeOK, Goto
  <2>1. CASE CommitSync(s) \/ CommitAfterError(s) \/ SkipSync(s)
    BY <2>1, QuitIsLocal DEF CommitSync, CommitAfterError, SkipSync
  <2>2. CASE LoadConnection(s) \/ TakeLock(s) \/ TakeLockAgain(s)
    BY <2>2 DEF LoadConnection, TakeLock, TakeLockAgain
  <2>3. CASE ListEvents(s)
    BY <2>3 DEF ListEvents
  <2>4. CASE FetchMirror(s) \/ StoreMirror(s) \/ StartMapping(s)
    BY <2>4 DEF FetchMirror, StoreMirror, StartMapping, Advance
  <2>5. CASE RefreshToken(s)
    BY <1>4, <2>5 DEF RefreshToken, PastInv, WritesOf, Locked
  <2>6. CASE TokenExpired(s)
    BY <2>6 DEF TokenExpired
  <2> QED
    BY <1>4, <2>1, <2>2, <2>3, <2>4, <2>5, <2>6 DEF Sync
<1> QED
    BY <1>1, <1>2, <1>3, <1>4 DEF Step

-----------------------------------------------------------------------------
(* What sessions write.                                                    *)
Still == UNCHANGED <<calendar, version, cursor, mirror>>

LEMMA OthersWrite ==
    ASSUME PastInv, NEW s \in Session, OnlyBy(s), LockKept(s), Still,
           NEW v \in Syncer, v # s
    PROVE  WritesOf(v)'
<1>1. work'[v] = work[v] /\ draft'[v] = draft[v] /\ pc'[v] = pc[v]
    BY DEF OnlyBy, Others, Session
<1>2. lock = v => lock' = v
    BY SessionsAreApart DEF LockKept, Session
<1>3. WritesOf(v)
    BY DEF PastInv
<1> QED
    BY <1>1, <1>2, <1>3 DEF WritesOf, Still, Newer, AsOf, As

LEMMA LocalPast ==
    ASSUME PastInv, NEW s \in Session, OnlyBy(s), LockKept(s), Still,
           s \in Syncer => WritesOf(s)',
           s \in Reviewer => draft'[s].mirror = NoDraft.mirror
    PROVE  PastInv'
<1>1. \A e \in Event : (calendar[e].v <= version /\ PastOf(e, mirror[e]))'
    BY DEF PastInv, PastOf, Still
<1>2. \A v \in Syncer : WritesOf(v)'
    BY OthersWrite
<1>3. \A r \in Reviewer : draft'[r].mirror = NoDraft'.mirror
    BY DEF PastInv, OnlyBy, Others, Session, NoDraft
<1> QED
    BY <1>1, <1>2, <1>3 DEF PastInv, Still

(* A calendar that changes turns what was as of a version into the past.   *)
LEMMA CalendarPast ==
    ASSUME TypeInv, PastInv, NEW f \in Event, ChangeEvent(f)
    PROVE  PastInv'
<1>1. /\ version \in Nat /\ version' = version + 1
      /\ calendar \in [Event -> Listed]
      /\ UNCHANGED <<cursor, mirror, lock, pc, work, draft>>
    BY DEF ChangeEvent, tables, TypeInv, TypeOK
<1>2. PICK c : calendar' = [calendar EXCEPT ![f] = [is |-> c, v |-> version + 1]]
    BY DEF ChangeEvent
<1>3. /\ \A e \in Event \ {f} : calendar'[e] = calendar[e]
      /\ calendar'[f] = [is |-> c, v |-> version + 1]
    BY <1>1, <1>2
<1>4. \A e \in Event : calendar[e].v <= version /\ calendar[e].v \in Nat /\ mirror[e].v \in Nat
    BY DEF PastInv, TypeInv, TypeOK, Listed
<1>5. \A e \in Event : calendar'[e].v <= version' /\ PastOf(e, mirror[e])'
    BY <1>1, <1>3, <1>4 DEF PastInv, PastOf
<1>6. ASSUME NEW v \in Syncer
      PROVE  WritesOf(v)'
  <2>1. WritesOf(v)
    BY DEF PastInv
  <2>2. ASSUME NEW e \in Event, NEW x, NEW n \in 0 .. version, Newer(n, e, x)
        PROVE  Newer(n, e, x)'
    BY <1>1, <1>3, <1>4, <2>2 DEF Newer, AsOf
  <2>3. CASE pc[v] \notin Listing
    BY <1>1, <2>1, <2>3 DEF WritesOf, NoDraft
  <2>4. CASE pc[v] \in Listing
    <3>1. work[v].next \in 0 .. version /\ work[v].next \in 0 .. version'
      BY <1>1, <2>1, <2>4 DEF WritesOf
    <3>2. \A j \in DOMAIN work[v].batch : work[v].batch[j].event \in Event
      BY BatchIsTyped DEF ListedItem, Session
    <3> QED
      BY <1>1, <2>1, <2>2, <2>4, <3>1, <3>2 DEF WritesOf, As
  <2> QED
    BY <2>3, <2>4
<1>7. \A r \in Reviewer : draft'[r].mirror = NoDraft'.mirror
    BY <1>1 DEF PastInv, NoDraft
<1>8. cursor' # None => cursor' <= version'
    BY <1>1 DEF PastInv, TypeInv, TypeOK, Token
<1> QED
    BY <1>5, <1>6, <1>7, <1>8 DEF PastInv

LEMMA QuitPast ==
    ASSUME TypeInv, PastInv, NEW s \in Session, Quit(s), Still
    PROVE  PastInv'
<1>1. s \in Syncer => WritesOf(s)'
    BY QuitIsLocal DEF WritesOf, Locked, Listing, NoDraft, NoWork
<1> QED
    BY <1>1, QuitIsLocal, LocalPast

(* Mapping writes no mirror and changes nothing of what was listed.        *)
LEMMA MapWrites ==
    ASSUME TypeInv, NEW s \in Session, Map(s)
    PROVE  /\ pc[s] = "map"
           /\ Still /\ UNCHANGED <<google, tables, lock, pc, history>>
           /\ work'[s].batch = work[s].batch
           /\ work'[s].next = work[s].next
           /\ work'[s].token = work[s].token
           /\ work'[s].asked = work[s].asked
           /\ work'[s].links = work[s].links
           /\ draft'[s].mirror = draft[s].mirror
           /\ \/ draft'[s].decision = draft[s].decision
              \/ draft'[s].decision = "pending" /\ Decision(s) = None
<1> draft[s] \in Draft /\ work[s] \in Work
    BY DEF TypeInv
<1>1. PICK d : /\ Mapped(s, d) /\ d.mirror = draft[s].mirror
               /\ \/ d.decision = draft[s].decision
                  \/ d.decision = "pending" /\ Decision(s) = None
  <2>1. CASE MapNothing(s)
    BY <2>1 DEF MapNothing
  <2>2. CASE MapNewSeries(s)
    BY <2>2 DEF MapNewSeries, Draft
  <2>3. CASE MapMeeting(s)
    <3>1. PICK o \in Row : Mapped(s, [draft[s] EXCEPT
                !.meeting[o] = [at |-> Item(s).is, done |-> FALSE],
                !.link[Item(s).event] = o])
      BY <2>3 DEF MapMeeting
    <3> DEFINE d == [draft[s] EXCEPT !.meeting[o] = [at |-> Item(s).is, done |-> FALSE],
                                     !.link[Item(s).event] = o]
    <3>2. d.mirror = draft[s].mirror /\ d.decision = draft[s].decision
      BY DEF Draft
    <3> QED
      BY <3>1, <3>2
  <2>4. CASE MapCancelled(s)
    <3> DEFINE o == LinkOf(s)
               closed == [at |-> Meetings(s)[o].at, done |-> TRUE]
               c == [draft[s] EXCEPT !.meeting[o] = closed]
               d(k, n) == [draft[s] EXCEPT !.meeting[o] = closed,
                                           !.meeting[n] = [at |-> k, done |-> FALSE]]
    <3>1. Mapped(s, c) \/ \E k \in Rule, n \in Row : Mapped(s, d(k, n))
      BY <2>4 DEF MapCancelled
    <3>2. /\ c.mirror = draft[s].mirror /\ c.decision = draft[s].decision
          /\ \A k, n : d(k, n).mirror = draft[s].mirror /\ d(k, n).decision = draft[s].decision
      BY DEF Draft
    <3> HIDE DEF c, d
    <3> QED
      BY <3>1, <3>2
  <2> QED
    BY <2>1, <2>2, <2>3, <2>4 DEF Map
<1>2. pc[s] = "map"
    BY DEF Map, MapNothing, MapNewSeries, MapMeeting, MapCancelled, Mapping
<1>3. /\ work'[s] = [work[s] EXCEPT !.i = @ + 1]
      /\ draft'[s].mirror = draft[s].mirror
      /\ \/ draft'[s].decision = draft[s].decision
         \/ draft'[s].decision = "pending" /\ Decision(s) = None
    BY <1>1 DEF Mapped, Advance, TypeInv
<1>4. Still /\ UNCHANGED <<google, tables, lock, pc, history>>
    BY <1>1 DEF Mapped, Still, google, tables
<1> QED
    BY <1>2, <1>3, <1>4 DEF Work

LEMMA MapPast ==
    ASSUME TypeInv, PastInv, NEW s \in Session, Map(s)
    PROVE  PastInv'
<1>1. s \in Syncer => WritesOf(s)'
    BY MapWrites DEF PastInv, WritesOf, Newer, AsOf, As, Still, Locked, Listing
<1>2. s \in Reviewer => draft'[s].mirror = NoDraft.mirror
    BY MapWrites DEF PastInv
<1>3. OnlyBy(s) /\ LockKept(s) /\ Still
    BY StepIsLocal, MapWrites DEF Step
<1> QED
    BY <1>1, <1>2, <1>3, LocalPast

LEMMA ReviewIsStill ==
    ASSUME TypeInv, PastInv, NEW r \in Reviewer, Review(r)
    PROVE  Still
<1>1. Mirrors(r) = mirror
    BY DEF PastInv, Mirrors, Seen, NoDraft, TypeInv, TypeOK
<1> QED
    BY <1>1 DEF Review, OpenReview, Keep, CommitKeep, Reject, CommitReject, Publish,
                Still, google, tables

LEMMA ReviewPast ==
    ASSUME TypeInv, PastInv, NEW r \in Reviewer, Review(r)
    PROVE  PastInv'
<1>1. r \in Session /\ r \notin Syncer
    BY SessionsAreApart DEF Session
<1>2. OnlyBy(r) /\ LockKept(r)
    BY <1>1, StepIsLocal DEF Step
<1>3. draft[r].mirror = NoDraft.mirror
    BY DEF PastInv
<1>4. Still
    BY ReviewIsStill
<1>5. draft'[r].mirror = NoDraft.mirror
  <2>1. CASE CommitKeep(r) \/ CommitReject(r)
    BY <1>1, <2>1, QuitIsLocal DEF CommitKeep, CommitReject
  <2>2. CASE OpenReview(r) \/ Keep(r) \/ Reject(r)
    BY <1>1, <1>3, <2>2 DEF OpenReview, Keep, Reject, TypeInv, Draft
  <2> QED
    BY <2>1, <2>2 DEF Review
<1> QED
    BY <1>1, <1>2, <1>4, <1>5, LocalPast

(* What a session about to commit sees of the mirrors is no older than     *)
(* they are.                                                               *)
LEMMA SeenIsNewer ==
    ASSUME TypeInv, PastInv, NEW s \in Syncer, pc[s] \in Locked, NEW e \in Event
    PROVE  /\ PastOf(e, Mirrors(s)[e])
           /\ mirror[e].v <= Mirrors(s)[e].v
           /\ draft[s].mirror[e] # NoEvent =>
                 Mirrors(s)[e] = draft[s].mirror[e] /\ Newer(work[s].next, e, Mirrors(s)[e])
<1>1. s \in Session /\ draft[s] \in Draft /\ WritesOf(s)
    BY DEF TypeInv, PastInv, Session
<1>2. calendar[e] \in Listed /\ mirror[e] \in Listed /\ mirror \in [Event -> Listed]
    BY DEF TypeInv, TypeOK
<1>3. Mirrors(s)[e] = IF draft[s].mirror[e] # NoEvent THEN draft[s].mirror[e] ELSE mirror[e]
    BY <1>2 DEF Mirrors, Seen
<1>4. CASE draft[s].mirror[e] = NoEvent
    BY <1>2, <1>3, <1>4 DEF PastInv, Listed
<1>5. CASE draft[s].mirror[e] # NoEvent
  <2>1. pc[s] \in Listing /\ draft[s].mirror[e] \in Listed
    BY <1>1, <1>5 DEF WritesOf, NoDraft, Draft
  <2>2. Newer(work[s].next, e, draft[s].mirror[e]) /\ work[s].next \in Nat
    BY <1>1, <1>5, <2>1 DEF WritesOf
  <2> QED
    BY <1>2, <1>3, <1>5, <2>1, <2>2 DEF Newer, AsOf, PastOf, Listed
<1> QED
    BY <1>4, <1>5

LEMMA CommitPast ==
    ASSUME TypeInv, PastInv, NEW s \in Syncer, pc[s] \in Locked, Publish(s), Quit(s),
           UNCHANGED <<calendar, version>>, cursor' # None => cursor' <= version
    PROVE  PastInv'
<1>1. s \in Session /\ lock = s
    BY DEF PastInv, WritesOf, Session
<1>2. mirror' = Mirrors(s)
    BY DEF Publish
<1>3. \A e \in Event : (calendar[e].v <= version /\ PastOf(e, mirror[e]))'
    BY <1>2, SeenIsNewer DEF PastInv, PastOf
<1>4. ASSUME NEW v \in Syncer
      PROVE  WritesOf(v)'
  <2>1. CASE v = s
    BY <1>1, <2>1, QuitIsLocal DEF WritesOf, Locked, Listing, NoDraft, NoWork
  <2>2. CASE v # s
    <3>1. work'[v] = work[v] /\ draft'[v] = draft[v] /\ pc'[v] = pc[v]
      BY <1>1, <2>2, QuitIsLocal DEF OnlyBy, Others, Session
    <3>2. /\ pc[v] \notin Locked /\ draft[v] = NoDraft
          /\ work[v].batch = <<>> /\ work[v].i = 1
      BY <1>1, <2>2 DEF PastInv, WritesOf, Locked, Listing
    <3> QED
      BY <3>1, <3>2 DEF WritesOf, Locked, Listing, NoDraft
  <2> QED
    BY <2>1, <2>2
<1>5. \A r \in Reviewer : draft'[r].mirror = NoDraft'.mirror
    BY <1>1, QuitIsLocal, SessionsAreApart DEF PastInv, OnlyBy, Others, Session, NoDraft
<1> QED
    BY <1>3, <1>4, <1>5 DEF PastInv

LEMMA CommitSyncPast ==
    ASSUME TypeInv, PastInv, NEW s \in Syncer, CommitSync(s) \/ CommitAfterError(s)
    PROVE  PastInv' /\ (cursor # None /\ cursor' # None => cursor' >= cursor)
<1>1. /\ pc[s] \in Locked
      /\ WritesOf(s)
      /\ Publish(s) /\ Quit(s) /\ UNCHANGED <<calendar, version>>
    BY DEF CommitSync, CommitAfterError, Locked, google, PastInv
<1>2. cursor \in Token /\ version \in Nat
    BY DEF TypeInv, TypeOK
<1>3. CASE CommitSync(s)
  <2>1. work[s].next \in 0 .. version /\ (cursor # None => cursor <= work[s].next)
    BY <1>1, <1>3 DEF CommitSync, WritesOf, Listing
  <2>2. cursor' = cursor \/ cursor' = work[s].next
    BY <1>3 DEF CommitSync, NextToken
  <2> QED
    BY <1>1, <1>2, <2>1, <2>2, CommitPast DEF PastInv, Token
<1>4. CASE CommitAfterError(s)
  <2>1. cursor' = cursor \/ cursor' = None
    BY <1>4 DEF CommitAfterError, TokenAfterError
  <2> QED
    BY <1>1, <1>2, <2>1, CommitPast DEF PastInv, Token
<1> QED
    BY <1>3, <1>4

LEMMA SyncIsStill ==
    ASSUME NEW s \in Syncer, Sync(s), ~CommitSync(s), ~CommitAfterError(s)
    PROVE  Still
BY DEF Sync, LoadConnection, TakeLock, SkipSync, ListEvents, RefreshToken, TakeLockAgain,
       TokenExpired, FetchMirror, StoreMirror, StartMapping, Still, google, tables

LEMMA SyncPast ==
    ASSUME TypeInv, PastInv, NEW s \in Syncer, Sync(s), ~CommitSync(s), ~CommitAfterError(s)
    PROVE  PastInv'
<1>1. /\ s \in Session /\ s \notin Reviewer /\ WritesOf(s)
      /\ OnlyBy(s) /\ LockKept(s)
      /\ work[s] \in Work /\ draft[s] \in Draft
  <2>1. s \in Session /\ s \notin Reviewer
    BY SessionsAreApart DEF Session
  <2>2. OnlyBy(s) /\ LockKept(s)
    <3>1. Step(s)
      BY DEF Step
    <3> QED
      BY <2>1, <3>1, StepIsLocal
  <2> QED
    BY <2>1, <2>2 DEF PastInv, TypeInv
<1>2. Still
    BY SyncIsStill
<1>3. SUFFICES WritesOf(s)'
    BY <1>1, <1>2, LocalPast
<1> USE DEF WritesOf, Locked, Listing
<1>4. pc \in [Session -> Steps]
    BY DEF TypeInv, TypeOK
<1>5. CASE LoadConnection(s)
    BY <1>1, <1>4, <1>5 DEF LoadConnection, Goto, Work, NoDraft
<1>6. CASE TakeLock(s)
    BY <1>1, <1>4, <1>6 DEF TakeLock, Goto, Work, NoDraft
<1>7. CASE SkipSync(s)
    BY <1>1, <1>7, QuitIsLocal DEF SkipSync, NoDraft, NoWork
<1>8. CASE RefreshToken(s)
    BY <1>1, <1>4, <1>8 DEF RefreshToken, Goto, NoDraft
<1>9. CASE TakeLockAgain(s)
    BY <1>1, <1>4, <1>9 DEF TakeLockAgain, Goto, NoDraft
<1>10. CASE TokenExpired(s)
  <2>1. work'[s].batch = work[s].batch /\ work'[s].i = work[s].i /\ pc'[s] = "list_again"
    BY <1>1, <1>4, <1>10 DEF TokenExpired, Goto, Work, TypeInv
  <2> QED
    BY <1>1, <1>10, <2>1 DEF TokenExpired, NoDraft
<1>11. CASE ListEvents(s)
  <2>0. PICK listed \in SUBSET Listable(work[s].asked, 0) :
          \E order \in SetToSeqs(listed) : Lists(s, listed, order)
    BY <1>1, <1>11, ListShape
  <2>1. PICK order \in SetToSeqs(listed) : Lists(s, listed, order)
    BY <2>0
  <2>3. work'[s].next = version /\ work'[s].batch = InOrder(order, calendar)
    BY <1>1, <2>1 DEF Lists, Work, TypeInv
  <2>4. PICK n \in Nat : order \in [1 .. n -> Event]
    BY OrderIsOnto DEF Listable
  <2>5. ASSUME NEW j \in DOMAIN InOrder(order, calendar)
        PROVE  LET item == InOrder(order, calendar)[j]
               IN  Newer(version, item.event, As(item))
    <3>1. order[j] \in Event /\ InOrder(order, calendar)[j].event = order[j]
      BY <2>4, <2>5 DEF InOrder
    <3>2. As(InOrder(order, calendar)[j]) = calendar[order[j]]
      BY <2>4, <2>5, <3>1 DEF InOrder, As, TypeInv, TypeOK, Listed
    <3>3. mirror[order[j]].v <= calendar[order[j]].v /\ calendar[order[j]].v <= version
      BY <3>1 DEF PastInv, PastOf
    <3> QED
      BY <3>1, <3>2, <3>3 DEF Newer, AsOf
  <2>6. draft' = draft /\ draft[s] = NoDraft /\ lock' = lock /\ lock = s /\ Still
    BY <1>1, <1>2, <1>11 DEF ListEvents
  <2>7. pc'[s] = "fetch"
    BY <1>1, <1>4, <1>11 DEF ListEvents, Goto
  <2>8. version \in Nat /\ (cursor # None => cursor <= version)
    BY DEF PastInv, TypeInv, TypeOK
  <2> QED
    BY <2>3, <2>5, <2>6, <2>7, <2>8 DEF Still, Newer, AsOf, As, NoDraft
<1>12. CASE FetchMirror(s)
  <2>1. work'[s].batch = work[s].batch /\ work'[s].next = work[s].next /\ pc'[s] = "store"
    BY <1>1, <1>4, <1>12 DEF FetchMirror, Goto, Work, TypeInv
  <2> QED
    BY <1>1, <1>2, <1>12, <2>1 DEF FetchMirror, Still, Newer, AsOf, As, NoDraft
<1>13. CASE StartMapping(s)
  <2>1. work'[s].batch = work[s].batch /\ work'[s].next = work[s].next /\ pc'[s] = "map"
    BY <1>1, <1>4, <1>13 DEF StartMapping, Goto, Work, TypeInv
  <2> QED
    BY <1>1, <1>2, <1>13, <2>1 DEF StartMapping, Still, Newer, AsOf, As, NoDraft
<1>14. CASE StoreMirror(s)
  <2>1. /\ Item(s) \in ListedItem
        /\ work[s].i \in DOMAIN work[s].batch
        /\ Item(s) = work[s].batch[work[s].i]
    <3>1. ~Finished(s) /\ work[s].batch \in Seq(ListedItem) /\ work[s].i \in Nat \ {0}
      BY <1>1, <1>14 DEF StoreMirror, TypeInv, Work
    <3> QED
      BY <1>1, <3>1, ItemIsTyped DEF Finished, Item
  <2>2. /\ work'[s].batch = work[s].batch /\ work'[s].next = work[s].next
        /\ pc'[s] = "fetch" /\ lock' = lock
    BY <1>1, <1>4, <1>14 DEF StoreMirror, Advance, Goto, Work, TypeInv
  <2>3. draft'[s].mirror = [draft[s].mirror EXCEPT ![Item(s).event] = As(Item(s))]
    BY <1>1, <1>14 DEF StoreMirror, Stored, As, Draft, TypeInv
  <2>4. Item(s).event \in Event /\ Newer(work[s].next, Item(s).event, As(Item(s)))
    BY <1>1, <1>14, <2>1 DEF StoreMirror, ListedItem
  <2>5. \A e \in Event : draft'[s].mirror[e] # NoEvent =>
               Newer(work[s].next, e, draft'[s].mirror[e])
    BY <1>1, <1>14, <2>3, <2>4 DEF StoreMirror, Draft
  <2> QED
    BY <1>1, <1>2, <1>14, <2>2, <2>5 DEF StoreMirror, Still, Newer, AsOf, As, NoEvent
<1> QED
    BY <1>5, <1>6, <1>7, <1>8, <1>9, <1>10, <1>11, <1>12, <1>13, <1>14 DEF Sync

LEMMA StepPast == TypeInv /\ PastInv /\ [Next]_vars => PastInv'
<1> SUFFICES ASSUME TypeInv, PastInv, [Next]_vars
             PROVE  PastInv'
    OBVIOUS
<1>1. ASSUME NEW s \in Session, Abort(s)
      PROVE  PastInv'
    BY <1>1, QuitPast DEF Abort, Still, google, tables
<1>2. ASSUME NEW o \in Row, AddByHand(o)
      PROVE  PastInv'
    BY <1>2 DEF AddByHand, PastInv, PastOf, WritesOf, Newer, AsOf, As, NoDraft,
                google, history
<1>3. CASE UNCHANGED vars
    BY <1>3 DEF vars, google, tables, history, PastInv, PastOf, WritesOf, Newer, AsOf, As, NoDraft
<1>4. ASSUME NEW s \in Syncer, Sync(s)
      PROVE  PastInv'
    BY <1>4, SyncPast, CommitSyncPast
<1> QED
    BY <1>1, <1>2, <1>3, <1>4, CalendarPast, MapPast, ReviewPast DEF Next

LEMMA InitPast == Init => PastInv
BY CalendarAssumption DEF Init, PastInv, PastOf, WritesOf, Locked, Listing, NoEvent, NoDraft,
   NoWork, Session

-----------------------------------------------------------------------------
(* Nothing a sync writes is older than what is there: no event of the      *)
(* mirror and no sync token goes back, whatever overlaps.                  *)
THEOREM NeverBack == Spec => NothingGoesBack
<1>1. TypeInv /\ PastInv /\ [Next]_vars =>
        [/\ \A e \in Event : mirror'[e].v >= mirror[e].v
         /\ cursor # None /\ cursor' # None => cursor' >= cursor]_vars
  <2> SUFFICES ASSUME TypeInv, PastInv, Next
               PROVE  /\ \A e \in Event : mirror'[e].v >= mirror[e].v
                      /\ cursor # None /\ cursor' # None => cursor' >= cursor
    OBVIOUS
  <2>1. /\ \A e \in Event : mirror[e].v \in Nat
        /\ cursor # None => cursor \in Nat
    BY DEF TypeInv, TypeOK, Listed, Token
  <2>2. CASE UNCHANGED <<mirror, cursor>>
    BY <2>1, <2>2
  <2>3. ASSUME NEW s \in Syncer, CommitSync(s) \/ CommitAfterError(s)
        PROVE  /\ \A e \in Event : mirror'[e].v >= mirror[e].v
               /\ cursor # None /\ cursor' # None => cursor' >= cursor
    <3>1. pc[s] \in Locked /\ mirror' = Mirrors(s)
      BY <2>3 DEF CommitSync, CommitAfterError, Publish, Locked
    <3>2. \A e \in Event : mirror'[e].v \in Nat
      BY StepTyped DEF TypeInv, TypeOK, Listed
    <3> QED
      BY <2>1, <2>3, <3>1, <3>2, SeenIsNewer, CommitSyncPast
  <2>4. ASSUME NEW r \in Reviewer, CommitKeep(r)
        PROVE  UNCHANGED <<mirror, cursor>>
    <3>1. Mirrors(r) = mirror
      BY DEF PastInv, Mirrors, Seen, NoDraft, TypeInv, TypeOK
    <3> QED
      BY <2>4, <3>1 DEF CommitKeep, Publish
  <2>5. ASSUME ~ \E s \in Syncer : CommitSync(s) \/ CommitAfterError(s),
               ~ \E r \in Reviewer : CommitKeep(r)
        PROVE  UNCHANGED <<mirror, cursor>>
    <3> USE DEF google, tables, history
    <3>1. ASSUME NEW s \in Session, Map(s)
          PROVE  UNCHANGED <<mirror, cursor>>
      BY <3>1 DEF Map, MapNothing, MapNewSeries, MapMeeting, MapCancelled, Mapped
    <3>2. ASSUME NEW s \in Syncer, Sync(s)
          PROVE  UNCHANGED <<mirror, cursor>>
      BY <2>5, <3>2 DEF Sync, LoadConnection, TakeLock, SkipSync, ListEvents, RefreshToken,
           TakeLockAgain, TokenExpired, FetchMirror, StoreMirror, StartMapping
    <3>3. ASSUME NEW r \in Reviewer, Review(r)
          PROVE  UNCHANGED <<mirror, cursor>>
      BY <2>5, <3>3 DEF Review, OpenReview, Keep, Reject, CommitReject
    <3> QED
      BY <3>1, <3>2, <3>3 DEF Next, ChangeEvent, AddByHand, Abort
  <2> QED
    BY <2>2, <2>3, <2>4, <2>5
<1> QED
  <2>1. Spec => [](TypeInv /\ PastInv)
    BY InitTyped, StepTyped, InitPast, StepPast, PTL DEF Spec
  <2> QED
    BY <1>1, <2>1, PTL DEF Spec, NothingGoesBack

-----------------------------------------------------------------------------
(* What the token claims.                                                  *)
LEMMA LocalCover ==
    ASSUME CoverInv, NEW s \in Session, OnlyBy(s), Still, missed \subseteq missed',
           s \in Syncer => (Covers(work[s].token) /\ Covers(work[s].asked) /\ ListingCovers(s))'
    PROVE  CoverInv'
<1>1. \A e \in Event : Shown(e)' => Shown(e)
    BY DEF Shown, Still
<1>2. \A t : Covers(t) => Covers(t)'
    BY <1>1 DEF Covers, Still
<1>3. ASSUME NEW v \in Syncer, v # s
      PROVE  (Covers(work[v].token) /\ Covers(work[v].asked) /\ ListingCovers(v))'
  <2>1. work'[v] = work[v] /\ draft'[v] = draft[v] /\ pc'[v] = pc[v]
    BY <1>3 DEF OnlyBy, Others, Session
  <2>2. Covers(work[v].token) /\ Covers(work[v].asked) /\ ListingCovers(v)
    BY DEF CoverInv
  <2>3. ListingCovers(v)'
    BY <1>1, <2>1, <2>2 DEF ListingCovers, ToStore, Still
  <2> QED
    BY <1>2, <2>1, <2>2, <2>3 DEF Covers
<1>4. Covers(cursor)'
    BY <1>2 DEF CoverInv, Covers, Still
<1> QED
    BY <1>3, <1>4 DEF CoverInv

LEMMA CalendarCover ==
    ASSUME TypeInv, PastInv, CoverInv, NEW f \in Event, ChangeEvent(f)
    PROVE  CoverInv'
<1>1. /\ version \in Nat /\ version' = version + 1 /\ missed' = missed \ {f}
      /\ UNCHANGED <<cursor, mirror, pc, work, draft>>
    BY DEF ChangeEvent, tables, TypeInv, TypeOK
<1>2. PICK c : calendar' = [calendar EXCEPT ![f] = [is |-> c, v |-> version + 1]]
    BY DEF ChangeEvent
<1>3. /\ \A e \in Event \ {f} : calendar'[e] = calendar[e]
      /\ calendar'[f].v = version + 1
    BY <1>2 DEF TypeInv, TypeOK
<1>4. \A t \in Token : Covers(t) => Covers(t)'
  <2> SUFFICES ASSUME NEW t \in Token, Covers(t), t # None
               PROVE  Covers(t)'
    BY DEF Covers
  <2>1. t \in Nat /\ t <= version
    BY DEF Token, Covers
  <2> QED
    BY <1>1, <1>3, <2>1 DEF Covers, Shown
<1>5. ASSUME NEW v \in Syncer
      PROVE  (Covers(work[v].token) /\ Covers(work[v].asked) /\ ListingCovers(v))'
  <2>1. work[v].token \in Token /\ work[v].asked \in Token
    BY DEF TypeInv, Work, Session
  <2>2. Covers(work[v].token)' /\ Covers(work[v].asked)'
    BY <1>1, <1>4, <2>1 DEF CoverInv, Covers
  <2>3. ASSUME pc[v] \in Listing
        PROVE  work[v].next \in Nat /\ work[v].next <= version
    BY <1>1, <2>3 DEF PastInv, WritesOf
  <2>4. ListingCovers(v)'
    BY <1>1, <1>3, <2>3 DEF CoverInv, ListingCovers, ToStore, Shown
  <2> QED
    BY <2>2, <2>4
<1>6. Covers(cursor)'
    BY <1>1, <1>4 DEF CoverInv, Covers, TypeInv, TypeOK
<1> QED
    BY <1>5, <1>6 DEF CoverInv

(* A commit makes mirrors newer, which are then as the calendar where they *)
(* were before, and as it was listed where it has not changed since.       *)
LEMMA CommitCover ==
    ASSUME TypeInv, PastInv, CoverInv, NEW s \in Syncer, CommitSync(s) \/ CommitAfterError(s)
    PROVE  CoverInv'
<1>1. /\ s \in Session /\ pc[s] \in Locked
      /\ Quit(s) /\ mirror' = Mirrors(s)
      /\ UNCHANGED <<calendar, version, missed>>
    BY DEF CommitSync, CommitAfterError, Locked, Publish, google, history, Session
<1>2. \A e \in Event : calendar[e].v \in Nat /\ mirror[e].v \in Nat /\ mirror'[e].v \in Nat
  <2>1. TypeInv'
    BY SyncTyped DEF Sync
  <2> QED
    BY <2>1 DEF TypeInv, TypeOK, Listed
<1>3. \A e \in Event : mirror[e] = calendar[e] => mirror'[e] = calendar[e]
    BY <1>1, <1>2, SeenIsNewer DEF PastOf
<1>4. \A t : Covers(t) => Covers(t)'
    BY <1>1, <1>3 DEF Covers, Shown
<1>5. ASSUME NEW v \in Syncer
      PROVE  (Covers(work[v].token) /\ Covers(work[v].asked) /\ ListingCovers(v))'
  <2>1. CASE v = s
    BY <1>1, <2>1, QuitIsLocal DEF Covers, ListingCovers, Listing, NoWork
  <2>2. CASE v # s
    <3>1. work'[v] = work[v] /\ pc'[v] = pc[v]
      BY <1>1, <2>2, QuitIsLocal DEF OnlyBy, Others, Session
    <3>2. pc[v] \notin Listing
      BY <1>1, <2>2 DEF PastInv, WritesOf, Locked, Listing
    <3> QED
      BY <1>4, <3>1, <3>2 DEF CoverInv, Covers, ListingCovers
  <2> QED
    BY <2>1, <2>2
<1>6. ASSUME pc[s] = "map"
      PROVE  /\ work[s].next <= version
             /\ \A e \in Event : Shown(e) /\ calendar[e].v <= work[s].next =>
                   mirror'[e] = calendar[e]
  <2>1. WritesOf(s) /\ ListingCovers(s) /\ work[s].next \in 0 .. version
    BY <1>6 DEF PastInv, WritesOf, CoverInv, Listing
  <2>2. ASSUME NEW e \in Event, Shown(e), calendar[e].v <= work[s].next
        PROVE  mirror'[e] = calendar[e]
    <3>1. mirror[e] = calendar[e] \/ draft[s].mirror[e] # NoEvent
      BY <1>6, <2>1, <2>2 DEF ListingCovers, Listing, ToStore
    <3> QED
      BY <1>1, <1>3, <2>2, <3>1, SeenIsNewer DEF Newer, AsOf
  <2> QED
    BY <2>1, <2>2
<1>7. Covers(cursor)'
  <2>1. CASE CommitSync(s)
    <3>1. pc[s] = "map" /\ (cursor' = cursor \/ cursor' = work[s].next)
      BY <2>1 DEF CommitSync, NextToken
    <3> QED
      BY <1>1, <1>4, <1>6, <3>1 DEF CoverInv, Covers, Shown
  <2>2. CASE CommitAfterError(s)
    <3>1. cursor' = cursor \/ cursor' = None
      BY <2>2 DEF CommitAfterError, TokenAfterError
    <3> QED
      BY <1>4, <3>1 DEF CoverInv, Covers
  <2> QED
    BY <2>1, <2>2
<1> QED
    BY <1>5, <1>7 DEF CoverInv

LEMMA MapCover ==
    ASSUME TypeInv, PastInv, CoverInv, NEW s \in Session, Map(s)
    PROVE  CoverInv'
<1>1. OnlyBy(s)
  <2>1. Step(s)
    BY DEF Step
  <2> QED
    BY <2>1, StepIsLocal
<1>2. s \in Syncer => (Covers(work[s].token) /\ Covers(work[s].asked) /\ ListingCovers(s))'
    BY MapWrites DEF CoverInv, Covers, Shown, ListingCovers, ToStore, Still, history
<1> QED
    BY <1>1, <1>2, MapWrites, LocalCover DEF history

LEMMA ReviewCover ==
    ASSUME TypeInv, PastInv, CoverInv, NEW r \in Reviewer, Review(r)
    PROVE  CoverInv'
<1>1. r \in Session /\ r \notin Syncer
    BY SessionsAreApart DEF Session
<1>2. OnlyBy(r)
  <2>1. Step(r)
    BY DEF Step
  <2> QED
    BY <1>1, <2>1, StepIsLocal
<1>3. Still
    BY ReviewIsStill
<1>4. missed' = missed
    BY DEF Review, OpenReview, Keep, CommitKeep, Reject, CommitReject, history
<1> QED
    BY <1>1, <1>2, <1>3, <1>4, LocalCover

LEMMA SyncCover ==
    ASSUME TypeInv, PastInv, CoverInv, NEW s \in Syncer, Sync(s),
           ~CommitSync(s), ~CommitAfterError(s)
    PROVE  CoverInv'
<1>1. /\ s \in Session /\ WritesOf(s) /\ work[s] \in Work /\ draft[s] \in Draft
      /\ work \in [Session -> Work] /\ pc \in [Session -> Steps]
      /\ Covers(work[s].token) /\ Covers(work[s].asked) /\ ListingCovers(s)
    BY DEF Session, PastInv, TypeInv, TypeOK, CoverInv
<1>2. OnlyBy(s)
  <2>1. Step(s)
    BY DEF Step
  <2> QED
    BY <1>1, <2>1, StepIsLocal
<1>3. Still
    BY SyncIsStill
<1>4. missed \subseteq missed'
    BY DEF Sync, LoadConnection, TakeLock, SkipSync, ListEvents, RefreshToken, TakeLockAgain,
           TokenExpired, FetchMirror, StoreMirror, StartMapping, history
<1>5. SUFFICES (Covers(work[s].token) /\ Covers(work[s].asked) /\ ListingCovers(s))'
    BY <1>1, <1>2, <1>3, <1>4, LocalCover
<1>6. \A t : Covers(t) => Covers(t)'
  <2>1. \A e \in Event : Shown(e)' => Shown(e)
    BY <1>3, <1>4 DEF Shown, Still
  <2> QED
    BY <1>3, <2>1 DEF Covers, Still
<1>7. CASE SkipSync(s)
    BY <1>1, <1>7, QuitIsLocal DEF SkipSync, Covers, ListingCovers, Listing, NoWork
<1>8. CASE pc'[s] \notin Listing /\ ~SkipSync(s)
  <2>1. ListingCovers(s)'
    BY <1>8 DEF ListingCovers
  <2>2. Covers(cursor)
    BY DEF CoverInv
  <2>3. work'[s].token \in {work[s].token, cursor}
    BY <1>1, <1>8 DEF Sync, LoadConnection, TakeLock, ListEvents, RefreshToken, TakeLockAgain,
           TokenExpired, FetchMirror, StoreMirror, StartMapping, Goto, Listing, Work
  <2>4. work'[s].asked \in {work[s].asked, work[s].token, None}
    BY <1>1, <1>8 DEF Sync, LoadConnection, TakeLock, ListEvents, RefreshToken, TakeLockAgain,
           TokenExpired, FetchMirror, StoreMirror, StartMapping, Goto, Listing, TokenToSend, Work
  <2> QED
    BY <1>1, <1>6, <2>1, <2>2, <2>3, <2>4 DEF Covers
<1>9. CASE FetchMirror(s)
  <2>1. /\ pc[s] = "fetch" /\ pc'[s] = "store"
        /\ \A f \in {"token", "asked", "next", "batch", "i"} : work'[s][f] = work[s][f]
        /\ UNCHANGED <<draft, missed>>
    BY <1>1, <1>9 DEF FetchMirror, Goto, Work, history
  <2>2. ListingCovers(s)'
    BY <1>1, <1>3, <2>1 DEF ListingCovers, ToStore, Shown, Still, Listing
  <2> QED
    BY <1>1, <1>6, <2>1, <2>2 DEF Covers
<1>10. CASE StartMapping(s)
  <2>1. /\ pc[s] = "fetch" /\ pc'[s] = "map"
        /\ work'[s].token = work[s].token /\ work'[s].asked = work[s].asked
        /\ work'[s].next = work[s].next
        /\ UNCHANGED <<draft, missed>>
    BY <1>1, <1>10 DEF StartMapping, Goto, Work, history
  <2>2. ~ \E j \in DOMAIN work[s].batch : j >= work[s].i
    <3>1. work[s].batch \in Seq(ListedItem) /\ work[s].i \in Nat
      BY <1>1 DEF Work
    <3> QED
      BY <1>10, <3>1 DEF StartMapping, Finished
  <2>3. ListingCovers(s)'
    BY <1>1, <1>3, <2>1, <2>2 DEF ListingCovers, ToStore, Shown, Still, Listing
  <2> QED
    BY <1>1, <1>6, <2>1, <2>3 DEF Covers
<1>11. CASE StoreMirror(s)
  <2> DEFINE item == work[s].batch[work[s].i]
  <2>1. /\ work[s].i \in DOMAIN work[s].batch /\ work[s].i \in Nat
        /\ DOMAIN work[s].batch \subseteq Nat
        /\ Item(s) = item /\ item \in ListedItem
    <3>1. ~Finished(s) /\ work[s].batch \in Seq(ListedItem) /\ work[s].i \in Nat \ {0}
      BY <1>1, <1>11 DEF StoreMirror, TypeInv, Work
    <3> QED
      BY <1>1, <3>1, ItemIsTyped DEF Finished, Item
  <2>2. /\ pc[s] = "store" /\ pc'[s] = "fetch" /\ missed' = missed
        /\ \A f \in {"token", "asked", "next", "batch"} : work'[s][f] = work[s][f]
        /\ work'[s].i = work[s].i + 1
    BY <1>1, <1>11 DEF StoreMirror, Advance, Goto, Work, history
  <2>3. draft'[s].mirror = [draft[s].mirror EXCEPT ![item.event] = As(item)]
    BY <1>1, <1>11, <2>1 DEF StoreMirror, Stored, As, Draft, TypeInv
  <2>4. Newer(work[s].next, item.event, As(item)) /\ item.event \in Event
    BY <1>1, <2>1, <2>2 DEF WritesOf, Listing, ListedItem
  <2>5. ASSUME NEW e \in Event, Shown(e), calendar[e].v <= work[s].next
        PROVE  \/ mirror[e] = calendar[e]
               \/ draft'[s].mirror[e] # NoEvent
               \/ \E j \in DOMAIN work[s].batch : j >= work[s].i + 1 /\ work[s].batch[j].event = e
    <3>1. CASE item.event = e
      BY <1>1, <2>3, <2>4, <2>5, <3>1 DEF Newer, AsOf, Shown, Draft
    <3>2. CASE item.event # e
      <4>1. mirror[e] = calendar[e] \/ draft[s].mirror[e] # NoEvent \/ ToStore(s, e)
        BY <1>1, <2>2, <2>5 DEF ListingCovers, Listing
      <4>2. draft'[s].mirror[e] = draft[s].mirror[e]
        BY <1>1, <2>3, <3>2 DEF Draft
      <4>3. \A j \in DOMAIN work[s].batch :
               j >= work[s].i /\ work[s].batch[j].event = e => j >= work[s].i + 1
        BY <2>1, <3>2
      <4> QED
        BY <4>1, <4>2, <4>3 DEF ToStore
    <3> QED
      BY <3>1, <3>2
  <2>6. ListingCovers(s)'
    BY <1>3, <2>2, <2>5 DEF ListingCovers, ToStore, Shown, Still
  <2> QED
    BY <1>1, <1>6, <2>2, <2>6 DEF Covers
<1>12. CASE ListEvents(s)
  <2>0. PICK listed \in SUBSET Listable(work[s].asked, 0) :
          \E order \in SetToSeqs(listed) : Lists(s, listed, order)
    BY <1>1, <1>12, ListShape
  <2>1. PICK order \in SetToSeqs(listed) : Lists(s, listed, order)
    BY <2>0
  <2>3. /\ work'[s].next = version /\ work'[s].batch = InOrder(order, calendar)
        /\ work'[s].i = work[s].i /\ work'[s].asked = None /\ work'[s].token = work[s].token
    BY <1>1, <2>1 DEF Lists, Work
  <2>4. work[s].i = 1 /\ pc'[s] = "fetch"
    BY <1>1, <1>12 DEF ListEvents, WritesOf, Listing, Goto
  <2>5. ASSUME NEW e \in Event, Shown(e)', calendar[e].v <= version
        PROVE  mirror[e] = calendar[e] \/ ToStore(s, e)'
    <3>1. /\ calendar[e] # NoEvent /\ Shown(e)
          /\ e \notin Listable(work[s].asked, 0) \ listed
      BY <1>3, <2>1, <2>5 DEF Lists, Shown, Still
    <3>2. CASE e \in listed
      <4>1. PICK n \in Nat : order \in [1 .. n -> Event]
        BY OrderIsOnto DEF Listable
      <4>2. PICK j \in DOMAIN order : order[j] = e
        BY <3>1, <3>2, OrderIsOnto DEF Listable
      <4>3. j \in DOMAIN InOrder(order, calendar) /\ InOrder(order, calendar)[j].event = e /\ j >= 1
        BY <4>1, <4>2 DEF InOrder
      <4> QED
        BY <2>3, <2>4, <4>3 DEF ToStore
    <3>3. CASE e \notin Listable(work[s].asked, 0)
      <4>1. calendar[e].is \in Time => calendar[e].is >= 0
        BY TimesAreNumbers
      <4>2. work[s].asked # None /\ calendar[e].v <= work[s].asked
        BY <1>1, <3>1, <3>3, <4>1 DEF Listable, Work, Token, TypeInv, TypeOK, Listed
      <4> QED
        BY <1>1, <3>1, <4>2 DEF Covers
    <3> QED
      BY <3>1, <3>2, <3>3
  <2>6. ListingCovers(s)'
    BY <1>3, <2>3, <2>4, <2>5 DEF ListingCovers, Still
  <2> QED
    BY <1>1, <1>6, <2>3, <2>6 DEF Covers
<1> QED
  <2>1. pc'[s] \in Listing => FetchMirror(s) \/ StartMapping(s) \/ StoreMirror(s) \/ ListEvents(s) \/ SkipSync(s)
    BY <1>1 DEF Sync, LoadConnection, TakeLock, RefreshToken, TakeLockAgain, TokenExpired,
           Goto, Listing
  <2> QED
    BY <1>7, <1>8, <1>9, <1>10, <1>11, <1>12, <2>1

LEMMA StepCover == TypeInv /\ PastInv /\ CoverInv /\ [Next]_vars => CoverInv'
<1> SUFFICES ASSUME TypeInv, PastInv, CoverInv, [Next]_vars
             PROVE  CoverInv'
    OBVIOUS
<1> USE DEF CoverInv, Covers, Shown, ListingCovers, ToStore, google, tables, history
<1>1. ASSUME NEW s \in Session, Abort(s)
      PROVE  CoverInv'
  <2>1. Step(s) /\ Quit(s) /\ Still /\ missed' = missed
    BY <1>1 DEF Step, Abort, Still
  <2>2. OnlyBy(s) /\ work'[s] = NoWork /\ pc'[s] = "idle"
    BY <2>1, QuitIsLocal
  <2>3. s \in Syncer => (Covers(work[s].token) /\ Covers(work[s].asked) /\ ListingCovers(s))'
    BY <2>2 DEF NoWork, Listing
  <2> QED
    BY <2>1, <2>2, <2>3, LocalCover
<1>2. ASSUME NEW o \in Row, AddByHand(o)
      PROVE  CoverInv'
    BY <1>2 DEF AddByHand
<1>3. CASE UNCHANGED vars
    BY <1>3 DEF vars
<1>4. ASSUME NEW s \in Syncer, Sync(s)
      PROVE  CoverInv'
    BY <1>4, SyncCover, CommitCover
<1> QED
    BY <1>1, <1>2, <1>3, <1>4, CalendarCover, MapCover, ReviewCover DEF Next

LEMMA InitCover == Init => CoverInv
BY DEF Init, CoverInv, Covers, ListingCovers, Listing, NoWork, Session

(* The inductive invariant of synchronisation holds.                       *)
THEOREM Invariance == Spec => []CalendarInv
<1>1. Init => CalendarInv
    BY InitTyped, InitPast, InitCover DEF CalendarInv
<1>2. CalendarInv /\ [Next]_vars => CalendarInv'
    BY StepTyped, StepPast, StepCover DEF CalendarInv
<1> QED
    BY <1>1, <1>2, PTL DEF Spec

(* What the sync token claims is mirrored, whatever sync failed, was       *)
(* repeated or overlapped another.                                         *)
THEOREM TokenIsTrue == Spec => []CursorCovers
<1>1. CalendarInv => CursorCovers
    BY DEF CalendarInv, CoverInv, Covers, Shown, CursorCovers
<1> QED
    BY <1>1, Invariance, PTL

-----------------------------------------------------------------------------
(* Decisions.                                                              *)
LEMMA LocalDecision ==
    ASSUME DecisionInv, NEW s \in Session, OnlyBy(s), decision' = decision,
           s \in Syncer => SyncDecides(s)', s \in Reviewer => ReviewDecides(s)'
    PROVE  DecisionInv'
<1>1. ASSUME NEW v \in Session, v # s
      PROVE  /\ v \in Syncer => SyncDecides(v)'
             /\ v \in Reviewer => ReviewDecides(v)'
  <2>1. draft'[v] = draft[v] /\ pc'[v] = pc[v]
    BY <1>1 DEF OnlyBy, Others
  <2> QED
    BY <2>1 DEF DecisionInv, SyncDecides, ReviewDecides
<1> QED
    BY <1>1 DEF DecisionInv, Session

LEMMA QuitDecision ==
    ASSUME TypeInv, DecisionInv, NEW s \in Session, Quit(s), decision' = decision
    PROVE  DecisionInv'
BY QuitIsLocal, LocalDecision DEF SyncDecides, ReviewDecides, NoDraft

LEMMA MapDecision ==
    ASSUME TypeInv, PastInv, DecisionInv, NEW s \in Session, Map(s)
    PROVE  DecisionInv' /\ decision' = decision
<1>1. OnlyBy(s)
  <2>1. Step(s)
    BY DEF Step
  <2> QED
    BY <2>1, StepIsLocal
<1>2. decision' = decision /\ pc'[s] = "map" /\ pc[s] = "map"
    BY MapWrites DEF tables
<1>3. s \in Syncer => SyncDecides(s)'
    BY <1>2, MapWrites DEF DecisionInv, SyncDecides, Decision
<1>4. s \in Reviewer => ReviewDecides(s)'
    BY <1>2, MapWrites, CalendarAssumption DEF DecisionInv, ReviewDecides, Decision
<1> QED
    BY <1>1, <1>2, <1>3, <1>4, LocalDecision

(* Every commit of a sync that makes a series pending finds none.          *)
LEMMA CommitDecision ==
    ASSUME TypeInv, PastInv, DecisionInv, NEW s \in Syncer, CommitSync(s) \/ CommitAfterError(s)
    PROVE  /\ DecisionInv'
           /\ decision' = decision \/ (decision = None /\ decision' = "pending")
<1>1. /\ s \in Session /\ pc[s] \in Locked /\ Quit(s)
      /\ decision' = Decision(s)
    BY DEF CommitSync, CommitAfterError, Publish, Locked, Session
<1>2. CASE draft[s].decision = None
    BY <1>1, <1>2, QuitDecision DEF Decision
<1>3. CASE draft[s].decision # None
  <2>1. decision = None /\ decision' = "pending"
    BY <1>1, <1>3 DEF Decision, DecisionInv, SyncDecides
  <2>2. ASSUME NEW v \in Syncer
        PROVE  SyncDecides(v)'
    <3>1. CASE v = s
      BY <1>1, <3>1, QuitIsLocal DEF SyncDecides, NoDraft
    <3>2. CASE v # s
      <4>1. pc[v] # "map" /\ draft'[v] = draft[v]
        BY <1>1, <3>2, QuitIsLocal DEF PastInv, WritesOf, Locked, OnlyBy, Others, Session
      <4> QED
        BY <4>1 DEF DecisionInv, SyncDecides
    <3> QED
      BY <3>1, <3>2
  <2>3. ASSUME NEW q \in Reviewer
        PROVE  ReviewDecides(q)'
    <3>1. pc[q] = "idle"
      BY <2>1, CalendarAssumption DEF DecisionInv, ReviewDecides
    <3>2. draft'[q] = draft[q] /\ pc'[q] = pc[q]
      BY <1>1, QuitIsLocal, SessionsAreApart DEF OnlyBy, Others, Session
    <3> QED
      BY <3>1, <3>2 DEF DecisionInv, ReviewDecides
  <2> QED
    BY <2>1, <2>2, <2>3 DEF DecisionInv
<1> QED
    BY <1>2, <1>3

LEMMA SyncDecision ==
    ASSUME TypeInv, PastInv, DecisionInv, NEW s \in Syncer, Sync(s),
           ~CommitSync(s), ~CommitAfterError(s)
    PROVE  DecisionInv' /\ decision' = decision
<1>1. s \in Session /\ s \notin Reviewer /\ draft[s] \in Draft
    BY SessionsAreApart DEF Session, TypeInv
<1>2. OnlyBy(s)
  <2>1. Step(s)
    BY DEF Step
  <2> QED
    BY <1>1, <2>1, StepIsLocal
<1>3. decision' = decision
    BY DEF Sync, LoadConnection, TakeLock, SkipSync, ListEvents, RefreshToken, TakeLockAgain,
           TokenExpired, FetchMirror, StoreMirror, StartMapping, tables
<1>4. CASE SkipSync(s)
    BY <1>1, <1>3, <1>4, QuitDecision DEF SkipSync
<1>5. CASE ~SkipSync(s)
  <2>1. draft'[s].decision = draft[s].decision
    BY <1>1, <1>5
       DEF Sync, LoadConnection, TakeLock, ListEvents, RefreshToken, TakeLockAgain,
           TokenExpired, FetchMirror, StoreMirror, StartMapping, Draft, TypeInv
  <2>2. pc[s] # "map"
    BY <1>5 DEF Sync, LoadConnection, TakeLock, ListEvents, RefreshToken, TakeLockAgain,
           TokenExpired, FetchMirror, StoreMirror, StartMapping
  <2>3. SyncDecides(s)'
    BY <1>3, <2>1, <2>2 DEF DecisionInv, SyncDecides
  <2> QED
    BY <1>1, <1>2, <1>3, <2>3, LocalDecision
<1> QED
    BY <1>3, <1>4, <1>5

(* With one review at a time nobody decides but it.                        *)
LEMMA ReviewDecision ==
    ASSUME OneReview, TypeInv, PastInv, DecisionInv, NEW r \in Reviewer, Review(r)
    PROVE  /\ DecisionInv'
           /\ decision' = decision \/ decision = "pending"
<1>1. /\ r \in Session /\ r \notin Syncer /\ draft[r] \in Draft
      /\ pc \in [Session -> Steps] /\ ReviewDecides(r)
    BY SessionsAreApart DEF Session, TypeInv, TypeOK, DecisionInv
<1>2. OnlyBy(r)
  <2>1. Step(r)
    BY DEF Step
  <2> QED
    BY <1>1, <2>1, StepIsLocal
<1>3. CASE OpenReview(r)
  <2>1. ReviewDecides(r)' /\ decision' = decision
    BY <1>1, <1>3 DEF OpenReview, MayReview, Goto, ReviewDecides, tables
  <2> QED
    BY <1>1, <1>2, <2>1, LocalDecision
<1>4. CASE Keep(r) \/ Reject(r)
  <2>1. /\ pc[r] # "idle" /\ decision' = decision
        /\ \/ pc'[r] = "map" /\ draft'[r].decision = "kept"
           \/ pc'[r] = "delete" /\ draft'[r].decision = "rejected"
    BY <1>1, <1>4 DEF Keep, Reject, Goto, Draft, TypeInv, tables
  <2>2. ReviewDecides(r)'
    BY <1>1, <2>1 DEF ReviewDecides
  <2> QED
    BY <1>1, <1>2, <2>1, <2>2, LocalDecision
<1>5. CASE CommitKeep(r) \/ CommitReject(r)
  <2>1. decision = "pending" /\ Quit(r)
    BY <1>1, <1>5 DEF CommitKeep, CommitReject, ReviewDecides
  <2>2. ASSUME NEW s \in Syncer
        PROVE  SyncDecides(s)'
    <3>1. draft[s].decision = None
      BY <2>1, CalendarAssumption DEF DecisionInv, SyncDecides
    <3>2. draft'[s] = draft[s]
      BY <1>1, <2>1, QuitIsLocal DEF OnlyBy, Others, Session
    <3> QED
      BY <3>1, <3>2 DEF SyncDecides
  <2>3. ASSUME NEW q \in Reviewer
        PROVE  ReviewDecides(q)'
    <3>1. q = r
      BY DEF OneReview
    <3> QED
      BY <1>1, <2>1, <3>1, QuitIsLocal DEF ReviewDecides, NoDraft
  <2> QED
    BY <2>1, <2>2, <2>3 DEF DecisionInv
<1> QED
    BY <1>3, <1>4, <1>5 DEF Review

LEMMA StepDecision ==
    ASSUME OneReview, TypeInv, PastInv, DecisionInv, [Next]_vars
    PROVE  /\ DecisionInv'
           /\ decision \in {"kept", "rejected"} => decision' = decision
<1>1. ASSUME NEW s \in Session, Abort(s)
      PROVE  DecisionInv' /\ decision' = decision
    BY <1>1, QuitDecision DEF Abort, tables
<1>2. CASE UNCHANGED vars \/ (\E e \in Event : ChangeEvent(e)) \/ (\E o \in Row : AddByHand(o))
  <2>1. UNCHANGED <<decision, pc, draft>>
    BY <1>2 DEF vars, ChangeEvent, AddByHand, tables
  <2> QED
    BY <2>1 DEF DecisionInv, SyncDecides, ReviewDecides
<1>3. ASSUME NEW s \in Syncer, Sync(s)
      PROVE  DecisionInv' /\ (decision' = decision \/ decision = None)
    BY <1>3, SyncDecision, CommitDecision
<1> QED
    BY <1>1, <1>2, <1>3, MapDecision, ReviewDecision, CalendarAssumption DEF Next

-----------------------------------------------------------------------------
(* Links and meetings of a series that is not kept.                        *)
LEMMA LocalLink ==
    ASSUME LinkInv, NEW s \in Session, OnlyBy(s), UNCHANGED <<decision, link, meeting>>,
           decision # "kept" => Unlinked(s)'
    PROVE  LinkInv'
<1>1. ASSUME decision # "kept", NEW v \in Session, v # s
      PROVE  Unlinked(v)'
  <2>1. draft'[v] = draft[v] /\ work'[v] = work[v]
    BY <1>1 DEF OnlyBy, Others
  <2> QED
    BY <1>1, <2>1 DEF LinkInv, Unlinked, NoLink, NoMeeting
<1> QED
    BY <1>1 DEF LinkInv, NoLink, NoMeeting

LEMMA QuitUnlinks ==
    ASSUME TypeInv, NEW s \in Session, Quit(s)
    PROVE  Unlinked(s)'
BY QuitIsLocal DEF Unlinked, NoLink, NoMeeting, NoWork, NoDraft

(* Meetings are mapped only when the session sees the series kept.         *)
LEMMA MapLink ==
    ASSUME TypeInv, PastInv, DecisionInv, LinkInv, NEW s \in Session, Map(s)
    PROVE  LinkInv'
<1>1. /\ OnlyBy(s)
      /\ UNCHANGED <<decision, link, meeting>>
      /\ work'[s].links = work[s].links
      /\ pc[s] = "map"
  <2>1. Step(s)
    BY DEF Step
  <2> QED
    BY <2>1, StepIsLocal, MapWrites DEF tables
<1>2. ASSUME decision # "kept"
      PROVE  Unlinked(s)'
  <2>1. Unlinked(s)
    BY <1>2 DEF LinkInv
  <2>2. CASE s \in Reviewer
    <3>1. draft[s].decision = "kept" /\ Decision(s) = "kept"
      BY <1>1, <2>2, CalendarAssumption DEF DecisionInv, ReviewDecides, Decision
    <3>2. draft'[s].decision = "kept"
      BY <3>1, MapWrites, CalendarAssumption
    <3> QED
      BY <1>1, <2>1, <3>2 DEF Unlinked, NoLink
  <2>3. CASE s \in Syncer
    <3>1. draft[s].decision # "kept" /\ Decision(s) # "kept"
      BY <1>2, <2>3, CalendarAssumption DEF DecisionInv, SyncDecides, Decision
    <3>2. ~Linked(s)
      BY <2>1, ItemIsTyped DEF Unlinked, NoLink, Linked, LinkOf, Map, MapNothing, MapNewSeries,
           MapMeeting, MapCancelled, Mapping, ListedItem
    <3>3. MapNothing(s) \/ MapNewSeries(s)
      BY <3>1, <3>2 DEF Map, MapMeeting, MapCancelled, MayMap
    <3>4. draft'[s].link = draft[s].link /\ draft'[s].meeting = draft[s].meeting
      BY <3>3 DEF MapNothing, MapNewSeries, Mapped, TypeInv, Draft
    <3> QED
      BY <1>1, <2>1, <3>1, <3>4 DEF Unlinked, NoLink, NoMeeting
  <2> QED
    BY <2>2, <2>3 DEF Session
<1> QED
    BY <1>1, <1>2, LocalLink

LEMMA CommitLink ==
    ASSUME TypeInv, PastInv, DecisionInv, LinkInv,
           NEW s \in Syncer, CommitSync(s) \/ CommitAfterError(s)
    PROVE  LinkInv'
<1>1. /\ s \in Session /\ Quit(s) /\ Publish(s)
      /\ (decision' = decision \/ (decision = None /\ decision' = "pending"))
    BY CommitDecision DEF CommitSync, CommitAfterError, Session
<1>2. draft[s].decision # "kept"
    BY CalendarAssumption DEF DecisionInv, SyncDecides
<1>3. ASSUME decision' # "kept"
      PROVE  link' = NoLink /\ UNCHANGED meeting /\ decision # "kept"
  <2>1. decision # "kept"
    BY <1>1, <1>3, CalendarAssumption
  <2>2. Unlinked(s) /\ link = NoLink
    BY <1>1, <2>1 DEF LinkInv
  <2>3. Links(s) = link /\ Meetings(s) = meeting
    BY <1>2, <2>2 DEF Unlinked, Links, Meetings, Seen, NoLink, NoMeeting, TypeInv, TypeOK
  <2> QED
    BY <1>1, <2>1, <2>2, <2>3 DEF Publish
<1>4. ASSUME decision' # "kept", NEW v \in Session
      PROVE  Unlinked(v)'
  <2>1. CASE v = s
    BY <1>1, <2>1, QuitUnlinks
  <2>2. CASE v # s
    <3>1. draft'[v] = draft[v] /\ work'[v] = work[v]
      BY <1>1, <2>2, QuitIsLocal DEF OnlyBy, Others
    <3> QED
      BY <1>3, <1>4, <3>1 DEF LinkInv, Unlinked, NoLink, NoMeeting
  <2> QED
    BY <2>1, <2>2
<1>5. decision' = "rejected" => decision = "rejected"
    BY <1>1
<1> QED
    BY <1>3, <1>4, <1>5 DEF LinkInv, NoLink, NoMeeting

LEMMA SyncLink ==
    ASSUME TypeInv, PastInv, LinkInv, NEW s \in Syncer, Sync(s),
           ~CommitSync(s), ~CommitAfterError(s)
    PROVE  LinkInv'
<1>1. s \in Session /\ draft[s] \in Draft /\ work[s] \in Work
    BY DEF Session, TypeInv
<1>2. OnlyBy(s)
  <2>1. Step(s)
    BY DEF Step
  <2> QED
    BY <1>1, <2>1, StepIsLocal
<1>3. UNCHANGED <<decision, link, meeting>>
    BY DEF Sync, LoadConnection, TakeLock, SkipSync, ListEvents, RefreshToken, TakeLockAgain,
           TokenExpired, FetchMirror, StoreMirror, StartMapping, tables
<1>4. ASSUME decision # "kept"
      PROVE  Unlinked(s)'
  <2>1. Unlinked(s) /\ link = NoLink
    BY <1>1, <1>4 DEF LinkInv
  <2>2. CASE SkipSync(s)
    BY <1>1, <2>2, QuitUnlinks DEF SkipSync
  <2>3. CASE FetchMirror(s)
    <3>1. work'[s].links = [work[s].links EXCEPT ![Item(s).event] = link[Item(s).event]]
      BY <1>1, <2>3 DEF FetchMirror, TypeInv, Work
    <3>2. Item(s).event \in Event
      BY <1>1, <2>3, ItemIsTyped DEF FetchMirror, ListedItem
    <3>3. work'[s].links = NoLink
      BY <2>1, <3>1, <3>2 DEF Unlinked, NoLink
    <3> QED
      BY <2>1, <2>3, <3>3 DEF FetchMirror, Unlinked, NoLink, NoMeeting
  <2>4. CASE ~SkipSync(s) /\ ~FetchMirror(s)
    <3>1. /\ work'[s].links = work[s].links
          /\ draft'[s].decision = draft[s].decision
          /\ draft'[s].link = draft[s].link
          /\ draft'[s].meeting = draft[s].meeting
      <4> USE DEF TypeInv, Draft, Work
      <4>1. CASE LoadConnection(s) \/ TakeLock(s) \/ TakeLockAgain(s) \/ StartMapping(s)
        BY <1>1, <4>1 DEF LoadConnection, TakeLock, TakeLockAgain, StartMapping
      <4>2. CASE RefreshToken(s) \/ TokenExpired(s)
        BY <1>1, <4>2 DEF RefreshToken, TokenExpired
      <4>3. CASE ListEvents(s)
        BY <1>1, <4>3 DEF ListEvents
      <4>4. CASE StoreMirror(s)
        BY <1>1, <4>4 DEF StoreMirror, Advance
      <4> QED
        BY <2>4, <4>1, <4>2, <4>3, <4>4 DEF Sync
    <3> QED
      BY <2>1, <3>1 DEF Unlinked, NoLink, NoMeeting
  <2> QED
    BY <2>2, <2>3, <2>4
<1> QED
    BY <1>1, <1>2, <1>3, <1>4, LocalLink

LEMMA ReviewLink ==
    ASSUME OneReview, TypeInv, PastInv, DecisionInv, LinkInv, NEW r \in Reviewer, Review(r)
    PROVE  LinkInv'
<1>1. /\ r \in Session /\ draft[r] \in Draft /\ work[r] \in Work
      /\ r \notin Syncer /\ ReviewDecides(r)
    BY SessionsAreApart DEF Session, TypeInv, DecisionInv
<1>2. OnlyBy(r)
  <2>1. Step(r)
    BY DEF Step
  <2> QED
    BY <1>1, <2>1, StepIsLocal
<1>3. CASE OpenReview(r)
  <2>1. UNCHANGED <<decision, link, meeting, work, draft>>
    BY <1>3 DEF OpenReview, tables
  <2> QED
    BY <2>1 DEF LinkInv, Unlinked, NoLink, NoMeeting
<1>4. CASE Keep(r) \/ Reject(r)
  <2>1. UNCHANGED <<decision, link, meeting>>
    BY <1>4 DEF Keep, Reject, tables
  <2>2. /\ work'[r].links = link
        /\ draft'[r].link = draft[r].link /\ draft'[r].meeting = draft[r].meeting
    <3>1. CASE Keep(r)
      BY <1>1, <3>1 DEF Keep, TypeInv, Work, Draft
    <3>2. CASE Reject(r)
      BY <1>1, <3>2 DEF Reject, TypeInv, Work, Draft
    <3> QED
      BY <1>4, <3>1, <3>2
  <2>3. decision # "kept" => draft[r].decision = None
    BY <1>1, <1>4 DEF Keep, Reject, ReviewDecides
  <2>4. decision # "kept" => Unlinked(r)'
    BY <1>1, <2>2, <2>3, CalendarAssumption DEF LinkInv, Unlinked, NoLink, NoMeeting
  <2> QED
    BY <1>1, <1>2, <2>1, <2>4, LocalLink
<1>5. CASE CommitKeep(r)
  <2>1. decision' = "kept"
    BY <1>1, <1>5, CalendarAssumption DEF CommitKeep, Publish, Decision, ReviewDecides
  <2> QED
    BY <2>1 DEF LinkInv
<1>6. CASE CommitReject(r)
  <2>1. decision = "pending" /\ decision' = "rejected" /\ Quit(r)
    BY <1>1, <1>6 DEF CommitReject, ReviewDecides
  <2>2. link' = NoLink
    <3>1. \A e \in Event : link'[e] = None
      BY <1>6 DEF CommitReject
    <3> QED
      BY <1>6, <3>1 DEF CommitReject, NoLink
  <2>3. meeting' = NoMeeting
    BY <1>6 DEF CommitReject, Deletable, NoMeeting
  <2>4. ASSUME NEW v \in Session
        PROVE  Unlinked(v)'
    <3>1. CASE v = r
      BY <1>1, <2>1, <3>1, QuitUnlinks
    <3>2. CASE v # r
      <4>1. draft'[v] = draft[v] /\ work'[v] = work[v]
        BY <1>2, <3>2 DEF OnlyBy, Others
      <4> QED
        BY <2>1, <4>1 DEF LinkInv, Unlinked, NoLink, NoMeeting
    <3> QED
      BY <3>1, <3>2
  <2> QED
    BY <2>2, <2>3, <2>4 DEF LinkInv, NoLink, NoMeeting
<1> QED
    BY <1>3, <1>4, <1>5, <1>6 DEF Review

LEMMA StepLink ==
    ASSUME OneReview, TypeInv, PastInv, DecisionInv, LinkInv, [Next]_vars
    PROVE  LinkInv'
<1>1. ASSUME NEW s \in Session, Abort(s)
      PROVE  LinkInv'
    BY <1>1, QuitUnlinks, QuitIsLocal, LocalLink DEF Abort, tables
<1>2. CASE UNCHANGED vars \/ \E e \in Event : ChangeEvent(e)
  <2>1. UNCHANGED <<decision, link, meeting, work, draft>>
    BY <1>2 DEF vars, ChangeEvent, tables
  <2> QED
    BY <2>1 DEF LinkInv, Unlinked, NoLink, NoMeeting
<1>3. ASSUME NEW o \in Row, AddByHand(o)
      PROVE  LinkInv'
  <2>1. UNCHANGED <<decision, link, work, draft>> /\ decision # "rejected"
    BY <1>3 DEF AddByHand
  <2> QED
    BY <2>1 DEF LinkInv, Unlinked, NoLink, NoMeeting
<1>4. ASSUME NEW s \in Syncer, Sync(s)
      PROVE  LinkInv'
    BY <1>4, SyncLink, CommitLink
<1> QED
    BY <1>1, <1>2, <1>3, <1>4, MapLink, ReviewLink DEF Next

ReviewInv == CalendarInv /\ DecisionInv /\ LinkInv

LEMMA InitReview == Init => DecisionInv /\ LinkInv
<1> SUFFICES ASSUME Init
             PROVE  DecisionInv /\ LinkInv
    OBVIOUS
<1>1. DecisionInv
    BY DEF Init, DecisionInv, SyncDecides, ReviewDecides, NoDraft, Session
<1>2. LinkInv
    BY CalendarAssumption DEF Init, LinkInv, Unlinked, NoLink, NoMeeting, NoDraft, NoWork
<1> QED
    BY <1>1, <1>2

(* With one review of a series at a time, a decision is made once: no sync *)
(* and no later review changes it.                                         *)
THEOREM DecidedOnce ==
    ASSUME OneReview
    PROVE  Spec => DecisionIsFinal
<1>1. Init => ReviewInv
    BY InitTyped, InitPast, InitCover, InitReview DEF ReviewInv, CalendarInv
<1>2. ReviewInv /\ [Next]_vars => ReviewInv'
    BY StepTyped, StepPast, StepCover, StepDecision, StepLink DEF ReviewInv, CalendarInv
<1>3. ReviewInv /\ [Next]_vars
        => [(decision \in {"kept", "rejected"}) => (decision' = decision)]_vars
    BY StepDecision DEF ReviewInv, CalendarInv
<1> QED
    BY <1>1, <1>2, <1>3, PTL DEF Spec, DecisionIsFinal

(* With one review of a series at a time, a rejected series has no meeting *)
(* and no link, and no sync that was under way brings one back.            *)
THEOREM RejectedStaysEmpty ==
    ASSUME OneReview
    PROVE  Spec => []RejectedIsEmpty
<1>1. Init => ReviewInv
    BY InitTyped, InitPast, InitCover, InitReview DEF ReviewInv, CalendarInv
<1>2. ReviewInv /\ [Next]_vars => ReviewInv'
    BY StepTyped, StepPast, StepCover, StepDecision, StepLink DEF ReviewInv, CalendarInv
<1>3. ReviewInv => RejectedIsEmpty
    BY DEF ReviewInv, LinkInv, NoLink, NoMeeting, RejectedIsEmpty
<1> QED
    BY <1>1, <1>2, <1>3, PTL DEF Spec
=============================================================================
