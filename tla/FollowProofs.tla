---------------------------- MODULE FollowProofs ----------------------------
(* Meetings of a kept series follow the calendar, for any number of events *)
(* and meetings and overlapping syncs, and for one review at a time that   *)
(* overlaps no sync.                                                       *)
EXTENDS CalendarProofs

-----------------------------------------------------------------------------
(* L and M are the links and the meetings, as committed or as a session    *)
(* sees them.                                                              *)
Single(L, e) == \A f \in Event \ {e} : L[f] # L[e]

Followed(L, M, e) ==
    calendar[e].is \in Time =>
        /\ L[e] # None
        /\ Single(L, e) => M[L[e]] = [at |-> calendar[e].is, done |-> FALSE]

(* Every linked meeting exists.                                            *)
Hold(L, M) == \A e \in Event : L[e] # None => M[L[e]] # None

(* What has not changed since t, and no full listing left out, is followed.*)
FollowsTo(t) ==
    t # None => \A e \in Event \ missed : calendar[e].v <= t => Followed(link, meeting, e)

(* What a session is about to map is the calendar as it is.                *)
Current(s, e) ==
    /\ e \notin missed
    /\ IF s \in Syncer THEN calendar[e].v <= work[s].next ELSE mirror[e] = calendar[e]

(* The event is listed and still to be mapped.                             *)
ToMap(s, e) ==
    \E j \in DOMAIN work[s].batch :
        work[s].batch[j].event = e /\ (pc[s] = "map" => j >= work[s].i)

(* The link of item j has been loaded and is still to be used.             *)
Loaded(s, j) ==
    \/ pc[s] = "fetch" /\ j < work[s].i
    \/ pc[s] = "store" /\ j <= work[s].i
    \/ pc[s] = "map" /\ j >= work[s].i

(* A session that has listed events loses nothing that was followed, and   *)
(* follows in its own view every event that it lists no more.              *)
ViewInv(s) ==
    /\ \A j, k \in DOMAIN work[s].batch :
          work[s].batch[j].event = work[s].batch[k].event => j = k
    /\ \A j \in DOMAIN work[s].batch : Loaded(s, j) =>
          work[s].links[work[s].batch[j].event] = Links(s)[work[s].batch[j].event]
    /\ Hold(Links(s), Meetings(s))
    /\ Decision(s) = "kept" => \A e \in Event : Current(s, e) =>
          /\ s \in Syncer /\ Followed(link, meeting, e) => Followed(Links(s), Meetings(s), e)
          /\ ToMap(s, e) \/ Followed(Links(s), Meetings(s), e)

(* Links and meetings are written only while mapping; a sync asks with the *)
(* token it loaded; a review maps the mirrors as they are.                 *)
SessionInv(s) ==
    /\ pc[s] # "map" => draft[s].link = NoLink /\ draft[s].meeting = NoMeeting
    /\ pc[s] \notin Listing => work[s].i = 1
    /\ s \in Syncer => work[s].asked \in {None, work[s].token}
    /\ s \in Syncer /\ pc[s] \in {"idle", "lock"} => work[s].asked = None
    /\ s \in Reviewer /\ pc[s] = "map" =>
          \A j \in DOMAIN work[s].batch :
              As(work[s].batch[j]) = mirror[work[s].batch[j].event]
    /\ pc[s] \in Listing => ViewInv(s)

(* No sync has loaded a token later than what another lists.               *)
TokenBefore(u, s) ==
    pc[s] \in Listing /\ work[u].token # None => work[u].token <= work[s].next

(* While a review is open every sync is idle or about to take the lock.    *)
Exclusive ==
    (\E r \in Reviewer : pc[r] # "idle") => \A s \in Syncer : pc[s] \in {"idle", "lock"}

(* The inductive invariant.                                                *)
Following ==
    /\ Exclusive
    /\ Hold(link, meeting)
    /\ decision = "kept" =>
          FollowsTo(cursor) /\ \A s \in Syncer : FollowsTo(work[s].token)
    /\ \A s \in Session : SessionInv(s)
    /\ \A s, u \in Syncer : TokenBefore(u, s)

FollowInv == ~overlap => Following

(* A meeting written for one event leaves those of the others as they were.*)
LEMMA MappingKeeps ==
    ASSUME NEW L \in [Event -> Row \cup {None}], NEW M, NEW N,
           NEW e \in Event, NEW o \in Row,
           Hold(L, M), L[e] \in {o, None}, N[o] # None,
           \A x \in Row \ {o} : M[x] # None => N[x] = M[x]
    PROVE  /\ Hold([L EXCEPT ![e] = o], N)
           /\ \A f \in Event \ {e} : Followed(L, M, f) => Followed([L EXCEPT ![e] = o], N, f)
<1> DEFINE K == [L EXCEPT ![e] = o]
<1>1. o # None /\ K[e] = o /\ \A f \in Event \ {e} : K[f] = L[f]
  BY CalendarAssumption
<1> HIDE DEF K
<1>2. ASSUME NEW f \in Event, K[f] # None PROVE N[K[f]] # None
  <2>1. CASE K[f] = o
    BY <2>1
  <2>2. CASE K[f] # o
    <3>1. f # e /\ K[f] = L[f] /\ L[f] \in Row \ {o} /\ M[L[f]] # None
      BY <1>1, <1>2, <2>2 DEF Hold
    <3> QED
      BY <3>1
  <2> QED
    BY <2>1, <2>2
<1>3. ASSUME NEW f \in Event \ {e}, Followed(L, M, f), calendar[f].is \in Time
      PROVE  /\ K[f] # None
             /\ Single(K, f) => N[K[f]] = [at |-> calendar[f].is, done |-> FALSE]
  <2>1. K[f] = L[f] /\ L[f] # None /\ L[f] \in Row
    BY <1>1, <1>3 DEF Followed
  <2>2. ASSUME Single(K, f) PROVE N[K[f]] = [at |-> calendar[f].is, done |-> FALSE]
    <3>1. L[f] # o
      BY <1>1, <2>1, <2>2 DEF Single
    <3>2. ASSUME NEW g \in Event \ {f} PROVE L[g] # L[f]
      <4>1. CASE g = e
        BY <2>1, <3>1, <4>1
      <4>2. CASE g # e
        BY <1>1, <2>1, <2>2, <4>2 DEF Single
      <4> QED
        BY <4>1, <4>2
    <3>3. M[L[f]] = [at |-> calendar[f].is, done |-> FALSE]
      BY <1>3, <3>2 DEF Followed, Single
    <3>4. N[L[f]] = M[L[f]]
      BY <2>1, <3>1 DEF Hold
    <3> QED
      BY <2>1, <3>3, <3>4
  <2> QED
    BY <2>1, <2>2
<1>4. Hold(K, N)
  BY <1>2 DEF Hold
<1>5. \A f \in Event \ {e} : Followed(L, M, f) => Followed(K, N, f)
  BY <1>3 DEF Followed
<1> QED
  BY <1>4, <1>5 DEF K

(* A meeting that no event is linked to may come.                          *)
LEMMA NewRowKeeps ==
    ASSUME NEW L \in [Event -> Row \cup {None}], NEW M, NEW N, NEW o \in Row,
           Hold(L, M), M[o] = None, \A x \in Row \ {o} : N[x] = M[x]
    PROVE  Hold(L, N) /\ \A f \in Event : Followed(L, M, f) <=> Followed(L, N, f)
<1>1. ASSUME NEW f \in Event, L[f] # None PROVE N[L[f]] = M[L[f]]
  BY <1>1 DEF Hold
<1> QED
  BY <1>1 DEF Hold, Followed

LEMMA ViewIsTyped ==
    ASSUME TypeInv, NEW s \in Session
    PROVE  /\ Links(s) \in [Event -> Row \cup {None}]
           /\ Meetings(s) \in [Row -> MeetingRow \cup {None}]
           /\ \A x : x \in MeetingRow => x # None
<1>1. draft[s] \in Draft /\ link \in [Event -> Row \cup {None}]
      /\ meeting \in [Row -> MeetingRow \cup {None}]
  BY DEF TypeInv, TypeOK
<1>2. Links(s) \in [Event -> Row \cup {None}]
  BY <1>1 DEF Links, Seen, Draft
<1>3. Meetings(s) \in [Row -> MeetingRow \cup {None}]
  BY <1>1 DEF Meetings, Seen, Draft
<1>4. None \notin MeetingRow
  BY CalendarAssumption DEF MeetingRow
<1> QED
  BY <1>2, <1>3, <1>4

LEMMA LinkWritten ==
    ASSUME TypeInv, NEW s \in Session, NEW e \in Event, NEW o \in Row,
           link' = link, draft'[s].link = [draft[s].link EXCEPT ![e] = o]
    PROVE  Links(s)' = [Links(s) EXCEPT ![e] = o]
<1>1. /\ draft[s].link \in [Event -> Row \cup {None}] /\ link \in [Event -> Row \cup {None}]
      /\ o # None
  BY CalendarAssumption DEF TypeInv, TypeOK, Draft
<1>2. Links(s)' = [x \in Event |->
          IF draft'[s].link[x] # None THEN draft'[s].link[x] ELSE link[x]]
  BY <1>1 DEF Links, Seen
<1>3. Links(s) = [x \in Event |-> IF draft[s].link[x] # None THEN draft[s].link[x] ELSE link[x]]
  BY <1>1 DEF Links, Seen
<1> QED
  BY <1>1, <1>2, <1>3

LEMMA MeetingWritten ==
    ASSUME TypeInv, NEW s \in Session, NEW o \in Row, NEW m \in MeetingRow, meeting' = meeting,
           draft'[s].meeting = [draft[s].meeting EXCEPT ![o] = m]
    PROVE  Meetings(s)' = [Meetings(s) EXCEPT ![o] = m]
<1>1. /\ draft[s].meeting \in [Row -> MeetingRow \cup {None}]
      /\ meeting \in [Row -> MeetingRow \cup {None}] /\ m # None
  BY ViewIsTyped DEF TypeInv, Draft
<1>2. Meetings(s)' = [x \in Row |->
          IF draft'[s].meeting[x] # None THEN draft'[s].meeting[x] ELSE meeting[x]]
  BY <1>1 DEF Meetings, Seen
<1>3. Meetings(s) = [x \in Row |->
          IF draft[s].meeting[x] # None THEN draft[s].meeting[x] ELSE meeting[x]]
  BY <1>1 DEF Meetings, Seen
<1> QED
  BY <1>1, <1>2, <1>3

(* What mapping an event changes of what the session sees.                 *)
LEMMA MapSees ==
    ASSUME TypeInv, NEW s \in Session, Map(s), Hold(Links(s), Meetings(s)),
           LinkOf(s) = Links(s)[Item(s).event]
    PROVE  LET e == Item(s).event IN
           \/ /\ UNCHANGED <<Links(s), Meetings(s)>>
              /\ Decision(s) = "kept" => Item(s).is \notin Time
           \/ \E o \in Row :
                 /\ Links(s)' = [Links(s) EXCEPT ![e] = o]
                 /\ Links(s)[e] \in {o, None}
                 /\ Meetings(s)'[o] # None
                 /\ \A x \in Row \ {o} : Meetings(s)[x] # None => Meetings(s)'[x] = Meetings(s)[x]
                 /\ Item(s).is \in Time =>
                       Meetings(s)'[o] = [at |-> Item(s).is, done |-> FALSE]
<1> DEFINE e == Item(s).event
           L == Links(s)
           M == Meetings(s)
<1>1. /\ Item(s) \in ListedItem /\ e \in Event
      /\ L \in [Event -> Row \cup {None}] /\ M \in [Row -> MeetingRow \cup {None}]
      /\ \A x : x \in MeetingRow => x # None
      /\ link' = link /\ meeting' = meeting
      /\ draft[s] \in Draft /\ draft \in [Session -> Draft]
  <2>1. ~Finished(s)
    BY DEF Map, MapNothing, MapNewSeries, MapMeeting, MapCancelled, Mapping
  <2>2. Item(s) \in ListedItem /\ e \in Event
    BY <2>1, ItemIsTyped DEF ListedItem
  <2> QED
    BY <2>2, ViewIsTyped, MapWrites DEF tables, TypeInv
<1>2. Linked(s) => LinkOf(s) \in Row /\ M[LinkOf(s)] \in MeetingRow
  BY <1>1 DEF Linked
<1>3. ~Linked(s) => L[e] = None
  BY <1>1 DEF Linked, Hold
<1>4. CASE MapNothing(s)
  <2>1. draft' = draft
    BY <1>1, <1>4 DEF MapNothing, Mapped
  <2>2. UNCHANGED <<Links(s), Meetings(s)>>
    BY <1>1, <2>1 DEF Links, Meetings
  <2>3. Decision(s) = "kept" => Item(s).is \notin Time
    BY <1>4, CalendarAssumption DEF MapNothing, Timed, MayMap
  <2> QED
    BY <2>2, <2>3
<1>5. CASE MapNewSeries(s)
  <2>1. draft' = [draft EXCEPT ![s] = [draft[s] EXCEPT !.decision = "pending"]]
    BY <1>5 DEF MapNewSeries, Mapped
  <2>2. draft'[s].link = draft[s].link /\ draft'[s].meeting = draft[s].meeting
    BY <1>1, <2>1 DEF Draft
  <2>3. UNCHANGED <<Links(s), Meetings(s)>>
    BY <1>1, <2>2 DEF Links, Meetings
  <2>4. Decision(s) # "kept"
    BY <1>5, CalendarAssumption DEF MapNewSeries
  <2> QED
    BY <2>3, <2>4
<1>6. CASE MapMeeting(s)
  <2> DEFINE m == [at |-> Item(s).is, done |-> FALSE]
  <2>1. PICK o \in Row :
          /\ IF Linked(s) THEN o = LinkOf(s)
             ELSE IF MeetingsAt(s, Item(s).is) # {} THEN o \in MeetingsAt(s, Item(s).is)
             ELSE Unused(s, o)
          /\ Mapped(s, [draft[s] EXCEPT !.meeting[o] = m, !.link[e] = o])
    BY <1>6 DEF MapMeeting
  <2>2. m \in MeetingRow /\ Item(s).is \in Time
    BY <1>6 DEF MapMeeting, Timed, MeetingRow
  <2>3. /\ draft'[s].link = [draft[s].link EXCEPT ![e] = o]
        /\ draft'[s].meeting = [draft[s].meeting EXCEPT ![o] = m]
    BY <1>1, <2>1 DEF Mapped, Draft
  <2> HIDE DEF m
  <2>4. Links(s)' = [L EXCEPT ![e] = o]
    BY <1>1, <2>3, LinkWritten
  <2>5. Meetings(s)' = [M EXCEPT ![o] = m]
    BY <1>1, <2>2, <2>3, MeetingWritten
  <2>6. L[e] \in {o, None}
    BY <1>3, <2>1
  <2> HIDE DEF L, M, e
  <2>7. /\ Meetings(s)'[o] = m /\ m # None
        /\ \A x \in Row \ {o} : Meetings(s)'[x] = M[x]
    BY <1>1, <2>2, <2>5
  <2> QED
    BY <2>4, <2>6, <2>7 DEF L, M, e, m
<1>7. CASE MapCancelled(s)
  <2> DEFINE o == LinkOf(s)
             closed == [at |-> M[o].at, done |-> TRUE]
             new(k) == [at |-> k, done |-> FALSE]
  <2>1. /\ Item(s).is \notin Time /\ o \in Row /\ M[o] \in MeetingRow /\ L[e] = o
    BY <1>2, <1>7, CalendarAssumption DEF MapCancelled
  <2>2. closed \in MeetingRow
    BY <2>1 DEF MeetingRow
  <2>3. \/ Mapped(s, [draft[s] EXCEPT !.meeting[o] = closed])
        \/ \E k \in Rule, n \in Row :
              /\ Unused(s, n)
              /\ Mapped(s, [draft[s] EXCEPT !.meeting[o] = closed, !.meeting[n] = new(k)])
    BY <1>7 DEF MapCancelled
  <2>4. ASSUME draft'[s].link = draft[s].link PROVE Links(s)' = [L EXCEPT ![e] = o]
    <3>1. Links(s)' = L
      BY <1>1, <2>4 DEF Links
    <3> QED
      BY <1>1, <2>1, <3>1
  <2>5. ASSUME Mapped(s, [draft[s] EXCEPT !.meeting[o] = closed])
        PROVE  Links(s)' = [L EXCEPT ![e] = o] /\ Meetings(s)' = [M EXCEPT ![o] = closed]
    <3>1. /\ draft'[s].link = draft[s].link
          /\ draft'[s].meeting = [draft[s].meeting EXCEPT ![o] = closed]
      BY <1>1, <2>5 DEF Mapped, Draft
    <3> HIDE DEF closed
    <3> QED
      BY <1>1, <2>1, <2>2, <2>4, <3>1, MeetingWritten
  <2>6. ASSUME NEW k \in Rule, NEW n \in Row, Unused(s, n),
               Mapped(s, [draft[s] EXCEPT !.meeting[o] = closed, !.meeting[n] = new(k)])
        PROVE  /\ Links(s)' = [L EXCEPT ![e] = o]
               /\ Meetings(s)'[o] = closed
               /\ \A x \in Row \ {o} : M[x] # None => Meetings(s)'[x] = M[x]
    <3>1. M[n] = None /\ n # o
      BY <1>1, <2>1, <2>6 DEF Unused
    <3>2. /\ draft'[s].link = draft[s].link
          /\ draft'[s].meeting = [[draft[s].meeting EXCEPT ![o] = closed] EXCEPT ![n] = new(k)]
      BY <1>1, <2>6 DEF Mapped, Draft
    <3>3. Links(s)' = [L EXCEPT ![e] = o]
      BY <2>4, <3>2
    <3> HIDE DEF closed, new
    <3>4. /\ draft[s].meeting \in [Row -> MeetingRow \cup {None}] /\ closed # None
          /\ meeting \in [Row -> MeetingRow \cup {None}]
      BY <1>1, <2>2 DEF Draft, TypeInv
    <3>5. Meetings(s)' = [x \in Row |->
            IF draft'[s].meeting[x] # None THEN draft'[s].meeting[x] ELSE meeting[x]]
      BY <1>1, <3>2, <3>4 DEF Meetings, Seen
    <3>6. M = [x \in Row |->
            IF draft[s].meeting[x] # None THEN draft[s].meeting[x] ELSE meeting[x]]
      BY <3>4 DEF Meetings, Seen
    <3> HIDE DEF M, L, e, o
    <3>7. Meetings(s)'[o] = closed
      BY <2>1, <3>1, <3>2, <3>4, <3>5
    <3>8. \A x \in Row \ {o} : M[x] # None => Meetings(s)'[x] = M[x]
      BY <3>1, <3>2, <3>4, <3>5, <3>6
    <3> QED
      BY <3>3, <3>7, <3>8
  <2>7. /\ Links(s)' = [L EXCEPT ![e] = o] /\ Meetings(s)'[o] = closed
        /\ \A x \in Row \ {o} : M[x] # None => Meetings(s)'[x] = M[x]
    <3> HIDE DEF closed, new, L, e, o
    <3>1. CASE Mapped(s, [draft[s] EXCEPT !.meeting[o] = closed])
      <4>1. Links(s)' = [L EXCEPT ![e] = o] /\ Meetings(s)' = [M EXCEPT ![o] = closed]
        BY <2>5, <3>1
      <4> HIDE DEF M
      <4> QED
        BY <1>1, <2>1, <4>1
    <3> QED
      BY <2>3, <2>6, <3>1
  <2>8. closed # None
    BY <1>1, <2>2
  <2> HIDE DEF closed
  <2> QED
    BY <2>1, <2>7, <2>8
<1> QED
  BY <1>4, <1>5, <1>6, <1>7 DEF Map

-----------------------------------------------------------------------------
(* Without overlap one session at a time has listed events.                *)
LEMMA OneLists ==
    ASSUME OneReview, PastInv, Exclusive, NEW s \in Session, NEW v \in Session, v # s,
           pc[s] \in Listing
    PROVE  pc[v] \notin Listing
<1>1. CASE s \in Syncer /\ v \in Syncer
  BY <1>1 DEF PastInv, WritesOf, Locked, Listing
<1>2. CASE s \in Reviewer /\ v \in Reviewer
  BY <1>2 DEF OneReview
<1>3. CASE (s \in Syncer /\ v \in Reviewer) \/ (s \in Reviewer /\ v \in Syncer)
  BY <1>3 DEF Exclusive, Listing
<1> QED
  BY <1>1, <1>2, <1>3 DEF Session

LEMMA BlankSees ==
    ASSUME TypeInv, NEW s \in Session, draft[s].link = NoLink, draft[s].meeting = NoMeeting
    PROVE  Links(s) = link /\ Meetings(s) = meeting
BY DEF Links, Meetings, Seen, NoLink, NoMeeting, TypeInv, TypeOK

(* A session that has listed nothing does not see what others write.       *)
LEMMA QuietKeeps ==
    ASSUME NEW v \in Session, SessionInv(v), pc[v] \notin Listing,
           work'[v] = work[v], draft'[v] = draft[v], pc'[v] = pc[v]
    PROVE  SessionInv(v)'
BY DEF SessionInv, Listing, NoLink, NoMeeting

LEMMA QuitKeeps ==
    ASSUME TypeInv, NEW s \in Session, Quit(s)
    PROVE  SessionInv(s)' /\ pc'[s] \notin Listing /\ work'[s].token = None
BY QuitIsLocal DEF SessionInv, Listing, NoLink, NoMeeting, NoDraft, NoWork

LEMMA SessionKeeps ==
    ASSUME NEW v \in Session, SessionInv(v),
           UNCHANGED <<calendar, mirror, link, meeting, decision>>, missed \subseteq missed',
           work'[v] = work[v], draft'[v] = draft[v], pc'[v] = pc[v]
    PROVE  SessionInv(v)'
<1>1. ViewInv(v) => ViewInv(v)'
  <2>1. Links(v)' = Links(v) /\ Meetings(v)' = Meetings(v) /\ Decision(v)' = Decision(v)
    BY DEF Links, Meetings, Decision
  <2>2. \A e : (Current(v, e)' => Current(v, e)) /\ (ToMap(v, e)' <=> ToMap(v, e))
    BY DEF Current, ToMap
  <2>3. \A e : /\ Followed(link, meeting, e)' <=> Followed(link, meeting, e)
               /\ Followed(Links(v), Meetings(v), e)' <=> Followed(Links(v), Meetings(v), e)
    BY <2>1 DEF Followed, Single
  <2>4. Hold(Links(v), Meetings(v))' <=> Hold(Links(v), Meetings(v))
    BY <2>1 DEF Hold
  <2>5. \A j : Loaded(v, j)' <=> Loaded(v, j)
    BY DEF Loaded
  <2> QED
    BY <2>1, <2>2, <2>3, <2>4, <2>5 DEF ViewInv
<1> QED
  BY <1>1 DEF SessionInv, As, NoLink, NoMeeting

LEMMA LocalFollow ==
    ASSUME Following, NEW s \in Session, OnlyBy(s), Exclusive', SessionInv(s)',
           UNCHANGED <<calendar, mirror, link, meeting, decision>>, cursor' \in {cursor, None},
           missed \subseteq missed',
           s \in Syncer /\ decision = "kept" => FollowsTo(work'[s].token),
           s \in Syncer => \A u \in Syncer : TokenBefore(u, s)' /\ TokenBefore(s, u)'
    PROVE  Following'
<1>1. \A v \in Session \ {s} : work'[v] = work[v] /\ draft'[v] = draft[v] /\ pc'[v] = pc[v]
  BY DEF OnlyBy, Others
<1>2. \A v \in Session : SessionInv(v)'
  BY <1>1, SessionKeeps DEF Following
<1>3. \A t : FollowsTo(t) => FollowsTo(t)'
  BY DEF FollowsTo, Followed, Single
<1>4. FollowsTo(None)
  BY DEF FollowsTo
<1>5. ASSUME decision' = "kept" PROVE FollowsTo(cursor)'
  <2>1. FollowsTo(cursor')
    BY <1>4, <1>5 DEF Following
  <2> QED
    BY <2>1 DEF FollowsTo, Followed, Single
<1>6. ASSUME decision' = "kept", NEW v \in Syncer PROVE FollowsTo(work[v].token)'
  <2>1. FollowsTo(work'[v].token)
    BY <1>1, <1>6 DEF Following, Session
  <2> QED
    BY <2>1 DEF FollowsTo, Followed, Single
<1>7. ASSUME NEW v \in Syncer, NEW u \in Syncer PROVE TokenBefore(u, v)'
  <2>1. CASE u = s \/ v = s
    BY <2>1
  <2>2. CASE u # s /\ v # s
    BY <1>1, <2>2 DEF Following, TokenBefore, Session
  <2> QED
    BY <2>1, <2>2
<1>8. Hold(link, meeting)'
  BY DEF Following, Hold
<1> QED
  BY <1>2, <1>5, <1>6, <1>7, <1>8 DEF Following

(* A sync that goes on, or one that ends, overlaps nothing new.            *)
LEMMA SyncApart ==
    ASSUME TypeInv, Exclusive, NEW s \in Syncer, OnlyBy(s),
           pc[s] \notin {"idle", "lock"} \/ pc'[s] \in {"idle", "lock"}
    PROVE  Exclusive'
BY SessionsAreApart DEF Exclusive, OnlyBy, Others, Session

LEMMA ReviewApart ==
    ASSUME TypeInv, Exclusive, NEW r \in Reviewer, OnlyBy(r),
           pc[r] # "idle" \/ pc'[r] = "idle"
    PROVE  Exclusive'
BY SessionsAreApart DEF Exclusive, OnlyBy, Others, Session

LEMMA QuitFollows ==
    ASSUME TypeInv, Following, NEW s \in Session, Quit(s),
           UNCHANGED <<calendar, mirror, link, meeting, decision>>, cursor' \in {cursor, None},
           missed \subseteq missed'
    PROVE  Following'
<1>1. OnlyBy(s) /\ pc'[s] = "idle" /\ work'[s].token = None
  BY QuitIsLocal DEF NoWork
<1>2. Exclusive'
  BY <1>1, SyncApart, ReviewApart DEF Following, Session
<1>3. FollowsTo(work'[s].token)
  BY <1>1 DEF FollowsTo
<1>4. ASSUME s \in Syncer, NEW u \in Syncer PROVE TokenBefore(u, s)' /\ TokenBefore(s, u)'
  BY <1>1 DEF TokenBefore, Listing
<1> QED
  BY <1>1, <1>2, <1>3, <1>4, QuitKeeps, LocalFollow

(* What is mapped next is the calendar as it is.                           *)
LEMMA ItemIsCurrent ==
    ASSUME TypeInv, PastInv, NEW s \in Session, SessionInv(s), pc[s] = "map", ~Finished(s),
           Current(s, Item(s).event)
    PROVE  Item(s).is = calendar[Item(s).event].is
<1> DEFINE e == Item(s).event
<1>1. work[s].i \in DOMAIN work[s].batch /\ Item(s) = work[s].batch[work[s].i]
  <2>1. work[s].batch \in Seq(ListedItem) /\ work[s].i \in Nat \ {0}
    BY DEF TypeInv, Work
  <2> QED
    BY <2>1 DEF Finished, Item
<1>2. e \in Event /\ As(Item(s)).is = Item(s).is
  BY ItemIsTyped DEF ListedItem, As
<1>3. CASE s \in Syncer
  <2>1. Newer(work[s].next, e, As(Item(s)))
    BY <1>1, <1>3 DEF PastInv, WritesOf, Listing
  <2> QED
    BY <1>2, <1>3, <2>1 DEF Newer, AsOf, Current
<1>4. CASE s \notin Syncer
  <2>1. As(Item(s)) = mirror[e] /\ mirror[e] = calendar[e]
    BY <1>1, <1>4 DEF SessionInv, Current, Session
  <2> QED
    BY <1>2, <2>1
<1> QED
  BY <1>3, <1>4

(* Mapping an event makes the view follow it and keeps the others.         *)
LEMMA MapView ==
    ASSUME TypeInv, PastInv, NEW s \in Session, SessionInv(s), Map(s)
    PROVE  ViewInv(s)'
<1> DEFINE e == Item(s).event
           L == Links(s)
           M == Meetings(s)
           K == Links(s)'
           N == Meetings(s)'
           item(j) == work[s].batch[j]
<1>1. /\ pc[s] = "map" /\ pc'[s] = "map" /\ ~Finished(s) /\ ViewInv(s)
      /\ UNCHANGED <<calendar, mirror, link, meeting, decision, missed>>
      /\ work'[s].batch = work[s].batch /\ work'[s].links = work[s].links
      /\ work'[s].next = work[s].next /\ work'[s].i = work[s].i + 1
  <2>1. pc[s] = "map" /\ ~Finished(s) /\ Advance(s)
    BY DEF Map, MapNothing, MapNewSeries, MapMeeting, MapCancelled, Mapping, Mapped
  <2>2. work'[s].i = work[s].i + 1
    BY <2>1 DEF Advance, TypeInv, Work
  <2>3. ViewInv(s)
    BY <2>1 DEF SessionInv, Listing
  <2> QED
    BY <2>1, <2>2, <2>3, MapWrites DEF google, tables, history
<1>2. /\ work[s].i \in DOMAIN work[s].batch /\ Item(s) = item(work[s].i)
      /\ work[s].i \in Nat /\ DOMAIN work[s].batch \subseteq Nat
      /\ e \in Event /\ \A j \in DOMAIN work[s].batch : item(j).event \in Event
  <2>1. work[s].batch \in Seq(ListedItem) /\ work[s].i \in Nat \ {0}
    BY DEF TypeInv, Work
  <2>2. Item(s) \in ListedItem /\ \A j \in DOMAIN work[s].batch : item(j) \in ListedItem
    BY <1>1, ItemIsTyped, BatchIsTyped
  <2> QED
    BY <1>1, <2>1, <2>2 DEF Finished, Item, ListedItem
<1>3. /\ Hold(L, M) /\ work[s].links[e] = L[e]
      /\ \A j, k \in DOMAIN work[s].batch : item(j).event = item(k).event => j = k
      /\ \A j \in DOMAIN work[s].batch : j >= work[s].i =>
            work[s].links[item(j).event] = L[item(j).event]
  BY <1>1, <1>2 DEF ViewInv, Loaded
<1>4. \A j \in DOMAIN work[s].batch : j >= work[s].i =>
        IF item(j).event = e THEN j = work[s].i ELSE j >= work[s].i + 1
  BY <1>2, <1>3
<1>5. /\ L \in [Event -> Row \cup {None}] /\ None \notin Row
  BY ViewIsTyped, CalendarAssumption
<1>6. \/ K = L /\ N = M /\ (Decision(s) = "kept" => Item(s).is \notin Time)
      \/ \E o \in Row :
            /\ K = [L EXCEPT ![e] = o]
            /\ L[e] \in {o, None} /\ N[o] # None
            /\ \A x \in Row \ {o} : M[x] # None => N[x] = M[x]
            /\ Item(s).is \in Time => N[o] = [at |-> Item(s).is, done |-> FALSE]
  BY <1>3, MapSees DEF LinkOf
<1> HIDE DEF L, M, K, N
<1>7. /\ Hold(K, N)
      /\ \A f \in Event \ {e} : K[f] = L[f] /\ (Followed(L, M, f) => Followed(K, N, f))
      /\ Decision(s) = "kept" /\ Item(s).is = calendar[e].is => Followed(K, N, e)
  <2>1. CASE K = L /\ N = M /\ (Decision(s) = "kept" => Item(s).is \notin Time)
    BY <1>3, <2>1 DEF Followed
  <2>2. ASSUME NEW o \in Row, K = [L EXCEPT ![e] = o], L[e] \in {o, None}, N[o] # None,
               \A x \in Row \ {o} : M[x] # None => N[x] = M[x],
               Item(s).is \in Time => N[o] = [at |-> Item(s).is, done |-> FALSE]
        PROVE  /\ Hold(K, N)
               /\ \A f \in Event \ {e} : K[f] = L[f] /\ (Followed(L, M, f) => Followed(K, N, f))
               /\ Item(s).is = calendar[e].is => Followed(K, N, e)
    <3>1. Hold(K, N) /\ \A f \in Event \ {e} : Followed(L, M, f) => Followed(K, N, f)
      BY <1>2, <1>3, <1>5, <2>2, MappingKeeps
    <3>2. K[e] = o /\ o # None /\ \A f \in Event \ {e} : K[f] = L[f]
      BY <1>2, <1>5, <2>2
    <3> QED
      BY <2>2, <3>1, <3>2 DEF Followed
  <2> QED
    BY <1>6, <2>1, <2>2
<1>8. \A f \in Event : /\ Followed(K, N, f) <=> Followed(Links(s), Meetings(s), f)'
                       /\ Followed(link, meeting, f) <=> Followed(link, meeting, f)'
  BY <1>1 DEF Followed, Single, K, N
<1>9. \A f : Current(s, f)' <=> Current(s, f)
  BY <1>1 DEF Current
<1>10. \A j \in DOMAIN work[s].batch : Loaded(s, j)' =>
         work[s].links[item(j).event] = K[item(j).event]
  <2> SUFFICES ASSUME NEW j \in DOMAIN work[s].batch, Loaded(s, j)'
               PROVE  work[s].links[item(j).event] = K[item(j).event]
    OBVIOUS
  <2>1. j >= work[s].i + 1
    BY <1>1 DEF Loaded
  <2>2. j >= work[s].i /\ j # work[s].i
    BY <1>2, <2>1
  <2>3. item(j).event \in Event \ {e}
    BY <1>2, <1>3, <2>2
  <2>4. work[s].links[item(j).event] = L[item(j).event]
    BY <1>3, <2>2
  <2> HIDE DEF e, item
  <2> QED
    BY <1>7, <2>3, <2>4
<1>11. Decision(s)' = "kept" => Decision(s) = "kept"
  BY <1>1, MapWrites DEF Decision
<1>12. ASSUME Decision(s)' = "kept", NEW f \in Event, Current(s, f)
       PROVE  /\ s \in Syncer /\ Followed(link, meeting, f) => Followed(K, N, f)
              /\ ToMap(s, f)' \/ Followed(K, N, f)
  <2>1. CASE f = e
    BY <1>1, <1>7, <1>11, <1>12, <2>1, ItemIsCurrent
  <2>2. CASE f # e
    <3>1. /\ s \in Syncer /\ Followed(link, meeting, f) => Followed(L, M, f)
          /\ ToMap(s, f) \/ Followed(L, M, f)
      BY <1>1, <1>11, <1>12 DEF ViewInv, L, M
    <3>2. ToMap(s, f) => ToMap(s, f)'
      BY <1>1, <1>4, <2>2 DEF ToMap
    <3> QED
      BY <1>7, <2>2, <3>1, <3>2
  <2> QED
    BY <2>1, <2>2
<1>13. Hold(Links(s), Meetings(s))'
  BY <1>7 DEF Hold, K, N
<1>14. \A j \in DOMAIN work'[s].batch : Loaded(s, j)' =>
          work'[s].links[work'[s].batch[j].event] = Links(s)'[work'[s].batch[j].event]
  BY <1>1, <1>10 DEF K
<1>15. \A j, k \in DOMAIN work'[s].batch :
          work'[s].batch[j].event = work'[s].batch[k].event => j = k
  BY <1>1, <1>3
<1>16. Decision(s)' = "kept" => \A f \in Event : Current(s, f)' =>
          /\ s \in Syncer /\ Followed(link, meeting, f)'
                => Followed(Links(s), Meetings(s), f)'
          /\ ToMap(s, f)' \/ Followed(Links(s), Meetings(s), f)'
  BY <1>8, <1>9, <1>12
<1> QED
  BY <1>13, <1>14, <1>15, <1>16 DEF ViewInv

LEMMA MapFollows ==
    ASSUME TypeInv, PastInv, Following, NEW s \in Session, Map(s)
    PROVE  Following'
<1>1. Step(s)
  BY DEF Step
<1>2. OnlyBy(s)
  BY <1>1, StepIsLocal
<1>3. /\ pc[s] = "map" /\ pc'[s] = "map"
      /\ UNCHANGED <<calendar, mirror, link, meeting, decision, cursor, missed>>
      /\ work'[s].batch = work[s].batch /\ work'[s].token = work[s].token
      /\ work'[s].asked = work[s].asked /\ work'[s].next = work[s].next
  BY MapWrites DEF google, tables, history
<1>4. SessionInv(s)'
  <2>1. SessionInv(s)
    BY DEF Following
  <2>2. ViewInv(s)'
    BY <2>1, MapView
  <2> QED
    BY <1>3, <2>1, <2>2 DEF SessionInv, As, Listing
<1>5. Exclusive'
  BY <1>2, <1>3, SyncApart, ReviewApart DEF Following, Session
<1>6. s \in Syncer => \A u \in Syncer : TokenBefore(u, s)' /\ TokenBefore(s, u)'
  BY <1>2, <1>3 DEF Following, TokenBefore, OnlyBy, Others, Session
<1> QED
  BY <1>2, <1>3, <1>4, <1>5, <1>6, LocalFollow DEF Following

(* A commit that ends a mapping shows what the session saw.                *)
LEMMA CommitFollow ==
    ASSUME OneReview, TypeInv, PastInv, Following, NEW s \in Session, pc[s] = "map",
           Publish(s), Quit(s), UNCHANGED <<calendar, missed>>,
           decision' = "kept" => FollowsTo(cursor)'
                                 /\ \A v \in Syncer : FollowsTo(work[v].token)'
    PROVE  Following'
<1>1. OnlyBy(s) /\ pc'[s] = "idle"
  BY QuitIsLocal
<1>2. Exclusive'
  BY <1>1, SyncApart, ReviewApart DEF Following, Session
<1>3. Hold(link, meeting)'
  <2>1. Hold(Links(s), Meetings(s))
    BY DEF Following, SessionInv, ViewInv, Listing
  <2> QED
    BY <2>1 DEF Publish, Hold
<1>4. ASSUME NEW v \in Session, v # s
      PROVE  /\ work'[v] = work[v] /\ draft'[v] = draft[v] /\ pc'[v] = pc[v]
             /\ pc[v] \notin Listing
  <2>1. pc[v] \notin Listing
    BY <1>4, OneLists DEF Following, Listing
  <2> QED
    BY <1>1, <1>4, <2>1 DEF OnlyBy, Others
<1>5. \A v \in Session : SessionInv(v)' /\ pc'[v] \notin Listing
  BY <1>4, QuietKeeps, QuitKeeps DEF Following
<1>6. \A v, u \in Syncer : TokenBefore(u, v)'
  BY <1>5 DEF TokenBefore, Session
<1> QED
  BY <1>2, <1>3, <1>5, <1>6 DEF Following

LEMMA CommitShows ==
    ASSUME NEW s \in Session, Publish(s), UNCHANGED <<calendar, missed>>
    PROVE  \A e : Followed(link, meeting, e)' <=> Followed(Links(s), Meetings(s), e)
BY DEF Publish, Followed, Single

LEMMA NothingToMap ==
    ASSUME TypeInv, NEW s \in Session, Finished(s), pc[s] = "map"
    PROVE  \A e : ~ToMap(s, e)
<1>1. work[s].batch \in Seq(ListedItem) /\ work[s].i \in Nat \ {0}
  BY DEF TypeInv, Work
<1> QED
  BY <1>1 DEF ToMap, Finished

(* A token that a sync was given, or gives, follows what the sync mapped.  *)
LEMMA SyncTokens ==
    ASSUME TypeInv, PastInv, DecisionInv, Following, NEW s \in Syncer, pc[s] = "map",
           Publish(s), Quit(s), UNCHANGED <<calendar, missed>>, decision' = "kept",
           cursor' \in {cursor, None} \/ (cursor' = work[s].next /\ Finished(s))
    PROVE  FollowsTo(cursor)' /\ \A v \in Syncer : FollowsTo(work[v].token)'
<1>1. /\ s \in Session /\ ViewInv(s) /\ WritesOf(s)
      /\ work[s].next \in Nat /\ cursor \in Token
      /\ \A e \in Event : calendar[e].v \in Nat
      /\ \A v \in Syncer : work[v].token \in Token
  <2>1. s \in Session /\ ViewInv(s) /\ WritesOf(s)
    BY DEF Following, SessionInv, Listing, Session, PastInv
  <2>2. work[s].next \in Nat
    BY <2>1 DEF WritesOf, Listing, TypeInv, TypeOK
  <2> QED
    BY <2>1, <2>2 DEF TypeInv, TypeOK, Listed, Work, Session
<1>2. Decision(s) = "kept" /\ decision = "kept"
  BY CalendarAssumption DEF Publish, Decision, DecisionInv, SyncDecides
<1>3. ASSUME NEW t \in Token, FollowsTo(t), t # None => t <= work[s].next
      PROVE  FollowsTo(t)'
  <2> SUFFICES ASSUME t # None, NEW e \in Event \ missed, calendar[e].v <= t
               PROVE  Followed(Links(s), Meetings(s), e)
    BY CommitShows, <1>1 DEF FollowsTo
  <2>1. calendar[e].v <= work[s].next
    BY <1>1, <1>3 DEF Token
  <2>2. Followed(link, meeting, e)
    BY <1>3 DEF FollowsTo
  <2> QED
    BY <1>1, <1>2, <2>1, <2>2 DEF ViewInv, Current
<1>4. ASSUME Finished(s), NEW t, t = work[s].next PROVE FollowsTo(t)'
  <2>1. \A e \in Event \ missed :
           calendar[e].v <= work[s].next => Followed(Links(s), Meetings(s), e)
    BY <1>1, <1>2, <1>4, NothingToMap DEF ViewInv, Current
  <2> QED
    BY <1>4, <2>1, CommitShows, <1>1 DEF FollowsTo
<1>5. \A t : FollowsTo(t)' <=>
               (t # None => \A e \in Event \ missed : (calendar[e].v <= t => Followed(link, meeting, e))')
  BY DEF FollowsTo
<1>6. FollowsTo(cursor)' <=> \E t : t = cursor' /\ FollowsTo(t)'
  BY <1>5 DEF FollowsTo
<1>7. \A v : FollowsTo(work[v].token)' <=> \E t : t = work'[v].token /\ FollowsTo(t)'
  BY <1>5 DEF FollowsTo
<1>8. \A t : t = None => FollowsTo(t)'
  BY <1>5
<1>9. FollowsTo(cursor)'
  <2>1. CASE cursor' = cursor
    <3>1. FollowsTo(cursor) /\ (cursor # None => cursor <= work[s].next)
      BY <1>1, <1>2 DEF Following, WritesOf, Listing
    <3> QED
      BY <1>1, <1>3, <1>6, <2>1, <3>1
  <2>2. CASE cursor' = work[s].next /\ Finished(s)
    BY <1>4, <1>6, <2>2
  <2> QED
    BY <1>6, <1>8, <2>1, <2>2
<1>10. ASSUME NEW v \in Syncer PROVE FollowsTo(work[v].token)'
  <2>1. CASE v = s
    BY <1>1, <1>7, <1>8, <2>1, QuitKeeps
  <2>2. CASE v # s
    <3>1. work'[v] = work[v]
      BY <1>1, <2>2, QuitIsLocal DEF OnlyBy, Others, Session
    <3>2. FollowsTo(work[v].token) /\ (work[v].token # None => work[v].token <= work[s].next)
      BY <1>2 DEF Following, TokenBefore, Listing
    <3> QED
      BY <1>1, <1>3, <1>7, <3>1, <3>2
  <2> QED
    BY <2>1, <2>2
<1> QED
  BY <1>9, <1>10

LEMMA CommitSyncFollow ==
    ASSUME OneReview, TypeInv, PastInv, DecisionInv, Following,
           NEW s \in Syncer, CommitSync(s) \/ CommitAfterError(s)
    PROVE  Following'
<1>1. s \in Session /\ Publish(s) /\ Quit(s) /\ UNCHANGED <<calendar, missed>>
  BY DEF CommitSync, CommitAfterError, google, history, Session
<1>2. CASE pc[s] = "map"
  <2>1. cursor' \in {cursor, None} \/ (cursor' = work[s].next /\ Finished(s))
    BY DEF CommitSync, CommitAfterError, NextToken, TokenAfterError
  <2>2. decision' = "kept" =>
          FollowsTo(cursor)' /\ \A v \in Syncer : FollowsTo(work[v].token)'
    BY <1>1, <1>2, <2>1, SyncTokens
  <2> QED
    BY <1>1, <1>2, <2>2, CommitFollow
<1>3. CASE pc[s] # "map"
  <2>1. pc[s] \in {"list", "list_again"} /\ cursor' \in {cursor, None}
    BY <1>3 DEF CommitSync, CommitAfterError, TokenAfterError
  <2>2. draft[s] = NoDraft
    BY <2>1 DEF PastInv, WritesOf, Listing
  <2>3. UNCHANGED <<mirror, link, meeting, decision>>
    <3>1. Links(s) = link /\ Meetings(s) = meeting /\ Decision(s) = decision
      BY <1>1, <2>2, BlankSees DEF NoDraft, NoLink, NoMeeting, Decision
    <3>2. Mirrors(s) = mirror
      BY <2>2 DEF Mirrors, Seen, NoDraft, TypeInv, TypeOK
    <3> QED
      BY <1>1, <3>1, <3>2 DEF Publish
  <2> QED
    BY <1>1, <2>1, <2>3, QuitFollows
<1> QED
  BY <1>2, <1>3

(* A review maps every mirror, and the mirrors have what the tokens claim. *)
LEMMA CommitKeepFollow ==
    ASSUME OneReview, TypeInv, PastInv, CoverInv, Following, NEW r \in Reviewer, CommitKeep(r)
    PROVE  Following'
<1>1. /\ r \in Session /\ r \notin Syncer /\ pc[r] = "map" /\ Finished(r)
      /\ Publish(r) /\ Quit(r) /\ UNCHANGED <<calendar, cursor, missed>>
      /\ ViewInv(r)
  <2>1. /\ r \in Session /\ r \notin Syncer /\ pc[r] = "map" /\ Finished(r)
        /\ Publish(r) /\ Quit(r) /\ UNCHANGED <<calendar, cursor, missed>>
    BY SessionsAreApart DEF CommitKeep, google, history, Session
  <2> QED
    BY <2>1 DEF Following, SessionInv, Listing
<1>2. ASSUME decision' = "kept", NEW t, Covers(t) PROVE FollowsTo(t)'
  <2> SUFFICES ASSUME t # None, NEW e \in Event \ missed, calendar[e].v <= t
               PROVE  Followed(Links(r), Meetings(r), e)
    BY <1>1, CommitShows DEF FollowsTo
  <2>1. CASE calendar[e].is \notin Time
    BY <2>1 DEF Followed
  <2>2. CASE calendar[e].is \in Time
    <3>1. Shown(e)
      <4>1. calendar[e].is # None
        BY <2>2, CalendarAssumption
      <4> QED
        BY <4>1 DEF Shown, NoEvent
    <3>2. Current(r, e)
      BY <1>1, <1>2, <3>1 DEF Covers, Current, Shown
    <3>3. Decision(r) = "kept"
      BY <1>1, <1>2 DEF Publish
    <3> QED
      BY <1>1, <3>2, <3>3, NothingToMap DEF ViewInv
  <2> QED
    BY <2>1, <2>2
<1>3. /\ FollowsTo(cursor)' <=> \E t : t = cursor' /\ FollowsTo(t)'
      /\ \A v : FollowsTo(work[v].token)' <=> \E t : t = work'[v].token /\ FollowsTo(t)'
  BY DEF FollowsTo
<1>4. decision' = "kept" => FollowsTo(cursor)'
  BY <1>1, <1>2, <1>3 DEF CoverInv
<1>5. ASSUME decision' = "kept", NEW v \in Syncer PROVE FollowsTo(work[v].token)'
  <2>1. work'[v] = work[v]
    BY <1>1, QuitIsLocal DEF OnlyBy, Others, Session
  <2> QED
    BY <1>2, <1>3, <1>5, <2>1 DEF CoverInv
<1> QED
  BY <1>1, <1>4, <1>5, CommitFollow

-----------------------------------------------------------------------------
(* The steps of a sync that read.                                          *)
(* Listed with a token, what is not listed was followed already.           *)
LEMMA ListView ==
    ASSUME TypeInv, PastInv, Following, NEW s \in Syncer, ListEvents(s)
    PROVE  SessionInv(s)' /\ work'[s].next = version /\ work'[s].token = work[s].token
<1>1. /\ s \in Session /\ s \notin Reviewer /\ work[s] \in Work
      /\ pc[s] \notin Listing /\ pc'[s] = "fetch"
      /\ SessionInv(s) /\ WritesOf(s) /\ UNCHANGED <<calendar, link, meeting, decision, draft>>
      /\ \A e \in Event : calendar[e].v \in Nat
  BY SessionsAreApart DEF ListEvents, Listing, Goto, Following, PastInv, TypeInv, TypeOK,
       Listed, Session, tables, google
<1>2. /\ work[s].i = 1 /\ draft[s] = NoDraft
      /\ draft[s].link = NoLink /\ draft[s].meeting = NoMeeting
  BY <1>1 DEF WritesOf, NoDraft, NoLink, NoMeeting
<1>3. PICK listed \in SUBSET Listable(work[s].asked, 0) :
        \E order \in SetToSeqs(listed) : Lists(s, listed, order)
  BY <1>1, ListShape
<1>4. PICK order \in SetToSeqs(listed) : Lists(s, listed, order)
  BY <1>3
<1> DEFINE batch == InOrder(order, calendar)
<1>5. /\ work'[s].next = version /\ work'[s].batch = batch /\ work'[s].links = work[s].links
      /\ work'[s].i = 1 /\ work'[s].asked = None /\ work'[s].token = work[s].token
  BY <1>1, <1>2, <1>4 DEF Lists, Work, TypeInv
<1>6. /\ DOMAIN batch = DOMAIN order /\ DOMAIN order \subseteq Nat \ {0}
      /\ \A j \in DOMAIN order : batch[j].event = order[j]
      /\ \A j, k \in DOMAIN order : order[j] = order[k] => j = k
      /\ \A e \in listed : \E j \in DOMAIN order : order[j] = e
  <2>1. listed \in SUBSET Event
    BY DEF Listable
  <2>2. /\ \E n \in Nat : order \in [1 .. n -> listed]
        /\ \A e \in listed : \E j \in DOMAIN order : order[j] = e
    BY <2>1, OrderIsOnto
  <2>3. \A j, k \in DOMAIN order : order[j] = order[k] => j = k
    BY DEF SetToSeqs
  <2> QED
    BY <2>2, <2>3 DEF InOrder
<1> HIDE DEF batch
<1>7. /\ Links(s) = link /\ Meetings(s) = meeting
      /\ Links(s)' = link /\ Meetings(s)' = meeting
      /\ Decision(s)' = decision
  <2>1. Links(s) = link /\ Meetings(s) = meeting
    BY <1>1, <1>2, BlankSees
  <2> QED
    BY <1>1, <1>2, <2>1 DEF Links, Meetings, Decision, NoDraft
<1>8. ASSUME decision = "kept", NEW e \in Event \ missed', calendar[e].v <= version
      PROVE  ToMap(s, e)' \/ Followed(link, meeting, e)
  <2>1. CASE calendar[e].is \notin Time
    BY <2>1 DEF Followed
  <2>2. CASE e \in listed
    BY <1>1, <1>5, <1>6, <2>2 DEF ToMap
  <2>3. CASE calendar[e].is \in Time /\ e \notin listed
    <3>1. /\ calendar[e] # NoEvent /\ calendar[e].is >= 0
          /\ e \notin missed /\ e \notin Listable(work[s].asked, 0)
      <4>1. calendar[e].is # None
        BY <2>3, CalendarAssumption
      <4> QED
        BY <1>4, <1>8, <2>3, <4>1, TimesAreNumbers DEF NoEvent, Lists
    <3>2. work[s].asked # None /\ calendar[e].v <= work[s].asked /\ work[s].asked = work[s].token
      BY <1>1, <2>3, <3>1 DEF Listable, SessionInv, Work, Token
    <3> QED
      BY <1>8, <3>1, <3>2 DEF Following, FollowsTo
  <2> QED
    BY <2>1, <2>2, <2>3
<1>9. ViewInv(s)'
  <2>1. \A j, k \in DOMAIN work'[s].batch :
           work'[s].batch[j].event = work'[s].batch[k].event => j = k
    BY <1>5, <1>6
  <2>2. \A j \in DOMAIN work'[s].batch : ~Loaded(s, j)'
    BY <1>1, <1>5, <1>6 DEF Loaded
  <2>3. Hold(Links(s), Meetings(s))'
    BY <1>7 DEF Following, Hold
  <2>4. Decision(s)' = "kept" => \A e \in Event : Current(s, e)' =>
           ToMap(s, e)' \/ Followed(Links(s), Meetings(s), e)'
    BY <1>1, <1>5, <1>7, <1>8 DEF Current, Followed, Single
  <2>5. \A e \in Event : Followed(link, meeting, e)' => Followed(Links(s), Meetings(s), e)'
    BY <1>1, <1>7 DEF Followed, Single
  <2> QED
    BY <2>1, <2>2, <2>3, <2>4, <2>5 DEF ViewInv
<1> QED
  BY <1>1, <1>2, <1>5, <1>9 DEF SessionInv, Listing, NoLink, NoMeeting

(* Storing mirrors, a sync sees the links and meetings as they are.        *)
LEMMA StoreView ==
    ASSUME TypeInv, PastInv, Following, NEW s \in Syncer,
           FetchMirror(s) \/ StoreMirror(s) \/ StartMapping(s)
    PROVE  SessionInv(s)' /\ work'[s].next = work[s].next /\ work'[s].token = work[s].token
<1> DEFINE b == work[s].batch
           i == work[s].i
<1>1. /\ s \in Session /\ s \notin Reviewer /\ work[s] \in Work /\ draft[s] \in Draft
      /\ pc[s] \in {"fetch", "store"} /\ pc' \in [Session -> Steps]
      /\ SessionInv(s) /\ UNCHANGED <<calendar, link, meeting, decision, missed>>
      /\ draft[s].link = NoLink /\ draft[s].meeting = NoMeeting
  <2>1. /\ s \in Session /\ s \notin Reviewer /\ work[s] \in Work /\ draft[s] \in Draft
        /\ pc[s] \in {"fetch", "store"} /\ SessionInv(s)
        /\ UNCHANGED <<calendar, link, meeting, decision, missed>>
    BY SessionsAreApart DEF FetchMirror, StoreMirror, StartMapping, Following, TypeInv,
         Session, tables, google, history
  <2>2. pc' \in [Session -> Steps]
    BY <2>1 DEF FetchMirror, StoreMirror, StartMapping, Goto, TypeInv, TypeOK, Steps
  <2> QED
    BY <2>1, <2>2 DEF SessionInv
<1>2. /\ work'[s].batch = b /\ work'[s].token = work[s].token
      /\ work'[s].asked = work[s].asked /\ work'[s].next = work[s].next
      /\ draft'[s].link = NoLink /\ draft'[s].meeting = NoMeeting
      /\ draft'[s].decision = draft[s].decision
  <2>1. CASE FetchMirror(s) \/ StartMapping(s)
    BY <1>1, <2>1 DEF FetchMirror, StartMapping, TypeInv, Work
  <2>2. CASE StoreMirror(s)
    BY <1>1, <2>2 DEF StoreMirror, Advance, TypeInv, Work, Draft
  <2> QED
    BY <2>1, <2>2
<1>3. b \in Seq(ListedItem) /\ i \in Nat \ {0} /\ DOMAIN b = 1 .. Len(b)
  BY <1>1 DEF Work
<1>4. ViewInv(s)
  BY <1>1 DEF SessionInv, Listing
<1>5. Links(s) = link /\ Meetings(s) = meeting
  BY <1>1, BlankSees
<1>6. Links(s)' = link /\ Meetings(s)' = meeting /\ Decision(s)' = Decision(s)
  <2>1. Links(s)' = Links(s) /\ Meetings(s)' = Meetings(s)
    BY <1>1, <1>2 DEF Links, Meetings
  <2> QED
    BY <1>1, <1>2, <1>5, <2>1 DEF Decision
<1>7. /\ pc'[s] \in Listing
      /\ \A j \in DOMAIN b : Loaded(s, j)' => work'[s].links[b[j].event] = link[b[j].event]
  <2>1. CASE FetchMirror(s)
    <3>1. /\ pc[s] = "fetch" /\ pc'[s] = "store" /\ work'[s].i = i /\ i \in DOMAIN b
          /\ Item(s) = b[i]
      BY <1>1, <1>3, <2>1 DEF FetchMirror, Goto, TypeInv, TypeOK, Work, Finished, Item
    <3>2. work'[s].links = [work[s].links EXCEPT ![b[i].event] = link[b[i].event]]
      BY <1>1, <2>1, <3>1 DEF FetchMirror, TypeInv, Work
    <3>3. b[i].event \in Event
      BY <1>1, <3>1, BatchIsTyped DEF ListedItem
    <3>4. ASSUME NEW j \in DOMAIN b, j <= i
          PROVE  work'[s].links[b[j].event] = link[b[j].event]
      <4>1. CASE j = i
        BY <1>1, <3>2, <3>3, <4>1 DEF Work
      <4>2. CASE j # i
        <5>1. j < i
          BY <1>3, <3>4, <4>2
        <5>2. work[s].links[b[j].event] = link[b[j].event]
          BY <1>4, <1>5, <3>1, <5>1 DEF ViewInv, Loaded
        <5>3. b[j].event # b[i].event /\ b[j].event \in Event
          BY <1>1, <1>4, <3>1, <4>2, BatchIsTyped DEF ViewInv, ListedItem
        <5> HIDE DEF b, i
        <5> QED
          BY <1>1, <3>2, <5>2, <5>3 DEF Work
      <4> QED
        BY <4>1, <4>2
    <3> QED
      BY <3>1, <3>4 DEF Loaded, Listing
  <2>2. CASE StoreMirror(s)
    <3>1. /\ pc[s] = "store" /\ pc'[s] = "fetch"
          /\ work'[s].i = i + 1 /\ work'[s].links = work[s].links
      BY <1>1, <2>2 DEF StoreMirror, Advance, Goto, TypeInv, TypeOK, Work
    <3>2. ASSUME NEW j \in DOMAIN b, Loaded(s, j)' PROVE Loaded(s, j)
      BY <1>3, <3>1, <3>2 DEF Loaded
    <3> QED
      BY <1>4, <1>5, <3>1, <3>2 DEF ViewInv, Listing
  <2>3. CASE StartMapping(s)
    <3>1. /\ pc[s] = "fetch" /\ pc'[s] = "map" /\ work'[s].links = work[s].links
          /\ \A j \in DOMAIN b : j < i
      BY <1>1, <1>3, <2>3 DEF StartMapping, Goto, TypeInv, TypeOK, Work, Finished
    <3> QED
      BY <1>4, <1>5, <3>1 DEF ViewInv, Loaded, Listing
  <2> QED
    BY <2>1, <2>2, <2>3
<1>8. \A e : ToMap(s, e) => ToMap(s, e)'
  <2>1. pc'[s] = "map" => \A j \in DOMAIN b : j >= work'[s].i
    BY <1>1, <1>3 DEF FetchMirror, StoreMirror, StartMapping, Goto, TypeInv, TypeOK, Work
  <2> QED
    BY <1>2, <2>1 DEF ToMap
<1>9. ViewInv(s)'
  <2>1. \A j, k \in DOMAIN work'[s].batch :
           work'[s].batch[j].event = work'[s].batch[k].event => j = k
    BY <1>2, <1>4 DEF ViewInv
  <2>2. \A j \in DOMAIN work'[s].batch : Loaded(s, j)' =>
           work'[s].links[work'[s].batch[j].event] = Links(s)'[work'[s].batch[j].event]
    BY <1>2, <1>6, <1>7
  <2>3. Hold(Links(s), Meetings(s))'
    BY <1>6 DEF Following, Hold
  <2>4. \A e : Followed(link, meeting, e)' => Followed(Links(s), Meetings(s), e)'
    BY <1>1, <1>6 DEF Followed, Single
  <2>5. Decision(s)' = "kept" => \A e \in Event : Current(s, e)' =>
           ToMap(s, e)' \/ Followed(Links(s), Meetings(s), e)'
    <3>1. \A e : /\ Current(s, e)' <=> Current(s, e)
                 /\ Followed(Links(s), Meetings(s), e) => Followed(Links(s), Meetings(s), e)'
      BY <1>1, <1>2, <1>5, <1>6 DEF Current, Followed, Single
    <3> QED
      BY <1>4, <1>6, <1>8, <3>1 DEF ViewInv
  <2> QED
    BY <2>1, <2>2, <2>3, <2>4, <2>5 DEF ViewInv
<1>10. NoLink' = NoLink /\ NoMeeting' = NoMeeting
  BY DEF NoLink, NoMeeting
<1>11. pc'[s] \notin {"idle", "lock"} /\ work'[s].asked \in {None, work'[s].token}
  BY <1>1, <1>2, <1>7 DEF Listing, SessionInv
<1> QED
  BY <1>1, <1>2, <1>7, <1>9, <1>10, <1>11 DEF SessionInv

LEMMA SyncFollow ==
    ASSUME TypeInv, PastInv, CoverInv, Following, NEW s \in Syncer, Sync(s),
           ~CommitSync(s), ~CommitAfterError(s), ~overlap'
    PROVE  Following'
<1>1. /\ s \in Session /\ s \notin Reviewer /\ work[s] \in Work /\ work \in [Session -> Work]
      /\ pc \in [Session -> Steps] /\ SessionInv(s)
  BY SessionsAreApart DEF Following, TypeInv, TypeOK, Session
<1>2. OnlyBy(s)
  <2>1. Step(s)
    BY DEF Step
  <2> QED
    BY <1>1, <2>1, StepIsLocal
<1>3. UNCHANGED <<calendar, mirror, link, meeting, decision, cursor>> /\ missed \subseteq missed'
  BY DEF Sync, LoadConnection, TakeLock, SkipSync, ListEvents, RefreshToken, TakeLockAgain,
         TokenExpired, FetchMirror, StoreMirror, StartMapping, tables, google, history
<1>4. \A u \in Syncer \ {s} : work'[u] = work[u] /\ pc'[u] = pc[u]
  BY <1>2 DEF OnlyBy, Others, Session
<1>5. CASE SkipSync(s)
  BY <1>1, <1>3, <1>5, QuitFollows DEF SkipSync, history
<1>6. CASE LoadConnection(s)
  <2>1. /\ pc[s] = "idle" /\ pc'[s] = "lock" /\ work'[s].token = cursor
        /\ work'[s].asked = work[s].asked /\ work'[s].i = work[s].i /\ draft' = draft
    BY <1>1, <1>6 DEF LoadConnection, Goto, Work
  <2>2. SessionInv(s)'
    BY <1>1, <2>1 DEF SessionInv, Listing, NoLink, NoMeeting
  <2>3. Exclusive'
    BY <1>2, <2>1, SyncApart DEF Following
  <2>4. ASSUME NEW u \in Syncer PROVE TokenBefore(u, s)' /\ TokenBefore(s, u)'
    <3>1. TokenBefore(u, s)'
      BY <2>1 DEF TokenBefore, Listing
    <3>2. CASE u # s
      <4>1. pc[u] \in Listing /\ cursor # None => cursor <= work[u].next
        BY DEF PastInv, WritesOf
      <4> QED
        BY <1>4, <2>1, <3>1, <3>2, <4>1 DEF TokenBefore
    <3> QED
      BY <3>1, <3>2
  <2>5. decision = "kept" => FollowsTo(work'[s].token)
    BY <2>1 DEF Following
  <2> QED
    BY <1>1, <1>2, <1>3, <2>2, <2>3, <2>4, <2>5, LocalFollow
<1>7. CASE TakeLock(s) \/ RefreshToken(s) \/ TakeLockAgain(s) \/ TokenExpired(s)
  <2>1. /\ pc[s] \in {"lock", "list", "lock_again"}
        /\ pc'[s] \in {"list", "lock_again", "list_again"}
        /\ work'[s].token = work[s].token /\ work'[s].i = work[s].i /\ draft' = draft
        /\ work'[s].asked \in {work[s].asked, work[s].token, None}
    <3>1. CASE TakeLock(s)
      BY <1>1, <3>1 DEF TakeLock, TokenToSend, Goto, Work
    <3>2. CASE RefreshToken(s) \/ TakeLockAgain(s)
      BY <1>1, <3>2 DEF RefreshToken, TakeLockAgain, Goto
    <3>3. CASE TokenExpired(s)
      BY <1>1, <3>3 DEF TokenExpired, Goto, Work
    <3> QED
      BY <1>7, <3>1, <3>2, <3>3
  <2>2. SessionInv(s)'
    BY <1>1, <2>1 DEF SessionInv, Listing, NoLink, NoMeeting
  <2>3. Exclusive'
    <3>1. CASE TakeLock(s)
      <4>1. \A r \in Reviewer : pc[r] = "idle"
        BY <3>1 DEF TakeLock
      <4> QED
        BY <1>2, <4>1, SessionsAreApart DEF Exclusive, OnlyBy, Others, Session
    <3>2. CASE ~TakeLock(s)
      <4>1. pc[s] \notin {"idle", "lock"}
        BY <1>7, <3>2 DEF RefreshToken, TakeLockAgain, TokenExpired
      <4> QED
        BY <1>2, <4>1, SyncApart DEF Following
    <3> QED
      BY <3>1, <3>2
  <2>4. ASSUME NEW u \in Syncer PROVE TokenBefore(u, s)' /\ TokenBefore(s, u)'
    BY <1>4, <2>1 DEF TokenBefore, Listing, Following
  <2>5. decision = "kept" => FollowsTo(work'[s].token)
    BY <2>1 DEF Following
  <2> QED
    BY <1>1, <1>2, <1>3, <2>2, <2>3, <2>4, <2>5, LocalFollow
<1>8. CASE ListEvents(s) \/ FetchMirror(s) \/ StoreMirror(s) \/ StartMapping(s)
  <2>1. /\ SessionInv(s)' /\ work'[s].token = work[s].token
        /\ \/ work'[s].next = version
           \/ work'[s].next = work[s].next /\ pc[s] \in Listing
    BY <1>8, ListView, StoreView DEF FetchMirror, StoreMirror, StartMapping, Listing
  <2>2. pc[s] \notin {"idle", "lock"}
    BY <1>8 DEF ListEvents, FetchMirror, StoreMirror, StartMapping
  <2>3. Exclusive'
    BY <1>2, <2>2, SyncApart DEF Following
  <2>4. ASSUME NEW u \in Syncer PROVE TokenBefore(u, s)' /\ TokenBefore(s, u)'
    <3>1. work'[u].token = work[u].token
      BY <1>4, <2>1
    <3>2. TokenBefore(u, s)'
      BY <2>1, <3>1 DEF CoverInv, Covers, Following, TokenBefore
    <3>3. u # s => TokenBefore(s, u)'
      BY <1>4, <2>1 DEF Following, TokenBefore
    <3> QED
      BY <3>2, <3>3
  <2>5. decision = "kept" => FollowsTo(work'[s].token)
    BY <2>1 DEF Following
  <2> QED
    BY <1>1, <1>2, <1>3, <2>1, <2>3, <2>4, <2>5, LocalFollow
<1> QED
  BY <1>5, <1>6, <1>7, <1>8 DEF Sync

-----------------------------------------------------------------------------
(* The steps of a review.                                                  *)
LEMMA KeepView ==
    ASSUME TypeInv, PastInv, Following, NEW r \in Reviewer, Keep(r)
    PROVE  SessionInv(r)'
<1>1. /\ r \in Session /\ r \notin Syncer /\ work[r] \in Work /\ draft[r] \in Draft
      /\ pc[r] = "keep" /\ pc'[r] = "map" /\ SessionInv(r)
      /\ UNCHANGED <<calendar, mirror, link, meeting, decision, missed>>
      /\ mirror \in [Event -> Listed]
  BY SessionsAreApart DEF Keep, Goto, Following, TypeInv, TypeOK, Session, tables, google,
                          history
<1>2. draft[r].link = NoLink /\ draft[r].meeting = NoMeeting /\ work[r].i = 1
  BY <1>1 DEF SessionInv, Listing
<1>3. PICK order \in SetToSeqs(ToKeep) :
        work' = [work EXCEPT ![r].batch = InOrder(order, mirror), ![r].links = link]
  BY DEF Keep
<1> DEFINE batch == InOrder(order, mirror)
<1>4. /\ work'[r].batch = batch /\ work'[r].links = link /\ work'[r].i = 1
      /\ draft'[r].link = draft[r].link /\ draft'[r].meeting = draft[r].meeting
  BY <1>1, <1>2, <1>3 DEF Keep, Work, Draft, TypeInv
<1>5. /\ DOMAIN batch = DOMAIN order /\ DOMAIN order \subseteq Nat \ {0}
      /\ \A j \in DOMAIN order : batch[j].event = order[j] /\ order[j] \in Event
      /\ \A j \in DOMAIN order : As(batch[j]) = mirror[order[j]]
      /\ \A j, k \in DOMAIN order : order[j] = order[k] => j = k
      /\ \A e \in ToKeep : \E j \in DOMAIN order : order[j] = e
  <2>1. ToKeep \in SUBSET Event
    BY DEF ToKeep
  <2>2. PICK n \in Nat : order \in [1 .. n -> ToKeep]
    BY <2>1, OrderIsOnto
  <2>3. \A e \in ToKeep : \E j \in DOMAIN order : order[j] = e
    BY <2>1, OrderIsOnto
  <2>4. \A j, k \in DOMAIN order : order[j] = order[k] => j = k
    BY DEF SetToSeqs
  <2>5. \A j \in DOMAIN order : order[j] \in Event /\ mirror[order[j]] \in Listed
    BY <1>1, <2>1, <2>2
  <2>6. \A j \in DOMAIN order : As(batch[j]) = mirror[order[j]]
    BY <2>5 DEF InOrder, As, Listed
  <2> QED
    BY <2>2, <2>3, <2>4, <2>5, <2>6 DEF InOrder
<1> HIDE DEF batch
<1>6. Links(r)' = link /\ Meetings(r)' = meeting
  <2>1. Links(r) = link /\ Meetings(r) = meeting
    BY <1>1, <1>2, BlankSees
  <2> QED
    BY <1>1, <1>4, <2>1 DEF Links, Meetings
<1>7. ASSUME NEW e \in Event, mirror[e] = calendar[e]
      PROVE  ToMap(r, e)' \/ calendar[e].is \notin Time
  <2>1. CASE e \in ToKeep
    BY <1>4, <1>5, <2>1 DEF ToMap
  <2>2. CASE e \notin ToKeep
    <3>1. None \notin Time
      BY CalendarAssumption
    <3> QED
      BY <1>7, <2>2, <3>1 DEF ToKeep, NoEvent
  <2> QED
    BY <2>1, <2>2
<1>8. ViewInv(r)'
  <2>1. \A j, k \in DOMAIN work'[r].batch :
           work'[r].batch[j].event = work'[r].batch[k].event => j = k
    BY <1>4, <1>5
  <2>2. \A j \in DOMAIN work'[r].batch :
           work'[r].links[work'[r].batch[j].event] = Links(r)'[work'[r].batch[j].event]
    BY <1>4, <1>6
  <2>3. Hold(Links(r), Meetings(r))'
    BY <1>1, <1>6 DEF Following, Hold
  <2>4. \A e \in Event : Current(r, e)' =>
           ToMap(r, e)' \/ Followed(Links(r), Meetings(r), e)'
    BY <1>1, <1>7 DEF Current, Followed
  <2> QED
    BY <1>1, <2>1, <2>2, <2>3, <2>4 DEF ViewInv
<1>9. \A j \in DOMAIN work'[r].batch :
         As(work'[r].batch[j]) = mirror'[work'[r].batch[j].event]
  BY <1>1, <1>4, <1>5
<1> QED
  BY <1>1, <1>8, <1>9 DEF SessionInv, As, Listing

LEMMA ReviewFollow ==
    ASSUME OneReview, TypeInv, PastInv, CoverInv, DecisionInv, Following,
           NEW r \in Reviewer, Review(r), ~overlap'
    PROVE  Following'
<1>1. /\ r \in Session /\ r \notin Syncer /\ work[r] \in Work /\ draft[r] \in Draft
      /\ pc \in [Session -> Steps] /\ SessionInv(r)
  BY SessionsAreApart DEF Following, TypeInv, TypeOK, Session
<1>2. OnlyBy(r)
  <2>1. Step(r)
    BY DEF Step
  <2> QED
    BY <1>1, <2>1, StepIsLocal
<1>3. CASE OpenReview(r)
  <2>1. /\ UNCHANGED <<calendar, mirror, link, meeting, decision, cursor, work, draft, missed>>
        /\ pc[r] = "idle" /\ pc'[r] \in {"keep", "reject"}
    BY <1>1, <1>3 DEF OpenReview, Goto, tables, google
  <2>2. \A s \in Syncer : pc[s] \in {"idle", "lock"}
    BY <1>3 DEF OpenReview
  <2>3. Exclusive'
    BY <1>2, <2>2, SessionsAreApart DEF Exclusive, OnlyBy, Others, Session
  <2>4. SessionInv(r)'
    BY <1>1, <2>1 DEF SessionInv, Listing, NoLink, NoMeeting
  <2> QED
    BY <1>1, <1>2, <2>1, <2>3, <2>4, LocalFollow
<1>4. CASE Keep(r) \/ Reject(r)
  <2>1. /\ UNCHANGED <<calendar, mirror, link, meeting, decision, cursor, missed>>
        /\ pc[r] # "idle"
    BY <1>4 DEF Keep, Reject, tables, google, history
  <2>2. Exclusive'
    BY <1>2, <2>1, ReviewApart DEF Following
  <2>3. SessionInv(r)'
    <3>1. CASE Reject(r)
      <4>1. /\ pc[r] = "reject" /\ pc'[r] = "delete" /\ work'[r].i = work[r].i
            /\ draft'[r].link = draft[r].link /\ draft'[r].meeting = draft[r].meeting
        BY <1>1, <3>1 DEF Reject, Goto, Work, Draft, TypeInv
      <4> QED
        BY <1>1, <4>1 DEF SessionInv, Listing, NoLink, NoMeeting
    <3> QED
      BY <1>4, <3>1, KeepView
  <2> QED
    BY <1>1, <1>2, <2>1, <2>2, <2>3, LocalFollow
<1>5. CASE CommitReject(r)
  <2>1. pc[r] = "delete" /\ Quit(r) /\ decision' = "rejected"
    BY <1>5 DEF CommitReject
  <2>2. Hold(link, meeting)'
    BY <1>5 DEF CommitReject, Hold
  <2>3. ASSUME NEW v \in Session, v # r
        PROVE  /\ work'[v] = work[v] /\ draft'[v] = draft[v] /\ pc'[v] = pc[v]
               /\ pc[v] \notin Listing
    <3>1. v \in Syncer
      BY <2>3 DEF OneReview, Session
    <3>2. pc[v] \notin Listing
      BY <2>1, <3>1 DEF Following, Exclusive, Listing
    <3> QED
      BY <1>2, <2>3, <3>2 DEF OnlyBy, Others
  <2>4. \A v \in Session : SessionInv(v)' /\ pc'[v] \notin Listing
    BY <1>1, <2>1, <2>3, QuietKeeps, QuitKeeps DEF Following
  <2>5. Exclusive'
    BY <1>2, <2>1, ReviewApart DEF Following
  <2> QED
    BY <2>1, <2>2, <2>4, <2>5 DEF Following, TokenBefore, Session
<1> QED
  BY <1>3, <1>4, <1>5, CommitKeepFollow DEF Review

-----------------------------------------------------------------------------
(* What the user changes in Google is newer than any token and any mirror. *)
LEMMA CalendarFollow ==
    ASSUME TypeInv, PastInv, CoverInv, Following, NEW f \in Event, ChangeEvent(f)
    PROVE  Following'
<1>1. /\ version \in Nat /\ missed' = missed \ {f}
      /\ UNCHANGED <<cursor, mirror, link, meeting, decision, pc, work, draft>>
  BY DEF ChangeEvent, tables, TypeInv, TypeOK
<1>2. PICK c : calendar' = [calendar EXCEPT ![f] = [is |-> c, v |-> version + 1]]
  BY DEF ChangeEvent
<1>3. /\ \A e \in Event \ {f} : calendar'[e] = calendar[e]
      /\ calendar'[f].v = version + 1
      /\ mirror[f].v \in Nat /\ mirror[f].v <= version
  <2>1. calendar[f].v \in Nat /\ mirror[f].v \in Nat
    BY DEF TypeInv, TypeOK, Listed
  <2> QED
    BY <1>1, <1>2, <2>1 DEF TypeInv, TypeOK, PastInv, PastOf
<1>4. \A e \in Event \ {f} :
        /\ Followed(link, meeting, e) <=> Followed(link, meeting, e)'
        /\ \A s \in Session : Followed(Links(s), Meetings(s), e)
                              <=> Followed(Links(s), Meetings(s), e)'
  <2>1. \A s \in Session : Links(s)' = Links(s) /\ Meetings(s)' = Meetings(s)
    BY <1>1 DEF Links, Meetings
  <2> QED
    BY <1>1, <1>3, <2>1 DEF Followed, Single
<1>5. \A t \in Token : Covers(t) /\ FollowsTo(t) => FollowsTo(t)'
  <2> SUFFICES ASSUME NEW t \in Token, Covers(t), FollowsTo(t), t # None,
                      NEW e \in Event \ missed', calendar'[e].v <= t
               PROVE  Followed(link, meeting, e)'
    BY DEF FollowsTo
  <2>1. e # f
    BY <1>1, <1>3 DEF Covers, Token
  <2> QED
    BY <1>1, <1>3, <1>4, <2>1 DEF FollowsTo
<1>6. /\ FollowsTo(cursor) => FollowsTo(cursor)'
      /\ \A s \in Syncer : FollowsTo(work[s].token) => FollowsTo(work[s].token)'
  <2>1. cursor \in Token /\ \A s \in Syncer : work[s].token \in Token
    BY DEF TypeInv, TypeOK, Work, Session
  <2>2. /\ FollowsTo(cursor)' <=> \E t : t = cursor' /\ FollowsTo(t)'
        /\ \A v : FollowsTo(work[v].token)' <=> \E t : t = work'[v].token /\ FollowsTo(t)'
    BY DEF FollowsTo
  <2> QED
    BY <1>1, <1>5, <2>1, <2>2 DEF CoverInv
<1>7. ASSUME NEW s \in Session, pc[s] \in Listing, ViewInv(s) PROVE ViewInv(s)'
  <2>1. /\ Links(s)' = Links(s) /\ Meetings(s)' = Meetings(s) /\ Decision(s)' = Decision(s)
        /\ \A e : ToMap(s, e)' <=> ToMap(s, e)
        /\ \A j : Loaded(s, j)' <=> Loaded(s, j)
    BY <1>1 DEF Links, Meetings, Decision, ToMap, Loaded
  <2>2. \A e \in Event : Current(s, e)' => e # f /\ Current(s, e)
    <3>1. s \in Syncer => work[s].next \in Nat /\ work[s].next <= version
      BY <1>1, <1>7 DEF PastInv, WritesOf
    <3> QED
      BY <1>1, <1>3, <3>1 DEF Current
  <2>3. Hold(Links(s), Meetings(s))' <=> Hold(Links(s), Meetings(s))
    BY <2>1 DEF Hold
  <2> QED
    BY <1>1, <1>4, <1>7, <2>1, <2>2, <2>3 DEF ViewInv
<1>8. \A s \in Session : SessionInv(s)'
  BY <1>1, <1>7 DEF Following, SessionInv, As, NoLink, NoMeeting
<1>9. Hold(link, meeting)' /\ Exclusive' /\ \A s, u \in Syncer : TokenBefore(u, s)'
  BY <1>1 DEF Following, Hold, Exclusive, TokenBefore
<1> QED
  BY <1>1, <1>6, <1>8, <1>9 DEF Following

(* No event is linked to a meeting that the owner adds.                    *)
LEMMA ByHandFollow ==
    ASSUME TypeInv, DecisionInv, Following, NEW o \in Row, AddByHand(o)
    PROVE  Following'
<1>1. /\ UNCHANGED <<calendar, cursor, mirror, link, decision, pc, work, draft, missed>>
      /\ meeting[o] = None /\ \A s \in Session : draft[s].meeting[o] = None
      /\ \A x \in Row \ {o} : meeting'[x] = meeting[x]
      /\ link \in [Event -> Row \cup {None}]
  BY DEF AddByHand, google, history, TypeInv, TypeOK
<1>2. /\ Hold(link, meeting')
      /\ \A e \in Event : Followed(link, meeting, e) <=> Followed(link, meeting', e)
  BY <1>1, NewRowKeeps DEF Following
<1>3. \A e \in Event : Followed(link, meeting, e)' <=> Followed(link, meeting, e)
  <2>1. \A e \in Event : Followed(link, meeting, e)' <=> Followed(link, meeting', e)
    BY <1>1 DEF Followed, Single
  <2> QED
    BY <1>2, <2>1
<1>4. ASSUME NEW s \in Session
      PROVE  /\ Links(s)' = Links(s) /\ Meetings(s)[o] = None
             /\ \A x \in Row \ {o} : Meetings(s)'[x] = Meetings(s)[x]
  <2>1. /\ meeting \in [Row -> MeetingRow \cup {None}]
        /\ draft[s].meeting \in [Row -> MeetingRow \cup {None}]
        /\ DOMAIN meeting' = Row
    BY DEF TypeInv, Draft, AddByHand
  <2>2. Links(s)' = Links(s)
    BY <1>1 DEF Links
  <2>3. /\ Meetings(s) = [x \in Row |->
              IF draft[s].meeting[x] # None THEN draft[s].meeting[x] ELSE meeting[x]]
        /\ Meetings(s)' = [x \in Row |->
              IF draft[s].meeting[x] # None THEN draft[s].meeting[x] ELSE meeting'[x]]
    BY <1>1, <2>1 DEF Meetings, Seen
  <2> QED
    BY <1>1, <2>2, <2>3
<1>5. ASSUME NEW s \in Session, ViewInv(s) PROVE ViewInv(s)'
  <2> DEFINE L == Links(s)
             M == Meetings(s)
             N == Meetings(s)'
  <2>1. L \in [Event -> Row \cup {None}] /\ Hold(L, M) /\ Links(s)' = L
        /\ M[o] = None /\ \A x \in Row \ {o} : N[x] = M[x]
    BY <1>4, <1>5, ViewIsTyped DEF ViewInv
  <2> HIDE DEF L, M, N
  <2>2. Hold(L, N) /\ \A e \in Event : Followed(L, M, e) <=> Followed(L, N, e)
    BY <2>1, NewRowKeeps
  <2>3. \A e \in Event : Followed(Links(s), Meetings(s), e)' <=> Followed(Links(s), Meetings(s), e)
    <3>1. \A e \in Event : Followed(Links(s), Meetings(s), e)' <=> Followed(L, N, e)
      BY <1>1, <2>1 DEF Followed, Single, N
    <3> QED
      BY <2>2, <3>1 DEF L, M
  <2>4. Hold(Links(s), Meetings(s))'
    BY <2>1, <2>2 DEF Hold, N
  <2>5. /\ Decision(s)' = Decision(s) /\ Links(s)' = Links(s)
        /\ \A e : Current(s, e)' <=> Current(s, e)
        /\ \A e : ToMap(s, e)' <=> ToMap(s, e)
        /\ \A j : Loaded(s, j)' <=> Loaded(s, j)
    BY <1>1, <1>4 DEF Decision, Current, ToMap, Loaded
  <2> QED
    BY <1>1, <1>3, <1>5, <2>3, <2>4, <2>5 DEF ViewInv
<1>6. \A s \in Session : SessionInv(s)'
  BY <1>1, <1>5 DEF Following, SessionInv, As, NoLink, NoMeeting
<1>7. Hold(link, meeting)' /\ Exclusive' /\ \A s, u \in Syncer : TokenBefore(u, s)'
  BY <1>1, <1>2 DEF Following, Hold, Exclusive, TokenBefore
<1>8. \A t : FollowsTo(t) => FollowsTo(t)'
  BY <1>1, <1>3 DEF FollowsTo
<1>9. /\ FollowsTo(cursor)' <=> \E t : t = cursor' /\ FollowsTo(t)'
      /\ \A v : FollowsTo(work[v].token)' <=> \E t : t = work'[v].token /\ FollowsTo(t)'
  BY DEF FollowsTo
<1> QED
  BY <1>1, <1>6, <1>7, <1>8, <1>9 DEF Following

LEMMA StepFollow ==
    ASSUME OneReview, ReviewInv, FollowInv, [Next]_vars
    PROVE  FollowInv'
<1> SUFFICES ASSUME ~overlap' PROVE Following'
  BY DEF FollowInv
<1>1. TypeInv /\ PastInv /\ CoverInv /\ DecisionInv
  BY DEF ReviewInv, CalendarInv
<1>2. overlap => overlap'
  <2> USE DEF vars, history
  <2>1. ASSUME NEW s \in Session, Map(s) PROVE overlap' = overlap
    BY <2>1, MapWrites, <1>1
  <2>2. ASSUME NEW s \in Syncer, Sync(s), overlap PROVE overlap'
    BY <2>2 DEF Sync, LoadConnection, TakeLock, SkipSync, ListEvents, RefreshToken,
         TakeLockAgain, TokenExpired, FetchMirror, StoreMirror, StartMapping, CommitSync,
         CommitAfterError
  <2>3. ASSUME NEW r \in Reviewer, Review(r), overlap PROVE overlap'
    BY <2>3 DEF Review, OpenReview, Keep, CommitKeep, Reject, CommitReject
  <2> QED
    BY <2>1, <2>2, <2>3 DEF Next, ChangeEvent, AddByHand, Abort
<1>3. Following
  BY <1>2 DEF FollowInv
<1>4. ASSUME NEW s \in Session, Abort(s) PROVE Following'
  BY <1>1, <1>3, <1>4, QuitFollows DEF Abort, google, tables, history
<1>5. CASE UNCHANGED vars
  <2>1. UNCHANGED <<calendar, mirror, link, meeting, decision, cursor, pc, work, draft, missed>>
    BY <1>5 DEF vars, google, tables, history
  <2>2. \A s \in Session : SessionInv(s)'
    BY <1>3, <2>1, SessionKeeps DEF Following
  <2>3. /\ Hold(link, meeting)' /\ Exclusive' /\ \A s, u \in Syncer : TokenBefore(u, s)'
        /\ \A t : FollowsTo(t) => FollowsTo(t)'
    BY <1>3, <2>1 DEF Following, Hold, Exclusive, TokenBefore, FollowsTo, Followed, Single
  <2>4. /\ FollowsTo(cursor)' <=> \E t : t = cursor' /\ FollowsTo(t)'
        /\ \A v : FollowsTo(work[v].token)' <=> \E t : t = work'[v].token /\ FollowsTo(t)'
    BY DEF FollowsTo
  <2> QED
    BY <1>3, <2>1, <2>2, <2>3, <2>4 DEF Following
<1>6. ASSUME NEW s \in Syncer, Sync(s) PROVE Following'
  BY <1>1, <1>3, <1>6, SyncFollow, CommitSyncFollow
<1> QED
  BY <1>1, <1>3, <1>4, <1>5, <1>6, CalendarFollow, ByHandFollow, MapFollows, ReviewFollow
     DEF Next

LEMMA InitFollow == Init => FollowInv
<1> SUFFICES ASSUME Init PROVE Following
  BY DEF FollowInv
<1>1. /\ Exclusive /\ Hold(link, meeting) /\ decision # "kept"
      /\ \A s, u \in Syncer : TokenBefore(u, s)
  BY CalendarAssumption DEF Init, Exclusive, Hold, TokenBefore, Listing, Session
<1>2. \A s \in Session : SessionInv(s)
  BY DEF Init, SessionInv, NoDraft, NoWork, NoLink, NoMeeting, Listing
<1> QED
  BY <1>1, <1>2 DEF Following

(* With one review of a series at a time, and as long as no review         *)
(* overlaps a sync, the meetings of a kept series follow the calendar: a   *)
(* timed event that has not changed since the sync token has a meeting,    *)
(* and one of its own is open and at its time, whatever sync failed, was   *)
(* repeated, aborted or overlapped another.                                *)
THEOREM MeetingsFollow ==
    ASSUME OneReview
    PROVE  Spec => []FollowsCalendarUnlessOverlapped
<1>1. Init => ReviewInv /\ FollowInv
  BY InitTyped, InitPast, InitCover, InitReview, InitFollow DEF ReviewInv, CalendarInv
<1>2. ReviewInv /\ FollowInv /\ [Next]_vars => ReviewInv' /\ FollowInv'
  BY StepTyped, StepPast, StepCover, StepDecision, StepLink, StepFollow
     DEF ReviewInv, CalendarInv
<1>3. ReviewInv /\ FollowInv => FollowsCalendarUnlessOverlapped
  BY DEF FollowInv, Following, FollowsTo, Followed, Single, FollowsCalendarUnlessOverlapped,
         FollowsCalendar, Alone
<1> QED
  BY <1>1, <1>2, <1>3, PTL DEF Spec
=============================================================================
