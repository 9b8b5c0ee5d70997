-------------------------- MODULE SeriesRecurrence --------------------------
(***************************************************************************)
(* How a series is made from the form of the start page, what its pages    *)
(* say of it, and how completing its last open meeting finds the time of   *)
(* the next one (recurrence.py, web/routes/series.py, series_helpers.py,   *)
(* common.py, services/series_service.py, occurrence_service.py).          *)
(*                                                                         *)
(* Times are whole hours from the start of day 0, on the clock of a zone   *)
(* or in UTC.  PostgreSQL gives a stored time back as the same instant in  *)
(* UTC; SQLite stores the digits of the clock and forgets the zone, and    *)
(* the program takes what it reads for UTC.                                *)
(***************************************************************************)
EXTENDS Integers, FiniteSets

CONSTANTS
    Database,     \* among "postgres" and "sqlite"
    Zone,         \* names of time zones
    UTC,
    Clock,        \* for each zone, its offset before and from an instant at
    FirstDay,     \* weekday of day 0, Monday = 0
    MonthStart,   \* the days on which months start, up to the horizon
    StartDay,     \* what is typed and ticked in the form
    StartHour,
    Interval,
    WeekDays,     \* sets of weekdays ticked
    MonthDay,     \* 0 is an empty field
    SetPos,       \* sets of positions ticked
    Count,
    MaxMeetings,  \* bound on the meetings of the series
    None

ASSUME SeriesAssumption ==
    /\ Database \subseteq {"postgres", "sqlite"}
    /\ UTC \in Zone
    /\ Clock \in [Zone -> [at : Int, before : -14..14, after : -14..14]]
    /\ Clock[UTC].before = 0 /\ Clock[UTC].after = 0
    /\ FirstDay \in 0..6
    /\ MonthStart \subseteq Nat /\ 0 \in MonthStart
    /\ \E last \in MonthStart : \A m \in MonthStart :
          /\ m <= last
          /\ m # last => \E n \in MonthStart : n \in m + 28 .. m + 31
    /\ StartDay \cup Interval \cup MonthDay \cup Count \subseteq Nat
    /\ StartHour \subseteq 0..23
    /\ WeekDays \subseteq SUBSET (0..6)
    /\ SetPos \subseteq SUBSET Int

VARIABLES
    db,        \* the database the program runs on
    series,    \* None, or the row of meeting_series
    form,      \* history: the form the series was made from
    meetings,  \* scheduled_at of its occurrences
    open       \* those not completed

vars == <<db, series, form, meetings, open>>

-----------------------------------------------------------------------------
(* The clock of zone z at instant t.                                       *)
Local(z, t) == t + (IF t < Clock[z].at THEN Clock[z].before ELSE Clock[z].after)

(* The instant of wall time w, the first one (fold = 0) if there are two;  *)
(* a wall time the clock skips is read with the offset before.             *)
Instant(z, w) ==
    LET c == Clock[z]
        early == w < c.at + c.before \/ w < c.at + c.after
    IN  w - (IF early THEN c.before ELSE c.after)

Skipped(z, w) ==
    Clock[z].at + Clock[z].before <= w /\ w < Clock[z].at + Clock[z].after

DayOf(w) == w \div 24
HourOf(w) == w % 24
Weekday(d) == (d + FirstDay) % 7

Horizon == (CHOOSE m \in MonthStart : \A n \in MonthStart : n <= m) - 1

(* The calendar, for the days up to the horizon.                           *)
FirstOfMonth ==
    [d \in 0..Horizon |->
        CHOOSE m \in MonthStart : m <= d /\ \A n \in MonthStart : n <= d => n <= m]
DayOfMonth(d) == d - FirstOfMonth[d] + 1
MonthNumber == [m \in MonthStart |-> Cardinality({n \in MonthStart : n < m})]
Month(d) == MonthNumber[FirstOfMonth[d]]
DaysFrom ==
    [m \in MonthStart |-> {d \in 0..Horizon : FirstOfMonth[d] = m}]
DaysOfMonth(d) == DaysFrom[FirstOfMonth[d]]

-----------------------------------------------------------------------------
(* Mutant of Accepted: the bounds are off by one.                          *)
AcceptedMore(f) ==
    /\ f.interval \in 1..366
    /\ f.count \in 1..201
    /\ f.freq = "MONTHLY" /\ f.mode = "monthday" => f.monthday \in 0..32
    /\ f.freq = "MONTHLY" /\ f.mode = "nth" => f.setpos \subseteq (1..6) \cup {-1}

(* validate_create_series_inputs, and what build_rrule refuses.            *)
Accepted(f) ==
    /\ f.interval \in 1..365
    /\ f.count \in 1..200
    /\ f.freq = "MONTHLY" /\ f.mode = "monthday" => f.monthday \in 0..31
    /\ f.freq = "MONTHLY" /\ f.mode = "nth" => f.setpos \subseteq (1..5) \cup {-1}

OrStartWeekday(days, d) == IF days = {} THEN {Weekday(d)} ELSE days

(* build_rrule: a part the frequency does not use is 0 or empty.           *)
BuildRule(f) ==
    LET bare == [freq |-> f.freq, interval |-> f.interval,
                 byday |-> {}, monthday |-> 0, setpos |-> {}]
        start == DayOf(f.start)
    IN  CASE f.freq = "DAILY" -> bare
          [] f.freq = "WEEKLY" ->
               [bare EXCEPT !.byday = OrStartWeekday(f.byday, start)]
          [] f.freq = "MONTHLY" /\ f.mode = "monthday" ->
               [bare EXCEPT !.monthday =
                   IF f.monthday = 0 THEN DayOfMonth(start) ELSE f.monthday]
          [] f.freq = "MONTHLY" /\ f.mode = "nth" ->
               [bare EXCEPT !.byday = OrStartWeekday(f.byday, start),
                            !.setpos = IF f.setpos = {} THEN {1} ELSE f.setpos]

(* BYDAY and BYSETPOS: d is at one of the positions, counted from the      *)
(* first or, for -1, from the last, among the days of its month that are   *)
(* one of the weekdays.                                                    *)
AtSetPos(r, d) ==
    LET days == {e \in DaysOfMonth(d) : Weekday(e) \in r.byday} IN
    /\ Weekday(d) \in r.byday
    /\ \/ Cardinality({e \in days : e <= d}) \in r.setpos
       \/ -1 \in r.setpos /\ \A e \in days : e <= d

(* The days of a rule: INTERVAL counts the days, weeks (from Monday) or    *)
(* months since the start; months without the day are left out.            *)
Recurs(r, start, d) ==
    LET every(a, b) == (b - a) % r.interval = 0
        week(e) == (e + FirstDay) \div 7
    IN  /\ d >= start
        /\ CASE r.freq = "DAILY" -> every(start, d)
             [] r.freq = "WEEKLY" ->
                  Weekday(d) \in r.byday /\ every(week(start), week(d))
             [] r.freq = "MONTHLY" ->
                  /\ IF r.setpos = {} THEN DayOfMonth(d) = r.monthday
                                      ELSE AtSetPos(r, d)
                  /\ every(Month(start), Month(d))

(* The wall times a rule yields, with the hour of its start.               *)
Times(r, w) ==
    {24 * d + HourOf(w) : d \in {e \in 0..Horizon : Recurs(r, DayOf(w), e)}}

(* The first n of a set of times.                                          *)
Earliest(n, times) == {w \in times : Cardinality({v \in times : v < w}) < n}

-----------------------------------------------------------------------------
(* recurrence_dtstart, as the program reads it back.                       *)
ReadBack(z, w) == IF db = "postgres" THEN Instant(z, w) ELSE w

(* create_series: the first meetings come from the start as typed, on the  *)
(* clock of its zone.                                                      *)
CreateSeries(f) ==
    LET r == BuildRule(f) IN
    /\ series = None
    /\ Accepted(f)
    /\ Cardinality(Times(r, f.start)) >= f.count  \* bound: the horizon
    /\ series' = [rule |-> r, dtstart |-> ReadBack(f.zone, f.start), zone |-> f.zone]
    /\ form' = f
    /\ meetings' = {Instant(f.zone, w) : w \in Earliest(f.count, Times(r, f.start))}
    /\ open' = meetings'
    /\ UNCHANGED db

(* Mutant of RollZone: the zone of the stored start is used.               *)
RollZoneStored(s) == UTC

(* _coerce_tzinfo: the zone the series names, whatever the stored start is *)
(* in.                                                                     *)
RollZone(s) == s.zone

(* _compute_next_occurrence_utc: the first time after instant t of the     *)
(* rule from the stored start, compared on the clock of the zone.          *)
NextTimes(s, t) ==
    LET z == RollZone(s)
        later == {w \in Times(s.rule, Local(z, s.dtstart)) : w > Local(z, t)}
    IN  {Instant(z, w) : w \in Earliest(1, later)}

(* complete_occurrence_and_roll_forward: only a meeting without a later    *)
(* open one asks the rule for the next; one that exists at that time is    *)
(* taken, completed or not.                                                *)
Complete(t) ==
    /\ t \in open
    /\ IF \E u \in open : u > t
       THEN open' = open \ {t} /\ UNCHANGED meetings
       ELSE /\ Cardinality(meetings) < MaxMeetings
            /\ NextTimes(series, t) # {}  \* bound: the horizon
            /\ meetings' = meetings \cup NextTimes(series, t)
            /\ open' = (open \ {t}) \cup (NextTimes(series, t) \ meetings)
    /\ UNCHANGED <<db, series, form>>

-----------------------------------------------------------------------------
Form == [freq : {"DAILY", "WEEKLY", "MONTHLY"}, interval : Interval,
         byday : WeekDays, mode : {"monthday", "nth"}, monthday : MonthDay,
         setpos : SetPos, count : Count, zone : Zone,
         start : {24 * d + h : d \in StartDay, h \in StartHour}]

(* The pages offer only the fields the frequency uses, and one weekday     *)
(* with positions; the others are sent empty.                              *)
Offered(f) ==
    /\ f.freq # "MONTHLY" => f.mode = "monthday" /\ f.monthday = 0
    /\ f.freq = "DAILY" => f.byday = {}
    /\ f.mode = "nth" => f.monthday = 0 /\ Cardinality(f.byday) <= 1
    /\ f.mode = "monthday" => f.setpos = {}
    /\ f.freq = "MONTHLY" /\ f.mode = "monthday" => f.byday = {}

Init ==
    /\ db \in Database
    /\ series = None
    /\ form = None
    /\ meetings = {}
    /\ open = {}

Next ==
    \/ \E f \in {g \in Form : Offered(g)} : CreateSeries(f)
    \/ \E t \in open : Complete(t)

Spec == Init /\ [][Next]_vars

-----------------------------------------------------------------------------
Rule == [freq : {"DAILY", "WEEKLY", "MONTHLY"}, interval : 1..365,
         byday : SUBSET (0..6), monthday : 0..31, setpos : SUBSET ((1..5) \cup {-1})]

TypeOK ==
    /\ db \in Database
    /\ series = None \/ series \in [rule : Rule, dtstart : Int, zone : Zone]
    /\ form = None \/ form \in Form
    /\ meetings \subseteq Int
    /\ open \subseteq meetings

-----------------------------------------------------------------------------
(* What the form asks for, read from the page.                             *)
AskedWeekday(f, d) ==
    IF f.byday = {} THEN Weekday(d) = Weekday(DayOf(f.start)) ELSE Weekday(d) \in f.byday

(* The nth seven days of a month, or its last seven.                       *)
AskedWeekOfMonth(f, d) ==
    \E p \in (IF f.setpos = {} THEN {1} ELSE f.setpos) :
        IF p = -1 THEN d + 7 \notin DaysOfMonth(d) ELSE (DayOfMonth(d) - 1) \div 7 = p - 1

AskedDay(f, d) ==
    CASE f.freq = "DAILY" -> TRUE
      [] f.freq = "WEEKLY" -> AskedWeekday(f, d)
      [] f.freq = "MONTHLY" /\ f.mode = "monthday" ->
           DayOfMonth(d) = IF f.monthday = 0 THEN DayOfMonth(DayOf(f.start))
                                             ELSE f.monthday
      [] f.freq = "MONTHLY" /\ f.mode = "nth" ->
           AskedWeekday(f, d) /\ AskedWeekOfMonth(f, d)

AskedPeriod(f, d) ==
    LET period(e) == CASE f.freq = "DAILY" -> e
                       [] f.freq = "WEEKLY" -> (e + FirstDay) \div 7
                       [] f.freq = "MONTHLY" -> Month(e)
    IN  (period(d) - period(DayOf(f.start))) % f.interval = 0

AskedTimes(f) ==
    {24 * d + HourOf(f.start) :
        d \in {e \in DayOf(f.start)..Horizon : AskedDay(f, e) /\ AskedPeriod(f, e)}}

(* However often and in whatever order meetings are completed, and across  *)
(* changes of the clock, the series has a meeting at each of the first     *)
(* times its form asked for, at the hour typed, and no other.  The start   *)
(* must come back from the database as the instant it was, and the clock   *)
(* must show it and never skip a whole day, as Samoa's did in 2011.        *)
MeetingsAreAsked ==
    form # None /\ ReadBack(form.zone, form.start) = Instant(form.zone, form.start)
      /\ ~Skipped(form.zone, form.start)
      /\ Clock[form.zone].after - Clock[form.zone].before < 24
    =>
    meetings = {Instant(form.zone, w) : w \in Earliest(Cardinality(meetings), AskedTimes(form))}

-----------------------------------------------------------------------------
(* Mutant of LabelNames: the days are those of the stored start, in UTC.   *)
LabelNamesStart(s, d) ==
    CASE s.rule.freq = "DAILY" -> TRUE
      [] s.rule.freq = "WEEKLY" -> Weekday(d) = Weekday(DayOf(s.dtstart))
      [] s.rule.freq = "MONTHLY" ->
           IF s.rule.setpos = {} THEN DayOfMonth(d) = DayOfMonth(DayOf(s.dtstart))
                                 ELSE AtSetPos(s.rule, d)

(* Day d is one that describe_recurrence names, in a rule of build_rrule:  *)
(* it then never needs the defaults it takes from the start.               *)
LabelNames(s, d) ==
    CASE s.rule.freq = "DAILY" -> TRUE
      [] s.rule.freq = "WEEKLY" -> Weekday(d) \in s.rule.byday
      [] s.rule.freq = "MONTHLY" ->
           IF s.rule.setpos = {} THEN DayOfMonth(d) = s.rule.monthday
                                 ELSE AtSetPos(s.rule, d)

(* The hour it names: that of the start as stored, beside the zone's name. *)
LabelHour(s) == HourOf(s.dtstart)

(* Whatever the database makes of the start, the days that "Repeats: ..."  *)
(* names are the days of every meeting, on the clock of the zone it names, *)
(* unless the clock skips the meeting's hour on that day, which may show   *)
(* it on the next one.                                                     *)
DaysAsLabelled ==
    series # None =>
        \A t \in meetings :
            LET typed == t + Clock[series.zone].before IN
            \/ LabelNames(series, DayOf(Local(series.zone, t)))
            \/ Skipped(series.zone, typed) /\ LabelNames(series, DayOf(typed))

(* "Repeats: Weekly on Tue at 09:00 America/New_York": every meeting is on *)
(* such a day and at that hour of the zone, unless the clock skips it.     *)
MeetingsAsLabelled ==
    series # None =>
        \A t \in meetings :
            LET w == Local(series.zone, t) IN
            /\ LabelNames(series, DayOf(w))
            /\ HourOf(w) = LabelHour(series)
               \/ Skipped(series.zone, 24 * DayOf(w) + LabelHour(series))
=============================================================================
