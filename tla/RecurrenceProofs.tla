-------------------------- MODULE RecurrenceProofs --------------------------
(* The meetings of a series and its label, for any calendar, clocks and    *)
(* forms.                                                                  *)
EXTENDS SeriesRecurrence, FiniteSetTheorems, LeastNumber

-----------------------------------------------------------------------------
(* The calendar.                                                           *)
LEMMA HorizonIsLast ==
    /\ Horizon + 1 \in MonthStart /\ Horizon \in Int
    /\ \A m \in MonthStart : m <= Horizon + 1
<1>1. PICK last \in MonthStart : \A m \in MonthStart : m <= last
  BY SeriesAssumption
<1> DEFINE h == CHOOSE m \in MonthStart : \A n \in MonthStart : n <= m
<1>2. h \in MonthStart /\ \A n \in MonthStart : n <= h
  BY <1>1
<1>3. h \in Nat
  BY <1>2, SeriesAssumption
<1>4. Horizon = h - 1
  BY DEF Horizon
<1> HIDE DEF h
<1> QED
  BY <1>2, <1>3, <1>4

(* FirstOfMonth is the last start of a month that is not after the day.    *)
LEMMA MonthOfDay ==
    ASSUME NEW d \in 0..Horizon
    PROVE  /\ FirstOfMonth[d] \in MonthStart /\ FirstOfMonth[d] \in Nat
           /\ FirstOfMonth[d] <= d
           /\ \A n \in MonthStart : n <= d => n <= FirstOfMonth[d]
<1> DEFINE Begun == {n \in MonthStart : n <= d}
<1>1. Begun \in SUBSET Nat /\ 0 \in Begun /\ d \in Nat
  <2>1. d \in Nat /\ 0 <= d
    BY HorizonIsLast
  <2> QED
    BY <2>1, SeriesAssumption
<1>2. \E m \in Begun : \A n \in Begun : n <= m
  <2>1. Begun # {} /\ \A n \in Begun : n <= d
    BY <1>1
  <2> HIDE DEF Begun
  <2> QED
    BY <1>1, <2>1, Greatest
<1>3. FirstOfMonth[d] =
         CHOOSE m \in MonthStart : m <= d /\ \A n \in MonthStart : n <= d => n <= m
  BY DEF FirstOfMonth
<1>4. \E m \in MonthStart : m <= d /\ \A n \in MonthStart : n <= d => n <= m
  BY <1>2
<1> QED
  BY <1>3, <1>4, SeriesAssumption

(* A month has its days in a row.                                          *)
LEMMA MonthInARow ==
    ASSUME NEW d \in 0..Horizon, NEW e \in 0..Horizon, d <= e,
           FirstOfMonth[d] = FirstOfMonth[e], NEW x \in d..e
    PROVE  x \in 0..Horizon /\ FirstOfMonth[x] = FirstOfMonth[d]
<1>1. x \in 0..Horizon
  BY HorizonIsLast
<1> QED
  BY <1>1, MonthOfDay, SeriesAssumption

(* No month is longer than 31 days.                                        *)
LEMMA DayOfMonthBound ==
    ASSUME NEW d \in 0..Horizon
    PROVE  DayOfMonth(d) \in 1..31
<1>1. /\ FirstOfMonth[d] \in MonthStart /\ FirstOfMonth[d] \in Nat
      /\ FirstOfMonth[d] <= d /\ d \in Nat
      /\ \A n \in MonthStart : n <= d => n <= FirstOfMonth[d]
  BY MonthOfDay, HorizonIsLast
<1>2. PICK n \in MonthStart : n \in FirstOfMonth[d] + 28 .. FirstOfMonth[d] + 31
  <2>1. FirstOfMonth[d] < Horizon + 1
    BY <1>1, HorizonIsLast
  <2>2. PICK last \in MonthStart : \A m \in MonthStart :
          /\ m <= last
          /\ m # last => \E n \in MonthStart : n \in m + 28 .. m + 31
    BY SeriesAssumption
  <2>3. FirstOfMonth[d] # last
    BY <2>1, <2>2, HorizonIsLast, <1>1, SeriesAssumption
  <2> QED
    BY <1>1, <2>2, <2>3
<1>3. d < n
  BY <1>1, <1>2
<1> QED
  BY <1>1, <1>2, <1>3 DEF DayOfMonth

-----------------------------------------------------------------------------
(* Clocks.                                                                 *)
LEMMA ClockType ==
    ASSUME NEW z \in Zone
    PROVE  Clock[z].at \in Int /\ Clock[z].before \in Int /\ Clock[z].after \in Int
<1>1. Clock[z] \in [at : Int, before : -14..14, after : -14..14]
  BY SeriesAssumption
<1> QED
  BY <1>1

(* A clock shows the wall time an instant was made from, unless it skips   *)
(* it.                                                                     *)
LEMMA LocalInstant ==
    ASSUME NEW z \in Zone, NEW w \in Int
    PROVE  /\ Instant(z, w) \in Int
           /\ ~Skipped(z, w) => Local(z, Instant(z, w)) = w
           /\ Skipped(z, w) =>
                 /\ Instant(z, w) = w - Clock[z].before
                 /\ Local(z, Instant(z, w)) = w - Clock[z].before + Clock[z].after
BY ClockType DEF Instant, Local, Skipped

LEMMA LocalInt ==
    ASSUME NEW z \in Zone, NEW t \in Int
    PROVE  Local(z, t) \in Int
BY ClockType DEF Local

-----------------------------------------------------------------------------
(* Forms and rules.                                                        *)
LEMMA FormStart ==
    ASSUME NEW f \in Form
    PROVE  f.start \in Nat /\ DayOf(f.start) \in Nat /\ HourOf(f.start) \in 0..23
<1>1. PICK d \in StartDay, h \in StartHour : f.start = 24 * d + h
  BY DEF Form
<1>2. d \in Nat /\ h \in 0..23
  BY SeriesAssumption
<1> QED
  BY <1>1, <1>2 DEF DayOf, HourOf

LEMMA DayHour ==
    ASSUME NEW d \in Int, NEW h \in 0..23
    PROVE  24 * d + h \in Int /\ DayOf(24 * d + h) = d /\ HourOf(24 * d + h) = h
BY DEF DayOf, HourOf

(* A rule is only made of a form whose start is in the calendar.           *)
Good(f) ==
    /\ f \in Form /\ Offered(f) /\ Accepted(f)
    /\ DayOf(f.start) \in 0..Horizon

LEMMA WeekdayType ==
    ASSUME NEW d \in Int
    PROVE  Weekday(d) \in 0..6
BY SeriesAssumption DEF Weekday

LEMMA RuleType ==
    ASSUME NEW f, Good(f)
    PROVE  BuildRule(f) \in Rule
<1>1. /\ f.freq \in {"DAILY", "WEEKLY", "MONTHLY"} /\ f.mode \in {"monthday", "nth"}
      /\ f.interval \in 1..365
      /\ f.byday \in WeekDays
      /\ f.freq = "MONTHLY" /\ f.mode = "monthday" => f.monthday \in 0..31
      /\ f.freq = "MONTHLY" /\ f.mode = "nth" => f.setpos \subseteq (1..5) \cup {-1}
  BY DEF Good, Form, Accepted
<1>2. f.byday \subseteq 0..6
  BY <1>1, SeriesAssumption
<1>3. DayOfMonth(DayOf(f.start)) \in 0..31 /\ Weekday(DayOf(f.start)) \in 0..6
  BY DayOfMonthBound, WeekdayType, HorizonIsLast DEF Good
<1>4. OrStartWeekday(f.byday, DayOf(f.start)) \in SUBSET (0..6)
  BY <1>2, <1>3 DEF OrStartWeekday
<1> DEFINE bare == [freq |-> f.freq, interval |-> f.interval,
                    byday |-> {}, monthday |-> 0, setpos |-> {}]
<1>5. bare \in Rule
  BY <1>1 DEF Rule
<1>6. CASE f.freq = "DAILY"
  BY <1>5, <1>6 DEF BuildRule
<1>7. CASE f.freq = "WEEKLY"
  <2>1. BuildRule(f) = [bare EXCEPT !.byday = OrStartWeekday(f.byday, DayOf(f.start))]
    BY <1>7 DEF BuildRule
  <2> QED
    BY <1>1, <1>4, <2>1 DEF Rule
<1>8. CASE f.freq = "MONTHLY" /\ f.mode = "monthday"
  <2>1. BuildRule(f) = [bare EXCEPT !.monthday =
           IF f.monthday = 0 THEN DayOfMonth(DayOf(f.start)) ELSE f.monthday]
    BY <1>8 DEF BuildRule
  <2> QED
    BY <1>1, <1>3, <1>8, <2>1 DEF Rule
<1>9. CASE f.freq = "MONTHLY" /\ f.mode = "nth"
  <2>1. BuildRule(f) =
           [bare EXCEPT !.byday = OrStartWeekday(f.byday, DayOf(f.start)),
                        !.setpos = IF f.setpos = {} THEN {1} ELSE f.setpos]
    BY <1>9 DEF BuildRule
  <2>2. (IF f.setpos = {} THEN {1} ELSE f.setpos) \in SUBSET ((1..5) \cup {-1})
    BY <1>1, <1>9
  <2> DEFINE p == IF f.setpos = {} THEN {1} ELSE f.setpos
  <2> HIDE DEF p
  <2>3. BuildRule(f) = [freq |-> f.freq, interval |-> f.interval,
                        byday |-> OrStartWeekday(f.byday, DayOf(f.start)),
                        monthday |-> 0, setpos |-> p]
    BY <2>1 DEF p
  <2>4. p \in SUBSET ((1..5) \cup {-1})
    BY <2>2 DEF p
  <2> QED
    BY <1>1, <1>4, <2>3, <2>4 DEF Rule
<1> QED
  BY <1>1, <1>6, <1>7, <1>8, <1>9

(* The times of a rule are days of the calendar at the hour of the start.  *)
LEMMA TimesAreDays ==
    ASSUME NEW r, NEW w0, HourOf(w0) \in 0..23, NEW w \in Times(r, w0)
    PROVE  /\ w \in Nat /\ DayOf(w) \in 0..Horizon
           /\ w = 24 * DayOf(w) + HourOf(w0)
           /\ Recurs(r, DayOf(w0), DayOf(w))
<1>1. PICK e \in 0..Horizon : Recurs(r, DayOf(w0), e) /\ w = 24 * e + HourOf(w0)
  BY DEF Times
<1>2. e \in Nat /\ HourOf(w0) \in Nat
  BY HorizonIsLast
<1> DEFINE h == HourOf(w0)
<1> HIDE DEF h
<1>3. DayOf(w) = e /\ w \in Nat
  <2>1. w = 24 * e + h /\ h \in 0..23
    BY <1>1 DEF h
  <2> QED
    BY <1>2, <2>1 DEF DayOf
<1> QED
  BY <1>1, <1>3

(* A form that yields a time has its start in the calendar.                *)
LEMMA StartInCalendar ==
    ASSUME NEW f \in Form, Accepted(f),
           Cardinality(Times(BuildRule(f), f.start)) >= f.count
    PROVE  DayOf(f.start) \in 0..Horizon
<1>1. Times(BuildRule(f), f.start) # {}
  <2>1. f.count \in 1..200
    BY DEF Accepted
  <2> QED
    BY <2>1, FS_EmptySet
<1>2. PICK w \in Times(BuildRule(f), f.start) : TRUE
  BY <1>1
<1>3. DayOf(w) \in 0..Horizon /\ Recurs(BuildRule(f), DayOf(f.start), DayOf(w))
  BY FormStart, TimesAreDays
<1>4. DayOf(w) >= DayOf(f.start)
  BY <1>3 DEF Recurs
<1> QED
  BY <1>3, <1>4, FormStart, HorizonIsLast

-----------------------------------------------------------------------------
(* The row of a series is made from its form, and its start is read back.  *)
SeriesOf(f) ==
    [rule |-> BuildRule(f), dtstart |-> ReadBack(f.zone, f.start), zone |-> f.zone]

FormInv ==
    /\ db \in Database
    /\ meetings \subseteq Int /\ open \subseteq meetings
    /\ \/ series = None /\ form = None /\ meetings = {}
       \/ Good(form) /\ series = SeriesOf(form)

LEMMA SeriesType ==
    ASSUME NEW f, Good(f)
    PROVE  SeriesOf(f) \in [rule : Rule, dtstart : Int, zone : Zone]
<1>1. f.zone \in Zone /\ f.start \in Int
  BY FormStart DEF Good, Form
<1>2. ReadBack(f.zone, f.start) \in Int
  BY <1>1, LocalInstant DEF ReadBack
<1> QED
  BY <1>1, <1>2, RuleType DEF SeriesOf

(* What a step asks of the rule of a series there is.                      *)
LEMMA NextTimesAre ==
    ASSUME NEW f, Good(f), NEW t \in Int, NEW u \in NextTimes(SeriesOf(f), t)
    PROVE  LET start == Local(f.zone, SeriesOf(f).dtstart) IN
           \E w \in Times(BuildRule(f), start) :
              /\ u = Instant(f.zone, w) /\ w \in Int /\ w > Local(f.zone, t)
              /\ HourOf(start) \in 0..23
<1> DEFINE z == f.zone
           start == Local(z, SeriesOf(f).dtstart)
           later == {w \in Times(BuildRule(f), start) : w > Local(z, t)}
<1>1. /\ SeriesOf(f).rule = BuildRule(f) /\ RollZone(SeriesOf(f)) = z
      /\ SeriesOf(f).dtstart \in Int /\ z \in Zone
  BY SeriesType DEF SeriesOf, RollZone
<1>2. PICK w \in Earliest(1, later) : u = Instant(z, w)
  BY <1>1 DEF NextTimes
<1>3. w \in Times(BuildRule(f), start) /\ w > Local(z, t)
  BY <1>2 DEF Earliest
<1>4. start \in Int
  BY <1>1, LocalInt
<1>5. HourOf(start) \in 0..23
  <2> HIDE DEF start
  <2> QED
    BY <1>4 DEF HourOf
<1>6. w \in Nat
  <2> HIDE DEF start
  <2> QED
    BY <1>3, <1>5, TimesAreDays
<1> QED
  BY <1>2, <1>3, <1>5, <1>6

LEMMA FormStep == FormInv /\ [Next]_vars => FormInv'
<1> SUFFICES ASSUME FormInv, [Next]_vars PROVE FormInv'
    OBVIOUS
<1>1. ASSUME NEW f \in Form, Offered(f), CreateSeries(f) PROVE FormInv'
  <2> DEFINE made == Earliest(f.count, Times(BuildRule(f), f.start))
  <2>1. Good(f)
    BY <1>1, StartInCalendar DEF CreateSeries, Good
  <2>2. /\ db' = db /\ form' = f /\ series' = SeriesOf(f) /\ open' = meetings'
        /\ meetings' = {Instant(f.zone, w) : w \in made}
    BY <1>1 DEF CreateSeries, SeriesOf
  <2>3. \A w \in made : w \in Int
    BY FormStart, TimesAreDays DEF Earliest
  <2>4. f.zone \in Zone
    BY DEF Form
  <2>5. meetings' \subseteq Int
    <3> HIDE DEF made
    <3> QED
      BY <2>2, <2>3, <2>4, LocalInstant
  <2>6. SeriesOf(f)' = SeriesOf(f)
    BY <2>2 DEF SeriesOf, ReadBack
  <2> QED
    BY <2>1, <2>2, <2>5, <2>6 DEF FormInv
<1>2. ASSUME NEW t \in open, Complete(t) PROVE FormInv'
  <2>1. /\ Good(form) /\ series = SeriesOf(form) /\ t \in Int
        /\ UNCHANGED <<db, series, form>>
    BY <1>2 DEF FormInv, Complete
  <2>2. SeriesOf(form)' = SeriesOf(form)
    BY <2>1 DEF SeriesOf, ReadBack
  <2>3. NextTimes(series, t) \subseteq Int
    <3>1. form.zone \in Zone
      BY <2>1 DEF Good, Form
    <3> QED
      BY <2>1, <3>1, NextTimesAre, LocalInstant
  <2> QED
    BY <1>2, <2>1, <2>2, <2>3 DEF FormInv, Complete
<1>3. CASE UNCHANGED vars
  BY <1>3 DEF vars, FormInv, SeriesOf, ReadBack
<1> QED
  BY <1>1, <1>2, <1>3 DEF Next

LEMMA FormInit == Init => FormInv
BY DEF Init, FormInv

(* Whatever is typed, a series has a well-formed rule and its meetings are *)
(* instants.                                                               *)
THEOREM TypeCorrect == Spec => []TypeOK
<1>1. FormInv => TypeOK
  BY SeriesType DEF FormInv, TypeOK, Good
<1> QED
  BY <1>1, FormInit, FormStep, PTL DEF Spec

-----------------------------------------------------------------------------
(* Every meeting was made from a wall time on a day that the label names.  *)
Named(t) ==
    \E w \in Int : t = Instant(series.zone, w) /\ LabelNames(series, DayOf(w))

LabelInv == \A t \in meetings : Named(t)

LEMMA RecursNamed ==
    ASSUME NEW s, s.rule \in Rule, NEW d0, NEW d, Recurs(s.rule, d0, d)
    PROVE  LabelNames(s, d)
<1>1. s.rule.freq \in {"DAILY", "WEEKLY", "MONTHLY"}
  BY DEF Rule
<1>2. CASE s.rule.freq = "DAILY"
  BY <1>2 DEF LabelNames
<1>3. CASE s.rule.freq = "WEEKLY"
  BY <1>3 DEF LabelNames, Recurs
<1>4. CASE s.rule.freq = "MONTHLY"
  BY <1>4 DEF LabelNames, Recurs
<1> QED
  BY <1>1, <1>2, <1>3, <1>4

LEMMA LabelStep == FormInv /\ LabelInv /\ [Next]_vars => LabelInv'
<1> SUFFICES ASSUME FormInv, LabelInv, [Next]_vars PROVE LabelInv'
    OBVIOUS
<1>1. ASSUME NEW f \in Form, Offered(f), CreateSeries(f), NEW t \in meetings'
      PROVE  Named(t)'
  <2>1. Good(f)
    BY <1>1, StartInCalendar DEF CreateSeries, Good
  <2>2. PICK w \in Times(BuildRule(f), f.start) : t = Instant(f.zone, w)
    BY <1>1 DEF CreateSeries, Earliest
  <2>3. series' = SeriesOf(f) /\ SeriesOf(f).zone = f.zone
        /\ SeriesOf(f).rule = BuildRule(f) /\ BuildRule(f) \in Rule
    BY <1>1, <2>1, RuleType DEF CreateSeries, SeriesOf
  <2>4. w \in Nat /\ LabelNames(SeriesOf(f), DayOf(w))
    BY <2>3, FormStart, TimesAreDays, RecursNamed
  <2> QED
    BY <2>2, <2>3, <2>4 DEF Named
<1>2. ASSUME NEW u \in open, Complete(u), NEW t \in meetings'
      PROVE  Named(t)'
  <2>1. /\ Good(form) /\ series = SeriesOf(form) /\ series' = series
        /\ u \in Int
    BY <1>2 DEF FormInv, Complete
  <2>2. CASE t \in meetings
    BY <2>1, <2>2 DEF LabelInv, Named
  <2>3. CASE t \notin meetings
    <3> DEFINE start == Local(form.zone, SeriesOf(form).dtstart)
    <3>1. t \in NextTimes(SeriesOf(form), u)
      BY <1>2, <2>1, <2>3 DEF Complete
    <3>2. PICK w \in Times(BuildRule(form), start) :
             t = Instant(form.zone, w) /\ w \in Int /\ HourOf(start) \in 0..23
      <4> HIDE DEF start
      <4> QED
        BY <2>1, <3>1, NextTimesAre DEF start
    <3>3. Recurs(BuildRule(form), DayOf(start), DayOf(w))
      <4> HIDE DEF start
      <4> QED
        BY <3>2, TimesAreDays
    <3>4. series.rule = BuildRule(form) /\ series.zone = form.zone
          /\ BuildRule(form) \in Rule
      BY <2>1, RuleType DEF SeriesOf
    <3>5. LabelNames(series, DayOf(w))
      <4> HIDE DEF start
      <4> QED
        BY <3>3, <3>4, RecursNamed
    <3> QED
      BY <2>1, <3>2, <3>4, <3>5 DEF Named
  <2> QED
    BY <2>2, <2>3
<1>3. CASE UNCHANGED vars
  BY <1>3 DEF vars, LabelInv, Named
<1> QED
  BY <1>1, <1>2, <1>3 DEF Next, LabelInv

(* Whatever the zone and the database, every meeting is on a day the label *)
(* names, on the clock of the zone the label names, or at an hour of such  *)
(* a day that the clock skips.                                             *)
THEOREM Labelled == Spec => []DaysAsLabelled
<1>1. FormInv /\ LabelInv => DaysAsLabelled
  <2> SUFFICES ASSUME FormInv, LabelInv, NEW t \in meetings
               PROVE  LET typed == t + Clock[series.zone].before IN
                      \/ LabelNames(series, DayOf(Local(series.zone, t)))
                      \/ Skipped(series.zone, typed) /\ LabelNames(series, DayOf(typed))
      BY DEF DaysAsLabelled
  <2>1. PICK w \in Int : t = Instant(series.zone, w) /\ LabelNames(series, DayOf(w))
    BY DEF LabelInv, Named
  <2>2. series.zone \in Zone
    BY SeriesType DEF FormInv
  <2>3. CASE ~Skipped(series.zone, w)
    BY <2>1, <2>2, <2>3, LocalInstant
  <2>4. CASE Skipped(series.zone, w)
    <3>1. t = w - Clock[series.zone].before /\ Clock[series.zone].before \in Int
      BY <2>1, <2>2, <2>4, LocalInstant, ClockType
    <3>2. t + Clock[series.zone].before = w
      BY <3>1
    <3> QED
      BY <2>1, <2>4, <3>2
  <2> QED
    BY <2>3, <2>4
<1>2. Init => LabelInv
  BY DEF Init, LabelInv
<1> QED
  BY <1>1, <1>2, FormInit, FormStep, LabelStep, PTL DEF Spec

-----------------------------------------------------------------------------
(* The days a rule yields are the days the form asks for.  Positions count *)
(* the days of a month that are one weekday: those up to d are d and the   *)
(* days whole weeks before it.                                             *)
SameWeekday(k, d) == {e \in DaysOfMonth(d) : Weekday(e) \in {k}}

LEMMA InMonth ==
    ASSUME NEW d \in 0..Horizon, NEW k
    PROVE  \A e : e \in SameWeekday(k, d) <=>
              e \in 0..Horizon /\ FirstOfMonth[e] = FirstOfMonth[d] /\ Weekday(e) = k
<1>1. DaysOfMonth(d) = {e \in 0..Horizon : FirstOfMonth[e] = FirstOfMonth[d]}
  BY MonthOfDay DEF DaysOfMonth, DaysFrom
<1> QED
  BY <1>1 DEF SameWeekday

LEMMA WeeksApart ==
    ASSUME NEW d \in Int, NEW e \in Int, e <= d
    PROVE  Weekday(e) = Weekday(d) <=> (d - e) % 7 = 0
BY SeriesAssumption DEF Weekday

LEMMA WeeksBefore ==
    ASSUME NEW d \in 0..Horizon
    PROVE  Cardinality({e \in SameWeekday(Weekday(d), d) : e <= d})
              = (DayOfMonth(d) - 1) \div 7 + 1
<1> DEFINE m == FirstOfMonth[d]
           n == (d - m) \div 7 + 1
           days == {e \in SameWeekday(Weekday(d), d) : e <= d}
           back == [i \in 1..n |-> d - 7 * (i - 1)]
<1>1. m \in MonthStart /\ m \in Nat /\ m <= d /\ d \in Nat
  BY MonthOfDay, HorizonIsLast
<1>2. n \in Nat /\ 7 * (n - 1) <= d - m /\ d - m < 7 * n
  <2> HIDE DEF m
  <2> QED
    BY <1>1
<1>3. m \in 0..Horizon /\ FirstOfMonth[m] = m
  <2>1. m \in 0..Horizon
    BY <1>1, HorizonIsLast
  <2>2. /\ FirstOfMonth[m] \in Nat /\ FirstOfMonth[m] <= m
        /\ \A j \in MonthStart : j <= m => j <= FirstOfMonth[m]
    BY <2>1, MonthOfDay
  <2> HIDE DEF m
  <2>3. m <= FirstOfMonth[m]
    BY <1>1, <2>2
  <2> QED
    BY <1>1, <2>1, <2>2, <2>3
<1>4. \A e : e \in days <=>
         e \in 0..Horizon /\ FirstOfMonth[e] = m /\ e <= d /\ (d - e) % 7 = 0
  BY InMonth, WeeksApart, <1>1, HorizonIsLast
<1>5. ASSUME NEW e \in days
      PROVE  e \in Int /\ m <= e /\ e <= d /\ (d - e) % 7 = 0
  BY <1>4, MonthOfDay, HorizonIsLast
<1>6. \A x \in m..d : x \in 0..Horizon /\ FirstOfMonth[x] = m
  BY <1>1, <1>3, MonthInARow
<1> HIDE DEF m, n, days
<1>7. back \in Bijection(1..n, days)
  <2>1. ASSUME NEW i \in 1..n PROVE back[i] \in days
    <3>1. back[i] = d - 7 * (i - 1) /\ i \in Nat
      OBVIOUS
    <3>2. back[i] \in m..d /\ (d - back[i]) % 7 = 0
      BY <1>1, <1>2, <3>1
    <3> HIDE DEF back
    <3>3. back[i] \in 0..Horizon /\ FirstOfMonth[back[i]] = m
      BY <1>6, <3>2
    <3>4. back[i] <= d
      BY <1>1, <3>2
    <3> QED
      BY <1>4, <3>2, <3>3, <3>4
  <2>2. ASSUME NEW i \in 1..n, NEW j \in 1..n, back[i] = back[j] PROVE i = j
    BY <1>1, <2>2
  <2>3. ASSUME NEW e \in days PROVE \E i \in 1..n : back[i] = e
    <3> DEFINE i == (d - e) \div 7 + 1
    <3>1. i \in 1..n /\ d - 7 * (i - 1) = e
      BY <1>1, <1>2, <1>5
    <3> QED
      BY <3>1
  <2> QED
    BY <2>1, <2>2, <2>3 DEF Bijection, Injection, IsInjective, Surjection
<1>8. Cardinality(days) = n
  BY <1>2, <1>7, FS_CountingElements DEF ExistsBijection
<1>9. DayOfMonth(d) - 1 = d - m
  BY <1>1 DEF DayOfMonth, m
<1> QED
  BY <1>8, <1>9 DEF n, days

LEMMA LastWeek ==
    ASSUME NEW d \in 0..Horizon
    PROVE  (\A e \in SameWeekday(Weekday(d), d) : e <= d) <=> d + 7 \notin DaysOfMonth(d)
<1>1. DaysOfMonth(d) = {e \in 0..Horizon : FirstOfMonth[e] = FirstOfMonth[d]}
  BY MonthOfDay DEF DaysOfMonth, DaysFrom
<1>2. d \in Nat /\ Horizon \in Int
  BY HorizonIsLast
<1>3. ASSUME d + 7 \in DaysOfMonth(d)
      PROVE  d + 7 \in SameWeekday(Weekday(d), d)
  <2>1. d <= d + 7 /\ ((d + 7) - d) % 7 = 0
    BY <1>2
  <2>2. Weekday(d + 7) = Weekday(d)
    BY <1>2, <2>1, WeeksApart
  <2> QED
    BY <1>3, <2>2 DEF SameWeekday
<1>4. ASSUME NEW e \in SameWeekday(Weekday(d), d), ~(e <= d)
      PROVE  d + 7 \in DaysOfMonth(d)
  <2>1. e \in 0..Horizon /\ FirstOfMonth[e] = FirstOfMonth[d] /\ Weekday(e) = Weekday(d)
    BY InMonth
  <2>2. e \in Int /\ d <= e /\ e # d
    BY <1>2, <1>4, <2>1
  <2>3. (e - d) % 7 = 0
    BY <1>2, <2>1, <2>2, WeeksApart
  <2>4. d + 7 \in d..e
    BY <1>2, <2>2, <2>3
  <2> QED
    BY <1>1, <2>1, <2>2, <2>4, MonthInARow
<1> QED
  BY <1>2, <1>3, <1>4

LEMMA PositionsAsked ==
    ASSUME NEW f, Good(f), f.freq = "MONTHLY", f.mode = "nth", NEW d \in 0..Horizon
    PROVE  AtSetPos(BuildRule(f), d) <=> AskedWeekday(f, d) /\ AskedWeekOfMonth(f, d)
<1> DEFINE r == BuildRule(f)
           start == DayOf(f.start)
           pos == IF f.setpos = {} THEN {1} ELSE f.setpos
           before == {e \in SameWeekday(Weekday(d), d) : e <= d}
<1>1. r.byday = OrStartWeekday(f.byday, start) /\ r.setpos = pos
  BY DEF BuildRule
<1>2. PICK k : r.byday = {k}
  <2>1. CASE f.byday = {}
    BY <1>1, <2>1 DEF OrStartWeekday
  <2>2. CASE f.byday # {}
    <3>1. f.byday \in SUBSET (0..6) /\ Cardinality(f.byday) <= 1
      <4>1. f.byday \in WeekDays
        BY DEF Good, Form
      <4> QED
        BY <4>1, SeriesAssumption DEF Good, Offered
    <3>2. IsFiniteSet(f.byday)
      <4>1. f.byday \in SUBSET Nat /\ 6 \in Nat /\ \A k \in f.byday : k <= 6
        BY <3>1
      <4> QED
        BY <4>1, FS_BoundedSetOfNaturals
    <3>3. Cardinality(f.byday) = 1
      <4>1. Cardinality(f.byday) \in Nat /\ Cardinality(f.byday) # 0
        BY <2>2, <3>2, FS_EmptySet, FS_CardinalityType
      <4> QED
        BY <3>1, <4>1
    <3> QED
      BY <1>1, <2>2, <3>2, <3>3, FS_Singleton DEF OrStartWeekday
  <2> QED
    BY <2>1, <2>2
<1>3. AskedWeekday(f, d) <=> Weekday(d) \in r.byday
  BY <1>1 DEF AskedWeekday, OrStartWeekday
<1>4. pos \subseteq (1..5) \cup {-1}
  BY DEF Good, Accepted
<1>5. Cardinality(before) = (DayOfMonth(d) - 1) \div 7 + 1
  BY WeeksBefore
<1>6. DayOfMonth(d) - 1 \in Nat /\ (DayOfMonth(d) - 1) \div 7 \in Nat
  <2>1. DayOfMonth(d) \in 1..31
    BY DayOfMonthBound
  <2> QED
    BY <2>1
<1> HIDE DEF pos, before, r
<1>7. ASSUME Weekday(d) \in r.byday
      PROVE  AtSetPos(r, d) <=> AskedWeekOfMonth(f, d)
  <2>1. k = Weekday(d)
    BY <1>2, <1>7
  <2>2. {e \in DaysOfMonth(d) : Weekday(e) \in r.byday} = SameWeekday(Weekday(d), d)
    BY <1>2, <2>1 DEF SameWeekday
  <2>3. AtSetPos(r, d) <=> \/ Cardinality(before) \in pos
                           \/ -1 \in pos /\ d + 7 \notin DaysOfMonth(d)
    BY <1>1, <1>7, <2>2, LastWeek DEF AtSetPos, before
  <2>4. AskedWeekOfMonth(f, d) <=>
           \E p \in pos : IF p = -1 THEN d + 7 \notin DaysOfMonth(d)
                                    ELSE (DayOfMonth(d) - 1) \div 7 = p - 1
    BY DEF AskedWeekOfMonth, pos
  <2>5. \A p \in pos : p # -1 =>
           (Cardinality(before) = p <=> (DayOfMonth(d) - 1) \div 7 = p - 1)
    BY <1>4, <1>5, <1>6
  <2>6. Cardinality(before) # -1
    BY <1>5, <1>6
  <2> QED
    BY <2>3, <2>4, <2>5, <2>6
<1>8. AtSetPos(r, d) => Weekday(d) \in r.byday
  BY DEF AtSetPos
<1> QED
  BY <1>3, <1>7, <1>8 DEF r

LEMMA RuleAsks ==
    ASSUME NEW f, Good(f), NEW d \in 0..Horizon
    PROVE  Recurs(BuildRule(f), DayOf(f.start), d) <=>
              d >= DayOf(f.start) /\ AskedDay(f, d) /\ AskedPeriod(f, d)
<1> DEFINE r == BuildRule(f)
           start == DayOf(f.start)
<1>1. f.freq \in {"DAILY", "WEEKLY", "MONTHLY"} /\ f.mode \in {"monthday", "nth"}
  BY DEF Good, Form
<1>2. CASE f.freq = "DAILY"
  <2>1. r.freq = "DAILY" /\ r.interval = f.interval
    BY <1>2 DEF BuildRule
  <2> QED
    BY <1>2, <2>1 DEF Recurs, AskedDay, AskedPeriod
<1>3. CASE f.freq = "WEEKLY"
  <2>1. /\ r.freq = "WEEKLY" /\ r.interval = f.interval
        /\ r.byday = OrStartWeekday(f.byday, start)
    BY <1>3 DEF BuildRule
  <2>2. AskedWeekday(f, d) <=> Weekday(d) \in r.byday
    BY <2>1 DEF AskedWeekday, OrStartWeekday
  <2> QED
    BY <1>3, <2>1, <2>2 DEF Recurs, AskedDay, AskedPeriod
<1>4. CASE f.freq = "MONTHLY" /\ f.mode = "monthday"
  <2>1. /\ r.freq = "MONTHLY" /\ r.interval = f.interval /\ r.setpos = {}
        /\ r.monthday = IF f.monthday = 0 THEN DayOfMonth(start) ELSE f.monthday
    BY <1>4 DEF BuildRule
  <2> QED
    BY <1>4, <2>1 DEF Recurs, AskedDay, AskedPeriod
<1>5. CASE f.freq = "MONTHLY" /\ f.mode = "nth"
  <2>1. /\ r.freq = "MONTHLY" /\ r.interval = f.interval /\ r.setpos # {}
    BY <1>5 DEF BuildRule
  <2> QED
    BY <1>5, <2>1, PositionsAsked DEF Recurs, AskedDay, AskedPeriod
<1> QED
  BY <1>1, <1>2, <1>3, <1>4, <1>5

LEMMA TimesAreAsked ==
    ASSUME NEW f, Good(f)
    PROVE  Times(BuildRule(f), f.start) = AskedTimes(f)
<1>1. DayOf(f.start) \in Nat /\ Horizon \in Int
  BY FormStart, HorizonIsLast DEF Good
<1>2. {e \in 0..Horizon : Recurs(BuildRule(f), DayOf(f.start), e)}
         = {e \in DayOf(f.start)..Horizon : AskedDay(f, e) /\ AskedPeriod(f, e)}
  BY <1>1, RuleAsks
<1> QED
  BY <1>2 DEF Times, AskedTimes

-----------------------------------------------------------------------------
(* The meetings are made from the first of the times, whatever is          *)
(* completed.                                                              *)
First(E, times) == E \subseteq times /\ \A w \in E, v \in times : v < w => v \in E

LEMMA EarliestAreFirst ==
    ASSUME NEW times \in SUBSET Nat, IsFiniteSet(times), NEW n \in Int
    PROVE  First(Earliest(n, times), times)
<1> SUFFICES ASSUME NEW w \in Earliest(n, times), NEW v \in times, v < w
             PROVE  v \in Earliest(n, times)
    BY DEF First, Earliest
<1> DEFINE upto(x) == {u \in times : u < x}
<1>1. w \in times /\ Cardinality(upto(w)) < n
  BY DEF Earliest
<1>2. upto(v) \subseteq upto(w)
  <2>1. ASSUME NEW u \in times, u < v PROVE u < w
    <3>1. u \in Nat /\ v \in Nat /\ w \in Nat
      BY <1>1
    <3> QED
      BY <2>1, <3>1
  <2> QED
    BY <2>1
<1>3. IsFiniteSet(upto(w))
  <2>1. upto(w) \in SUBSET times
    OBVIOUS
  <2> HIDE DEF upto
  <2> QED
    BY <2>1, FS_Subset
<1>4. IsFiniteSet(upto(v)) /\ Cardinality(upto(v)) <= Cardinality(upto(w))
  <2> HIDE DEF upto
  <2> QED
    BY <1>2, <1>3, FS_Subset
<1>5. Cardinality(upto(v)) \in Nat /\ Cardinality(upto(w)) \in Nat
  <2> HIDE DEF upto
  <2> QED
    BY <1>3, <1>4, FS_CardinalityType
<1>6. Cardinality(upto(v)) < n
  <2> HIDE DEF upto
  <2> QED
    BY <1>1, <1>4, <1>5
<1> QED
  BY <1>6 DEF Earliest

LEMMA FirstAreEarliest ==
    ASSUME NEW times \in SUBSET Nat, IsFiniteSet(times), NEW E, First(E, times)
    PROVE  E = Earliest(Cardinality(E), times)
<1> DEFINE upto(x) == {u \in times : u < x}
<1>1. E \subseteq times /\ IsFiniteSet(E) /\ Cardinality(E) \in Nat
  BY FS_Subset, FS_CardinalityType DEF First
<1>2. \A w \in times : IsFiniteSet(upto(w)) /\ Cardinality(upto(w)) \in Nat
  <2>1. \A w \in times : upto(w) \in SUBSET times
    OBVIOUS
  <2> HIDE DEF upto
  <2> QED
    BY <2>1, FS_Subset, FS_CardinalityType
<1>3. ASSUME NEW w \in E PROVE Cardinality(upto(w)) < Cardinality(E)
  <2>1. upto(w) \subseteq E \ {w}
    <3>1. \A u \in times : u < w => u \in E
      BY DEF First
    <3>2. ~(w < w)
      BY <1>1
    <3> QED
      BY <3>1, <3>2
  <2>2. IsFiniteSet(E \ {w}) /\ Cardinality(E \ {w}) = Cardinality(E) - 1
    BY <1>1, FS_RemoveElement
  <2>3. Cardinality(upto(w)) <= Cardinality(E \ {w})
    <3> HIDE DEF upto
    <3> QED
      BY <2>1, <2>2, FS_Subset
  <2>4. Cardinality(upto(w)) \in Nat
    BY <1>1, <1>2
  <2> HIDE DEF upto
  <2> QED
    BY <1>1, <2>2, <2>3, <2>4
<1>4. ASSUME NEW w \in times, w \notin E PROVE ~(Cardinality(upto(w)) < Cardinality(E))
  <2>1. E \subseteq upto(w)
    <3> SUFFICES ASSUME NEW e \in E PROVE e < w
        BY <1>1
    <3>1. e # w /\ ~(w < e) /\ e \in Nat /\ w \in Nat
      BY <1>1, <1>4 DEF First
    <3> QED
      BY <3>1
  <2>2. IsFiniteSet(upto(w)) /\ Cardinality(upto(w)) \in Nat
    BY <1>2
  <2>3. Cardinality(E) <= Cardinality(upto(w))
    <3> HIDE DEF upto
    <3> QED
      BY <2>1, <2>2, FS_Subset
  <2> HIDE DEF upto
  <2> QED
    BY <1>1, <2>2, <2>3
<1>5. Earliest(Cardinality(E), times) = {w \in times : Cardinality(upto(w)) < Cardinality(E)}
  BY DEF Earliest
<1> HIDE DEF upto
<1> QED
  BY <1>1, <1>3, <1>4, <1>5

(* After one of the first times comes the next.                            *)
LEMMA NextIsFirst ==
    ASSUME NEW times \in SUBSET Nat, IsFiniteSet(times), NEW E, First(E, times), NEW w \in E
    PROVE  First(E \cup Earliest(1, {v \in times : v > w}), times)
<1> DEFINE later == {v \in times : v > w}
<1>1. ASSUME NEW u \in Earliest(1, later), NEW v \in times, v < u
      PROVE  v \in E
  <2>1. u \in later /\ Cardinality({x \in later : x < u}) < 1
    BY DEF Earliest
  <2>2. IsFiniteSet({x \in later : x < u})
    <3>1. {x \in later : x < u} \in SUBSET times
      OBVIOUS
    <3> QED
      BY <3>1, FS_Subset
  <2>3. Cardinality({x \in later : x < u}) \in Nat
    BY <2>2, FS_CardinalityType
  <2>4. Cardinality({x \in later : x < u}) = 0
    BY <2>1, <2>3
  <2>5. {x \in later : x < u} = {}
    BY <2>2, <2>4, FS_EmptySet
  <2>6. ~(v > w) /\ v \in Nat /\ w \in Nat /\ w \in times
    BY <1>1, <2>5 DEF First
  <2> QED
    BY <2>6 DEF First
<1>2. Earliest(1, later) \subseteq times
  BY DEF Earliest
<1> HIDE DEF later
<1>3. First(E \cup Earliest(1, later), times)
  BY <1>1, <1>2 DEF First
<1> QED
  BY <1>3 DEF later

LEMMA AskedApart ==
    ASSUME NEW f, Good(f)
    PROVE  /\ AskedTimes(f) \in SUBSET Nat /\ IsFiniteSet(AskedTimes(f))
           /\ \A v, w \in AskedTimes(f) : v < w => v + 24 <= w
<1>1. HourOf(f.start) \in 0..23
  BY FormStart DEF Good
<1>2. ASSUME NEW w \in AskedTimes(f)
      PROVE  /\ w \in Nat /\ DayOf(w) \in 0..Horizon
             /\ w = 24 * DayOf(w) + HourOf(f.start)
  BY <1>1, <1>2, TimesAreDays, TimesAreAsked
<1>3. Horizon \in Int
  BY HorizonIsLast
<1>4. AskedTimes(f) \in SUBSET Nat
  BY <1>2
<1>5. IsFiniteSet(AskedTimes(f))
  <2>1. CASE AskedTimes(f) = {}
    BY <2>1, FS_EmptySet
  <2>2. CASE AskedTimes(f) # {}
    <3> DEFINE last == 24 * Horizon + 23
    <3>1. ASSUME NEW w \in AskedTimes(f) PROVE w <= last /\ last \in Nat
      <4>1. DayOf(w) \in Nat /\ DayOf(w) <= Horizon
        BY <1>2, <1>3
      <4> QED
        BY <1>1, <1>2, <1>3, <4>1
    <3> HIDE DEF last
    <3> QED
      BY <1>4, <2>2, <3>1, FS_BoundedSetOfNaturals
  <2> QED
    BY <2>1, <2>2
<1>6. ASSUME NEW v \in AskedTimes(f), NEW w \in AskedTimes(f), v < w
      PROVE  v + 24 <= w
  <2>1. /\ v = 24 * DayOf(v) + HourOf(f.start) /\ DayOf(v) \in Int
        /\ w = 24 * DayOf(w) + HourOf(f.start) /\ DayOf(w) \in Int
    BY <1>2, <1>3
  <2> QED
    BY <1>1, <1>6, <2>1
<1> QED
  BY <1>4, <1>5, <1>6

(* On a clock that never skips a whole day, later days are later instants, *)
(* and an instant is shown less than a day after the wall time it was made *)
(* from.                                                                   *)
LEMMA InstantsInOrder ==
    ASSUME NEW z \in Zone, Clock[z].after - Clock[z].before < 24,
           NEW v \in Int, NEW w \in Int
    PROVE  /\ v + 24 <= w => Instant(z, v) < Instant(z, w)
           /\ v <= Local(z, Instant(z, v)) /\ Local(z, Instant(z, v)) < v + 24
<1>1. v + 24 <= w => Instant(z, v) < Instant(z, w)
  BY ClockType DEF Instant
<1>2. v <= Local(z, Instant(z, v)) /\ Local(z, Instant(z, v)) < v + 24
  BY ClockType DEF Instant, Local
<1> QED
  BY <1>1, <1>2

-----------------------------------------------------------------------------
(* A start that the database gives back as its instant, on a clock that    *)
(* shows it and skips no whole day.                                        *)
Plain(f) ==
    /\ ReadBack(f.zone, f.start) = Instant(f.zone, f.start)
    /\ ~Skipped(f.zone, f.start)
    /\ Clock[f.zone].after - Clock[f.zone].before < 24

MadeFrom(E, f) == meetings = {Instant(f.zone, w) : w \in E}

AskedInv ==
    form # None /\ Plain(form) =>
        \E E \in SUBSET AskedTimes(form) : First(E, AskedTimes(form)) /\ MadeFrom(E, form)

LEMMA PlainStart ==
    ASSUME NEW f, Good(f), Plain(f)
    PROVE  Local(f.zone, SeriesOf(f).dtstart) = f.start
<1>1. f.zone \in Zone /\ f.start \in Int
  BY FormStart DEF Good, Form
<1>2. SeriesOf(f).dtstart = Instant(f.zone, f.start)
  BY DEF SeriesOf, Plain
<1> QED
  BY <1>1, <1>2, LocalInstant DEF Plain

(* The step that makes the next meeting takes the next of the times.       *)
LEMMA NextIsAsked ==
    ASSUME NEW f, Good(f), Plain(f), NEW w \in AskedTimes(f)
    PROVE  NextTimes(SeriesOf(f), Instant(f.zone, w)) =
              {Instant(f.zone, v) : v \in Earliest(1, {v \in AskedTimes(f) : v > w})}
<1> DEFINE z == f.zone
           t == Instant(z, w)
           later == {v \in AskedTimes(f) : v > Local(z, t)}
<1>1. /\ RollZone(SeriesOf(f)) = z /\ SeriesOf(f).rule = BuildRule(f)
      /\ Local(z, SeriesOf(f).dtstart) = f.start /\ z \in Zone
  BY PlainStart DEF RollZone, SeriesOf, Good, Form
<1>2. NextTimes(SeriesOf(f), t) = {Instant(z, v) : v \in Earliest(1, later)}
  BY <1>1, TimesAreAsked DEF NextTimes
<1>3. w \in Int /\ w <= Local(z, t) /\ Local(z, t) < w + 24 /\ Local(z, t) \in Int
  BY <1>1, AskedApart, InstantsInOrder, LocalInstant, LocalInt DEF Plain
<1>4. ASSUME NEW v \in AskedTimes(f) PROVE v > Local(z, t) <=> v > w
  <2>1. v \in Int /\ (w < v => w + 24 <= v)
    BY AskedApart
  <2> HIDE DEF z, t
  <2> QED
    BY <1>3, <2>1
<1>5. later = {v \in AskedTimes(f) : v > w}
  BY <1>4
<1> QED
  BY <1>2, <1>5

LEMMA AskedStep == FormInv /\ AskedInv /\ [Next]_vars => AskedInv'
<1> SUFFICES ASSUME FormInv, AskedInv, [Next]_vars PROVE AskedInv'
    OBVIOUS
<1>1. ASSUME NEW f \in Form, Offered(f), CreateSeries(f) PROVE AskedInv'
  <2> DEFINE made == Earliest(f.count, AskedTimes(f))
  <2>1. Good(f)
    BY <1>1, StartInCalendar DEF CreateSeries, Good
  <2>2. /\ form' = f
        /\ meetings' = {Instant(f.zone, w) : w \in made}
    BY <1>1, <2>1, TimesAreAsked DEF CreateSeries
  <2>3. f.count \in Int
    BY <2>1 DEF Good, Accepted
  <2>4. First(made, AskedTimes(f)) /\ made \in SUBSET AskedTimes(f)
    BY <2>1, <2>3, AskedApart, EarliestAreFirst DEF First
  <2>5. (First(made, AskedTimes(f)) /\ MadeFrom(made, f))'
    <3> HIDE DEF made
    <3> QED
      BY <2>2, <2>4 DEF MadeFrom
  <2> HIDE DEF made
  <2> QED
    BY <2>2, <2>4, <2>5 DEF AskedInv
<1>2. ASSUME NEW t \in open, Complete(t), form' # None, Plain(form)'
      PROVE  \E E \in SUBSET AskedTimes(form) :
                First(E, AskedTimes(form)) /\ meetings' = {Instant(form.zone, w) : w \in E}
  <2>1. /\ Good(form) /\ series = SeriesOf(form) /\ t \in meetings
        /\ UNCHANGED <<db, series, form>>
    BY <1>2 DEF FormInv, Complete
  <2>2. Plain(form)
    BY <1>2, <2>1 DEF Plain, ReadBack
  <2>3. PICK E \in SUBSET AskedTimes(form) :
           First(E, AskedTimes(form)) /\ MadeFrom(E, form)
    BY <1>2, <2>1, <2>2 DEF AskedInv
  <2>4. CASE meetings' = meetings
    BY <2>3, <2>4 DEF MadeFrom
  <2>5. CASE meetings' = meetings \cup NextTimes(series, t)
    <3>1. PICK w \in E : t = Instant(form.zone, w)
      BY <2>1, <2>3 DEF MadeFrom
    <3> DEFINE next == Earliest(1, {v \in AskedTimes(form) : v > w})
    <3>2. NextTimes(series, t) = {Instant(form.zone, v) : v \in next}
      BY <2>1, <2>2, <3>1, NextIsAsked
    <3>3. First(E \cup next, AskedTimes(form))
      BY <2>1, <2>3, AskedApart, NextIsFirst
    <3> HIDE DEF next
    <3>4. meetings' = {Instant(form.zone, v) : v \in E \cup next}
      BY <2>3, <2>5, <3>2 DEF MadeFrom
    <3> QED
      BY <3>3, <3>4 DEF First
  <2> QED
    BY <1>2, <2>4, <2>5 DEF Complete
<1>3. ASSUME NEW t \in open, Complete(t) PROVE AskedInv'
  <2>1. form' = form
    BY <1>3 DEF Complete
  <2> QED
    BY <1>2, <1>3, <2>1 DEF AskedInv, MadeFrom
<1>4. CASE UNCHANGED vars
  BY <1>4 DEF vars, AskedInv, Plain, ReadBack, MadeFrom
<1> QED
  BY <1>1, <1>3, <1>4 DEF Next

(* However its meetings are completed, a series has a meeting at each of   *)
(* the first times its form asks for, and no other.                        *)
THEOREM Asked == Spec => []MeetingsAreAsked
<1>1. FormInv /\ AskedInv => MeetingsAreAsked
  <2> SUFFICES ASSUME FormInv, AskedInv, form # None, Plain(form)
               PROVE  meetings = {Instant(form.zone, w) :
                                    w \in Earliest(Cardinality(meetings), AskedTimes(form))}
      BY DEF MeetingsAreAsked, Plain
  <2>1. Good(form) /\ form.zone \in Zone
    BY DEF FormInv, Good, Form
  <2>2. PICK E \in SUBSET AskedTimes(form) :
           First(E, AskedTimes(form)) /\ MadeFrom(E, form)
    BY DEF AskedInv
  <2> DEFINE at == [w \in E |-> Instant(form.zone, w)]
  <2>3. at \in Bijection(E, meetings)
    <3>1. ASSUME NEW v \in E, NEW w \in E, at[v] = at[w] PROVE v = w
      <4>1. /\ v \in Int /\ w \in Int /\ Instant(form.zone, v) = Instant(form.zone, w)
            /\ v < w => v + 24 <= w
            /\ w < v => w + 24 <= v
        BY <2>1, <2>2, <3>1, AskedApart
      <4>2. Instant(form.zone, v) \in Int
        BY <2>1, <4>1, LocalInstant
      <4> QED
        BY <2>1, <4>1, <4>2, InstantsInOrder DEF Plain
    <3>2. \A w \in E : at[w] \in meetings
      BY <2>2 DEF MadeFrom
    <3>3. \A t \in meetings : \E w \in E : at[w] = t
      BY <2>2 DEF MadeFrom
    <3> QED
      BY <3>1, <3>2, <3>3 DEF Bijection, Injection, IsInjective, Surjection
  <2>4. IsFiniteSet(E)
    BY <2>1, AskedApart, FS_Subset
  <2>5. Cardinality(meetings) = Cardinality(E)
    BY <2>3, <2>4, FS_Bijection DEF ExistsBijection
  <2>6. E = Earliest(Cardinality(E), AskedTimes(form))
    BY <2>1, <2>2, AskedApart, FirstAreEarliest
  <2> QED
    BY <2>2, <2>5, <2>6 DEF MadeFrom
<1>2. Init => AskedInv
  BY DEF Init, AskedInv
<1> QED
  BY <1>1, <1>2, FormInit, FormStep, AskedStep, PTL DEF Spec
=============================================================================
