------------------------- MODULE MCSeriesRecurrence -------------------------
(* Small instances of SeriesRecurrence for TLC: the first half of 2030.    *)
EXTENDS SeriesRecurrence

(* Day 0 is Tuesday, January 1; a last month is needed to end June.        *)
Months == {0, 31, 59, 90, 120, 151, 181}

(* Hours since then, in UTC, of the changes of March 10 at 07:00 in New    *)
(* York, of March 31 at 01:00 in Nuuk, where the last hour of March 30 is  *)
(* skipped, and of April 6 at 16:00 in Sydney.                             *)
Clocks ==
    [z \in {"UTC", "NewYork", "Nuuk", "Sydney"} |->
        CASE z = "UTC" -> [at |-> 0, before |-> 0, after |-> 0]
          [] z = "NewYork" -> [at |-> 68 * 24 + 7, before |-> -5, after |-> -4]
          [] z = "Nuuk" -> [at |-> 89 * 24 + 1, before |-> -2, after |-> -1]
          [] z = "Sydney" -> [at |-> 95 * 24 + 16, before |-> 11, after |-> 10]]

(* January 2 and 31, March 8 and 10, April 5 and 7.                        *)
SomeDays == {1, 30, 66, 68, 94, 96}

(* Midnight, an hour one clock skips and another shows twice, and two that *)
(* are on another day in UTC.                                              *)
SomeHours == {0, 2, 9, 23}

SomeWeekDays == {{}, {0}, {6}, {0, 3}}
SomeSetPos == {{}, {1, 3}, {5}, {4, -1}, {6}}
=============================================================================
