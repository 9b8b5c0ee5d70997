SPECIFICATION Spec
CONSTANTS
    Database = {"postgres", "sqlite"}
    Zone = {"UTC", "NewYork", "Nuuk", "Sydney"}
    UTC = "UTC"
    Clock <- Clocks
    FirstDay = 1
    MonthStart <- Months
    StartDay <- SomeDays
    StartHour <- SomeHours
    Interval = {0, 1, 2, 366}
    WeekDays <- SomeWeekDays
    MonthDay = {0, 30, 31, 32}
    SetPos <- SomeSetPos
    Count = {1, 2}
    MaxMeetings = 4
    None = None
CHECK_DEADLOCK FALSE
INVARIANTS
    TypeOK
    MeetingsAreAsked
    DaysAsLabelled
