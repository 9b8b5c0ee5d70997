SPECIFICATION Spec
CONSTANTS
    Database = {"sqlite"}
    Zone = {"UTC", "NewYork", "Nuuk", "Sydney"}
    UTC = "UTC"
    Clock <- Clocks
    FirstDay = 1
    MonthStart <- Months
    StartDay = {1}
    StartHour = {9}
    Interval = {1}
    WeekDays <- SomeWeekDays
    MonthDay = {0}
    SetPos <- SomeSetPos
    Count = {1, 2}
    MaxMeetings = 4
    None = None
CHECK_DEADLOCK FALSE
INVARIANTS
    MeetingsAsLabelled
