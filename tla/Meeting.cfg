SPECIFICATION Spec
CONSTANTS
    Occurrence = {o1, o2, o3}
    Task = {t1, t2}
    Item = {i1}
    User = {u1}
    Owner = u0
    Session = {s1, s2}
    Rule <- OddTimes
    Endings <- Either
    ByHand <- SecondTime
    DueInput <- NoTimes
    Soon = 1
    None = None
CONSTRAINTS
    OverlapsGoOn
    ManyTasksMove
    ItemsOrInvitations
SYMMETRY Symmetry
INVARIANTS
    TypeOK
    NothingLeftBehind
    OneMeetingPerTime
    UrgentWorkIsSeen
    DueNotBeforeMeeting
PROPERTIES
    WorkMovesForward
    FinishedWorkStays
    ReadOnlyWhileRuleGoesOn
