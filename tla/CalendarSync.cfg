CONSTANTS
    e1 = e1
    e2 = e2
    o1 = o1
    o2 = o2
    s1 = s1
    s2 = s2
    r1 = r1
    Event = {e1, e2}
    Time = {1, 2}
    Rule = {2}
    ByHand = {2}
    Row = {o1, o2}
    Syncer = {s1, s2}
    Reviewer = {r1}
    MaxVersion = 2
    Window = {0, 2}
    Cancelled = Cancelled
    AllDay = AllDay
    None = None
SPECIFICATION Spec
CONSTRAINTS
    OverlapsMissNothing
    OverlapsArePairs
SYMMETRY Symmetry
INVARIANTS
    TypeOK
    CursorCovers
    RejectedIsEmpty
    FollowsCalendarUnlessOverlapped
PROPERTIES
    NothingGoesBack
    DecisionIsFinal
