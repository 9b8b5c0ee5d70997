SPECIFICATION Spec
CONSTANTS
    Occurrence = {o1, o2, o3}
    Task = {t1}
    Item = {i1}
    User = {u0}
    Owner = u0
    Session = {s1, s2}
    Rule <- TwoTimes
    Endings <- GoesOn
    ByHand <- NoTimes
    DueInput <- NoTimes
    Soon = 1
    None = None
PROPERTIES
    CompletedIsReadOnly
