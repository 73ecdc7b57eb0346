\* Friday to Monday, every kind of settings, changed at any time.
SPECIFICATION Spec
CONSTANTS
    MinutesPerHour = 3
    HoursPerDay = 2
    FirstWeekday = 4
    Settings <- AllSettings
    SaveCanFail = FALSE
    MaxGap = 2
    Horizon = 26
CHECK_DEADLOCK FALSE
INVARIANTS
    RunsAreForPlan
    AtMostOnce
    OnTime
    CaughtUpSameDay
