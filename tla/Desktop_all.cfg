\* Two processes at a time, launched again and again; up to two dialogs nested.
SPECIFICATION FairSpec
CONSTANTS
    Periods = 2
    PeriodDays = 8
    Base = 10
    Local <- ThisVersion
    Launches = {l1, l2}
    l1 = l1
    l2 = l2
    f = f
    g = g
    Worlds <- AllWorlds
    Nobody = Nobody
    NoVersion = NoVersion
    Folders = {f, g}
CHECK_DEADLOCK FALSE
INVARIANTS
    DesktopInv
    StatusTrue
PROPERTIES
    OpenShows
    ExitFreesName
