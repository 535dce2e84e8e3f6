SPECIFICATION FairSpec
CONSTANTS
    Themes = {t1, t2}
    Default = Default
    NoTheme = NoTheme
    MaxFetch = 2
    MaxPuts = 1
INVARIANTS
    TypeOK
    OneReading
    ThemeSticks
    CoverUsable
    BrokenOnlyFirst
PROPERTIES
    EmptiedByBlindPop
    BibleOpens
CHECK_DEADLOCK FALSE
