SPECIFICATION Spec
CONSTANTS
    Themes = {t1}
    Default = Default
    NoTheme = NoTheme
    MaxFetch = 1
    MaxPuts = 1
INVARIANT OffsetReset
CHECK_DEADLOCK FALSE
