SPECIFICATION AppSpec
CONSTANTS
    Themes = {t1, t2}
    Zero = t1
    Default = Default
    NoTheme = NoTheme
    MaxFetch = 1
    MaxPuts = 2
CONSTRAINT Explored
VIEW View
INVARIANTS
    AppTypeOK
    ShowsStored
CHECK_DEADLOCK FALSE
