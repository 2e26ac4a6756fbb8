SPECIFICATION Spec
CONSTANTS
    Raw = {r}
    Plain = {p}
    Names = {n}
    WithTests = {TRUE}
    Sessions = {TRUE, FALSE}
    Goals = {2}
    MaxFixes = 1
    MaxContinues = 1
    MaxUpsets = 1
PROPERTIES StepsVerified CommitsKept EditsKept RunEnds
CHECK_DEADLOCK FALSE
