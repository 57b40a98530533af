SPECIFICATION FairSpec
CONSTANTS
    Configs <- MCDefault
    TableRows = {1}
    Connections = {TRUE}
    Verdicts = {TRUE, FALSE}
    Commands = {"cancel"}
    Faults = {"lock", "drop", "copy"}
PROPERTIES
    CancelEndsRun
    DestructorReturns
CHECK_DEADLOCK FALSE
