SPECIFICATION Spec
CONSTANTS
    Configs <- MCDefault
    TableRows = {1}
    Connections = {TRUE}
    Verdicts = {FALSE}
    Commands = {"cancel"}
    Faults = {}
INVARIANT CancelNeverCrashes
CHECK_DEADLOCK FALSE
