SPECIFICATION FairSpec
CONSTANTS
    Configs <- MCDefault
    TableRows = {0}
    Connections = {TRUE}
    Verdicts = {FALSE}
    Commands = {}
    Faults = {}
PROPERTY CleanupStopsHeartbeat
CHECK_DEADLOCK FALSE
