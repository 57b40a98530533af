SPECIFICATION Spec
CONSTANTS
    Configs <- MCDefault
    TableRows = {1}
    Connections = {TRUE}
    Verdicts = {FALSE}
    Commands = {}
    Faults = {}
INVARIANT AllRowsCopied
CHECK_DEADLOCK FALSE
