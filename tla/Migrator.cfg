SPECIFICATION Spec
CONSTANTS
    Configs <- MCConfigs
    TableRows = {1}
    Connections = {TRUE, FALSE}
    Verdicts = {TRUE, FALSE}
    Commands = {"pause", "resume", "throttle", "unthrottle", "cancel", "panic"}
    Faults = {"setup", "createGhost", "createChangelog", "alterGhost", "inspectGhost", "inspectOriginal", "validate", "rowRange", "copy", "lock", "rename"}
INVARIANTS
    TypeOK
    CutOverOnlyWhenDrained
    LockReleased
    FailureDropsGhost
    DestroyedIsQuiet
PROPERTIES
    LifecycleSpec
    NoSwapAfterCancel
CHECK_DEADLOCK FALSE
