SPECIFICATION FairSpec
CONSTANT Configured <- MCConditions
INVARIANT TypeOK
PROPERTIES
    ConditionKeepsThrottled
    UserThrottleHolds
    ReleasedAfterConditions
