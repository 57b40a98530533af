SPECIFICATION FairSpec
CONSTANT Configured = {}
PROPERTY UnthrottleReleases
