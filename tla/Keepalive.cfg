SPECIFICATION FairSpec
CONSTANTS
    Interval = 8
    MaxDelay = 1
    ScanPeriod = 2
    Setups <- AllSetups
INVARIANTS TypeOK KeptAlive
PROPERTIES SilentInterruptionExpires SessionEndsAtBoth
