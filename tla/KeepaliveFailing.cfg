SPECIFICATION FairSpec
CONSTANTS
    Interval = 4
    MaxDelay = 1
    ScanPeriod = 1
    Setups <- FailingSends
PROPERTY InterruptedExpires
