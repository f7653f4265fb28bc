CONSTANTS
    MaxTries = 3
    BaseDelay <- MCBaseDelay
    MaxDelay = 10
    JitterPercent = 25
    SecondaryDelay = 10
    AskedDelays <- MCAskedDelays
    NoDelay = NoDelay
SPECIFICATION RetrySpec
CHECK_DEADLOCK FALSE
INVARIANTS NeverEarly BoundedWait LostWriteIsNotRepeated
