\* Two backends, two calls, one rollover, a late, lost or repeated step.
CONSTANTS
    c1 = c1
    c2 = c2
    NoCall = NoCall
    Backends = {b1, b2}
    Calls <- TwoCalls
    Minutes <- TwoMinutes
    Allowance = 2
    MaxPeriods = 1
    RetryAfter = 1
    RetryWindow = 1
    Dedupe = 2
    PassLimit = 0
    MaxAttempts = 2
    MaxUpsets = 1
SPECIFICATION FairSpec
INVARIANTS CountersMatchLedger BilledOnce
PROPERTIES SettledStays PendingSettles CallIsRecorded
