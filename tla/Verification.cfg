SPECIFICATION FairSpec
CONSTANTS
    Collectors = {c1, xml}
    Forever = {xml}
    MaxCalls = 2
    MaxFreezes = 1
INVARIANT TypeOK
INVARIANT EveryScannerTicks
PROPERTY ScannersLeave
PROPERTY PermanentScannersStay
PROPERTY AbandonedAreDeleted
CHECK_DEADLOCK FALSE
