CONSTANTS
    NC <- MC_NC
    Criteria <- MC_Criteria
    NoList = NoList
    CanHang = TRUE
    PipeCap <- MC_PipeCap
SPECIFICATION Spec
INVARIANT SummaryWritten
