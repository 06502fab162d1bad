CONSTANTS
    NV <- MC_NV
    NP <- MC_NP
    NS <- MC_NS
    Iterations <- MC_Iterations
    PrimaryMetric = "quality"
    CanHang = FALSE


SPECIFICATION Spec

INVARIANT FailureIsolation
