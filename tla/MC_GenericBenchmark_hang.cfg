CONSTANTS
    NV <- MC_NV
    NP <- MC_NP
    NS <- MC_NS
    Iterations <- MC_Iterations
    PrimaryMetric = "quality"
    CanHang = TRUE


SPECIFICATION Spec

PROPERTY Termination

\* A server that ignores SIGTERM blocks wait() for ever: the harness
\* really stops there.
CHECK_DEADLOCK FALSE
