\* Safety and termination of the behavioral harness, with subjects that
\* may ignore SIGTERM.
CONSTANTS
    NC <- MC_NC
    Criteria <- MC_Criteria
    NoList = NoList
    CanHang = TRUE
    PipeCap <- MC_PipeCap
SPECIFICATION Spec
INVARIANT TypeOK
INVARIANT ServerConfinedToSuite
INVARIANT ResultsComplete
PROPERTY SavedSuitesComplete
PROPERTY Termination
