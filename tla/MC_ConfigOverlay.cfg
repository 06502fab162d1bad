\* Overrides applied to a config file give the overlay of their paths.
CONSTANTS
    MapNode = MapNode
    NullDoc = NullDoc
    Keys <- MC_Keys
    Values <- MC_Values
    Bases <- MC_Bases
    OverrideSeqs <- MC_OverrideSeqs
SPECIFICATION Spec
INVARIANT FileOverlayCorrect
