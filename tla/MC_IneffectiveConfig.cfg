\* The reports of the analyzer agree with is_effective().
CONSTANTS
    f1 = f1
    f2 = f2
    Fields <- MC_Fields
    TypeLines <- MC_TypeLines
    Lines <- MC_Lines
    UseSeqs <- MC_UseSeqs
SPECIFICATION Spec
INVARIANT TypeOK
INVARIANT ReportedAreIneffective
