\* generate_summary implements the summary contract of SummaryReport.
CONSTANTS
    v1 = v1
    v2 = v2
    NoVariant = NoVariant
    Variants <- MC_Variants
    Inputs <- MC_Inputs
    Metrics <- MC_Metrics
SPECIFICATION Spec
PROPERTY AbsSpec
