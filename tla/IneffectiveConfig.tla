-------------------------- MODULE IneffectiveConfig --------------------------
(***************************************************************************)
(* The config-field effectiveness analyzer of                              *)
(* src/tools/detect_ineffective_config.py.                                 *)
(*                                                                         *)
(* analyze_field_effectiveness greps the `yaml:` lines of types.go; for    *)
(* every line its regular expression matches it builds a                   *)
(* FieldUsagePattern from three further greps of the Go sources, and      *)
(* stores it under the field's name.  The main block then scores every    *)
(* pattern and sorts the low scores into three reports.                    *)
(*                                                                         *)
(* A line of grep output is abstracted to what the script's substring     *)
(* tests see in it, together with the function it sits in (ctx), which    *)
(* the script cannot see and which says what the tool means to detect.   *)
(***************************************************************************)
EXTENDS Naturals, Sequences, SeqFold

CONSTANTS
    Fields,      \* names of config fields
    TypeLines,   \* the yaml: lines of types.go, in grep order
    Lines,       \* the grep output lines the Go sources may contain
    UseSeqs      \* the possible outputs of `grep -r \.F\b` for one field

\* The enclosing function of a line of Go code.
Ctx == {"Validate", "SetDefaults", "Logic", "None"}

\* A line of grep output, by the substring tests of the script:
\*   validationText  'Validate()' in line or 'if.*< 0' in line or
\*                   'if.*==' in line (line 107)
\*   validateWord    'Validate' in line (line 134)
\*   defaultsCall    'SetDefaults()' in line (line 118)
\*   defaultsWord    'SetDefaults' in line (line 134)
\*   keyword         one of functional_keywords is in line (line 133)
\*   assign          the line also matches `\.F\s*=` (line 113)
Line == [ctx : Ctx, validationText : BOOLEAN, validateWord : BOOLEAN,
         defaultsCall : BOOLEAN, defaultsWord : BOOLEAN,
         keyword : BOOLEAN, assign : BOOLEAN]

\* The declared type of a field: `Name string`, `Name *T` or `Name []T`.
Shapes == {"plain", "pointer", "slice"}

ASSUME ConstantsAssumption ==
    /\ TypeLines \in Seq([name : Fields, shape : Shapes])
    /\ Lines \subseteq Line
    /\ UseSeqs \subseteq Seq(Lines)

\* The empty string that str.split('\n') leaves after the last newline of
\* grep's output, and returns alone for an empty output.
EmptyLine == [ctx |-> "None", validationText |-> FALSE,
              validateWord |-> FALSE, defaultsCall |-> FALSE,
              defaultsWord |-> FALSE, keyword |-> FALSE, assign |-> FALSE]

\* result.stdout.split('\n') of a grep whose output is the lines out.
SplitLines(out) == Append(out, EmptyLine)

\* Names of the methods read_in_method would list, by the test of line 40.
MethodKinds == {"Validate", "SetDefaults", "Other"}

\* FieldUsagePattern: the attributes the scoring reads.
Pattern == [validation : BOOLEAN, setdefaults : BOOLEAN,
            method : Seq(MethodKinds), written : Seq(Line),
            passed : Seq(Line), logic : Seq(Line)]

\* FieldUsagePattern.__init__.
NewPattern == [validation |-> FALSE, setdefaults |-> FALSE,
               method |-> << >>, written |-> << >>, passed |-> << >>,
               logic |-> << >>]

PcValues == {"analyze", "classify", "done"}

VARIABLES
    pc,             \* analysis, classification loop, report printed
    i,              \* next line of TypeLines
    uses,           \* uses[f]: output of `grep -r \.f\b pkg/ --include=*.go`
    patterns,       \* the dict patterns, from field name to pattern
    classified,     \* names the classification loop has visited
    ineffective,    \* names in the report lists of lines 150-152
    validatedOnly,
    defaultsOnly

vars == <<pc, i, uses, patterns, classified, ineffective, validatedOnly,
          defaultsOnly>>

-----------------------------------------------------------------------------
(* The three grep checks of one field.                                     *)

\* check_validation_usage: any line of the `\.F\b` grep that passes the
\* substring test of line 107 sets read_in_validation.
CheckValidationUsage(p, f) ==
    LET out == SplitLines(uses[f])
    IN  [p EXCEPT !.validation =
                      @ \/ \E j \in DOMAIN out : out[j].validationText]

\* check_defaults_usage: over the `\.F\s*=` grep, a line naming
\* SetDefaults() sets read_in_setdefaults, every other line, the empty
\* one after the last newline included, is appended to written_to.
CheckDefaultsUsage(p, f) ==
    LET out == SplitLines(FilterSeq(uses[f], LAMBDA l : l.assign))
    IN  [p EXCEPT !.setdefaults = @ \/ \E j \in DOMAIN out : out[j].defaultsCall,
                  !.written = @ \o FilterSeq(out, LAMBDA l : ~l.defaultsCall)]

\* Mutant: the matching lines appended as one entry (append for extend).
CheckFunctionalUsageAppendAll(p, f) ==
    LET out == SplitLines(uses[f])
    IN  [p EXCEPT !.logic =
                      Append(@, FilterSeq(out, LAMBDA l : l.keyword /\ ~l.validateWord
                                                          /\ ~l.defaultsWord))]

\* check_functional_usage: a line with a functional keyword and neither
\* 'Validate' nor 'SetDefaults' is appended to used_in_logic.
CheckFunctionalUsage(p, f) ==
    LET out == SplitLines(uses[f])
    IN  [p EXCEPT !.logic =
                      @ \o FilterSeq(out, LAMBDA l : l.keyword /\ ~l.validateWord
                                                     /\ ~l.defaultsWord)]

\* The pattern analyze_field_effectiveness stores for field f.
AnalyzedPattern(f) ==
    CheckFunctionalUsage(CheckDefaultsUsage(CheckValidationUsage(NewPattern, f), f), f)

\* The regular expression of line 83, (\w+)\s+\w+.*yaml:"...", needs a
\* word character right after the blank that follows the name: it
\* misses `Name *T` and `Name []T`.
Matches(tl) == tl.shape = "plain"

\* patterns[f"{field_name}"] = pattern: insert or overwrite.
Put(fn, k, v) == [x \in DOMAIN fn \cup {k} |-> IF x = k THEN v ELSE fn[x]]

-----------------------------------------------------------------------------
(* Scoring.                                                                *)

Weight(b, w) == IF b THEN w ELSE 0

\* FieldUsagePattern.effectiveness_score.
EffectivenessScore(p) ==
    LET s == Weight(p.logic # << >>, 50) + Weight(p.passed # << >>, 30)
             + Weight(p.method # << >>, 10) + Weight(p.written # << >>, 5)
             + Weight(p.validation, 3) + Weight(p.setdefaults, 2)
    IN  IF s < 100 THEN s ELSE 100

\* FieldUsagePattern.is_effective.
IsEffective(p) ==
    \/ p.logic # << >>
    \/ p.passed # << >>
    \/ /\ p.method # << >>
       /\ ~\A j \in DOMAIN p.method : p.method[j] \in {"Validate", "SetDefaults"}

-----------------------------------------------------------------------------
\* The main block before its first loop; the grep outputs are whatever
\* the Go sources give.
Init ==
    /\ pc = "analyze"
    /\ i = 1
    /\ uses \in [Fields -> UseSeqs]
    /\ patterns = [f \in {} |-> NewPattern]
    /\ classified = {}
    /\ ineffective = {}
    /\ validatedOnly = {}
    /\ defaultsOnly = {}

\* One iteration of the loop of lines 80-95 over the yaml: lines.
AnalyzeLine ==
    /\ pc = "analyze"
    /\ i <= Len(TypeLines)
    /\ patterns' = IF Matches(TypeLines[i])
                   THEN Put(patterns, TypeLines[i].name,
                            AnalyzedPattern(TypeLines[i].name))
                   ELSE patterns
    /\ i' = i + 1
    /\ UNCHANGED <<pc, uses, classified, ineffective, validatedOnly,
                   defaultsOnly>>

\* analyze_field_effectiveness returns patterns.
FinishAnalysis ==
    /\ pc = "analyze"
    /\ i > Len(TypeLines)
    /\ pc' = "classify"
    /\ UNCHANGED <<i, uses, patterns, classified, ineffective, validatedOnly,
                   defaultsOnly>>

\* Mutant: the validated-only branch without its score guard.
ClassifyFieldNoScoreGuard(n) ==
    LET p == patterns[n]
        s == EffectivenessScore(p)
    IN  /\ pc = "classify"
        /\ n \notin classified
        /\ classified' = classified \cup {n}
        /\ ineffective' = IF s = 0 THEN ineffective \cup {n} ELSE ineffective
        /\ validatedOnly' = IF s # 0 /\ p.validation
                            THEN validatedOnly \cup {n} ELSE validatedOnly
        /\ defaultsOnly' = IF s # 0 /\ ~p.validation /\ s < 10 /\ p.setdefaults
                           THEN defaultsOnly \cup {n} ELSE defaultsOnly
        /\ UNCHANGED <<pc, i, uses, patterns>>

\* One iteration of the loop of lines 154-162: the if/elif/elif chain on
\* the score.
ClassifyField(n) ==
    LET p == patterns[n]
        s == EffectivenessScore(p)
    IN  /\ pc = "classify"
        /\ n \notin classified
        /\ classified' = classified \cup {n}
        /\ ineffective' = IF s = 0 THEN ineffective \cup {n} ELSE ineffective
        /\ validatedOnly' = IF s # 0 /\ s < 10 /\ p.validation
                            THEN validatedOnly \cup {n} ELSE validatedOnly
        /\ defaultsOnly' = IF s # 0 /\ s < 10 /\ ~p.validation /\ p.setdefaults
                           THEN defaultsOnly \cup {n} ELSE defaultsOnly
        /\ UNCHANGED <<pc, i, uses, patterns>>

\* The loop is over; lines 164-169 print the three counts.
PrintReport ==
    /\ pc = "classify"
    /\ classified = DOMAIN patterns
    /\ pc' = "done"
    /\ UNCHANGED <<i, uses, patterns, classified, ineffective, validatedOnly,
                   defaultsOnly>>

Done ==
    /\ pc = "done"
    /\ UNCHANGED vars

Next ==
    \/ AnalyzeLine
    \/ FinishAnalysis
    \/ \E n \in DOMAIN patterns : ClassifyField(n)
    \/ PrintReport
    \/ Done

Spec == Init /\ [][Next]_vars

-----------------------------------------------------------------------------
(* Properties.                                                             *)

TypeOK ==
    /\ pc \in PcValues
    /\ i \in Nat \ {0}
    /\ uses \in [Fields -> Seq(Line)]
    /\ DOMAIN patterns \subseteq Fields
    /\ \A f \in DOMAIN patterns : patterns[f] \in Pattern
    /\ classified \subseteq DOMAIN patterns
    /\ ineffective \cup validatedOnly \cup defaultsOnly \subseteq classified

\* The two tests of the same class agree: no field the report lists as
\* ineffective, validated but unused, or defaults but unused passes
\* is_effective() (the score thresholds of lines 157-161 against the
\* conditions of lines 34-42).
ReportedAreIneffective ==
    \A n \in ineffective \cup validatedOnly \cup defaultsOnly :
        ~IsEffective(patterns[n])

=============================================================================
