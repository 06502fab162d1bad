---------------------- MODULE IneffectiveConfigProofs ----------------------
(***************************************************************************)
(* Proofs about the classification of detect_ineffective_config.py.       *)
(***************************************************************************)
EXTENDS IneffectiveConfig, SeqFoldProofs, SequenceTheorems, TLAPS

\* str.split('\n') of grep output of the modelled lines is a sequence of
\* such lines: the empty string it leaves last is one.
LEMMA SplitLinesType ==
  ASSUME NEW out \in Seq(Line)
  PROVE  SplitLines(out) \in Seq(Line)
<1>1. EmptyLine \in Line
  BY DEF EmptyLine, Line, Ctx
<1>2. QED
  BY <1>1 DEF SplitLines

\* FieldUsagePattern.__init__ gives a pattern, and each check's update of
\* a pattern keeps it one: a flag or-ed with a test, a list extended with
\* grep lines.
LEMMA NewPatternType == NewPattern \in Pattern
BY DEF NewPattern, Pattern

LEMMA ValidationUpdateType ==
  ASSUME NEW p \in Pattern, NEW X
  PROVE  [p EXCEPT !.validation = @ \/ X] \in Pattern
BY DEF Pattern

LEMMA DefaultsUpdateType ==
  ASSUME NEW p \in Pattern, NEW X, NEW w \in Seq(Line)
  PROVE  [p EXCEPT !.setdefaults = @ \/ X, !.written = @ \o w] \in Pattern
<1>1. p.written \o w \in Seq(Line)
  BY ConcatProperties DEF Pattern
<1>2. QED
  BY <1>1 DEF Pattern

LEMMA LogicUpdateType ==
  ASSUME NEW p \in Pattern, NEW w \in Seq(Line)
  PROVE  [p EXCEPT !.logic = @ \o w] \in Pattern
<1>1. p.logic \o w \in Seq(Line)
  BY ConcatProperties DEF Pattern
<1>2. QED
  BY <1>1 DEF Pattern

\* The FieldUsagePattern that analyze_field_effectiveness builds for a
\* field from its grep output: the three checks fill written_to and
\* used_in_logic with grep lines and set the two flags to Booleans.
LEMMA AnalyzedPatternType ==
  ASSUME NEW f \in Fields, uses \in [Fields -> Seq(Line)]
  PROVE  AnalyzedPattern(f) \in Pattern
<1> DEFINE u == uses[f]
           v == CheckValidationUsage(NewPattern, f)
           d == CheckDefaultsUsage(v, f)
           a == FilterSeq(u, LAMBDA l : l.assign)
           w == FilterSeq(SplitLines(a), LAMBDA l : ~l.defaultsCall)
           g == FilterSeq(SplitLines(u), LAMBDA l : l.keyword /\ ~l.validateWord
                                                  /\ ~l.defaultsWord)
<1>1. u \in Seq(Line)
  BY DEF u
<1>2. a \in Seq(Line)
  BY <1>1, FilterSeqType DEF a
<1>3. SplitLines(a) \in Seq(Line) /\ SplitLines(u) \in Seq(Line)
  BY <1>1, <1>2, SplitLinesType
<1>4. w \in Seq(Line) /\ g \in Seq(Line)
  BY <1>3, FilterSeqType DEF w, g
<1>5. v \in Pattern
  BY NewPatternType, ValidationUpdateType DEF v, CheckValidationUsage
<1>6. d \in Pattern
  BY <1>4, <1>5, DefaultsUpdateType DEF d, w, a, u, CheckDefaultsUsage
<1>7. QED
  BY <1>4, <1>6, LogicUpdateType DEF AnalyzedPattern, d, v, g, u,
                                     CheckFunctionalUsage

\* The loop structure the classification relies on: the three reports only
\* hold visited names, the patterns stay put once the classification loop
\* has begun (nothing is visited while the analysis loop runs), and the
\* Boolean flags of every stored pattern are Booleans.
LoopInv ==
    /\ pc \in PcValues
    /\ classified \subseteq DOMAIN patterns
    /\ ineffective \cup validatedOnly \cup defaultsOnly \subseteq classified
    /\ pc = "analyze" => classified = {}
    /\ \A f \in DOMAIN patterns : /\ patterns[f].validation \in BOOLEAN
                                  /\ patterns[f].setdefaults \in BOOLEAN

IInv == LoopInv /\ ReportedAreIneffective

\* A score below the validated-only and defaults-only threshold of
\* lines 159 and 161 leaves no logic use, no call argument and no method
\* read, so is_effective() is false.
LEMMA LowScoreIneffective ==
    ASSUME NEW p, p.validation \in BOOLEAN, p.setdefaults \in BOOLEAN,
           EffectivenessScore(p) < 10
    PROVE  ~IsEffective(p)
<1>1. p.logic = << >> /\ p.passed = << >> /\ p.method = << >>
  BY DEF EffectivenessScore, Weight
<1>. QED  BY <1>1 DEF IsEffective

\* Every pattern the analysis stores has Boolean flags.
LEMMA AnalyzedFlags ==
    ASSUME NEW f
    PROVE  /\ AnalyzedPattern(f).validation \in BOOLEAN
           /\ AnalyzedPattern(f).setdefaults \in BOOLEAN
BY DEF AnalyzedPattern, CheckFunctionalUsage, CheckDefaultsUsage,
       CheckValidationUsage, NewPattern

LEMMA InitIInv == Init => IInv
BY DEF Init, IInv, LoopInv, ReportedAreIneffective, PcValues

LEMMA NextIInv == IInv /\ [Next]_vars => IInv'
<1> SUFFICES ASSUME IInv, [Next]_vars PROVE IInv'
  OBVIOUS
<1>1. CASE AnalyzeLine
  <2>1. classified' = {} /\ ineffective' \cup validatedOnly' \cup defaultsOnly' = {}
    BY <1>1 DEF AnalyzeLine, IInv, LoopInv
  <2>2. \A f \in DOMAIN patterns' : /\ patterns'[f].validation \in BOOLEAN
                                    /\ patterns'[f].setdefaults \in BOOLEAN
    BY <1>1, AnalyzedFlags DEF AnalyzeLine, Put, IInv, LoopInv
  <2>. QED  BY <1>1, <2>1, <2>2 DEF AnalyzeLine, IInv, LoopInv,
                ReportedAreIneffective, PcValues
<1>2. CASE FinishAnalysis
  BY <1>2 DEF FinishAnalysis, IInv, LoopInv, ReportedAreIneffective, PcValues
<1>3. ASSUME NEW n \in DOMAIN patterns, ClassifyField(n) PROVE IInv'
  <2>. DEFINE p == patterns[n]
  <2>1. patterns' = patterns /\ pc' = pc /\ pc = "classify"
    BY <1>3 DEF ClassifyField
  <2>2. p.validation \in BOOLEAN /\ p.setdefaults \in BOOLEAN
    BY DEF IInv, LoopInv
  <2>3. ASSUME NEW m \in ineffective' \cup validatedOnly' \cup defaultsOnly',
               m \notin ineffective \cup validatedOnly \cup defaultsOnly
        PROVE  m = n /\ EffectivenessScore(p) < 10
    BY <1>3, <2>3 DEF ClassifyField, EffectivenessScore, Weight
  <2>4. LoopInv'
    BY <1>3, <2>1 DEF ClassifyField, IInv, LoopInv
  <2>5. ReportedAreIneffective'
    <3> SUFFICES ASSUME NEW m \in ineffective' \cup validatedOnly' \cup defaultsOnly'
                 PROVE  ~IsEffective(patterns'[m])
      BY DEF ReportedAreIneffective
    <3>1. CASE m \in ineffective \cup validatedOnly \cup defaultsOnly
      BY <3>1, <2>1 DEF IInv, ReportedAreIneffective
    <3>2. CASE m \notin ineffective \cup validatedOnly \cup defaultsOnly
      BY <3>2, <2>1, <2>2, <2>3, LowScoreIneffective
    <3>. QED  BY <3>1, <3>2
  <2>. QED  BY <2>4, <2>5 DEF IInv
<1>4. CASE PrintReport
  BY <1>4 DEF PrintReport, IInv, LoopInv, ReportedAreIneffective, PcValues
<1>5. CASE Done \/ UNCHANGED vars
  BY <1>5 DEF Done, vars, IInv, LoopInv, ReportedAreIneffective
<1>. QED  BY <1>1, <1>2, <1>3, <1>4, <1>5 DEF Next

\* The invariant of the analyzer holds in every reachable state.
THEOREM IInvInvariant == Spec => []IInv
BY InitIInv, NextIInv, PTL DEF Spec

\* For every types.go and every Go source tree, no field that the script
\* reports as totally ineffective, validated-only or defaults-only passes
\* its own is_effective() test.
THEOREM ReportedIneffectiveInvariant == Spec => []ReportedAreIneffective
BY IInvInvariant, PTL DEF IInv

-----------------------------------------------------------------------------
(* Type correctness.                                                       *)

LEMMA InitTypeOK == Init => TypeOK
<1> SUFFICES ASSUME Init PROVE TypeOK
  OBVIOUS
<1>1. UseSeqs \subseteq Seq(Line)
  <2> SUFFICES ASSUME NEW q \in UseSeqs PROVE q \in Seq(Line)
    OBVIOUS
  <2>1. q \in Seq(Lines) /\ Lines \subseteq Line
    BY ConstantsAssumption
  <2>2. QED
    BY <2>1, SeqMonotonic
<1>2. uses \in [Fields -> Seq(Line)]
  BY <1>1 DEF Init
<1>3. QED
  BY <1>2 DEF Init, TypeOK, PcValues

LEMMA NextTypeOK == TypeOK /\ [Next]_vars => TypeOK'
<1> SUFFICES ASSUME TypeOK, [Next]_vars PROVE TypeOK'
  OBVIOUS
<1>1. CASE AnalyzeLine
  <2>1. i \in 1 .. Len(TypeLines)
    BY <1>1 DEF AnalyzeLine, TypeOK
  <2> DEFINE nm == TypeLines[i].name
  <2>2. nm \in Fields
    <3>1. TypeLines[i] \in [name : Fields, shape : Shapes]
      BY <2>1, ConstantsAssumption, ElementOfSeq
    <3>2. QED
      BY <3>1 DEF nm
  <2>3. AnalyzedPattern(nm) \in Pattern
    BY <2>2, AnalyzedPatternType DEF TypeOK
  <2>4. DOMAIN patterns' \subseteq Fields /\ DOMAIN patterns \subseteq DOMAIN patterns'
        /\ \A x \in DOMAIN patterns' : patterns'[x] \in Pattern
    <3>1. CASE Matches(TypeLines[i])
      <4>1. patterns' = Put(patterns, nm, AnalyzedPattern(nm))
        BY <1>1, <3>1 DEF AnalyzeLine, nm
      <4>2. QED
        BY <2>2, <2>3, <4>1 DEF Put, TypeOK
    <3>2. CASE ~Matches(TypeLines[i])
      BY <1>1, <3>2 DEF AnalyzeLine, TypeOK
    <3>3. QED
      BY <3>1, <3>2
  <2>5. QED
    BY <1>1, <2>4 DEF AnalyzeLine, TypeOK
<1>2. CASE FinishAnalysis
  BY <1>2 DEF FinishAnalysis, TypeOK, PcValues
<1>3. CASE \E n \in DOMAIN patterns : ClassifyField(n)
  <2>1. PICK n \in DOMAIN patterns : ClassifyField(n)
    BY <1>3
  <2>2. classified' = classified \cup {n}
        /\ ineffective' \subseteq ineffective \cup {n}
        /\ validatedOnly' \subseteq validatedOnly \cup {n}
        /\ defaultsOnly' \subseteq defaultsOnly \cup {n}
        /\ UNCHANGED <<pc, i, uses, patterns>>
    BY <2>1 DEF ClassifyField
  <2>3. QED
    BY <2>1, <2>2 DEF TypeOK
<1>4. CASE PrintReport
  BY <1>4 DEF PrintReport, TypeOK, PcValues
<1>5. CASE Done \/ UNCHANGED vars
  BY <1>5 DEF Done, vars, TypeOK
<1>6. QED
  BY <1>1, <1>2, <1>3, <1>4, <1>5 DEF Next

\* The state of the script keeps its types in every run: the loop index
\* stays a positive line number, every stored FieldUsagePattern has Boolean
\* flags and lists of grep lines, and every field name the classification
\* loop visits or a report lists is a key of patterns.
THEOREM TypeCorrect == Spec => []TypeOK
BY InitTypeOK, NextTypeOK, PTL DEF Spec
=============================================================================
