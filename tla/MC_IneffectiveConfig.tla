------------------------ MODULE MC_IneffectiveConfig ------------------------
(* Model values for IneffectiveConfig.                                     *)
EXTENDS IneffectiveConfig

CONSTANTS f1, f2

\* Two fields: f1 declared twice (in two structs of types.go, so the
\* second pattern overwrites the first), f2 declared as a pointer.
MC_Fields == {f1, f2}

MC_TypeLines == << [name |-> f1, shape |-> "plain"],
                   [name |-> f2, shape |-> "pointer"],
                   [name |-> f1, shape |-> "plain"] >>

LineOf(ctx, vt, vw, dc, dw, kw, as) ==
    [ctx |-> ctx, validationText |-> vt, validateWord |-> vw,
     defaultsCall |-> dc, defaultsWord |-> dw, keyword |-> kw, assign |-> as]

\* Representative lines of `grep -r \.F\b`, one per way the script's
\* substring tests can see a use:
\*   return c.F                    (in business logic)
\*   x := c.F                      (in business logic, no keyword)
\*   if c.F == "" {                (in business logic, matches \.F\s*=)
\*   c.F = 30                      (in the body of SetDefaults)
\*   if c.F < 0 {                  (in the body of Validate)
\*   return c.F.Validate()         (in the body of Validate)
\*   c.F = c.F.SetDefaults()       (in the body of SetDefaults)
MC_Lines ==
    { LineOf("Logic",       FALSE, FALSE, FALSE, FALSE, TRUE,  FALSE),
      LineOf("Logic",       FALSE, FALSE, FALSE, FALSE, FALSE, FALSE),
      LineOf("Logic",       FALSE, FALSE, FALSE, FALSE, FALSE, TRUE),
      LineOf("SetDefaults", FALSE, FALSE, FALSE, FALSE, FALSE, TRUE),
      LineOf("Validate",    FALSE, FALSE, FALSE, FALSE, FALSE, FALSE),
      LineOf("Validate",    TRUE,  TRUE,  FALSE, FALSE, TRUE,  FALSE),
      LineOf("SetDefaults", FALSE, FALSE, TRUE,  TRUE,  FALSE, TRUE) }

\* Grep outputs of up to two lines.
MC_UseSeqs == UNION {[1..n -> MC_Lines] : n \in 0..2}
=============================================================================
