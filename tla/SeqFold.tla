------------------------------- MODULE SeqFold -------------------------------
(***************************************************************************)
(* Python's reductions over a list, as operators on sequences: a left     *)
(* fold (sum(...), max(...) and min(...) with a key) and the list         *)
(* comprehension with an `if` filter.  They are the FoldLeft and SelectSeq *)
(* of the library written as recursive functions, so that proofs can      *)
(* unfold them.                                                            *)
(***************************************************************************)
EXTENDS Naturals, Sequences

\* The function whose j-th value folds Op over the first j elements of s,
\* starting from base.
FoldPrefixes(Op(_, _), base, s) ==
    LET F[j \in 0 .. Len(s)] == IF j = 0 THEN base ELSE Op(F[j - 1], s[j])
    IN  F

\* Op(...Op(Op(base, s[1]), s[2])..., s[Len(s)]).
FoldSeq(Op(_, _), base, s) == FoldPrefixes(Op, base, s)[Len(s)]

\* [x for x in s if Test(x)]: the elements of s that pass Test, in order.
FilterSeq(s, Test(_)) ==
    FoldSeq(LAMBDA acc, x : IF Test(x) THEN Append(acc, x) ELSE acc, << >>, s)
=============================================================================
