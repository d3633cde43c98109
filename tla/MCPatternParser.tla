-------------------------- MODULE MCPatternParser --------------------------
(* A bounded instance of PatternParser for TLC. *)
EXTENDS PatternParser

CONSTANT MaxText   \* bound: the longest text

MCTexts == UNION {[1..n -> Char] : n \in 0..MaxText}

=============================================================================
