--------------------------- MODULE MC_TokenClient ---------------------------
(* TokenClient for TLC: the configurations give the workers and the tokens *)
(* as model values.                                                        *)
EXTENDS TokenClient, TLC

\* The tokens and the workers are interchangeable (safety runs only).
MCSymmetry == Permutations(Token) \cup Permutations(Worker)
=============================================================================
