--------------------------- MODULE MCEmailSendLimit ---------------------------
(* Callers are interchangeable.                                            *)
EXTENDS EmailSendLimit, TLC

Symmetry == Permutations(Callers)
==============================================================================
