------------------------------ MODULE MCHeredoc ------------------------------
(* The shells are alike.                                                    *)
EXTENDS HeredocProperties, TLC

SymmetricShells == Permutations(Shells)
=============================================================================
