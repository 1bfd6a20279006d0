------------------------------ MODULE MCTokens ------------------------------
(* Instances of TokenLifecycle for TLC.                                    *)
EXTENDS TokenLifecycle, TLC

Symmetry == Permutations(Conn) \cup Permutations(Fam)
            \cup Permutations(Reader)
=============================================================================
