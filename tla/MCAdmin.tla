------------------------------ MODULE MCAdmin ------------------------------
(* Instances of AdminAccess for TLC.                                       *)
EXTENDS AdminAccess, TLC

Symmetry == Permutations(Kid) \cup Permutations(Request)
            \cup Permutations(Login) \cup Permutations(Ip)
=============================================================================
