------------------------------ MODULE MCGroups ------------------------------
(* Small instances of Groups for TLC.                                        *)
EXTENDS Groups, TLC

Symmetry == Permutations(Users) \cup Permutations(Workers)
              \cup Permutations(Groups) \cup Permutations(Msgs) \cup Permutations(Codes)
=============================================================================
