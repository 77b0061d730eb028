----------------------------- MODULE MCSessions -----------------------------
(* Small instances of Sessions for TLC.                                      *)
EXTENDS Sessions, TLC

Symmetry == Permutations(Clients) \cup Permutations(Users)
              \cup Permutations(SessionIds) \cup Permutations(Workers)
=============================================================================
