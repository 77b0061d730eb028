----------------------------- MODULE MCUploads -----------------------------
(* Small instances of Uploads for TLC.                                       *)
EXTENDS Uploads, TLC

Symmetry == Permutations(Workers) \cup Permutations(Users) \cup Permutations(Tokens)
              \cup Permutations(Hashes) \cup Permutations(Msgs)
=============================================================================
