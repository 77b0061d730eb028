------------------------------ MODULE MCEvents ------------------------------
(* Small instances of Events for TLC.                                        *)
EXTENDS Events, TLC

Symmetry == Permutations(Workers) \cup Permutations(Clients) \cup Permutations(Timers)
              \cup Permutations(Fds)
=============================================================================
