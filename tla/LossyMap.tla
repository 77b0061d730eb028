------------------------------ MODULE LossyMap ------------------------------
(***************************************************************************)
(* What the callers of server_ht.h get from a table: a map that answers     *)
(* truthfully whether a key was there and never returns a value other than  *)
(* the one inserted, but whose deletions may take other keys with them.     *)
(***************************************************************************)
EXTENDS Functions

CONSTANTS Keys, Data

VARIABLES map,  \* the keys that are found, with their data
          ret   \* what the last call returned

Init == map = <<>> /\ ret = TRUE

(* false if the key already exists; nothing else is disturbed.              *)
Insert(k, d) ==
  \/ /\ k \in DOMAIN map
     /\ ret' = FALSE
     /\ UNCHANGED map
  \/ /\ k \notin DOMAIN map
     /\ ret' = TRUE
     /\ map' = [x \in DOMAIN map \cup {k} |-> IF x = k THEN d ELSE map[x]]

(* false if not found; otherwise the key goes, perhaps with others.         *)
Delete(k) ==
  \/ /\ k \notin DOMAIN map
     /\ ret' = FALSE
     /\ UNCHANGED map
  \/ /\ k \in DOMAIN map
     /\ ret' = TRUE
     /\ \E kept \in SUBSET (DOMAIN map \ {k}) : map' = Restrict(map, kept)

Next == \E k \in Keys : Delete(k) \/ \E d \in Data : Insert(k, d)

Spec == Init /\ [][Next]_<<map, ret>>
=============================================================================
