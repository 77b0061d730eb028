----------------------------- MODULE HashTable -----------------------------
(***************************************************************************)
(* The generic hash table of server_ht.c (server_ght_t): an array of        *)
(* buckets that hold their first entry and chain the others, doubled and    *)
(* halved by its load.  Clients, users, sessions, events, upload tokens and *)
(* commands are all found through such a table.  Every operation holds the  *)
(* table's mutex from start to end, so it is one step.                      *)
(*                                                                          *)
(* A bucket is the sequence of the entries reachable from its array slot; a *)
(* slot without data is zeroed and so has key 0.                            *)
(***************************************************************************)
EXTENDS Integers, Sequences, FiniteSets, Functions

CONSTANTS Keys,     \* the keys in use (u64 in the program)
          Data,     \* what a key may be bound to: pointers, never NULL
          Null,
          MinSize,  \* initial_size, below which the table never shrinks
          CountMod  \* 2^64: ht->count is a size_t

ASSUME KeysAssumption == Keys \subseteq Nat
ASSUME NullAssumption == Null \notin Data
ASSUME MinSizeAssumption == MinSize \in Nat \ {0}
ASSUME CountModAssumption == CountMod \in Nat \ {0, 1}

VARIABLES ht,   \* server_ght_t: table, size, count
          ret   \* what the last insert or delete returned

vars == <<ht, ret>>

Entry == [key : Keys, data : Data]

EmptyTable(size) ==
  [table |-> [i \in 0 .. size - 1 |-> <<>>], size |-> size, count |-> 0]

(* server_ght_init                                                          *)
Init == ht = EmptyTable(MinSize) /\ ret = TRUE

-----------------------------------------------------------------------------
ght_hash(h, key) == key % h.size

Bucket(h, key) == h.table[ght_hash(h, key)]

HeadKey(bucket) == IF bucket = <<>> THEN 0 ELSE bucket[1].key

(* Positions of a key in a bucket behind the head.                          *)
InChain(bucket, key) == {i \in 2 .. Len(bucket) : bucket[i].key = key}

(* Mutant: only the head of a chain is compared.                            *)
RefusesHeadOnly(h, key) == HeadKey(Bucket(h, key)) = key

(* The head's key is compared before it is known whether there is a head.   *)
Refuses(h, key) ==
  \/ HeadKey(Bucket(h, key)) = key
  \/ InChain(Bucket(h, key), key) # {}

ght_insert(h, key, data) ==
  IF Refuses(h, key) THEN h
  ELSE [h EXCEPT !.table[ght_hash(h, key)] = Append(@, [key |-> key, data |-> data]),
                 !.count = @ + 1]

(* Every entry, in the order in which GHT_FOREACH and ght_resize visit them. *)
Entries(h) ==
  LET listed[n \in 0 .. h.size] == IF n = 0 THEN <<>> ELSE listed[n - 1] \o h.table[n - 1]
  IN listed[h.size]

(* A new table, into which the entries move one ght_insert at a time.       *)
Moved(h, size) ==
  LET es == Entries(h)
      moved[n \in 0 .. Len(es)] ==
        IF n = 0 THEN EmptyTable(size) ELSE ght_insert(moved[n - 1], es[n].key, es[n].data)
  IN moved[Len(es)]

(* Mutant: the table shrinks below its minimum.                             *)
ResizeBelowMin(h, new_size) ==
  IF new_size = h.size THEN h ELSE Moved(h, new_size)

(* Mutant: the buckets are kept where they were.                            *)
ResizeWithoutRehash(h, new_size) ==
  IF new_size <= h.size THEN h
  ELSE [h EXCEPT !.size = new_size,
                 !.table = [i \in 0 .. new_size - 1 |->
                              IF i < h.size THEN h.table[i] ELSE <<>>]]

(* No smaller than the initial size, and nothing to do for the same size.   *)
ght_resize(h, new_size) ==
  LET size == IF new_size < MinSize THEN MinSize ELSE new_size IN
  IF size = h.size THEN h ELSE Moved(h, size)

(* Mutant: the table grows only when it is full.                            *)
GrowWhenFull(h) ==
  IF h.count > h.size THEN ght_resize(h, 2 * h.size)
  ELSE IF 10 * h.count < 2 * h.size THEN ght_resize(h, h.size \div 2)
  ELSE h

(* The load is count / size; it must stay between 0.2 and 0.7.              *)
ght_check_load(h) ==
  IF 10 * h.count > 7 * h.size THEN ght_resize(h, 2 * h.size)
  ELSE IF 10 * h.count < 2 * h.size THEN ght_resize(h, h.size \div 2)
  ELSE h

(* ght_del_bucket: what is left of the bucket, one entry less in the count  *)
(* (which wraps below zero).                                                *)
ght_del_bucket(h, key, bucket) ==
  ght_check_load([h EXCEPT !.table[ght_hash(h, key)] = bucket,
                           !.count = (@ + CountMod - 1) % CountMod])

-----------------------------------------------------------------------------
server_ght_insert(key, data) ==
  /\ ret' = ~Refuses(ht, key)
  /\ ht' = IF ret' THEN ght_check_load(ght_insert(ht, key, data)) ELSE ht

server_ght_get(h, key) ==
  LET bucket == Bucket(h, key)
      found  == {e \in Range(bucket) : e.key = key}
  IN IF found = {} THEN Null ELSE bucket[
       CHOOSE i \in DOMAIN bucket :
         bucket[i].key = key /\ \A j \in 1 .. i - 1 : bucket[j].key # key].data

(* Deleting the head moves its successor into the array.  Deleting behind   *)
(* the head ends the chain there (prev->next = NULL): the entries behind    *)
(* the deleted one are no longer reachable.                                 *)
server_ght_del(key) ==
  LET bucket == Bucket(ht, key)
      chain  == InChain(bucket, key)
  IN
  \/ /\ HeadKey(bucket) = key
     /\ ret' = TRUE
     /\ ht' = ght_del_bucket(ht, key, IF bucket = <<>> THEN <<>> ELSE Tail(bucket))
  \/ /\ HeadKey(bucket) # key
     /\ ret' = TRUE
     /\ \E i \in chain :
          /\ \A j \in chain : i <= j
          /\ ht' = ght_del_bucket(ht, key, SubSeq(bucket, 1, i - 1))
  \/ /\ HeadKey(bucket) # key /\ chain = {}
     /\ ret' = FALSE
     /\ UNCHANGED ht

Next == \E key \in Keys :
          server_ght_del(key) \/ \E data \in Data : server_ght_insert(key, data)

Spec == Init /\ [][Next]_vars

-----------------------------------------------------------------------------
(* Properties                                                               *)

(* The array has size slots, never fewer than MinSize, and every slot holds *)
(* a chain of entries.                                                      *)
TypeOK ==
  /\ ht.size \in Nat /\ ht.size >= MinSize
  /\ DOMAIN ht.table = 0 .. ht.size - 1
  /\ \A i \in 0 .. ht.size - 1 : ht.table[i] \in Seq(Entry)
  /\ ht.count \in 0 .. CountMod - 1
  /\ ret \in BOOLEAN

(* Through every insertion, deletion, doubling and halving, GHT_FOREACH and *)
(* server_ght_get see the same table: each entry that is listed is the one  *)
(* that is found for its key (so it is in the right bucket, and once).      *)
ListedIsFound ==
  LET es == Entries(ht) IN
  /\ \A i \in DOMAIN es : server_ght_get(ht, es[i].key) = es[i].data
  /\ \A i, j \in DOMAIN es : es[i].key = es[j].key => i = j

(* The resizing keeps chains short: whatever chains deletions have cut off, *)
(* the reachable entries never exceed the count, nor 0.7 of the slots.      *)
LoadBounded ==
  /\ Len(Entries(ht)) <= ht.count
  /\ 10 * ht.count <= 7 * ht.size

(* The table as a map: key -> data, for the keys server_ght_get finds.      *)
Contents ==
  LET es == Entries(ht) IN
  [k \in {es[i].key : i \in DOMAIN es} |-> server_ght_get(ht, k)]

(* The table implements a map whose deletions may lose other keys: an       *)
(* insertion, with all the moving that a resize does, loses nothing and     *)
(* changes nothing, no key comes back, and the return values are right.     *)
Abstract == INSTANCE LossyMap WITH map <- Contents
ImplementsLossyMap == Abstract!Spec
=============================================================================
