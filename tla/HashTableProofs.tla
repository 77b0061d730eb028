-------------------------- MODULE HashTableProofs --------------------------
(***************************************************************************)
(* Proofs about HashTable, for every set of keys, of data and every initial *)
(* size.  A table is listed, and moved to another one, by recursion; what   *)
(* these recursions compute is shown by induction in the form of the least  *)
(* counterexample.                                                          *)
(***************************************************************************)
EXTENDS HashTable, SequenceTheorems, FiniteSetTheorems, WellFoundedInduction, TLAPS

-----------------------------------------------------------------------------
(* Induction                                                                 *)

(* Numbers that contain 0 and with every number its successor are all.       *)
LEMMA AllNumbers ==
  ASSUME NEW S, 0 \in S, \A n \in Nat : n \in S => n + 1 \in S
  PROVE  \A n \in Nat : n \in S
<1> DEFINE T == Nat \ S
<1> SUFFICES ASSUME T # {} PROVE FALSE  OBVIOUS
<1> DEFINE R == OpToRel(<, Nat)
<1>1. IsWellFoundedOn(R, Nat)  BY NatLessThanWellFounded, Zenon
<1>2. \A x, y \in Nat : y < x => <<y, x>> \in R  BY Zenon DEF OpToRel
<1> HIDE DEF R
<1>3. PICK x \in T : \A y \in T : ~ (<<y, x>> \in R)  BY <1>1, WFMin
<1>4. x \in Nat /\ x \notin S /\ x # 0  BY <1>3
<1>5. x - 1 \in Nat /\ x - 1 < x /\ (x - 1) + 1 = x  BY <1>4
<1>6. x - 1 \notin S  BY <1>4, <1>5
<1>7. <<x - 1, x>> \in R  BY <1>2, <1>4, <1>5
<1>8. QED  BY <1>3, <1>5, <1>6, <1>7

(* The first n values of a recursion with step G from e.                     *)
Runs(f, n, S, e, G) ==
  /\ f \in [0 .. n -> S] /\ f[0] = e
  /\ \A k \in 1 .. n : f[k] = G[<<f[k - 1], k>>]

LEMMA RunsOn ==
  ASSUME NEW n \in Nat, NEW S, NEW e \in S, NEW N \in Nat, n + 1 <= N, NEW G \in [S \X (1 .. N) -> S],
         NEW f, Runs(f, n, S, e, G)
  PROVE  \E g : Runs(g, n + 1, S, e, G)
<1> DEFINE v == G[<<f[n], n + 1>>]
           g == [k \in 0 .. n + 1 |-> IF k = n + 1 THEN v ELSE f[k]]
<1>1. f \in [0 .. n -> S] /\ f[0] = e /\ n \in 0 .. n /\ n + 1 \in 1 .. N  BY DEF Runs
<1>2. <<f[n], n + 1>> \in S \X (1 .. N)  BY <1>1
<1>3. v \in S  BY <1>2
<1>4. \A k \in 0 .. n + 1 : k # n + 1 => k \in 0 .. n  OBVIOUS
<1> HIDE DEF v
<1>5. g \in [0 .. n + 1 -> S] /\ g[0] = e  BY <1>1, <1>3, <1>4
<1>6. \A k \in 0 .. n : g[k] = f[k]  OBVIOUS
<1>7. g[n + 1] = v  OBVIOUS
<1> HIDE DEF g
<1>8. ASSUME NEW k \in 1 .. n + 1 PROVE g[k] = G[<<g[k - 1], k>>]
  <2>1. CASE k = n + 1
    <3>1. k - 1 = n  BY <2>1
    <3>2. g[k - 1] = f[n]  BY <3>1, <1>6
    <3>3. QED  BY <2>1, <3>2, <1>7 DEF v
  <2>2. CASE k # n + 1
    <3>1. k \in 1 .. n /\ k \in 0 .. n /\ k - 1 \in 0 .. n  BY <2>2
    <3>2. g[k] = f[k] /\ g[k - 1] = f[k - 1]  BY <3>1, <1>6
    <3>3. f[k] = G[<<f[k - 1], k>>]  BY <3>1 DEF Runs
    <3>4. QED  BY <3>2, <3>3
  <2>3. QED  BY <2>1, <2>2
<1>9. QED  BY <1>5, <1>8 DEF Runs

LEMMA Recursion ==
  ASSUME NEW N \in Nat, NEW S, NEW e \in S, NEW G \in [S \X (1 .. N) -> S]
  PROVE  \E f : Runs(f, N, S, e, G)
<1> DEFINE T == {n \in Nat : n <= N => \E f : Runs(f, n, S, e, G)}
<1>1. 0 \in T
  <2> DEFINE f == [k \in 0 .. 0 |-> e]
  <2>1. f \in [0 .. 0 -> S] /\ f[0] = e  OBVIOUS
  <2>2. Runs(f, 0, S, e, G)  BY <2>1 DEF Runs
  <2>3. QED  BY <2>2
<1>2. ASSUME NEW n \in Nat, n \in T PROVE n + 1 \in T
  <2>1. CASE n + 1 <= N
    <3>1. PICK f : Runs(f, n, S, e, G)  BY <1>2, <2>1
    <3>2. \E g : Runs(g, n + 1, S, e, G)  BY <2>1, <3>1, RunsOn
    <3>3. QED  BY <3>2
  <2>2. QED  BY <2>1
<1> HIDE DEF T
<1>3. \A n \in Nat : n \in T  BY <1>1, <1>2, AllNumbers
<1>4. N \in T  BY <1>3
<1>5. QED  BY <1>4 DEF T

-----------------------------------------------------------------------------
(* Listing a table                                                           *)

Table(s) == [table : [0 .. s - 1 -> Seq(Entry)], size : {s}, count : Nat]

(* f[n] lists the entries of the first n buckets.                            *)
Lists(f, h, s) ==
  /\ f \in [0 .. s -> Seq(Entry)] /\ f[0] = <<>>
  /\ \A n \in 1 .. s : f[n] = f[n - 1] \o h.table[n - 1]

LEMMA BucketType ==
  ASSUME NEW s \in Nat, NEW h \in Table(s), NEW b \in 0 .. s - 1
  PROVE  h.table[b] \in Seq(Entry) /\ Len(h.table[b]) \in Nat
<1>1. h.table[b] \in Seq(Entry)  BY DEF Table
<1>2. QED  BY <1>1, LenProperties

LEMMA EntriesListed ==
  ASSUME NEW s \in Nat, NEW h \in Table(s)
  PROVE  \E f : Lists(f, h, s) /\ Entries(h) = f[s]
<1>1. h.size = s  BY DEF Table
<1> DEFINE S == Seq(Entry)
           G == [x \in S \X (1 .. s) |-> x[1] \o h.table[x[2] - 1]]
<1>2. <<>> \in S  OBVIOUS
<1>3. G \in [S \X (1 .. s) -> S]
  <2>1. ASSUME NEW x \in S \X (1 .. s) PROVE x[1] \o h.table[x[2] - 1] \in S
    <3>1. x[1] \in S /\ x[2] \in 1 .. s  BY <2>1
    <3>2. x[2] - 1 \in 0 .. s - 1  BY <3>1
    <3>3. h.table[x[2] - 1] \in S  BY <3>2, BucketType
    <3>4. QED  BY <3>1, <3>3, ConcatProperties
  <2>2. QED  BY <2>1
<1>4. \A t \in S, n \in 1 .. s : G[<<t, n>>] = t \o h.table[n - 1]  OBVIOUS
<1> HIDE DEF S, G
<1>5. PICK f : Runs(f, s, S, <<>>, G)  BY <1>2, <1>3, Recursion
<1>6. f \in [0 .. s -> S] /\ f[0] = <<>>  BY <1>5 DEF Runs
<1>7. ASSUME NEW n \in 1 .. s PROVE f[n] = f[n - 1] \o h.table[n - 1]
  <2>1. f[n] = G[<<f[n - 1], n>>]  BY <1>5 DEF Runs
  <2>2. n - 1 \in 0 .. s  OBVIOUS
  <2>3. f[n - 1] \in S  BY <1>6, <2>2
  <2>4. QED  BY <2>1, <2>3, <1>4
<1> DEFINE P(g) == g = [n \in 0 .. h.size |-> IF n = 0 THEN <<>> ELSE g[n - 1] \o h.table[n - 1]]
<1>8. P(f)
  <2>1. \A n \in 0 .. s : n # 0 => n \in 1 .. s  OBVIOUS
  <2>2. \A n \in 0 .. s : f[n] = IF n = 0 THEN <<>> ELSE f[n - 1] \o h.table[n - 1]
    BY <1>6, <1>7, <2>1
  <2>3. QED  BY <1>1, <1>6, <2>2
<1> DEFINE g == CHOOSE g : P(g)
<1>9. P(g)  BY <1>8
<1>10. Entries(h) = g[s]  BY <1>1 DEF Entries
<1>11. DOMAIN g = 0 .. s /\ \A n \in 0 .. s : g[n] = IF n = 0 THEN <<>> ELSE g[n - 1] \o h.table[n - 1]
  BY <1>1, <1>9
<1> HIDE DEF g
<1>12. g[0] = <<>> /\ \A n \in 1 .. s : g[n] = g[n - 1] \o h.table[n - 1]
  BY <1>11
<1> DEFINE T == {n \in Nat : n <= s => g[n] = f[n]}
<1>13. 0 \in T  BY <1>6, <1>12
<1>14. ASSUME NEW n \in Nat, n \in T PROVE n + 1 \in T
  <2>1. CASE n + 1 <= s
    <3>1. g[n] = f[n]  BY <1>14, <2>1
    <3>2. n + 1 \in 1 .. s /\ (n + 1) - 1 = n  BY <2>1
    <3>3. g[n + 1] = g[n] \o h.table[n]  BY <3>2, <1>12
    <3>4. f[n + 1] = f[n] \o h.table[n]  BY <3>2, <1>7
    <3>5. g[n + 1] = f[n + 1]  BY <3>1, <3>3, <3>4
    <3>6. QED  BY <3>5
  <2>2. QED  BY <2>1
<1> HIDE DEF T
<1>15. \A n \in Nat : n \in T  BY <1>13, <1>14, AllNumbers
<1>16. g[s] = f[s]  BY <1>15 DEF T
<1>17. QED  BY <1>6, <1>7, <1>10, <1>16 DEF Lists, S

(* off[n] entries are listed before bucket n.                                *)
Offsets(off, h, s) ==
  /\ off \in [0 .. s -> Nat] /\ off[0] = 0
  /\ \A n \in 1 .. s : off[n] = off[n - 1] + Len(h.table[n - 1])

(* es is the list of the first n buckets, place by place.                    *)
From(off, h, n, es) ==
  \A i \in 1 .. off[n] : \E b \in 0 .. n - 1 : \E p \in 1 .. Len(h.table[b]) :
    i = off[b] + p /\ es[i] = h.table[b][p]

To(off, h, n, es) ==
  \A b \in 0 .. n - 1 : \A p \in 1 .. Len(h.table[b]) :
    off[b] + p \in 1 .. off[n] /\ es[off[b] + p] = h.table[b][p]

LEMMA OneMoreBucket ==
  ASSUME NEW s \in Nat, NEW h \in Table(s), NEW off, Offsets(off, h, s),
         NEW n \in Nat, n + 1 <= s, NEW es \in Seq(Entry), Len(es) = off[n],
         From(off, h, n, es), To(off, h, n, es)
  PROVE  LET fs == es \o h.table[n] IN
         /\ Len(fs) = off[n + 1]
         /\ From(off, h, n + 1, fs) /\ To(off, h, n + 1, fs)
<1>1. n \in 0 .. s - 1 /\ n \in 0 .. s /\ n + 1 \in 1 .. s /\ n + 1 \in 0 .. s /\ (n + 1) - 1 = n
  OBVIOUS
<1>2. PICK c \in Seq(Entry) : c = h.table[n]  BY <1>1, BucketType
<1>3. PICK k \in Nat : k = Len(c)  OBVIOUS
<1>4. PICK m \in Nat : m = off[n]  BY <1>1 DEF Offsets
<1>5. off[n + 1] = m + k  BY <1>1, <1>2, <1>3, <1>4 DEF Offsets
<1>6. PICK fs : fs = es \o c  OBVIOUS
<1>7. /\ Len(fs) = m + k
      /\ \A i \in 1 .. m : fs[i] = es[i]
      /\ \A p \in 1 .. k : fs[m + p] = c[p]
  <2>1. /\ Len(es \o c) = Len(es) + Len(c)
        /\ \A i \in 1 .. Len(es) + Len(c) : (es \o c)[i] = IF i <= Len(es) THEN es[i] ELSE c[i - Len(es)]
    BY ConcatProperties
  <2>2. Len(fs) = m + k /\ \A i \in 1 .. m + k : fs[i] = IF i <= m THEN es[i] ELSE c[i - m]
    BY <2>1, <1>3, <1>4, <1>6
  <2>3. \A i \in 1 .. m : i \in 1 .. m + k /\ i <= m  OBVIOUS
  <2>4. \A p \in 1 .. k : m + p \in 1 .. m + k /\ ~(m + p <= m) /\ (m + p) - m = p  OBVIOUS
  <2>5. QED  BY <2>2, <2>3, <2>4
<1>8. From(off, h, n + 1, fs)
  <2> SUFFICES ASSUME NEW i \in 1 .. off[n + 1]
               PROVE  \E b \in 0 .. (n + 1) - 1 : \E p \in 1 .. Len(h.table[b]) :
                        i = off[b] + p /\ fs[i] = h.table[b][p]
    BY DEF From
  <2>1. i \in 1 .. m + k  BY <1>5
  <2>2. CASE i <= m
    <3>1. i \in 1 .. m  BY <2>1, <2>2
    <3>2. PICK b \in 0 .. n - 1 : \E p \in 1 .. Len(h.table[b]) :
            i = off[b] + p /\ es[i] = h.table[b][p]
      BY <3>1, <1>4 DEF From
    <3>3. b \in 0 .. (n + 1) - 1  OBVIOUS
    <3>4. fs[i] = es[i]  BY <3>1, <1>7
    <3>5. QED  BY <3>2, <3>3, <3>4
  <2>3. CASE i > m
    <3>1. PICK p \in 1 .. k : i = m + p
      <4>1. i - m \in 1 .. k /\ i = m + (i - m)  BY <2>1, <2>3
      <4>2. QED  BY <4>1
    <3>2. n \in 0 .. (n + 1) - 1  OBVIOUS
    <3>3. fs[i] = h.table[n][p] /\ i = off[n] + p /\ p \in 1 .. Len(h.table[n])
      BY <3>1, <1>2, <1>3, <1>4, <1>7
    <3>4. QED  BY <3>2, <3>3
  <2>4. QED  BY <2>1, <2>2, <2>3
<1>9. To(off, h, n + 1, fs)
  <2> SUFFICES ASSUME NEW b \in 0 .. n, NEW p \in 1 .. Len(h.table[b])
               PROVE  off[b] + p \in 1 .. m + k /\ fs[off[b] + p] = h.table[b][p]
    BY <1>1, <1>5 DEF To
  <2>1. CASE b = n
    <3>1. p \in 1 .. k  BY <2>1, <1>2, <1>3
    <3>2. m + p \in 1 .. m + k  BY <3>1
    <3>3. QED  BY <2>1, <3>1, <3>2, <1>2, <1>4, <1>7
  <2>2. CASE b # n
    <3>1. b \in 0 .. n - 1  BY <2>2
    <3>2. off[b] + p \in 1 .. m /\ es[off[b] + p] = h.table[b][p]  BY <3>1, <1>4 DEF To
    <3>3. PICK i \in 1 .. m : i = off[b] + p  BY <3>2
    <3>4. i \in 1 .. m + k /\ fs[i] = es[i]  BY <3>3, <1>7
    <3>5. QED  BY <3>2, <3>3, <3>4
  <2>3. QED  BY <2>1, <2>2
<1>10. QED  BY <1>2, <1>5, <1>6, <1>7, <1>8, <1>9

LEMMA EntriesAt ==
  ASSUME NEW s \in Nat, NEW h \in Table(s)
  PROVE  /\ Entries(h) \in Seq(Entry)
         /\ \E off : /\ Offsets(off, h, s) /\ Len(Entries(h)) = off[s]
                     /\ From(off, h, s, Entries(h)) /\ To(off, h, s, Entries(h))
<1>1. PICK f : Lists(f, h, s) /\ Entries(h) = f[s]  BY EntriesListed
<1>2. /\ f \in [0 .. s -> Seq(Entry)] /\ f[0] = <<>>
      /\ \A n \in 1 .. s : f[n] = f[n - 1] \o h.table[n - 1]
  BY <1>1 DEF Lists
<1>3. \A n \in 0 .. s : f[n] \in Seq(Entry) /\ Len(f[n]) \in Nat  BY <1>2
<1> DEFINE off == [n \in 0 .. s |-> Len(f[n])]
<1>4. off \in [0 .. s -> Nat] /\ off[0] = 0 /\ \A n \in 0 .. s : off[n] = Len(f[n])
  <2>1. Len(f[0]) = 0 /\ 0 \in 0 .. s  BY <1>2
  <2>2. QED  BY <1>3, <2>1
<1> HIDE DEF off
<1>5. ASSUME NEW n \in 1 .. s PROVE off[n] = off[n - 1] + Len(h.table[n - 1])
  <2>1. n - 1 \in 0 .. s - 1 /\ n - 1 \in 0 .. s /\ n \in 0 .. s  OBVIOUS
  <2>2. PICK x \in Seq(Entry), c \in Seq(Entry) : x = f[n - 1] /\ c = h.table[n - 1]
    BY <2>1, <1>3, BucketType
  <2>3. f[n] = x \o c  BY <2>2, <1>2
  <2>4. Len(f[n]) = Len(x) + Len(c)  BY <2>3, ConcatProperties
  <2>5. QED  BY <2>1, <2>2, <2>4, <1>4
<1>6. Offsets(off, h, s)  BY <1>4, <1>5 DEF Offsets
<1> DEFINE T == {n \in Nat : n <= s => From(off, h, n, f[n]) /\ To(off, h, n, f[n])}
<1>7. 0 \in T
  <2>1. From(off, h, 0, f[0]) /\ To(off, h, 0, f[0])  BY <1>4 DEF From, To
  <2>2. QED  BY <2>1
<1>8. ASSUME NEW n \in Nat, n \in T PROVE n + 1 \in T
  <2>1. CASE n + 1 <= s
    <3>1. n \in 0 .. s /\ n + 1 \in 1 .. s /\ (n + 1) - 1 = n  BY <2>1
    <3>2. PICK es \in Seq(Entry) : es = f[n]  BY <3>1, <1>3
    <3>3. Len(es) = off[n] /\ From(off, h, n, es) /\ To(off, h, n, es)
      BY <3>1, <3>2, <1>4, <1>8
    <3>4. f[n + 1] = es \o h.table[n]  BY <3>1, <3>2, <1>2
    <3>5. From(off, h, n + 1, f[n + 1]) /\ To(off, h, n + 1, f[n + 1])
      BY <2>1, <3>3, <3>4, <1>6, OneMoreBucket
    <3>6. QED  BY <3>5
  <2>2. QED  BY <2>1
<1> HIDE DEF T
<1>9. \A n \in Nat : n \in T  BY <1>7, <1>8, AllNumbers
<1>10. From(off, h, s, f[s]) /\ To(off, h, s, f[s])  BY <1>9 DEF T
<1>11. s \in 0 .. s  OBVIOUS
<1>12. QED  BY <1>1, <1>3, <1>4, <1>6, <1>10, <1>11

-----------------------------------------------------------------------------
(* Every entry is in the bucket of its key, and once                         *)

BucketOK(c, s, b) ==
  /\ \A p \in 1 .. Len(c) : c[p].key % s = b
  /\ \A p, q \in 1 .. Len(c) : c[p].key = c[q].key => p = q

Sound(h, s) == \A b \in 0 .. s - 1 : BucketOK(h.table[b], s, b)

LEMMA AppendOK ==
  ASSUME NEW s, NEW b, NEW c \in Seq(Entry), BucketOK(c, s, b), NEW e \in Entry,
         e.key % s = b, \A p \in 1 .. Len(c) : c[p].key # e.key
  PROVE  BucketOK(Append(c, e), s, b)
<1>1. PICK n \in Nat : n = Len(c)  OBVIOUS
<1>2. PICK a : a = Append(c, e)  OBVIOUS
<1>3. Len(a) = n + 1 /\ a[n + 1] = e /\ \A p \in 1 .. n : a[p] = c[p]
  BY <1>1, <1>2, AppendProperties
<1>4. \A p \in 1 .. n + 1 : p = n + 1 \/ p \in 1 .. n  OBVIOUS
<1>5. \A p \in 1 .. n + 1 : a[p].key % s = b  BY <1>1, <1>3, <1>4 DEF BucketOK
<1>6. ASSUME NEW p \in 1 .. n + 1, NEW q \in 1 .. n + 1, a[p].key = a[q].key PROVE p = q
  <2>1. CASE p \in 1 .. n /\ q \in 1 .. n  BY <2>1, <1>1, <1>3, <1>6 DEF BucketOK
  <2>2. CASE p \in 1 .. n /\ q = n + 1  BY <2>2, <1>1, <1>3, <1>6
  <2>3. CASE p = n + 1 /\ q \in 1 .. n  BY <2>3, <1>1, <1>3, <1>6
  <2>4. QED  BY <2>1, <2>2, <2>3, <1>4
<1>7. QED  BY <1>2, <1>3, <1>5, <1>6 DEF BucketOK

LEMMA TailOK ==
  ASSUME NEW s, NEW b, NEW c \in Seq(Entry), c # <<>>, BucketOK(c, s, b)
  PROVE  /\ Tail(c) \in Seq(Entry) /\ Len(Tail(c)) = Len(c) - 1 /\ BucketOK(Tail(c), s, b)
         /\ \A p \in 1 .. Len(c) - 1 : Tail(c)[p] = c[p + 1]
<1>1. PICK n \in Nat : n = Len(c)  OBVIOUS
<1>2. PICK a \in Seq(Entry) : a = Tail(c)  BY HeadTailProperties
<1>3. Len(a) = n - 1 /\ \A p \in 1 .. n - 1 : a[p] = c[p + 1]
  BY <1>1, <1>2, HeadTailProperties
<1>4. \A p \in 1 .. n - 1 : p + 1 \in 1 .. n  OBVIOUS
<1>5. \A p \in 1 .. n - 1 : a[p].key % s = b  BY <1>1, <1>3, <1>4 DEF BucketOK
<1>6. ASSUME NEW p \in 1 .. n - 1, NEW q \in 1 .. n - 1, a[p].key = a[q].key PROVE p = q
  <2>1. p + 1 = q + 1  BY <1>1, <1>3, <1>4, <1>6 DEF BucketOK
  <2>2. QED  BY <2>1
<1>7. BucketOK(a, s, b)  BY <1>3, <1>5, <1>6 DEF BucketOK
<1>8. QED  BY <1>1, <1>2, <1>3, <1>7

LEMMA CutOK ==
  ASSUME NEW s, NEW b, NEW c \in Seq(Entry), NEW i \in 1 .. Len(c), BucketOK(c, s, b)
  PROVE  /\ SubSeq(c, 1, i - 1) \in Seq(Entry) /\ Len(SubSeq(c, 1, i - 1)) = i - 1
         /\ BucketOK(SubSeq(c, 1, i - 1), s, b)
         /\ \A p \in 1 .. i - 1 : SubSeq(c, 1, i - 1)[p] = c[p]
<1>1. PICK n \in Nat : n = Len(c)  OBVIOUS
<1>2. PICK m \in Nat : m = i - 1 /\ m < n
  <2>1. i - 1 \in Nat /\ i - 1 < n  BY <1>1
  <2>2. QED  BY <2>1
<1>3. \A p \in 1 .. m : p \in 1 .. n /\ c[p] \in Entry  BY <1>1, <1>2, ElementOfSeq
<1>4. PICK a : a = SubSeq(c, 1, m)  OBVIOUS
<1>5. a \in Seq(Entry) /\ Len(a) = m /\ \A p \in 1 .. m : a[p] = c[p]
  <2>1. /\ a \in Seq(Entry) /\ Len(a) = IF 1 <= m THEN m - 1 + 1 ELSE 0
        /\ \A p \in 1 .. m - 1 + 1 : a[p] = c[1 + p - 1]
    BY <1>3, <1>4, SubSeqProperties
  <2>2. m - 1 + 1 = m /\ (~(1 <= m) => m = 0) /\ \A p \in 1 .. m : 1 + p - 1 = p  OBVIOUS
  <2>3. QED  BY <2>1, <2>2
<1>6. BucketOK(a, s, b)  BY <1>1, <1>3, <1>5 DEF BucketOK
<1>7. QED  BY <1>2, <1>4, <1>5, <1>6

(* A table with another bucket at b.                                         *)
Replaces(g, h, s, b, c, n) ==
  /\ g \in Table(s) /\ g.count = n /\ g.table[b] = c
  /\ \A a \in 0 .. s - 1 : a # b => g.table[a] = h.table[a]

LEMMA Replaced ==
  ASSUME NEW s \in Nat, NEW h \in Table(s), NEW b \in 0 .. s - 1, NEW c \in Seq(Entry), NEW n \in Nat
  PROVE  Replaces([h EXCEPT !.table[b] = c, !.count = n], h, s, b, c, n)
BY DEF Replaces, Table

LEMMA ReplacedSound ==
  ASSUME NEW s \in Nat, NEW h, Sound(h, s), NEW g, NEW b \in 0 .. s - 1, NEW c, NEW n,
         Replaces(g, h, s, b, c, n), BucketOK(c, s, b)
  PROVE  Sound(g, s)
BY DEF Sound, Replaces

LEMMA HashRange ==
  ASSUME NEW s \in Nat \ {0}, NEW h \in Table(s), NEW k \in Keys
  PROVE  ght_hash(h, k) = k % s /\ k % s \in 0 .. s - 1 /\ Bucket(h, k) = h.table[k % s]
<1>1. k \in Nat  BY KeysAssumption
<1>2. k % s \in 0 .. s - 1  BY <1>1
<1>3. h.size = s  BY DEF Table
<1>4. QED  BY <1>2, <1>3 DEF ght_hash, Bucket

(* A key that is not refused is nowhere in its bucket.                       *)
LEMMA NotRefused ==
  ASSUME NEW h, NEW k, ~Refuses(h, k), Bucket(h, k) \in Seq(Entry)
  PROVE  \A p \in 1 .. Len(Bucket(h, k)) : Bucket(h, k)[p].key # k
<1>1. PICK c \in Seq(Entry) : c = Bucket(h, k)  OBVIOUS
<1>2. PICK n \in Nat : n = Len(c)  OBVIOUS
<1>3. HeadKey(c) # k /\ InChain(c, k) = {}  BY <1>1 DEF Refuses
<1>4. ASSUME NEW p \in 1 .. n PROVE c[p].key # k
  <2>1. CASE p = 1
    <3>1. c # <<>>  BY <1>2, <2>1
    <3>2. QED  BY <2>1, <3>1, <1>3 DEF HeadKey
  <2>2. CASE p # 1
    <3>1. p \in 2 .. n  BY <2>2
    <3>2. QED  BY <3>1, <1>2, <1>3 DEF InChain
  <2>3. QED  BY <2>1, <2>2
<1>5. QED  BY <1>1, <1>2, <1>4

LEMMA InsertReplaces ==
  ASSUME NEW s \in Nat \ {0}, NEW h \in Table(s), NEW k \in Keys, NEW d \in Data, ~Refuses(h, k)
  PROVE  Replaces(ght_insert(h, k, d), h, s, k % s,
                  Append(h.table[k % s], [key |-> k, data |-> d]), h.count + 1)
<1>1. PICK b \in 0 .. s - 1 : b = k % s /\ ght_hash(h, k) = b  BY HashRange
<1>2. PICK e \in Entry : e = [key |-> k, data |-> d]  BY DEF Entry
<1>3. h.table[b] \in Seq(Entry)  BY BucketType
<1>4. PICK c \in Seq(Entry) : c = Append(h.table[b], e)  BY <1>3, AppendProperties
<1>5. PICK n \in Nat : n = h.count + 1  BY DEF Table
<1>6. ght_insert(h, k, d) = [h EXCEPT !.table[b] = c, !.count = n]
  BY <1>1, <1>2, <1>4, <1>5 DEF ght_insert, Table
<1>7. Replaces([h EXCEPT !.table[b] = c, !.count = n], h, s, b, c, n)  BY Replaced
<1>8. Replaces(ght_insert(h, k, d), h, s, b, c, n)  BY <1>6, <1>7
<1>9. QED  BY <1>1, <1>2, <1>4, <1>5, <1>8

LEMMA InsertType ==
  ASSUME NEW s \in Nat \ {0}, NEW h \in Table(s), NEW k \in Keys, NEW d \in Data
  PROVE  ght_insert(h, k, d) \in Table(s)
<1>1. CASE Refuses(h, k)  BY <1>1 DEF ght_insert
<1>2. CASE ~Refuses(h, k)  BY <1>2, InsertReplaces DEF Replaces
<1>3. QED  BY <1>1, <1>2

LEMMA InsertSound ==
  ASSUME NEW s \in Nat \ {0}, NEW h \in Table(s), NEW k \in Keys, NEW d \in Data, Sound(h, s)
  PROVE  Sound(ght_insert(h, k, d), s)
<1>1. CASE Refuses(h, k)  BY <1>1 DEF ght_insert
<1>2. CASE ~Refuses(h, k)
  <2>1. PICK b \in 0 .. s - 1 : b = k % s /\ Bucket(h, k) = h.table[b]  BY HashRange
  <2>2. PICK e \in Entry : e = [key |-> k, data |-> d]  BY DEF Entry
  <2>3. e.key = k  BY <2>2
  <2>4. PICK c \in Seq(Entry) : c = h.table[b]  BY BucketType
  <2>5. \A p \in 1 .. Len(c) : c[p].key # k  BY <1>2, <2>1, <2>4, NotRefused
  <2>6. BucketOK(c, s, b)  BY <2>4 DEF Sound
  <2>7. BucketOK(Append(c, e), s, b)  BY <2>1, <2>3, <2>5, <2>6, AppendOK
  <2>8. Replaces(ght_insert(h, k, d), h, s, b, Append(c, e), h.count + 1)
    BY <1>2, <2>1, <2>2, <2>4, InsertReplaces
  <2>9. QED  BY <2>7, <2>8, ReplacedSound
<1>3. QED  BY <1>1, <1>2

LEMMA EmptyTableType ==
  ASSUME NEW s \in Nat \ {0}
  PROVE  EmptyTable(s) \in Table(s) /\ Sound(EmptyTable(s), s)
<1>1. <<>> \in Seq(Entry) /\ Len(<<>>) = 0  OBVIOUS
<1>2. EmptyTable(s) \in Table(s)  BY <1>1 DEF EmptyTable, Table
<1>3. \A b \in 0 .. s - 1 : EmptyTable(s).table[b] = <<>>  BY DEF EmptyTable
<1>4. \A b : BucketOK(<<>>, s, b)  BY <1>1 DEF BucketOK
<1>5. QED  BY <1>2, <1>3, <1>4 DEF Sound

(* f[n] is the new table once n entries of es have moved.                    *)
Moves(f, es, z) ==
  /\ f \in [0 .. Len(es) -> Table(z)] /\ f[0] = EmptyTable(z)
  /\ \A n \in 1 .. Len(es) : f[n] = ght_insert(f[n - 1], es[n].key, es[n].data)

LEMMA MovedRuns ==
  ASSUME NEW s \in Nat, NEW h \in Table(s), NEW z \in Nat \ {0}
  PROVE  \E f : Moves(f, Entries(h), z) /\ Moved(h, z) = f[Len(Entries(h))]
<1>1. PICK es \in Seq(Entry) : es = Entries(h)  BY EntriesAt
<1>2. PICK N \in Nat : N = Len(es)  OBVIOUS
<1>3. \A n \in 1 .. N : es[n] \in Entry /\ es[n].key \in Keys /\ es[n].data \in Data
  <2>1. \A n \in 1 .. N : es[n] \in Entry  BY <1>2, ElementOfSeq
  <2>2. QED  BY <2>1 DEF Entry
<1> DEFINE S == Table(z)
           e == EmptyTable(z)
           G == [x \in S \X (1 .. N) |-> ght_insert(x[1], es[x[2]].key, es[x[2]].data)]
<1>4. e \in S  BY EmptyTableType
<1>5. G \in [S \X (1 .. N) -> S]
  <2>1. ASSUME NEW x \in S \X (1 .. N) PROVE ght_insert(x[1], es[x[2]].key, es[x[2]].data) \in S
    <3>1. x[1] \in S /\ x[2] \in 1 .. N  BY <2>1
    <3>2. QED  BY <3>1, <1>3, InsertType
  <2>2. QED  BY <2>1
<1>6. \A t \in S, n \in 1 .. N : G[<<t, n>>] = ght_insert(t, es[n].key, es[n].data)  OBVIOUS
<1> HIDE DEF S, e, G
<1>7. PICK f : Runs(f, N, S, e, G)  BY <1>4, <1>5, Recursion
<1>8. f \in [0 .. N -> S] /\ f[0] = e  BY <1>7 DEF Runs
<1>9. ASSUME NEW n \in 1 .. N PROVE f[n] = ght_insert(f[n - 1], es[n].key, es[n].data)
  <2>1. f[n] = G[<<f[n - 1], n>>]  BY <1>7 DEF Runs
  <2>2. n - 1 \in 0 .. N  OBVIOUS
  <2>3. f[n - 1] \in S  BY <1>8, <2>2
  <2>4. QED  BY <2>1, <2>3, <1>6
<1> DEFINE P(g) == g = [n \in 0 .. N |-> IF n = 0 THEN EmptyTable(z)
                                         ELSE ght_insert(g[n - 1], es[n].key, es[n].data)]
<1>10. P(f)
  <2>1. \A n \in 0 .. N : n # 0 => n \in 1 .. N  OBVIOUS
  <2>2. \A n \in 0 .. N : f[n] = IF n = 0 THEN EmptyTable(z)
                                 ELSE ght_insert(f[n - 1], es[n].key, es[n].data)
    BY <1>8, <1>9, <2>1 DEF e
  <2>3. QED  BY <1>8, <2>2
<1> DEFINE g == CHOOSE g : P(g)
<1>11. P(g)  BY <1>10
<1>12. Moved(h, z) = g[N]  BY <1>1, <1>2 DEF Moved
<1>13. \A n \in 0 .. N : g[n] = IF n = 0 THEN EmptyTable(z)
                                ELSE ght_insert(g[n - 1], es[n].key, es[n].data)
  BY <1>11
<1> HIDE DEF g
<1>14. g[0] = e  BY <1>13 DEF e
<1>15. \A n \in 1 .. N : g[n] = ght_insert(g[n - 1], es[n].key, es[n].data)  BY <1>13
<1> DEFINE T == {n \in Nat : n <= N => g[n] = f[n]}
<1>16. 0 \in T  BY <1>8, <1>14
<1>17. ASSUME NEW n \in Nat, n \in T PROVE n + 1 \in T
  <2>1. CASE n + 1 <= N
    <3>1. g[n] = f[n]  BY <1>17, <2>1
    <3>2. n + 1 \in 1 .. N /\ (n + 1) - 1 = n  BY <2>1
    <3>3. g[n + 1] = ght_insert(g[n], es[n + 1].key, es[n + 1].data)  BY <3>2, <1>15
    <3>4. f[n + 1] = ght_insert(f[n], es[n + 1].key, es[n + 1].data)  BY <3>2, <1>9
    <3>5. g[n + 1] = f[n + 1]  BY <3>1, <3>3, <3>4
    <3>6. QED  BY <3>5
  <2>2. QED  BY <2>1
<1> HIDE DEF T
<1>18. \A n \in Nat : n \in T  BY <1>16, <1>17, AllNumbers
<1>19. g[N] = f[N]  BY <1>18 DEF T
<1>20. Moves(f, es, z)  BY <1>2, <1>8, <1>9 DEF Moves, S, e
<1>21. QED  BY <1>1, <1>2, <1>12, <1>19, <1>20

Good(h) ==
  /\ h.size \in Nat \ {0} /\ h.size >= MinSize
  /\ h \in Table(h.size) /\ Sound(h, h.size)

LEMMA MovedGood ==
  ASSUME NEW s \in Nat, NEW h \in Table(s), NEW z \in Nat, z >= MinSize
  PROVE  Good(Moved(h, z)) /\ Moved(h, z).size = z
<1>1. z \in Nat \ {0}  BY MinSizeAssumption
<1>2. PICK f : Moves(f, Entries(h), z) /\ Moved(h, z) = f[Len(Entries(h))]  BY <1>1, MovedRuns
<1>3. PICK es \in Seq(Entry) : es = Entries(h)  BY EntriesAt
<1>4. PICK N \in Nat : N = Len(es)  OBVIOUS
<1>5. /\ f \in [0 .. N -> Table(z)] /\ f[0] = EmptyTable(z)
      /\ \A n \in 1 .. N : f[n] = ght_insert(f[n - 1], es[n].key, es[n].data)
  BY <1>2, <1>3, <1>4 DEF Moves
<1>6. \A n \in 1 .. N : es[n].key \in Keys /\ es[n].data \in Data
  <2>1. \A n \in 1 .. N : es[n] \in Entry  BY <1>4, ElementOfSeq
  <2>2. QED  BY <2>1 DEF Entry
<1> DEFINE T == {n \in Nat : n <= N => Sound(f[n], z)}
<1>7. 0 \in T  BY <1>1, <1>5, EmptyTableType
<1>8. ASSUME NEW n \in Nat, n \in T PROVE n + 1 \in T
  <2>1. CASE n + 1 <= N
    <3>1. n \in 0 .. N /\ n + 1 \in 1 .. N /\ (n + 1) - 1 = n  BY <2>1
    <3>2. Sound(f[n], z) /\ f[n] \in Table(z)  BY <3>1, <1>5, <1>8
    <3>3. f[n + 1] = ght_insert(f[n], es[n + 1].key, es[n + 1].data)  BY <3>1, <1>5
    <3>4. Sound(f[n + 1], z)  BY <3>1, <3>2, <3>3, <1>1, <1>6, InsertSound
    <3>5. QED  BY <3>4
  <2>2. QED  BY <2>1
<1> HIDE DEF T
<1>9. \A n \in Nat : n \in T  BY <1>7, <1>8, AllNumbers
<1>10. Sound(f[N], z) /\ f[N] \in Table(z)  BY <1>5, <1>9 DEF T
<1>11. f[N].size = z  BY <1>10 DEF Table
<1>12. QED  BY <1>1, <1>2, <1>3, <1>4, <1>10, <1>11 DEF Good

LEMMA ResizeGood ==
  ASSUME NEW h, Good(h), NEW n \in Nat
  PROVE  Good(ght_resize(h, n))
<1>1. PICK s \in Nat : s = h.size /\ h \in Table(s)  BY DEF Good
<1>2. PICK z \in Nat : z = (IF n < MinSize THEN MinSize ELSE n) /\ z >= MinSize
  BY MinSizeAssumption
<1>3. ght_resize(h, n) = IF z = s THEN h ELSE Moved(h, z)  BY <1>1, <1>2 DEF ght_resize
<1>4. Good(Moved(h, z))  BY <1>1, <1>2, MovedGood
<1>5. QED  BY <1>3, <1>4

LEMMA CheckLoadGood ==
  ASSUME NEW h, Good(h)
  PROVE  Good(ght_check_load(h))
<1>1. PICK s \in Nat : s = h.size  BY DEF Good
<1>2. 2 * s \in Nat /\ s \div 2 \in Nat  OBVIOUS
<1>3. Good(ght_resize(h, 2 * s)) /\ Good(ght_resize(h, s \div 2))  BY <1>2, ResizeGood
<1>4. QED  BY <1>1, <1>3 DEF ght_check_load

(* The table that ght_del_bucket leaves before it looks at the load.         *)
Deleted(h, key, bucket) ==
  [h EXCEPT !.table[ght_hash(h, key)] = bucket, !.count = (@ + CountMod - 1) % CountMod]

LEMMA DeletedReplaces ==
  ASSUME NEW s \in Nat \ {0}, NEW h \in Table(s), NEW k \in Keys, NEW c \in Seq(Entry)
  PROVE  Replaces(Deleted(h, k, c), h, s, k % s, c, (h.count + CountMod - 1) % CountMod)
<1>1. PICK b \in 0 .. s - 1 : b = k % s /\ ght_hash(h, k) = b  BY HashRange
<1>2. PICK m \in Nat : m = h.count  BY DEF Table
<1>3. (m + CountMod - 1) % CountMod \in Nat  BY CountModAssumption
<1>4. PICK n \in Nat : n = (h.count + CountMod - 1) % CountMod  BY <1>2, <1>3
<1>5. Deleted(h, k, c) = [h EXCEPT !.table[b] = c, !.count = n]
  BY <1>1, <1>4 DEF Deleted, Table
<1>6. Replaces([h EXCEPT !.table[b] = c, !.count = n], h, s, b, c, n)  BY Replaced
<1>7. Replaces(Deleted(h, k, c), h, s, b, c, n)  BY <1>5, <1>6
<1>8. QED  BY <1>1, <1>4, <1>7

LEMMA ReplacedGood ==
  ASSUME NEW h, Good(h), NEW s, s = h.size, NEW g, NEW b \in 0 .. s - 1, NEW c, NEW n,
         Replaces(g, h, s, b, c, n), BucketOK(c, s, b)
  PROVE  Good(g)
<1>1. s \in Nat \ {0} /\ s >= MinSize /\ Sound(h, s)  BY DEF Good
<1>2. Sound(g, s)  BY <1>1, ReplacedSound
<1>3. g \in Table(s)  BY DEF Replaces
<1>4. g.size = s  BY <1>3 DEF Table
<1>5. QED  BY <1>1, <1>2, <1>3, <1>4 DEF Good

LEMMA DeleteGood ==
  ASSUME NEW h, Good(h), NEW k \in Keys, NEW c \in Seq(Entry), BucketOK(c, h.size, k % h.size)
  PROVE  Good(Deleted(h, k, c)) /\ Good(ght_del_bucket(h, k, c))
<1>1. PICK s \in Nat \ {0} : s = h.size /\ h \in Table(s)  BY DEF Good
<1>2. PICK b \in 0 .. s - 1 : b = k % s  BY <1>1, HashRange
<1>3. Replaces(Deleted(h, k, c), h, s, b, c, (h.count + CountMod - 1) % CountMod)
  BY <1>1, <1>2, DeletedReplaces
<1>4. BucketOK(c, s, b)  BY <1>1, <1>2
<1>5. Good(Deleted(h, k, c))  BY <1>1, <1>3, <1>4, ReplacedGood
<1>6. ght_del_bucket(h, k, c) = ght_check_load(Deleted(h, k, c))  BY DEF ght_del_bucket, Deleted
<1>7. QED  BY <1>5, <1>6, CheckLoadGood

-----------------------------------------------------------------------------
(* The steps                                                                 *)

(* c is what is left of bucket a when k is deleted from it; only key 0 is    *)
(* deleted from an empty bucket.                                             *)
Cut(c, a, k) ==
  /\ \A p \in 1 .. Len(c) : c[p].key # k /\ \E q \in 1 .. Len(a) : c[p] = a[q]
  /\ a # <<>> => Len(c) + 1 <= Len(a) /\ \E q \in 1 .. Len(a) : a[q].key = k
  /\ a = <<>> => c = <<>> /\ k = 0

LEMMA HeadCut ==
  ASSUME NEW s, NEW b, NEW a \in Seq(Entry), a # <<>>, BucketOK(a, s, b), NEW k, a[1].key = k
  PROVE  Cut(Tail(a), a, k)
<1>1. PICK n \in Nat : n = Len(a) /\ n >= 1  BY EmptySeq
<1>2. PICK c \in Seq(Entry) : c = Tail(a)  BY TailOK
<1>3. Len(c) = n - 1 /\ \A p \in 1 .. n - 1 : c[p] = a[p + 1]  BY <1>1, <1>2, TailOK
<1>4. 1 \in 1 .. n /\ \A p \in 1 .. n - 1 : p + 1 \in 1 .. n /\ p + 1 # 1  BY <1>1
<1>5. \A p \in 1 .. n - 1 : a[p + 1].key # k  BY <1>1, <1>4 DEF BucketOK
<1>6. (n - 1) + 1 <= n  OBVIOUS
<1>7. QED  BY <1>1, <1>2, <1>3, <1>4, <1>5, <1>6 DEF Cut

LEMMA ChainCut ==
  ASSUME NEW s, NEW b, NEW a \in Seq(Entry), BucketOK(a, s, b), NEW k, NEW i \in 1 .. Len(a),
         a[i].key = k
  PROVE  Cut(SubSeq(a, 1, i - 1), a, k)
<1>1. PICK n \in Nat : n = Len(a)  OBVIOUS
<1>2. PICK m \in Nat : m = i - 1 /\ m + 1 <= n /\ m + 1 = i
  <2>1. i - 1 \in Nat /\ (i - 1) + 1 <= n /\ (i - 1) + 1 = i  BY <1>1
  <2>2. QED  BY <2>1
<1>3. PICK c \in Seq(Entry) : c = SubSeq(a, 1, i - 1)  BY CutOK
<1>4. Len(c) = m /\ \A p \in 1 .. m : c[p] = a[p]  BY <1>2, <1>3, CutOK
<1>5. \A p \in 1 .. m : p \in 1 .. n /\ p # i  BY <1>2
<1>6. \A p \in 1 .. m : a[p].key # k  BY <1>1, <1>5 DEF BucketOK
<1>7. a # <<>>  BY <1>1, <1>2
<1>8. QED  BY <1>1, <1>2, <1>3, <1>4, <1>5, <1>6, <1>7 DEF Cut

LEMMA DeleteStep ==
  ASSUME NEW k \in Keys, Good(ht), server_ght_del(k)
  PROVE  LET a == ht.table[k % ht.size] IN
         \/ ret' = FALSE /\ ht' = ht /\ \A p \in 1 .. Len(a) : a[p].key # k
         \/ /\ ret' = TRUE
            /\ \E c \in Seq(Entry) : /\ Cut(c, a, k) /\ BucketOK(c, ht.size, k % ht.size)
                                     /\ ht' = ght_del_bucket(ht, k, c)
<1>1. PICK s \in Nat \ {0} : s = ht.size /\ ht \in Table(s) /\ Sound(ht, s)  BY DEF Good
<1>2. PICK b \in 0 .. s - 1 : b = k % s /\ Bucket(ht, k) = ht.table[b]  BY <1>1, HashRange
<1>3. PICK a \in Seq(Entry) : a = ht.table[b]  BY <1>1, BucketType
<1>4. BucketOK(a, s, b)  BY <1>1, <1>3 DEF Sound
<1>5. CASE HeadKey(a) = k /\ ret' = TRUE
           /\ ht' = ght_del_bucket(ht, k, IF a = <<>> THEN <<>> ELSE Tail(a))
  <2>1. CASE a = <<>>
    <3>1. k = 0 /\ <<>> \in Seq(Entry) /\ Len(<<>>) = 0  BY <1>5, <2>1 DEF HeadKey
    <3>2. Cut(<<>>, a, k) /\ BucketOK(<<>>, s, b)  BY <2>1, <3>1 DEF Cut, BucketOK
    <3>3. QED  BY <1>1, <1>2, <1>3, <1>5, <2>1, <3>1, <3>2
  <2>2. CASE a # <<>>
    <3>1. a[1].key = k  BY <1>5, <2>2 DEF HeadKey
    <3>2. PICK c \in Seq(Entry) : c = Tail(a) /\ BucketOK(c, s, b)  BY <2>2, <1>4, TailOK
    <3>3. Cut(c, a, k)  BY <2>2, <3>1, <3>2, <1>4, HeadCut
    <3>4. QED  BY <1>1, <1>2, <1>3, <1>5, <2>2, <3>2, <3>3
  <2>3. QED  BY <2>1, <2>2
<1>6. CASE ret' = TRUE /\ \E i \in InChain(a, k) : ht' = ght_del_bucket(ht, k, SubSeq(a, 1, i - 1))
  <2>1. PICK i \in InChain(a, k) : ht' = ght_del_bucket(ht, k, SubSeq(a, 1, i - 1))  BY <1>6
  <2>2. i \in 1 .. Len(a) /\ a[i].key = k  BY <2>1 DEF InChain
  <2>3. PICK c \in Seq(Entry) : c = SubSeq(a, 1, i - 1) /\ BucketOK(c, s, b)
    BY <2>2, <1>4, CutOK
  <2>4. Cut(c, a, k)  BY <2>2, <2>3, <1>4, ChainCut
  <2>5. QED  BY <1>1, <1>2, <1>3, <1>6, <2>1, <2>3, <2>4
<1>7. CASE HeadKey(a) # k /\ InChain(a, k) = {} /\ ret' = FALSE /\ ht' = ht
  <2>1. ~Refuses(ht, k)  BY <1>2, <1>3, <1>7 DEF Refuses
  <2>2. \A p \in 1 .. Len(a) : a[p].key # k  BY <1>2, <1>3, <2>1, NotRefused
  <2>3. QED  BY <1>1, <1>2, <1>3, <1>7, <2>2
<1>8. QED  BY <1>2, <1>3, <1>5, <1>6, <1>7 DEF server_ght_del

LEMMA InitGood == Init => Good(ht) /\ ret \in BOOLEAN
<1> SUFFICES ASSUME Init PROVE Good(ht) /\ ret \in BOOLEAN  OBVIOUS
<1>1. ht = EmptyTable(MinSize) /\ ret = TRUE  BY DEF Init
<1>2. EmptyTable(MinSize).size = MinSize  BY DEF EmptyTable
<1>3. EmptyTable(MinSize) \in Table(MinSize) /\ Sound(EmptyTable(MinSize), MinSize)
  BY MinSizeAssumption, EmptyTableType
<1>4. QED  BY <1>1, <1>2, <1>3, MinSizeAssumption DEF Good

LEMMA InsertGood ==
  ASSUME NEW h, Good(h), NEW k \in Keys, NEW d \in Data
  PROVE  Good(ght_insert(h, k, d)) /\ Good(ght_check_load(ght_insert(h, k, d)))
<1>1. PICK s \in Nat \ {0} : s = h.size /\ h \in Table(s) /\ Sound(h, s) /\ s >= MinSize  BY DEF Good
<1>2. PICK g : g = ght_insert(h, k, d)  OBVIOUS
<1>3. g \in Table(s) /\ Sound(g, s)  BY <1>1, <1>2, InsertType, InsertSound
<1>4. g.size = s  BY <1>3 DEF Table
<1>5. Good(g)  BY <1>1, <1>3, <1>4 DEF Good
<1>6. QED  BY <1>2, <1>5, CheckLoadGood

LEMMA NextGood == Good(ht) /\ ret \in BOOLEAN /\ [Next]_vars => Good(ht)' /\ ret' \in BOOLEAN
<1> SUFFICES ASSUME Good(ht), ret \in BOOLEAN, [Next]_vars PROVE Good(ht') /\ ret' \in BOOLEAN
  BY DEF Good, Table, Sound, BucketOK
<1>1. ASSUME NEW k \in Keys, server_ght_del(k) PROVE Good(ht') /\ ret' \in BOOLEAN
  <2>1. CASE ret' = FALSE /\ ht' = ht  BY <2>1
  <2>2. CASE /\ ret' = TRUE
             /\ \E c \in Seq(Entry) : /\ BucketOK(c, ht.size, k % ht.size)
                                      /\ ht' = ght_del_bucket(ht, k, c)
    BY <2>2, DeleteGood
  <2>3. QED  BY <1>1, <2>1, <2>2, DeleteStep
<1>2. ASSUME NEW k \in Keys, NEW d \in Data, server_ght_insert(k, d)
      PROVE  Good(ht') /\ ret' \in BOOLEAN
  <2>1. ret' = ~Refuses(ht, k) /\ ht' = IF ret' THEN ght_check_load(ght_insert(ht, k, d)) ELSE ht
    BY <1>2 DEF server_ght_insert
  <2>2. Refuses(ht, k) \in BOOLEAN  BY DEF Refuses
  <2>3. QED  BY <2>1, <2>2, InsertGood
<1>3. CASE UNCHANGED vars  BY <1>3 DEF vars
<1>4. QED  BY <1>1, <1>2, <1>3 DEF Next

-----------------------------------------------------------------------------
(* What is listed is found                                                   *)

LEMMA HeldIsFound ==
  ASSUME NEW h, Good(h), NEW b \in 0 .. h.size - 1, NEW p \in 1 .. Len(h.table[b])
  PROVE  server_ght_get(h, h.table[b][p].key) = h.table[b][p].data
<1>1. PICK s \in Nat \ {0} : s = h.size /\ h \in Table(s) /\ Sound(h, s)  BY DEF Good
<1>2. PICK c \in Seq(Entry) : c = h.table[b] /\ BucketOK(c, s, b)  BY <1>1, BucketType DEF Sound
<1>3. PICK n \in Nat : n = Len(c) /\ DOMAIN c = 1 .. n  BY LenProperties
<1>4. c[p] \in Entry /\ p \in 1 .. n  BY <1>2, <1>3, ElementOfSeq
<1>5. PICK k \in Keys : k = c[p].key  BY <1>4 DEF Entry
<1>6. k % s = b  BY <1>2, <1>3, <1>4, <1>5 DEF BucketOK
<1>7. Bucket(h, k) = c  BY <1>1, <1>2, <1>6, HashRange
<1> DEFINE P(i) == c[i].key = k /\ \A j \in 1 .. i - 1 : c[j].key # k
<1>8. \A i \in 1 .. n : c[i].key = k => i = p  BY <1>2, <1>3, <1>4, <1>5 DEF BucketOK
<1>9. P(p)
  <2>1. \A j \in 1 .. p - 1 : j \in 1 .. n /\ j # p  BY <1>4
  <2>2. QED  BY <2>1, <1>5, <1>8
<1>10. (CHOOSE i \in DOMAIN c : P(i)) = p
  <2>1. \E i \in DOMAIN c : P(i)  BY <1>3, <1>4, <1>9
  <2>2. PICK x : x = CHOOSE i \in DOMAIN c : P(i)  OBVIOUS
  <2>3. x \in DOMAIN c /\ P(x)  BY <2>1, <2>2
  <2>4. QED  BY <2>2, <2>3, <1>3, <1>8
<1>11. {e \in Range(c) : e.key = k} # {}
  <2>1. c[p] \in Range(c)  BY <1>3, <1>4 DEF Range
  <2>2. QED  BY <2>1, <1>5
<1>12. server_ght_get(h, k) = c[CHOOSE i \in DOMAIN c : P(i)].data
  BY <1>7, <1>11 DEF server_ght_get
<1>13. QED  BY <1>2, <1>5, <1>10, <1>12

LEMMA ListIsFound ==
  ASSUME NEW h, Good(h)
  PROVE  /\ \A i \in DOMAIN Entries(h) : server_ght_get(h, Entries(h)[i].key) = Entries(h)[i].data
         /\ \A i, j \in DOMAIN Entries(h) : Entries(h)[i].key = Entries(h)[j].key => i = j
<1>1. PICK s \in Nat \ {0} : s = h.size /\ h \in Table(s) /\ Sound(h, s)  BY DEF Good
<1>2. PICK es \in Seq(Entry) : es = Entries(h)  BY <1>1, EntriesAt
<1>3. PICK off : /\ Offsets(off, h, s) /\ Len(es) = off[s]
                 /\ From(off, h, s, es) /\ To(off, h, s, es)
  BY <1>1, <1>2, EntriesAt
<1>4. DOMAIN es = 1 .. off[s]  BY <1>3, LenProperties
<1>5. \A i \in 1 .. off[s] : \E b \in 0 .. s - 1 : \E p \in 1 .. Len(h.table[b]) :
        i = off[b] + p /\ es[i] = h.table[b][p]
  BY <1>3 DEF From
<1>6. ASSUME NEW i \in 1 .. off[s] PROVE server_ght_get(h, es[i].key) = es[i].data
  <2>1. PICK b \in 0 .. s - 1 : \E p \in 1 .. Len(h.table[b]) :
          i = off[b] + p /\ es[i] = h.table[b][p]
    BY <1>5
  <2>2. PICK p \in 1 .. Len(h.table[b]) : es[i] = h.table[b][p]  BY <2>1
  <2>3. b \in 0 .. h.size - 1  BY <1>1
  <2>4. server_ght_get(h, h.table[b][p].key) = h.table[b][p].data  BY <2>3, HeldIsFound
  <2>5. QED  BY <2>2, <2>4
<1>7. ASSUME NEW i \in 1 .. off[s], NEW j \in 1 .. off[s], es[i].key = es[j].key PROVE i = j
  <2>1. PICK b \in 0 .. s - 1 : \E p \in 1 .. Len(h.table[b]) :
          i = off[b] + p /\ es[i] = h.table[b][p]
    BY <1>5
  <2>2. PICK p \in 1 .. Len(h.table[b]) : i = off[b] + p /\ es[i] = h.table[b][p]  BY <2>1
  <2>3. PICK d \in 0 .. s - 1 : \E q \in 1 .. Len(h.table[d]) :
          j = off[d] + q /\ es[j] = h.table[d][q]
    BY <1>5
  <2>4. PICK q \in 1 .. Len(h.table[d]) : j = off[d] + q /\ es[j] = h.table[d][q]  BY <2>3
  <2>5. h.table[b][p].key % s = b /\ h.table[d][q].key % s = d  BY <1>1 DEF Sound, BucketOK
  <2>6. b = d  BY <2>2, <2>4, <2>5, <1>7
  <2>7. p = q  BY <2>2, <2>4, <2>6, <1>1, <1>7 DEF Sound, BucketOK
  <2>8. QED  BY <2>2, <2>4, <2>6, <2>7
<1>8. QED  BY <1>2, <1>4, <1>6, <1>7

LEMMA GoodHolds == Spec => [](Good(ht) /\ ret \in BOOLEAN)
<1>1. Init => Good(ht) /\ ret \in BOOLEAN  BY InitGood
<1>2. (Good(ht) /\ ret \in BOOLEAN) /\ [Next]_vars => (Good(ht) /\ ret \in BOOLEAN)'
  BY NextGood
<1>3. QED  BY <1>1, <1>2, PTL DEF Spec

(* server_ght_get finds each entry that GHT_FOREACH lists, and no key is     *)
(* listed twice, whatever is inserted and deleted, key 0 included, and       *)
(* however often ght_resize has moved the entries.                           *)
THEOREM ListedIsFoundHolds == Spec => []ListedIsFound
<1>1. Good(ht) /\ ret \in BOOLEAN => ListedIsFound  BY ListIsFound DEF ListedIsFound
<1>2. QED  BY <1>1, GoodHolds, PTL

-----------------------------------------------------------------------------
(* How many entries are listed                                               *)

LEMMA LastOffset ==
  ASSUME NEW s \in Nat, NEW h \in Table(s)
  PROVE  \E off : Offsets(off, h, s) /\ Len(Entries(h)) = off[s]
BY EntriesAt

LEMMA ReplacedLength ==
  ASSUME NEW s \in Nat \ {0}, NEW h \in Table(s), NEW g, NEW b \in 0 .. s - 1, NEW c \in Seq(Entry),
         NEW n, Replaces(g, h, s, b, c, n)
  PROVE  Len(Entries(g)) + Len(h.table[b]) = Len(Entries(h)) + Len(c)
<1>1. g \in Table(s)  BY DEF Replaces
<1>2. PICK x : Offsets(x, h, s) /\ Len(Entries(h)) = x[s]  BY LastOffset
<1>3. PICK y : Offsets(y, g, s) /\ Len(Entries(g)) = y[s]  BY <1>1, LastOffset
<1>4. PICK k \in Nat, m \in Nat : k = Len(h.table[b]) /\ m = Len(c)
  <2>1. Len(h.table[b]) \in Nat  BY BucketType
  <2>2. Len(c) \in Nat  BY LenProperties
  <2>3. QED  BY <2>1, <2>2
<1>5. /\ x \in [0 .. s -> Nat] /\ x[0] = 0 /\ y \in [0 .. s -> Nat] /\ y[0] = 0
      /\ \A i \in 1 .. s : x[i] = x[i - 1] + Len(h.table[i - 1])
      /\ \A i \in 1 .. s : y[i] = y[i - 1] + Len(g.table[i - 1])
  BY <1>2, <1>3 DEF Offsets
<1> DEFINE P(i) == IF i <= b THEN y[i] = x[i] ELSE y[i] + k = x[i] + m
           T == {i \in Nat : i <= s => P(i)}
<1>6. 0 \in T  BY <1>5
<1>7. ASSUME NEW i \in Nat, i \in T PROVE i + 1 \in T
  <2>1. CASE i + 1 <= s
    <3>1. i \in 0 .. s /\ i \in 0 .. s - 1 /\ i + 1 \in 1 .. s /\ (i + 1) - 1 = i  BY <2>1
    <3>2. P(i)  BY <1>7, <2>1
    <3>3. PICK l \in Nat, r \in Nat : l = Len(h.table[i]) /\ r = Len(g.table[i])
      BY <3>1, <1>1, BucketType
    <3>4. x[i + 1] = x[i] + l /\ y[i + 1] = y[i] + r  BY <3>1, <3>3, <1>5
    <3>5. PICK u \in Nat, v \in Nat : u = x[i] /\ v = y[i]  BY <3>1, <1>5
    <3>6. IF i = b THEN l = k /\ r = m ELSE l = r  BY <3>1, <3>3, <1>4 DEF Replaces
    <3>7. IF i <= b THEN v = u ELSE v + k = u + m  BY <3>2, <3>5
    <3>8. IF i + 1 <= b THEN v + r = u + l ELSE v + r + k = u + l + m  BY <3>6, <3>7
    <3>9. P(i + 1)  BY <3>4, <3>5, <3>8
    <3>10. QED  BY <3>9
  <2>2. QED  BY <2>1
<1> HIDE DEF T
<1>8. \A i \in Nat : i \in T  BY <1>6, <1>7, AllNumbers
<1>9. P(s)  BY <1>8 DEF T
<1>10. ~(s <= b)  OBVIOUS
<1>11. QED  BY <1>2, <1>3, <1>4, <1>9, <1>10

LEMMA EmptyLength ==
  ASSUME NEW s \in Nat \ {0}
  PROVE  Len(Entries(EmptyTable(s))) = 0
<1>1. PICK h \in Table(s) : h = EmptyTable(s)  BY EmptyTableType
<1>2. PICK off : Offsets(off, h, s) /\ Len(Entries(h)) = off[s] /\ From(off, h, s, Entries(h))
  BY EntriesAt
<1>3. PICK n \in Nat : n = off[s]  BY <1>2 DEF Offsets
<1>4. \A b \in 0 .. s - 1 : h.table[b] = <<>>  BY <1>1 DEF EmptyTable
<1>5. \A b \in 0 .. s - 1 : Len(h.table[b]) = 0  BY <1>4
<1>6. CASE n # 0
  <2>1. 1 \in 1 .. n  BY <1>6
  <2>2. \E b \in 0 .. s - 1 : \E p \in 1 .. Len(h.table[b]) : TRUE  BY <2>1, <1>2, <1>3 DEF From
  <2>3. QED  BY <2>2, <1>5
<1>7. QED  BY <1>1, <1>2, <1>3, <1>6

LEMMA InsertLength ==
  ASSUME NEW s \in Nat \ {0}, NEW h \in Table(s), NEW k \in Keys, NEW d \in Data, ~Refuses(h, k)
  PROVE  /\ Len(Entries(ght_insert(h, k, d))) = Len(Entries(h)) + 1
         /\ ght_insert(h, k, d).count = h.count + 1
<1>1. PICK b \in 0 .. s - 1 : b = k % s  BY HashRange
<1>2. PICK e \in Entry : e = [key |-> k, data |-> d]  BY DEF Entry
<1>3. PICK a \in Seq(Entry) : a = h.table[b]  BY BucketType
<1>4. PICK c \in Seq(Entry) : c = Append(a, e)  BY AppendProperties
<1>5. Len(c) = Len(a) + 1  BY <1>4, AppendProperties
<1>6. PICK g : g = ght_insert(h, k, d)  OBVIOUS
<1>7. Replaces(g, h, s, b, c, h.count + 1)  BY <1>1, <1>2, <1>3, <1>4, <1>6, InsertReplaces
<1>8. Len(Entries(g)) + Len(a) = Len(Entries(h)) + Len(c)  BY <1>3, <1>7, ReplacedLength
<1>9. g \in Table(s) /\ g.count = h.count + 1  BY <1>7 DEF Replaces
<1>10. PICK x \in Nat, y \in Nat, n \in Nat : x = Len(Entries(g)) /\ y = Len(Entries(h)) /\ n = Len(a)
  <2>1. Entries(g) \in Seq(Entry) /\ Entries(h) \in Seq(Entry)  BY <1>9, EntriesAt
  <2>2. QED  BY <2>1, LenProperties
<1>11. x + n = y + (n + 1)  BY <1>5, <1>8, <1>10
<1>12. x = y + 1  BY <1>11
<1>13. QED  BY <1>6, <1>9, <1>10, <1>12

LEMMA LengthNat ==
  ASSUME NEW s \in Nat, NEW h \in Table(s)
  PROVE  Len(Entries(h)) \in Nat
BY EntriesAt, LenProperties

(* A table that was just made counts its entries, and has no more of them.   *)
LEMMA MovedCount ==
  ASSUME NEW s \in Nat, NEW h \in Table(s), NEW z \in Nat \ {0}
  PROVE  /\ Moved(h, z).count = Len(Entries(Moved(h, z)))
         /\ Moved(h, z).count <= Len(Entries(h))
<1>1. PICK f : Moves(f, Entries(h), z) /\ Moved(h, z) = f[Len(Entries(h))]  BY MovedRuns
<1>2. PICK es \in Seq(Entry) : es = Entries(h)  BY EntriesAt
<1>3. PICK N \in Nat : N = Len(es)  OBVIOUS
<1>4. /\ f \in [0 .. N -> Table(z)] /\ f[0] = EmptyTable(z)
      /\ \A n \in 1 .. N : f[n] = ght_insert(f[n - 1], es[n].key, es[n].data)
  BY <1>1, <1>2, <1>3 DEF Moves
<1>5. \A n \in 1 .. N : es[n].key \in Keys /\ es[n].data \in Data
  <2>1. \A n \in 1 .. N : es[n] \in Entry  BY <1>3, ElementOfSeq
  <2>2. QED  BY <2>1 DEF Entry
<1> DEFINE P(n) == f[n].count = Len(Entries(f[n])) /\ f[n].count <= n
           T == {n \in Nat : n <= N => P(n)}
<1>6. 0 \in T
  <2>1. EmptyTable(z).count = 0  BY DEF EmptyTable
  <2>2. P(0)  BY <2>1, <1>4, EmptyLength
  <2>3. QED  BY <2>2
<1>7. ASSUME NEW n \in Nat, n \in T PROVE n + 1 \in T
  <2>1. CASE n + 1 <= N
    <3>1. n \in 0 .. N /\ n + 1 \in 1 .. N /\ (n + 1) - 1 = n  BY <2>1
    <3>2. PICK t \in Table(z) : t = f[n]  BY <3>1, <1>4
    <3>3. t.count = Len(Entries(t)) /\ t.count <= n /\ t.count \in Nat
      <4>1. P(n)  BY <1>7, <2>1
      <4>2. QED  BY <4>1, <3>2 DEF Table
    <3>4. PICK k \in Keys, d \in Data : k = es[n + 1].key /\ d = es[n + 1].data  BY <3>1, <1>5
    <3>5. PICK g : g = f[n + 1] /\ g = ght_insert(t, k, d)  BY <3>1, <3>2, <3>4, <1>4
    <3>6. g.count = Len(Entries(g)) /\ g.count <= n + 1
      <4>1. CASE Refuses(t, k)
        <5>1. g = t  BY <4>1, <3>5 DEF ght_insert
        <5>2. QED  BY <5>1, <3>3
      <4>2. CASE ~Refuses(t, k)
        <5>1. Len(Entries(g)) = Len(Entries(t)) + 1 /\ g.count = t.count + 1
          BY <4>2, <3>5, InsertLength
        <5>2. QED  BY <5>1, <3>3
      <4>3. QED  BY <4>1, <4>2
    <3>7. P(n + 1)  BY <3>5, <3>6
    <3>8. QED  BY <3>7
  <2>2. QED  BY <2>1
<1> HIDE DEF T
<1>8. \A n \in Nat : n \in T  BY <1>6, <1>7, AllNumbers
<1>9. P(N)  BY <1>8 DEF T
<1>10. QED  BY <1>1, <1>2, <1>3, <1>9

LEMMA KeysBoundLength ==
  ASSUME NEW h, Good(h), IsFiniteSet(Keys)
  PROVE  Len(Entries(h)) <= Cardinality(Keys)
<1>1. PICK s \in Nat \ {0} : h \in Table(s)  BY DEF Good
<1>2. PICK es \in Seq(Entry) : es = Entries(h)  BY <1>1, EntriesAt
<1>3. PICK n \in Nat : n = Len(es) /\ DOMAIN es = 1 .. n  BY LenProperties
<1>4. \A i \in 1 .. n : es[i].key \in Keys
  <2>1. \A i \in 1 .. n : es[i] \in Entry  BY <1>3, ElementOfSeq
  <2>2. QED  BY <2>1 DEF Entry
<1>5. \A i, j \in 1 .. n : es[i].key = es[j].key => i = j  BY <1>2, <1>3, ListIsFound
<1> DEFINE f == [i \in 1 .. n |-> es[i].key]
<1>6. f \in Injection(1 .. n, Keys)  BY <1>4, <1>5 DEF Injection, IsInjective
<1> HIDE DEF f
<1>7. Cardinality(1 .. n) <= Cardinality(Keys)  BY <1>6, FS_Injection
<1>8. Cardinality(1 .. n) = n
  <2>1. Cardinality(1 .. n) = IF 1 > n THEN 0 ELSE n - 1 + 1  BY FS_Interval
  <2>2. (1 > n => n = 0) /\ n - 1 + 1 = n  OBVIOUS
  <2>3. QED  BY <2>1, <2>2
<1>9. QED  BY <1>2, <1>3, <1>7, <1>8

-----------------------------------------------------------------------------
(* The load                                                                  *)

(* The keys in use are descriptors, user ids, random session ids and tokens, *)
(* and hashes of command names; 0 is the key of a slot without data.         *)
NoZeroKey == 0 \notin Keys

(* However many chains were cut off, and however much the count is off       *)
(* therefore, the array does not outgrow this.                               *)
SizeBound == 2 * MinSize + 10 * (Cardinality(Keys) + 1)

(* The count of an array of that size is a size_t.                           *)
RoomToCount == IsFiniteSet(Keys) /\ 7 * SizeBound < 10 * CountMod

Loaded(h) ==
  /\ Good(h)
  /\ Len(Entries(h)) <= h.count /\ 10 * h.count <= 7 * h.size
  /\ h.size <= SizeBound
  /\ \/ h.size <= MinSize + 5 * (Cardinality(Keys) + 1)
     \/ h.count <= Cardinality(Keys)

LEMMA MovedLoaded ==
  ASSUME NEW s \in Nat, NEW h \in Table(s), Good(h), IsFiniteSet(Keys),
         NEW z \in Nat, z >= MinSize, z <= SizeBound, 10 * Len(Entries(h)) <= 7 * z
  PROVE  Loaded(Moved(h, z))
<1>1. z \in Nat \ {0}  BY MinSizeAssumption
<1>2. PICK g : g = Moved(h, z)  OBVIOUS
<1>3. Good(g) /\ g.size = z  BY <1>2, MovedGood
<1>4. g.count = Len(Entries(g)) /\ g.count <= Len(Entries(h))  BY <1>1, <1>2, MovedCount
<1>5. Len(Entries(g)) <= Cardinality(Keys)  BY <1>3, KeysBoundLength
<1>6. PICK x \in Nat, y \in Nat : x = Len(Entries(g)) /\ y = Len(Entries(h))
  <2>1. g \in Table(z)  BY <1>3 DEF Good
  <2>2. QED  BY <2>1, LengthNat
<1>7. x <= y /\ 10 * y <= 7 * z  BY <1>4, <1>6
<1>8. 10 * x <= 7 * z /\ x <= x  BY <1>7
<1>9. QED  BY <1>2, <1>3, <1>4, <1>5, <1>6, <1>8 DEF Loaded

LEMMA GrowArithmetic ==
  ASSUME NEW s \in Nat \ {0}, NEW c \in Nat, NEW l \in Nat, NEW m \in Nat, NEW n \in Nat,
         l <= c, 10 * (c - 1) <= 7 * s, s <= m + 5 * (n + 1) \/ c - 1 <= n, 10 * c > 7 * s
  PROVE  2 * s <= 2 * m + 10 * (n + 1) /\ 10 * l <= 7 * (2 * s)
OBVIOUS

LEMMA ShrinkArithmetic ==
  ASSUME NEW s \in Nat \ {0}, NEW c \in Nat, NEW l \in Nat, NEW m \in Nat \ {0},
         l <= c, 10 * c < 2 * s, s >= m
  PROVE  LET z == IF s \div 2 < m THEN m ELSE s \div 2 IN
         /\ z \in Nat /\ z >= m /\ z <= s /\ 10 * l <= 7 * z
         /\ (z = s => s = m) /\ 10 * c <= 7 * s
<1>1. PICK h \in Nat : h = s \div 2 /\ (s = 2 * h \/ s = 2 * h + 1)  OBVIOUS
<1>2. 10 * l <= 7 * h  BY <1>1
<1>3. h <= s /\ (h = s => s = 0)  BY <1>1
<1>4. CASE h < m
  <2>1. 10 * l <= 7 * m  BY <1>2, <1>4
  <2>2. 10 * c <= 7 * s  OBVIOUS
  <2>3. QED  BY <1>1, <1>4, <2>1, <2>2
<1>5. CASE ~(h < m)  BY <1>1, <1>2, <1>3, <1>5
<1>6. QED  BY <1>4, <1>5

LEMMA CheckLoaded ==
  ASSUME NEW h, Good(h), IsFiniteSet(Keys), Len(Entries(h)) <= h.count,
         10 * (h.count - 1) <= 7 * h.size, h.size <= SizeBound,
         \/ h.size <= MinSize + 5 * (Cardinality(Keys) + 1)
         \/ h.count - 1 <= Cardinality(Keys)
  PROVE  Loaded(ght_check_load(h))
<1>1. PICK s \in Nat \ {0} : s = h.size /\ h \in Table(s) /\ s >= MinSize  BY DEF Good
<1>2. PICK c \in Nat : c = h.count  BY <1>1 DEF Table
<1>3. PICK l \in Nat : l = Len(Entries(h))  BY <1>1, LengthNat
<1>4. PICK n \in Nat : n = Cardinality(Keys)  BY FS_CardinalityType
<1>5. PICK m \in Nat \ {0} : m = MinSize  BY MinSizeAssumption
<1>6. SizeBound = 2 * m + 10 * (n + 1)  BY <1>4, <1>5 DEF SizeBound
<1>7. l <= c /\ 10 * (c - 1) <= 7 * s /\ s <= 2 * m + 10 * (n + 1) /\ s >= m
      /\ (s <= m + 5 * (n + 1) \/ c - 1 <= n)
  BY <1>1, <1>2, <1>3, <1>4, <1>5, <1>6
<1>8. CASE 10 * c > 7 * s
  <2>1. ght_check_load(h) = ght_resize(h, 2 * s)  BY <1>1, <1>2, <1>8 DEF ght_check_load
  <2>2. 2 * s \in Nat /\ ~(2 * s < m) /\ 2 * s # s /\ 2 * s >= m  BY <1>7
  <2>3. ght_resize(h, 2 * s) = Moved(h, 2 * s)  BY <1>1, <1>5, <2>2 DEF ght_resize
  <2>4. 2 * s <= 2 * m + 10 * (n + 1) /\ 10 * l <= 7 * (2 * s)  BY <1>7, <1>8, GrowArithmetic
  <2>5. PICK z \in Nat : z = 2 * s  BY <2>2
  <2>6. z >= MinSize /\ z <= SizeBound /\ 10 * Len(Entries(h)) <= 7 * z
    BY <2>2, <2>4, <2>5, <1>3, <1>5, <1>6
  <2>7. Loaded(Moved(h, z))  BY <2>6, <1>1, MovedLoaded
  <2>8. QED  BY <2>1, <2>3, <2>5, <2>7
<1>9. CASE ~(10 * c > 7 * s) /\ 10 * c < 2 * s
  <2>1. ght_check_load(h) = ght_resize(h, s \div 2)  BY <1>1, <1>2, <1>9 DEF ght_check_load
  <2>2. PICK z : z = IF s \div 2 < m THEN m ELSE s \div 2  OBVIOUS
  <2>3. /\ z \in Nat /\ z >= m /\ z <= s /\ 10 * l <= 7 * z
        /\ (z = s => s = m) /\ 10 * c <= 7 * s
    BY <2>2, <1>7, <1>9, ShrinkArithmetic
  <2>4. ght_resize(h, s \div 2) = IF z = s THEN h ELSE Moved(h, z)
    BY <1>1, <1>5, <2>2 DEF ght_resize
  <2>5. CASE z = s
    <3>1. s <= m + 5 * (n + 1)  BY <2>3, <2>5
    <3>2. Loaded(h)  BY <3>1, <2>3, <1>1, <1>2, <1>3, <1>4, <1>5, <1>7 DEF Loaded
    <3>3. QED  BY <2>1, <2>4, <2>5, <3>2
  <2>6. CASE z # s
    <3>1. z <= 2 * m + 10 * (n + 1)  BY <2>3, <1>7
    <3>2. z >= MinSize /\ z <= SizeBound /\ 10 * Len(Entries(h)) <= 7 * z
      BY <3>1, <2>3, <1>3, <1>5, <1>6
    <3>3. Loaded(Moved(h, z))  BY <3>2, <2>3, <1>1, MovedLoaded
    <3>4. QED  BY <2>1, <2>4, <2>6, <3>3
  <2>7. QED  BY <2>5, <2>6
<1>10. CASE ~(10 * c > 7 * s) /\ ~(10 * c < 2 * s)
  <2>1. ght_check_load(h) = h  BY <1>1, <1>2, <1>10 DEF ght_check_load
  <2>2. s <= m + 5 * (n + 1)  BY <1>7, <1>10
  <2>3. 10 * c <= 7 * s  BY <1>10
  <2>4. QED  BY <2>1, <2>2, <2>3, <1>1, <1>2, <1>3, <1>4, <1>5, <1>7 DEF Loaded
<1>11. QED  BY <1>8, <1>9, <1>10

LEMMA InitLoaded == ASSUME RoomToCount, Init PROVE Loaded(ht)
<1>1. ht = EmptyTable(MinSize) /\ Good(ht)  BY InitGood DEF Init
<1>2. Len(Entries(ht)) = 0  BY <1>1, MinSizeAssumption, EmptyLength
<1>3. ht.size = MinSize /\ ht.count = 0  BY <1>1 DEF EmptyTable
<1>4. PICK n \in Nat : n = Cardinality(Keys)  BY FS_CardinalityType DEF RoomToCount
<1>5. PICK m \in Nat : m = MinSize  BY MinSizeAssumption
<1>6. 0 <= 0 /\ 10 * 0 <= 7 * m /\ m <= 2 * m + 10 * (n + 1) /\ 0 <= n  OBVIOUS
<1>7. QED  BY <1>1, <1>2, <1>3, <1>4, <1>5, <1>6 DEF Loaded, SizeBound

LEMMA InsertLoaded ==
  ASSUME RoomToCount, NEW h, Loaded(h), NEW k \in Keys, NEW d \in Data, ~Refuses(h, k)
  PROVE  Loaded(ght_check_load(ght_insert(h, k, d)))
<1>1. PICK s \in Nat \ {0} : s = h.size /\ h \in Table(s)  BY DEF Loaded, Good
<1>2. PICK g : g = ght_insert(h, k, d)  OBVIOUS
<1>3. Good(g)  BY <1>2, InsertGood DEF Loaded
<1>4. g.size = s
  <2>1. g \in Table(s)
    <3>1. Sound(h, s)  BY <1>1 DEF Loaded, Good
    <3>2. QED  BY <1>1, <1>2, <3>1, InsertType
  <2>2. QED  BY <2>1 DEF Table
<1>5. Len(Entries(g)) = Len(Entries(h)) + 1 /\ g.count = h.count + 1  BY <1>1, <1>2, InsertLength
<1>6. PICK c \in Nat : c = h.count  BY <1>1 DEF Table
<1>7. PICK l \in Nat : l = Len(Entries(h))  BY <1>1, LengthNat
<1>8. l <= c /\ 10 * c <= 7 * s /\ s <= SizeBound
      /\ (s <= MinSize + 5 * (Cardinality(Keys) + 1) \/ c <= Cardinality(Keys))
  BY <1>1, <1>6, <1>7 DEF Loaded
<1>9. l + 1 <= c + 1 /\ (c + 1) - 1 = c  BY <1>8
<1>10. /\ Len(Entries(g)) <= g.count /\ 10 * (g.count - 1) <= 7 * g.size /\ g.size <= SizeBound
       /\ \/ g.size <= MinSize + 5 * (Cardinality(Keys) + 1)
          \/ g.count - 1 <= Cardinality(Keys)
  BY <1>4, <1>5, <1>6, <1>7, <1>8, <1>9
<1>11. IsFiniteSet(Keys)  BY DEF RoomToCount
<1>12. QED  BY <1>2, <1>3, <1>10, <1>11, CheckLoaded

LEMMA CountsDown ==
  ASSUME NEW c \in Nat, NEW m \in Nat, c >= 1, c < m
  PROVE  (c + m - 1) % m = c - 1
<1>1. PICK x \in Nat : x = c - 1 /\ x < m  OBVIOUS
<1>2. c + m - 1 = m + x  BY <1>1
<1>3. (m + x) % m = x  BY <1>1
<1>4. QED  BY <1>1, <1>2, <1>3

LEMMA CountFits ==
  ASSUME RoomToCount, NEW h, Loaded(h)
  PROVE  h.count \in Nat /\ h.count < CountMod
<1>1. PICK c \in Nat, s \in Nat : c = h.count /\ s = h.size  BY DEF Loaded, Good, Table
<1>2. PICK n \in Nat : n = Cardinality(Keys)  BY FS_CardinalityType DEF RoomToCount
<1>3. PICK z \in Nat : z = SizeBound  BY <1>2, MinSizeAssumption DEF SizeBound
<1>4. 10 * c <= 7 * s /\ s <= z /\ 7 * z < 10 * CountMod  BY <1>1, <1>3 DEF Loaded, RoomToCount
<1>5. c < CountMod  BY <1>4, CountModAssumption
<1>6. QED  BY <1>1, <1>5

LEMMA DeleteLoaded ==
  ASSUME RoomToCount, NEW h, Loaded(h), NEW k \in Keys, NEW c \in Seq(Entry),
         Cut(c, h.table[k % h.size], k), k # 0, BucketOK(c, h.size, k % h.size)
  PROVE  Loaded(ght_del_bucket(h, k, c))
<1>1. PICK s \in Nat \ {0} : s = h.size /\ h \in Table(s) /\ Good(h)  BY DEF Loaded, Good
<1>2. PICK b \in 0 .. s - 1 : b = k % s  BY <1>1, HashRange
<1>3. PICK a \in Seq(Entry) : a = h.table[b]  BY <1>1, BucketType
<1>4. PICK g : g = Deleted(h, k, c) /\ Good(g)  BY <1>1, DeleteGood
<1>5. Replaces(g, h, s, b, c, (h.count + CountMod - 1) % CountMod)
  BY <1>1, <1>2, <1>4, DeletedReplaces
<1>6. Len(Entries(g)) + Len(a) = Len(Entries(h)) + Len(c)  BY <1>1, <1>3, <1>5, ReplacedLength
<1>7. Len(c) + 1 <= Len(a)  BY <1>1, <1>2, <1>3 DEF Cut
<1>8. g \in Table(s) /\ g.count = (h.count + CountMod - 1) % CountMod  BY <1>5 DEF Replaces
<1>9. PICK x \in Nat, y \in Nat, p \in Nat, q \in Nat :
        x = Len(Entries(g)) /\ y = Len(Entries(h)) /\ p = Len(c) /\ q = Len(a)
  BY <1>1, <1>8, LengthNat, LenProperties
<1>10. x + 1 <= y  BY <1>6, <1>7, <1>9
<1>11. PICK n \in Nat : n = h.count /\ n < CountMod  BY CountFits
<1>12. y <= n /\ 10 * n <= 7 * s /\ s <= SizeBound
       /\ (s <= MinSize + 5 * (Cardinality(Keys) + 1) \/ n <= Cardinality(Keys))
  BY <1>1, <1>9, <1>11 DEF Loaded
<1>13. g.count = n - 1
  <2>1. n >= 1 /\ CountMod \in Nat  BY <1>10, <1>12, CountModAssumption
  <2>2. (n + CountMod - 1) % CountMod = n - 1  BY <2>1, <1>11, CountsDown
  <2>3. QED  BY <2>2, <1>8, <1>11
<1>14. g.size = s  BY <1>8 DEF Table
<1>15. IsFiniteSet(Keys)  BY DEF RoomToCount
<1>16. PICK w \in Nat : w = Cardinality(Keys)  BY <1>15, FS_CardinalityType
<1>17. x <= n - 1 /\ 10 * ((n - 1) - 1) <= 7 * s /\ (n <= w => (n - 1) - 1 <= w)
  BY <1>10, <1>12
<1>18. /\ Len(Entries(g)) <= g.count /\ 10 * (g.count - 1) <= 7 * g.size /\ g.size <= SizeBound
       /\ \/ g.size <= MinSize + 5 * (Cardinality(Keys) + 1)
          \/ g.count - 1 <= Cardinality(Keys)
  BY <1>9, <1>12, <1>13, <1>14, <1>16, <1>17
<1>19. Loaded(ght_check_load(g))  BY <1>4, <1>15, <1>18, CheckLoaded
<1>20. ght_del_bucket(h, k, c) = ght_check_load(g)  BY <1>4 DEF ght_del_bucket, Deleted
<1>21. QED  BY <1>19, <1>20

LEMMA NextLoaded ==
  ASSUME NoZeroKey, RoomToCount, Loaded(ht), [Next]_vars
  PROVE  Loaded(ht')
<1>1. ASSUME NEW k \in Keys, server_ght_del(k) PROVE Loaded(ht')
  <2>1. CASE ht' = ht  BY <2>1
  <2>2. CASE \E c \in Seq(Entry) : /\ Cut(c, ht.table[k % ht.size], k)
                                   /\ BucketOK(c, ht.size, k % ht.size)
                                   /\ ht' = ght_del_bucket(ht, k, c)
    <3>1. k # 0  BY DEF NoZeroKey
    <3>2. QED  BY <2>2, <3>1, DeleteLoaded
  <2>3. Good(ht)  BY DEF Loaded
  <2>4. QED  BY <1>1, <2>1, <2>2, <2>3, DeleteStep
<1>2. ASSUME NEW k \in Keys, NEW d \in Data, server_ght_insert(k, d) PROVE Loaded(ht')
  <2>1. ret' = ~Refuses(ht, k) /\ ht' = IF ret' THEN ght_check_load(ght_insert(ht, k, d)) ELSE ht
    BY <1>2 DEF server_ght_insert
  <2>2. CASE Refuses(ht, k)  BY <2>1, <2>2
  <2>3. CASE ~Refuses(ht, k)  BY <2>1, <2>3, InsertLoaded
  <2>4. QED  BY <2>2, <2>3
<1>3. CASE UNCHANGED vars  BY <1>3 DEF vars
<1>4. QED  BY <1>1, <1>2, <1>3 DEF Next

LEMMA LoadedHolds ==
  ASSUME NoZeroKey, RoomToCount
  PROVE  Spec => []Loaded(ht)
<1>1. Init => Loaded(ht)  BY InitLoaded
<1>2. Loaded(ht) /\ [Next]_vars => Loaded(ht)'
  <2>1. ASSUME Loaded(ht), [Next]_vars PROVE Loaded(ht')  BY <2>1, NextLoaded
  <2>2. QED  BY <2>1 DEF Loaded, Good, Table, Sound, BucketOK
<1>3. QED  BY <1>1, <1>2, PTL DEF Spec

(* ght_check_load does its work although a deletion behind a bucket's head   *)
(* cuts off the rest of the chain (prev->next = NULL) and counts one entry   *)
(* only: the entries that can be reached never outnumber the count, and the  *)
(* count stays within 0.7 of the slots.  Not with key 0, which an empty slot *)
(* has as well: deleting it there would take one from a count of 0.          *)
THEOREM LoadBoundedHolds ==
  ASSUME NoZeroKey, RoomToCount
  PROVE  Spec => []LoadBounded
<1>1. Loaded(ht) => LoadBounded  BY DEF Loaded, LoadBounded
<1>2. QED  BY <1>1, LoadedHolds, PTL

(* ght_resize cannot run away: the lost entries stay in the count, which     *)
(* makes ght_check_load double an array that is emptier than it thinks, but  *)
(* a resize counts anew, so the slots stay below a bound in the number of    *)
(* the keys.                                                                 *)
THEOREM ArrayBounded ==
  ASSUME NoZeroKey, RoomToCount
  PROVE  Spec => [](ht.size <= SizeBound)
<1>1. Loaded(ht) => ht.size <= SizeBound  BY DEF Loaded
<1>2. QED  BY <1>1, LoadedHolds, PTL

(* The array keeps at least its initial size and one chain per slot, and     *)
(* count never wraps: however many entries deletions have cut off, the       *)
(* slots, and so the count, stay below a bound in the number of the keys.    *)
THEOREM TypeCorrect ==
  ASSUME NoZeroKey, RoomToCount
  PROVE  Spec => []TypeOK
<1>1. Loaded(ht) /\ ret \in BOOLEAN => TypeOK
  <2> SUFFICES ASSUME Loaded(ht), ret \in BOOLEAN PROVE TypeOK  OBVIOUS
  <2>1. PICK s \in Nat : s = ht.size /\ ht \in Table(s) /\ s >= MinSize  BY DEF Loaded, Good
  <2>2. DOMAIN ht.table = 0 .. s - 1 /\ \A i \in 0 .. s - 1 : ht.table[i] \in Seq(Entry)
    BY <2>1 DEF Table
  <2>3. PICK c \in Nat : c = ht.count /\ c < CountMod  BY CountFits
  <2>4. c \in 0 .. CountMod - 1  BY <2>3, CountModAssumption
  <2>5. QED  BY <2>1, <2>2, <2>3, <2>4 DEF TypeOK
<1>2. QED  BY <1>1, GoodHolds, LoadedHolds, PTL

-----------------------------------------------------------------------------
(* The table as a set of entries                                             *)

Holds(h, e) ==
  \E p \in 1 .. Len(h.table[e.key % h.size]) : h.table[e.key % h.size][p] = e

Same(g, h) == \A e \in Entry : Holds(g, e) <=> Holds(h, e)

LEMMA HeldIsListed ==
  ASSUME NEW h, Good(h), NEW e \in Entry
  PROVE  Holds(h, e) <=> \E i \in 1 .. Len(Entries(h)) : Entries(h)[i] = e
<1>1. PICK s \in Nat \ {0} : s = h.size /\ h \in Table(s) /\ Sound(h, s)  BY DEF Good
<1>2. PICK es \in Seq(Entry) : es = Entries(h)  BY <1>1, EntriesAt
<1>3. PICK off : /\ Offsets(off, h, s) /\ Len(es) = off[s]
                 /\ From(off, h, s, es) /\ To(off, h, s, es)
  BY <1>1, <1>2, EntriesAt
<1>4. PICK b \in 0 .. s - 1 : b = e.key % s
  <2>1. e.key \in Keys  BY DEF Entry
  <2>2. QED  BY <2>1, <1>1, HashRange
<1>5. ASSUME NEW p \in 1 .. Len(h.table[b]), h.table[b][p] = e
      PROVE  \E i \in 1 .. off[s] : es[i] = e
  <2>1. off[b] + p \in 1 .. off[s] /\ es[off[b] + p] = h.table[b][p]  BY <1>3 DEF To
  <2>2. QED  BY <2>1, <1>5
<1>6. ASSUME NEW i \in 1 .. off[s], es[i] = e
      PROVE  \E p \in 1 .. Len(h.table[b]) : h.table[b][p] = e
  <2>1. PICK a \in 0 .. s - 1 : \E p \in 1 .. Len(h.table[a]) : es[i] = h.table[a][p]
    BY <1>3 DEF From
  <2>2. PICK p \in 1 .. Len(h.table[a]) : es[i] = h.table[a][p]  BY <2>1
  <2>3. h.table[a][p].key % s = a  BY <1>1 DEF Sound, BucketOK
  <2>4. a = b  BY <2>2, <2>3, <1>4, <1>6
  <2>5. QED  BY <2>2, <2>4, <1>6
<1>7. QED  BY <1>1, <1>2, <1>3, <1>4, <1>5, <1>6 DEF Holds

(* Only the replaced bucket holds other entries.                             *)
LEMMA ReplacedHolds ==
  ASSUME NEW s \in Nat \ {0}, NEW h \in Table(s), NEW g, NEW b \in 0 .. s - 1, NEW c \in Seq(Entry),
         NEW n, Replaces(g, h, s, b, c, n), NEW e \in Entry
  PROVE  /\ e.key % s # b => (Holds(g, e) <=> Holds(h, e))
         /\ e.key % s = b => (Holds(g, e) <=> \E p \in 1 .. Len(c) : c[p] = e)
<1>1. g \in Table(s)  BY DEF Replaces
<1>2. e.key \in Keys  BY DEF Entry
<1>3. PICK a \in 0 .. s - 1 : a = e.key % s  BY <1>2, HashRange
<1>4. Holds(g, e) <=> \E p \in 1 .. Len(g.table[a]) : g.table[a][p] = e
  <2>1. g.size = s  BY <1>1 DEF Table
  <2>2. QED  BY <2>1, <1>3 DEF Holds
<1>5. Holds(h, e) <=> \E p \in 1 .. Len(h.table[a]) : h.table[a][p] = e
  <2>1. h.size = s  BY DEF Table
  <2>2. QED  BY <2>1, <1>3 DEF Holds
<1>6. g.table[b] = c /\ (a # b => g.table[a] = h.table[a])  BY DEF Replaces
<1>7. QED  BY <1>3, <1>4, <1>5, <1>6

LEMMA InsertHolds ==
  ASSUME NEW s \in Nat \ {0}, NEW h \in Table(s), NEW k \in Keys, NEW d \in Data, ~Refuses(h, k),
         NEW x \in Entry
  PROVE  Holds(ght_insert(h, k, d), x) <=> Holds(h, x) \/ x = [key |-> k, data |-> d]
<1>1. PICK b \in 0 .. s - 1 : b = k % s  BY HashRange
<1>2. PICK e \in Entry : e = [key |-> k, data |-> d] /\ e.key = k
  <2>1. [key |-> k, data |-> d] \in Entry  BY DEF Entry
  <2>2. [key |-> k, data |-> d].key = k  OBVIOUS
  <2>3. QED  BY <2>1, <2>2
<1>3. PICK a \in Seq(Entry) : a = h.table[b]  BY BucketType
<1>4. PICK c \in Seq(Entry) : c = Append(a, e)  BY AppendProperties
<1>5. PICK g : g = ght_insert(h, k, d)  OBVIOUS
<1>6. Replaces(g, h, s, b, c, h.count + 1)  BY <1>1, <1>2, <1>3, <1>4, <1>5, InsertReplaces
<1>7. CASE x.key % s # b
  <2>1. Holds(g, x) <=> Holds(h, x)  BY <1>6, <1>7, ReplacedHolds
  <2>2. x # e  BY <1>1, <1>2, <1>7
  <2>3. QED  BY <2>1, <2>2, <1>2, <1>5
<1>8. CASE x.key % s = b
  <2>1. Holds(g, x) <=> \E p \in 1 .. Len(c) : c[p] = x  BY <1>6, <1>8, ReplacedHolds
  <2>2. Holds(h, x) <=> \E p \in 1 .. Len(a) : a[p] = x  
    <3>1. h.table[x.key % h.size] = a  BY <1>3, <1>8 DEF Table
    <3>2. QED  BY <3>1 DEF Holds
  <2>3. PICK n \in Nat : n = Len(a)  OBVIOUS
  <2>4. Len(c) = n + 1 /\ c[n + 1] = e /\ \A p \in 1 .. n : c[p] = a[p]
    BY <2>3, <1>4, AppendProperties
  <2>5. n + 1 \in 1 .. n + 1 /\ \A p \in 1 .. n + 1 : p = n + 1 \/ p \in 1 .. n  OBVIOUS
  <2>6. \A p \in 1 .. n : p \in 1 .. n + 1  OBVIOUS
  <2>7. (\E p \in 1 .. n + 1 : c[p] = x) <=> (\E p \in 1 .. n : a[p] = x) \/ x = e
    BY <2>4, <2>5, <2>6
  <2>8. QED  BY <2>1, <2>2, <2>3, <2>4, <2>7, <1>2, <1>5
<1>9. QED  BY <1>7, <1>8

(* A key other than 0 is refused only if the table holds it.                 *)
LEMMA RefusedIsHeld ==
  ASSUME NEW s \in Nat \ {0}, NEW h \in Table(s), NEW k \in Keys, k # 0
  PROVE  Refuses(h, k) <=> \E e \in Entry : e.key = k /\ Holds(h, e)
<1>1. PICK b \in 0 .. s - 1 : b = k % s /\ Bucket(h, k) = h.table[b]  BY HashRange
<1>2. PICK a \in Seq(Entry) : a = h.table[b]  BY BucketType
<1>3. PICK n \in Nat : n = Len(a)  OBVIOUS
<1>4. \A e \in Entry : e.key = k => (Holds(h, e) <=> \E p \in 1 .. n : a[p] = e)
  <2>1. ASSUME NEW e \in Entry, e.key = k PROVE h.table[e.key % h.size] = a
    BY <2>1, <1>1, <1>2 DEF Table
  <2>2. QED  BY <2>1, <1>3 DEF Holds
<1>5. \A p \in 1 .. n : a[p] \in Entry  BY <1>3, ElementOfSeq
<1>6. CASE Refuses(h, k)
  <2>1. PICK p \in 1 .. n : a[p].key = k
    <3>1. CASE HeadKey(a) = k
      <4>1. a # <<>> /\ a[1].key = k  BY <3>1 DEF HeadKey
      <4>2. n # 0  BY <4>1, <1>3, EmptySeq
      <4>3. 1 \in 1 .. n  BY <4>2
      <4>4. QED  BY <4>1, <4>3
    <3>2. CASE InChain(a, k) # {}
      <4>1. PICK i \in 2 .. n : a[i].key = k  BY <3>2, <1>3 DEF InChain
      <4>2. i \in 1 .. n  OBVIOUS
      <4>3. QED  BY <4>1, <4>2
    <3>3. QED  BY <1>1, <1>2, <1>6, <3>1, <3>2 DEF Refuses
  <2>2. a[p] \in Entry /\ Holds(h, a[p])  BY <2>1, <1>4, <1>5
  <2>3. QED  BY <2>1, <2>2, <1>6
<1>7. CASE ~Refuses(h, k)
  <2>1. \A p \in 1 .. n : a[p].key # k  BY <1>1, <1>2, <1>3, <1>7, NotRefused
  <2>2. QED  BY <2>1, <1>4, <1>7
<1>8. QED  BY <1>6, <1>7

LEMMA EmptyHolds ==
  ASSUME NEW z \in Nat \ {0}, NEW e \in Entry
  PROVE  ~Holds(EmptyTable(z), e)
<1>1. PICK h \in Table(z) : h = EmptyTable(z)  BY EmptyTableType
<1>2. e.key \in Keys  BY DEF Entry
<1>3. PICK b \in 0 .. z - 1 : b = e.key % z  BY <1>2, HashRange
<1>4. h.table[b] = <<>>  BY <1>1 DEF EmptyTable
<1>5. Len(h.table[b]) = 0  BY <1>4
<1>6. Holds(h, e) => \E p \in 1 .. Len(h.table[b]) : TRUE
  <2>1. h.size = z  BY DEF Table
  <2>2. QED  BY <2>1, <1>3 DEF Holds
<1>7. Holds(h, e) => \E p \in 1 .. 0 : TRUE  BY <1>5, <1>6
<1>8. QED  BY <1>1, <1>7

(* ght_resize loses no entry and invents none: none is refused by the new    *)
(* table, since no key is listed twice.                                      *)
LEMMA MovedSame ==
  ASSUME NoZeroKey, NEW h, Good(h), NEW z \in Nat \ {0}
  PROVE  Same(Moved(h, z), h)
<1>1. PICK s \in Nat : h \in Table(s)  BY DEF Good
<1>2. PICK f : Moves(f, Entries(h), z) /\ Moved(h, z) = f[Len(Entries(h))]  BY <1>1, MovedRuns
<1>3. PICK es \in Seq(Entry) : es = Entries(h)  BY <1>1, EntriesAt
<1>4. PICK N \in Nat : N = Len(es) /\ DOMAIN es = 1 .. N  BY LenProperties
<1>5. /\ f \in [0 .. N -> Table(z)] /\ f[0] = EmptyTable(z)
      /\ \A n \in 1 .. N : f[n] = ght_insert(f[n - 1], es[n].key, es[n].data)
  BY <1>2, <1>3, <1>4 DEF Moves
<1>6. \A n \in 1 .. N : es[n] \in Entry  BY <1>4, ElementOfSeq
<1>7. \A i, j \in 1 .. N : es[i].key = es[j].key => i = j  BY <1>3, <1>4, ListIsFound
<1> DEFINE P(n) == \A e \in Entry : Holds(f[n], e) <=> \E i \in 1 .. n : es[i] = e
           T == {n \in Nat : n <= N => P(n)}
<1>8. 0 \in T
  <2>1. \A e \in Entry : ~Holds(f[0], e)  BY <1>5, EmptyHolds
  <2>2. P(0)  BY <2>1
  <2>3. QED  BY <2>2
<1>9. ASSUME NEW n \in Nat, n \in T PROVE n + 1 \in T
  <2>1. CASE n + 1 <= N
    <3>1. n \in 0 .. N /\ n + 1 \in 1 .. N /\ (n + 1) - 1 = n
          /\ \A i \in 1 .. n : i \in 1 .. N /\ i # n + 1
      BY <2>1
    <3>2. PICK t \in Table(z) : t = f[n]  BY <3>1, <1>5
    <3>3. \A e \in Entry : Holds(t, e) <=> \E i \in 1 .. n : es[i] = e
      <4>1. P(n)  BY <1>9, <2>1
      <4>2. QED  BY <4>1, <3>2
    <3>4. PICK x \in Entry : x = es[n + 1]  BY <3>1, <1>6
    <3>5. PICK k \in Keys, d \in Data : k = x.key /\ d = x.data /\ x = [key |-> k, data |-> d]
      BY DEF Entry
    <3>6. PICK g : g = f[n + 1] /\ g = ght_insert(t, k, d)  BY <3>1, <3>2, <3>4, <3>5, <1>5
    <3>7. ~Refuses(t, k)
      <4>1. k # 0  BY DEF NoZeroKey
      <4>2. \A e \in Entry : Holds(t, e) => e.key # k  BY <3>1, <3>3, <3>4, <3>5, <1>7
      <4>3. QED  BY <4>1, <4>2, RefusedIsHeld
    <3>8. \A e \in Entry : Holds(g, e) <=> Holds(t, e) \/ e = x
      BY <3>5, <3>6, <3>7, InsertHolds
    <3>9. \A e : (\E i \in 1 .. n + 1 : es[i] = e) <=> (\E i \in 1 .. n : es[i] = e) \/ e = x
      <4>1. n + 1 \in 1 .. n + 1 /\ \A p \in 1 .. n + 1 : p = n + 1 \/ p \in 1 .. n  OBVIOUS
      <4>2. \A p \in 1 .. n : p \in 1 .. n + 1  OBVIOUS
      <4>3. QED  BY <4>1, <4>2, <3>4
    <3>10. P(n + 1)  BY <3>3, <3>6, <3>8, <3>9
    <3>11. QED  BY <3>10
  <2>2. QED  BY <2>1
<1> HIDE DEF T
<1>10. \A n \in Nat : n \in T  BY <1>8, <1>9, AllNumbers
<1>11. P(N)  BY <1>10 DEF T
<1>12. ASSUME NEW e \in Entry PROVE Holds(Moved(h, z), e) <=> Holds(h, e)
  <2>1. Holds(h, e) <=> \E i \in 1 .. N : es[i] = e  BY <1>3, <1>4, HeldIsListed
  <2>2. Holds(f[N], e) <=> \E i \in 1 .. N : es[i] = e  BY <1>11
  <2>3. QED  BY <2>1, <2>2, <1>2, <1>3, <1>4
<1>13. QED  BY <1>12 DEF Same

LEMMA ResizeSame ==
  ASSUME NoZeroKey, NEW h, Good(h), NEW n \in Nat
  PROVE  Same(ght_resize(h, n), h)
<1>1. PICK z \in Nat \ {0} : z = (IF n < MinSize THEN MinSize ELSE n)  BY MinSizeAssumption
<1>2. ght_resize(h, n) = IF z = h.size THEN h ELSE Moved(h, z)  BY <1>1 DEF ght_resize
<1>3. Same(Moved(h, z), h)  BY MovedSame
<1>4. Same(h, h)  BY DEF Same
<1>5. QED  BY <1>2, <1>3, <1>4

LEMMA CheckLoadSame ==
  ASSUME NoZeroKey, NEW h, Good(h)
  PROVE  Same(ght_check_load(h), h)
<1>1. PICK s \in Nat : s = h.size  BY DEF Good
<1>2. 2 * s \in Nat /\ s \div 2 \in Nat  OBVIOUS
<1>3. Same(ght_resize(h, 2 * s), h) /\ Same(ght_resize(h, s \div 2), h)  BY <1>2, ResizeSame
<1>4. Same(h, h)  BY DEF Same
<1>5. QED  BY <1>1, <1>3, <1>4 DEF ght_check_load

-----------------------------------------------------------------------------
(* The table as a map                                                        *)

MapOf(h) ==
  [k \in {Entries(h)[i].key : i \in DOMAIN Entries(h)} |-> server_ght_get(h, k)]

IsMapOf(f, h) ==
  /\ f = [k \in DOMAIN f |-> f[k]]
  /\ \A k : k \in DOMAIN f <=> \E e \in Entry : e.key = k /\ Holds(h, e)
  /\ \A e \in Entry : Holds(h, e) => f[e.key] = e.data

LEMMA MapOfTable ==
  ASSUME NEW h, Good(h)
  PROVE  IsMapOf(MapOf(h), h)
<1>1. PICK s \in Nat : h \in Table(s)  BY DEF Good
<1>2. PICK es \in Seq(Entry) : es = Entries(h)  BY <1>1, EntriesAt
<1>3. PICK N \in Nat : N = Len(es) /\ DOMAIN es = 1 .. N  BY LenProperties
<1>4. \A i \in 1 .. N : es[i] \in Entry  BY <1>3, ElementOfSeq
<1>5. \A e \in Entry : Holds(h, e) <=> \E i \in 1 .. N : es[i] = e  BY <1>2, <1>3, HeldIsListed
<1>6. \A i \in 1 .. N : server_ght_get(h, es[i].key) = es[i].data  BY <1>2, <1>3, ListIsFound
<1>7. PICK f : f = MapOf(h)  OBVIOUS
<1>8. f = [k \in {es[i].key : i \in 1 .. N} |-> server_ght_get(h, k)]  BY <1>2, <1>3, <1>7 DEF MapOf
<1>9. f = [k \in DOMAIN f |-> f[k]]  BY <1>8
<1>10. \A k : k \in DOMAIN f <=> \E i \in 1 .. N : es[i].key = k  BY <1>8
<1>11. \A k : k \in DOMAIN f <=> \E e \in Entry : e.key = k /\ Holds(h, e)
  BY <1>4, <1>5, <1>10
<1>12. \A i \in 1 .. N : f[es[i].key] = es[i].data  BY <1>6, <1>8
<1>13. \A e \in Entry : Holds(h, e) => f[e.key] = e.data  BY <1>5, <1>12
<1>14. QED  BY <1>7, <1>9, <1>11, <1>13 DEF IsMapOf

LEMMA SameMap ==
  ASSUME NEW f, NEW g, NEW h, IsMapOf(f, h), IsMapOf(g, h)
  PROVE  f = g
<1>1. DOMAIN f = DOMAIN g  BY DEF IsMapOf
<1>2. \A k \in DOMAIN f : f[k] = g[k]  BY DEF IsMapOf
<1>3. f = [k \in DOMAIN f |-> f[k]] /\ g = [k \in DOMAIN g |-> g[k]]  BY DEF IsMapOf
<1>4. QED  BY <1>1, <1>2, <1>3

-----------------------------------------------------------------------------
(* The steps as steps of LossyMap                                            *)

LEMMA InsertMaps ==
  ASSUME NoZeroKey, NEW h, Good(h), NEW k \in Keys, NEW d \in Data, ~Refuses(h, k),
         NEW f, IsMapOf(f, h)
  PROVE  /\ k \notin DOMAIN f
         /\ IsMapOf([x \in DOMAIN f \cup {k} |-> IF x = k THEN d ELSE f[x]],
                    ght_check_load(ght_insert(h, k, d)))
<1>1. PICK s \in Nat \ {0} : s = h.size /\ h \in Table(s)  BY DEF Good
<1>2. PICK e \in Entry : e = [key |-> k, data |-> d]  BY DEF Entry
<1>3. e.key = k /\ e.data = d  BY <1>2
<1>4. PICK g : g = ght_insert(h, k, d) /\ Good(g)  BY InsertGood
<1>5. \A x \in Entry : Holds(g, x) <=> Holds(h, x) \/ x = e  BY <1>1, <1>2, <1>4, InsertHolds
<1>6. k # 0  BY DEF NoZeroKey
<1>7. \A x \in Entry : x.key = k => ~Holds(h, x)  BY <1>1, <1>6, RefusedIsHeld
<1>8. k \notin DOMAIN f  BY <1>7 DEF IsMapOf
<1>9. PICK t : t = ght_check_load(g) /\ \A x \in Entry : Holds(t, x) <=> Holds(g, x)
  BY <1>4, CheckLoadSame DEF Same
<1>10. \A x \in Entry : Holds(t, x) <=> Holds(h, x) \/ x = e  BY <1>5, <1>9
<1> DEFINE m == [x \in DOMAIN f \cup {k} |-> IF x = k THEN d ELSE f[x]]
<1>11. DOMAIN m = DOMAIN f \cup {k} /\ m[k] = d /\ \A x \in DOMAIN f : m[x] = f[x]  BY <1>8
<1>12. m = [x \in DOMAIN m |-> m[x]]  OBVIOUS
<1> HIDE DEF m
<1>13. \A x : x \in DOMAIN f <=> \E y \in Entry : y.key = x /\ Holds(h, y)  BY DEF IsMapOf
<1>14. \A x : x \in DOMAIN m <=> \E y \in Entry : y.key = x /\ Holds(t, y)
  BY <1>3, <1>10, <1>11, <1>13
<1>15. \A y \in Entry : Holds(t, y) => m[y.key] = y.data
  <2>1. \A y \in Entry : Holds(h, y) => y.key \in DOMAIN f /\ f[y.key] = y.data
    BY <1>13 DEF IsMapOf
  <2>2. QED  BY <2>1, <1>3, <1>10, <1>11
<1>16. IsMapOf(m, t)  BY <1>12, <1>14, <1>15 DEF IsMapOf
<1>17. QED  BY <1>4, <1>8, <1>9, <1>16 DEF m

LEMMA DeleteMaps ==
  ASSUME NoZeroKey, NEW h, Good(h), NEW k \in Keys, NEW c \in Seq(Entry),
         Cut(c, h.table[k % h.size], k), BucketOK(c, h.size, k % h.size), NEW f, IsMapOf(f, h)
  PROVE  /\ k \in DOMAIN f
         /\ \E kept \in SUBSET (DOMAIN f \ {k}) :
              IsMapOf([x \in kept |-> f[x]], ght_del_bucket(h, k, c))
<1>1. PICK s \in Nat \ {0} : s = h.size /\ h \in Table(s)  BY DEF Good
<1>2. PICK b \in 0 .. s - 1 : b = k % s  BY <1>1, HashRange
<1>3. PICK a \in Seq(Entry) : a = h.table[b]  BY <1>1, BucketType
<1>4. /\ \A p \in 1 .. Len(c) : c[p].key # k /\ \E q \in 1 .. Len(a) : c[p] = a[q]
      /\ \E q \in 1 .. Len(a) : a[q].key = k
  <2>1. Cut(c, a, k) /\ k # 0  BY <1>1, <1>2, <1>3 DEF NoZeroKey
  <2>2. QED  BY <2>1 DEF Cut
<1>5. \A e \in Entry : e.key % s = b => (Holds(h, e) <=> \E q \in 1 .. Len(a) : a[q] = e)
  <2> SUFFICES ASSUME NEW e \in Entry, e.key % s = b
               PROVE  Holds(h, e) <=> \E q \in 1 .. Len(a) : a[q] = e
    OBVIOUS
  <2>1. h.table[e.key % h.size] = a  BY <1>1, <1>3
  <2>2. QED  BY <2>1 DEF Holds
<1>6. \A x : x \in DOMAIN f <=> \E y \in Entry : y.key = x /\ Holds(h, y)  BY DEF IsMapOf
<1>7. k \in DOMAIN f
  <2>1. PICK q \in 1 .. Len(a) : a[q].key = k  BY <1>4
  <2>2. a[q] \in Entry  BY ElementOfSeq
  <2>3. Holds(h, a[q])  BY <2>1, <2>2, <1>2, <1>5
  <2>4. QED  BY <2>1, <2>2, <2>3, <1>6
<1>8. PICK g : g = Deleted(h, k, c) /\ Good(g)  BY <1>1, DeleteGood
<1>9. Replaces(g, h, s, b, c, (h.count + CountMod - 1) % CountMod)
  BY <1>1, <1>2, <1>8, DeletedReplaces
<1>10. ASSUME NEW e \in Entry, Holds(g, e) PROVE Holds(h, e) /\ e.key # k
  <2>1. CASE e.key % s # b
    <3>1. Holds(h, e)  BY <2>1, <1>1, <1>9, <1>10, ReplacedHolds
    <3>2. QED  BY <3>1, <2>1, <1>2
  <2>2. CASE e.key % s = b
    <3>1. PICK p \in 1 .. Len(c) : c[p] = e  BY <2>2, <1>1, <1>9, <1>10, ReplacedHolds
    <3>2. QED  BY <3>1, <2>2, <1>4, <1>5
  <2>3. QED  BY <2>1, <2>2
<1>11. PICK t : t = ght_check_load(g) /\ \A x \in Entry : Holds(t, x) <=> Holds(g, x)
  BY <1>8, CheckLoadSame DEF Same
<1> DEFINE kept == {x \in DOMAIN f : \E y \in Entry : y.key = x /\ Holds(t, y)}
           m == [x \in kept |-> f[x]]
<1>12. \A y \in Entry : Holds(t, y) => y.key \in DOMAIN f \ {k} /\ f[y.key] = y.data
  <2>1. \A y \in Entry : Holds(t, y) => Holds(h, y) /\ y.key # k  BY <1>10, <1>11
  <2>2. QED  BY <2>1, <1>6 DEF IsMapOf
<1>13. kept \in SUBSET (DOMAIN f \ {k})  BY <1>12
<1>14. \A x : x \in kept <=> \E y \in Entry : y.key = x /\ Holds(t, y)  BY <1>12
<1> HIDE DEF kept
<1>15. DOMAIN m = kept /\ (\A x \in kept : m[x] = f[x]) /\ m = [x \in DOMAIN m |-> m[x]]  OBVIOUS
<1> HIDE DEF m
<1>16. \A y \in Entry : Holds(t, y) => m[y.key] = y.data  BY <1>12, <1>14, <1>15
<1>17. IsMapOf(m, t)  BY <1>14, <1>15, <1>16 DEF IsMapOf
<1>18. t = ght_del_bucket(h, k, c)  BY <1>8, <1>11 DEF ght_del_bucket, Deleted
<1>19. QED  BY <1>7, <1>13, <1>17, <1>18 DEF m

LEMMA MapsNext ==
  ASSUME NoZeroKey, Good(ht), ret \in BOOLEAN, Good(ht'), [Next]_vars
  PROVE  [Abstract!Next]_(<<Contents, ret>>)
<1>1. PICK f : f = Contents /\ f = MapOf(ht)  BY DEF Contents, MapOf
<1>2. PICK g : g = Contents' /\ g = MapOf(ht')  BY DEF Contents, MapOf
<1>3. IsMapOf(f, ht) /\ IsMapOf(g, ht')  BY <1>1, <1>2, MapOfTable
<1>4. ASSUME NEW k \in Keys, server_ght_del(k) PROVE Abstract!Delete(k)
  <2>1. PICK s \in Nat \ {0} : s = ht.size /\ ht \in Table(s)  BY DEF Good
  <2>2. PICK a : a = ht.table[k % ht.size]  OBVIOUS
  <2>3. CASE ret' = FALSE /\ ht' = ht /\ \A p \in 1 .. Len(a) : a[p].key # k
    <3>1. \A e \in Entry : Holds(ht, e) => e.key # k  BY <2>2, <2>3 DEF Holds
    <3>2. k \notin DOMAIN f  BY <3>1, <1>3 DEF IsMapOf
    <3>3. g = f  BY <2>3, <1>3, SameMap
    <3>4. QED  BY <2>3, <3>2, <3>3, <1>1, <1>2 DEF Abstract!Delete
  <2>4. CASE /\ ret' = TRUE
             /\ \E c \in Seq(Entry) : /\ Cut(c, a, k) /\ BucketOK(c, ht.size, k % ht.size)
                                      /\ ht' = ght_del_bucket(ht, k, c)
    <3>1. PICK c \in Seq(Entry) : /\ Cut(c, a, k) /\ BucketOK(c, ht.size, k % ht.size)
                                  /\ ht' = ght_del_bucket(ht, k, c)
      BY <2>4
    <3>2. k \in DOMAIN f /\ \E kept \in SUBSET (DOMAIN f \ {k}) : IsMapOf([x \in kept |-> f[x]], ht')
      BY <2>2, <3>1, <1>3, DeleteMaps
    <3>3. PICK kept \in SUBSET (DOMAIN f \ {k}) : IsMapOf([x \in kept |-> f[x]], ht')  BY <3>2
    <3>4. g = [x \in kept |-> f[x]]  BY <3>3, <1>3, SameMap
    <3>5. QED  BY <2>4, <3>2, <3>4, <1>1, <1>2 DEF Abstract!Delete, Abstract!Restrict
  <2>5. QED  BY <1>4, <2>2, <2>3, <2>4, DeleteStep
<1>5. ASSUME NEW k \in Keys, NEW d \in Data, server_ght_insert(k, d) PROVE Abstract!Insert(k, d)
  <2>1. ret' = ~Refuses(ht, k) /\ ht' = IF ret' THEN ght_check_load(ght_insert(ht, k, d)) ELSE ht
    BY <1>5 DEF server_ght_insert
  <2>2. CASE Refuses(ht, k)
    <3>1. ret' = FALSE /\ ht' = ht  BY <2>1, <2>2
    <3>2. k # 0  BY DEF NoZeroKey
    <3>3. PICK s \in Nat \ {0} : ht \in Table(s)  BY DEF Good
    <3>4. \E e \in Entry : e.key = k /\ Holds(ht, e)  BY <2>2, <3>2, <3>3, RefusedIsHeld
    <3>5. k \in DOMAIN f  BY <3>4, <1>3 DEF IsMapOf
    <3>6. g = f  BY <3>1, <1>3, SameMap
    <3>7. QED  BY <3>1, <3>5, <3>6, <1>1, <1>2 DEF Abstract!Insert
  <2>3. CASE ~Refuses(ht, k)
    <3>1. ret' = TRUE /\ ht' = ght_check_load(ght_insert(ht, k, d))  BY <2>1, <2>3
    <3>2. /\ k \notin DOMAIN f
          /\ IsMapOf([x \in DOMAIN f \cup {k} |-> IF x = k THEN d ELSE f[x]], ht')
      BY <2>3, <3>1, <1>3, InsertMaps
    <3>3. g = [x \in DOMAIN f \cup {k} |-> IF x = k THEN d ELSE f[x]]
      BY <3>2, <1>3, SameMap
    <3>4. QED  BY <3>1, <3>2, <3>3, <1>1, <1>2 DEF Abstract!Insert
  <2>4. QED  BY <2>2, <2>3
<1>6. CASE UNCHANGED vars
  <2>1. ht' = ht /\ ret' = ret  BY <1>6 DEF vars
  <2>2. g = f  BY <2>1, <1>3, SameMap
  <2>3. QED  BY <2>1, <2>2, <1>1, <1>2
<1>7. QED  BY <1>4, <1>5, <1>6 DEF Next, Abstract!Next

LEMMA MapsInit == Init => Abstract!Init
<1> SUFFICES ASSUME Init PROVE Contents = <<>> /\ ret = TRUE  BY DEF Abstract!Init
<1>1. ht = EmptyTable(MinSize) /\ ret = TRUE  BY DEF Init
<1>2. Len(Entries(ht)) = 0  BY <1>1, MinSizeAssumption, EmptyLength
<1>3. PICK s \in Nat : ht \in Table(s)  BY <1>1, MinSizeAssumption, EmptyTableType
<1>4. PICK es \in Seq(Entry) : es = Entries(ht)  BY <1>3, EntriesAt
<1>5. DOMAIN es = {}  BY <1>2, <1>4, LenProperties
<1>6. Contents = [k \in {} |-> server_ght_get(ht, k)]  BY <1>4, <1>5 DEF Contents
<1>7. Contents = <<>>  BY <1>6
<1>8. QED  BY <1>1, <1>7

(* The table implements LossyMap: an insertion, with all the moving that a   *)
(* resize does, adds its key and changes nothing else, a deletion takes its  *)
(* key away, perhaps with the rest of the chain, but never changes the data  *)
(* of a key nor brings one back, and both answer truthfully.  Only keys      *)
(* other than 0: ght_insert compares a slot's key before it knows whether    *)
(* the slot is in use, and so refuses key 0 where it is not there.           *)
THEOREM TableIsLossyMap ==
  ASSUME NoZeroKey
  PROVE  Spec => ImplementsLossyMap
<1>1. Init => Abstract!Init  BY MapsInit
<1> DEFINE I == Good(ht) /\ ret \in BOOLEAN
<1>2. I /\ I' /\ [Next]_vars => [Abstract!Next]_(<<Contents, ret>>)
  <2>1. ASSUME I, I', [Next]_vars PROVE [Abstract!Next]_(<<Contents, ret>>)
    <3>1. Good(ht')  BY <2>1 DEF Good, Table, Sound, BucketOK
    <3>2. QED  BY <2>1, <3>1, MapsNext
  <2>2. QED  BY <2>1
<1>3. Spec => []I  BY GoodHolds
<1> HIDE DEF I
<1>4. QED  BY <1>1, <1>2, <1>3, PTL DEF Spec, ImplementsLossyMap, Abstract!Spec
=============================================================================
