---------------------------- MODULE GroupsProofs ----------------------------
(***************************************************************************)
(* Proofs about Groups, for every number of workers, users, groups,         *)
(* messages and codes, every set of max_uses and every length of the        *)
(* pipelines: while the transactions that delete groups interleave with     *)
(* what other connections insert and delete, no row is left behind and      *)
(* nothing is deleted without the right to.                                 *)
(*                                                                          *)
(* The second part is about one worker (--thread-pool=1).  With two workers *)
(* its two properties fail: a code is used that another use has just        *)
(* removed, and broadcasts of two pipelines overtake each other.  The third *)
(* part is about what is on its way to pages, with any number of workers.   *)
(***************************************************************************)
EXTENDS Groups, SequenceTheorems, FiniteSetTheorems, WellFoundedInduction, TLAPS

(* The statements of a transaction; the ones a following one must follow,   *)
(* the ones a preceding one must precede, and which follows which.          *)
TxKinds == {"begin", "member_ids", "del_msgs", "del_members", "del_codes", "del_group",
            "commit"}
Before  == TxKinds \ {"commit"}
Inside  == TxKinds \ {"begin"}
Order   == {<<"begin", "member_ids">>, <<"member_ids", "del_msgs">>,
            <<"del_msgs", "del_members">>, <<"del_members", "del_codes">>,
            <<"del_codes", "del_group">>, <<"del_group", "commit">>}

Kinds == TxKinds \cup
  {"create", "user_groups", "public_groups", "get_group", "join", "insert_msg", "group_msgs",
   "delete_msg", "create_code", "join_code", "join_code_update", "delete_code", "owner",
   "broadcast"}

News  == [what : {"msg", "delete_msg", "join"}, msg : Msgs \cup {None}]
Query == [kind : Kinds, user : Users \cup {None}, group : Groups \cup {None},
          arg : BOOLEAN \cup Int \cup Msgs \cup Codes \cup {None} \cup News]

(* What a query of each kind carries.                                       *)
QueryOK(q) ==
  /\ q.kind # "broadcast" => q.user \in Users
  /\ q.kind \notin {"create", "user_groups", "public_groups", "delete_msg", "join_code",
                    "delete_code"} => q.group \in Groups
  /\ q.kind = "create" => q.arg \in BOOLEAN
  /\ q.kind = "create_code" => q.arg \in Int
  /\ q.kind = "delete_msg" => q.arg \in Msgs
  /\ q.kind \in {"join_code", "join_code_update", "delete_code"} => q.arg \in Codes
  /\ q.kind = "broadcast" => q.arg \in News /\ (q.arg.what = "msg" => q.arg.msg \in Msgs)

Follows(q, r) == <<q.kind, r.kind>> \in Order /\ r.user = q.user /\ r.group = q.group

(* The statements of a transaction are queued one behind the other, with    *)
(* nothing between them; those executed already may be missing.             *)
Shape(p) ==
  \A i \in 1 .. Len(p) :
    /\ p[i].kind \in Before => i < Len(p)
    /\ i < Len(p) /\ (p[i].kind \in Before \/ p[i + 1].kind \in Inside)
         => Follows(p[i], p[i + 1])

PipeTypes == pipe \in [Workers -> Seq(Query)]
PipeOK ==
  \A w \in Workers :
    /\ Shape(pipe[w])
    /\ \A i \in 1 .. Len(pipe[w]) : QueryOK(pipe[w][i])

(* A transaction is sent for the owner, and a group keeps its owner.        *)
SentByOwner ==
  \A w \in Workers : \A i \in 1 .. Len(pipe[w]) :
    LET q == pipe[w][i] IN
    q.kind \in TxKinds => grp[q.group].life # "none" /\ grp[q.group].owner = q.user

TableTypes ==
  /\ grp \in [Groups -> [life : Life, owner : Users \cup {None}, public : BOOLEAN]]
  /\ member \subseteq Users \X Groups
  /\ msg \in [Msgs -> [life : Life, user : Users \cup {None}, group : Groups \cup {None}]]
  /\ code \in [Codes -> [life : Life, group : Groups \cup {None}, uses : Nat, max : Int]]
  /\ \A m \in Msgs : msg[m].life # "none" => msg[m].user \in Users /\ msg[m].group \in Groups
  /\ \A c \in Codes : code[c].life # "none" => code[c].group \in Groups

ViewTypes == shown \in [Users -> SUBSET Groups] /\ view \in [Users -> SUBSET Msgs]

Tx == [group : Groups \cup {None}, failed : BOOLEAN, ids : SUBSET Users, msgs : SUBSET Msgs,
       members : SUBSET (Users \X Groups), codes : SUBSET Codes, dropped : BOOLEAN]

(* The worker is between BEGIN and COMMIT.                                  *)
InTx(w) == pipe[w] # <<>> /\ pipe[w][1].kind \in Inside

(* How far a transaction is follows from the query that is next.            *)
TxStages ==
  \A w \in Workers :
    /\ ~InTx(w) => tx[w] = NoTx
    /\ InTx(w) => tx[w].group = pipe[w][1].group
    /\ tx[w].failed => /\ tx[w].members = {} /\ tx[w].msgs = {} /\ tx[w].codes = {}
                       /\ ~tx[w].dropped
    /\ InTx(w) => (tx[w].dropped <=> pipe[w][1].kind = "commit" /\ ~tx[w].failed)

(* What a transaction has deleted is still there for the others, belongs to *)
(* its group and is not deleted by a second one.                            *)
RowsHeld ==
  /\ \A w \in Workers :
       /\ \A p \in tx[w].members : p \in member /\ p[2] = tx[w].group
       /\ \A m \in tx[w].msgs : msg[m].life = "live" /\ msg[m].group = tx[w].group
       /\ \A c \in tx[w].codes : code[c].life = "live" /\ code[c].group = tx[w].group
  /\ \A v, w \in Workers : v # w =>
       /\ tx[v].members \cap tx[w].members = {}
       /\ tx[v].msgs \cap tx[w].msgs = {}
       /\ tx[v].codes \cap tx[w].codes = {}

(* DeletionIsolated, row by row.                                            *)
Isolated ==
  \A w \in Workers : tx[w].dropped =>
    /\ \A p \in member : p[2] = tx[w].group => p \in tx[w].members
    /\ \A m \in Msgs : msg[m].life = "live" /\ msg[m].group = tx[w].group => m \in tx[w].msgs
    /\ \A c \in Codes :
         code[c].life = "live" /\ code[c].group = tx[w].group => c \in tx[w].codes

TxTypes == tx \in [Workers -> Tx]

IInv ==
  /\ PipeTypes /\ PipeOK /\ SentByOwner
  /\ TableTypes /\ ViewTypes
  /\ TxTypes /\ TxStages /\ RowsHeld
  /\ NoOrphans /\ Isolated

USE MaxUsesAssumption, MaxPipeAssumption, NoneAssumption

-----------------------------------------------------------------------------
(* The pipelines                                                             *)

(* The first query is answered and its callback sends m.                     *)
LEMMA AnsweredSeq ==
  ASSUME NEW S, NEW p \in Seq(S), NEW m \in Seq(S), p # <<>>
  PROVE  /\ Tail(p) \o m \in Seq(S) /\ Len(p) \in Nat /\ Len(p) >= 1 /\ Len(m) \in Nat
         /\ Len(Tail(p) \o m) = Len(p) - 1 + Len(m)
         /\ \A i \in 1 .. Len(p) - 1 : (Tail(p) \o m)[i] = p[i + 1]
         /\ \A i \in 1 .. Len(m) : (Tail(p) \o m)[Len(p) - 1 + i] = m[i]
<1>1. /\ Tail(p) \in Seq(S) /\ Len(Tail(p)) = Len(p) - 1 /\ Len(p) \in Nat /\ Len(p) >= 1
      /\ \A i \in 1 .. Len(p) - 1 : Tail(p)[i] = p[i + 1]
  OBVIOUS
<1>2. /\ Tail(p) \o m \in Seq(S) /\ Len(m) \in Nat
      /\ Len(Tail(p) \o m) = Len(Tail(p)) + Len(m)
      /\ \A i \in 1 .. Len(Tail(p)) + Len(m) :
           (Tail(p) \o m)[i] = IF i <= Len(Tail(p)) THEN Tail(p)[i] ELSE m[i - Len(Tail(p))]
  BY <1>1, ConcatProperties
<1>3. ASSUME NEW i \in 1 .. Len(p) - 1 PROVE (Tail(p) \o m)[i] = p[i + 1]
  BY <1>1, <1>2
<1>4. ASSUME NEW i \in 1 .. Len(m) PROVE (Tail(p) \o m)[Len(p) - 1 + i] = m[i]
  <2>1. /\ Len(p) - 1 + i \in 1 .. Len(Tail(p)) + Len(m) /\ ~(Len(p) - 1 + i <= Len(Tail(p)))
        /\ Len(p) - 1 + i - Len(Tail(p)) = i
    BY <1>1, <1>2
  <2>2. QED  BY <2>1, <1>2
<1>5. QED  BY <1>1, <1>2, <1>3, <1>4

(* Every transaction stays in one piece.                                     *)
LEMMA ShapeAnswered ==
  ASSUME NEW p \in Seq(Query), NEW m \in Seq(Query), p # <<>>, Shape(p), Shape(m),
         m # <<>> => m[1].kind \notin Inside
  PROVE  Shape(Tail(p) \o m)
<1> DEFINE r == Tail(p) \o m
<1>1. /\ Len(p) \in Nat /\ Len(p) >= 1 /\ Len(m) \in Nat /\ Len(r) = Len(p) - 1 + Len(m)
      /\ \A i \in 1 .. Len(p) - 1 : r[i] = p[i + 1]
      /\ \A i \in 1 .. Len(m) : r[Len(p) - 1 + i] = m[i]
  BY AnsweredSeq
<1>2. \A i \in 1 .. Len(p) :
        /\ p[i].kind \in Before => i < Len(p)
        /\ i < Len(p) /\ (p[i].kind \in Before \/ p[i + 1].kind \in Inside)
             => Follows(p[i], p[i + 1])
  BY DEF Shape
<1>3. \A i \in 1 .. Len(m) :
        /\ m[i].kind \in Before => i < Len(m)
        /\ i < Len(m) /\ (m[i].kind \in Before \/ m[i + 1].kind \in Inside)
             => Follows(m[i], m[i + 1])
  BY DEF Shape
<1> HIDE DEF r
<1>4. ASSUME NEW i \in 1 .. Len(r)
      PROVE  /\ r[i].kind \in Before => i < Len(r)
             /\ i < Len(r) /\ (r[i].kind \in Before \/ r[i + 1].kind \in Inside)
                  => Follows(r[i], r[i + 1])
  <2>1. CASE i < Len(p) - 1
    <3>1. /\ i + 1 \in 1 .. Len(p) /\ i + 1 < Len(p) /\ i < Len(r)
          /\ r[i] = p[i + 1] /\ r[i + 1] = p[i + 1 + 1]
      BY <2>1, <1>1
    <3>2. QED  BY <3>1, <1>2
  <2>2. CASE i = Len(p) - 1
    <3>1. Len(p) \in 1 .. Len(p) /\ r[i] = p[Len(p)]  BY <2>2, <1>1
    <3>2. r[i].kind \notin Before  BY <3>1, <1>1, <1>2
    <3>3. i < Len(r) => m # <<>> /\ r[i + 1] = m[1]
      <4>1. ASSUME i < Len(r) PROVE Len(m) >= 1 /\ r[Len(p) - 1 + 1] = m[1]
        <5>1. 1 \in 1 .. Len(m)  BY <4>1, <2>2, <1>1
        <5>2. QED  BY <5>1, <1>1
      <4>2. QED  BY <4>1, <2>2
    <3>4. QED  BY <3>2, <3>3
  <2>3. CASE i >= Len(p)
    <3> DEFINE j == i - (Len(p) - 1)
    <3>1. /\ j \in 1 .. Len(m) /\ Len(p) - 1 + j = i
          /\ i < Len(r) => j + 1 \in 1 .. Len(m) /\ Len(p) - 1 + (j + 1) = i + 1
          /\ i < Len(r) <=> j < Len(m)
      BY <2>3, <1>1
    <3>2. r[i] = m[j] /\ (i < Len(r) => r[i + 1] = m[j + 1])
      BY <3>1, <1>1
    <3> HIDE DEF j
    <3>3. QED  BY <3>1, <3>2, <1>3
  <2>4. QED  BY <2>1, <2>2, <2>3, <1>1
<1>5. QED  BY <1>4 DEF Shape, r

(* The effect of an answer on the pipelines, for the proofs below.           *)
LEMMA AnsweredMoves ==
  ASSUME PipeTypes, PipeOK, NEW w \in Workers, pipe[w] # <<>>,
         NEW m \in Seq(Query), Shape(m), m # <<>> => m[1].kind \notin Inside,
         \A j \in 1 .. Len(m) : QueryOK(m[j]), Answered(w, m)
  PROVE  /\ PipeTypes' /\ PipeOK'
         /\ pipe'[w] # pipe[w] \/ m # <<>>
         /\ \A v \in Workers : v # w => pipe'[v] = pipe[v]
         /\ \A v \in Workers : \A i \in 1 .. Len(pipe'[v]) :
              \/ \E j \in 1 .. Len(pipe[v]) : pipe'[v][i] = pipe[v][j]
              \/ \E j \in 1 .. Len(m) : pipe'[v][i] = m[j]
         /\ InTx(w)' => Follows(pipe[w][1], pipe'[w][1])
         /\ pipe[w][1].kind \in Before => InTx(w)'
<1>1. pipe \in [Workers -> Seq(Query)] /\ pipe[w] \in Seq(Query) /\ Shape(pipe[w])
  BY DEF PipeTypes, PipeOK
<1>2. pipe' = [pipe EXCEPT ![w] = Tail(pipe[w]) \o m]  BY DEF Answered
<1>3. pipe'[w] = Tail(pipe[w]) \o m /\ \A v \in Workers : v # w => pipe'[v] = pipe[v]
  BY <1>1, <1>2
<1>4. /\ pipe'[w] \in Seq(Query)
      /\ Len(pipe[w]) \in Nat /\ Len(pipe[w]) >= 1 /\ Len(m) \in Nat
      /\ Len(pipe'[w]) = Len(pipe[w]) - 1 + Len(m)
      /\ \A i \in 1 .. Len(pipe[w]) - 1 : pipe'[w][i] = pipe[w][i + 1]
      /\ \A i \in 1 .. Len(m) : pipe'[w][Len(pipe[w]) - 1 + i] = m[i]
  BY <1>1, <1>3, AnsweredSeq
<1>17. PICK n \in Nat, k \in Nat :
         Len(pipe[w]) = n /\ n >= 1 /\ Len(m) = k /\ Len(pipe'[w]) = n - 1 + k
  BY <1>4
<1>5. PipeTypes'  BY <1>1, <1>2, <1>3, <1>4 DEF PipeTypes
<1>6. Shape(pipe'[w])  BY <1>1, <1>3, ShapeAnswered
<1>7. ASSUME NEW i \in 1 .. Len(pipe'[w])
      PROVE  \/ \E j \in 1 .. Len(pipe[w]) : pipe'[w][i] = pipe[w][j]
             \/ \E j \in 1 .. Len(m) : pipe'[w][i] = m[j]
  <2>1. CASE i <= Len(pipe[w]) - 1
    <3>1. i \in 1 .. Len(pipe[w]) - 1 /\ i + 1 \in 1 .. Len(pipe[w])  BY <2>1, <1>4
    <3>2. QED  BY <3>1, <1>4
  <2>2. CASE i > Len(pipe[w]) - 1
    <3> DEFINE j == i - (n - 1)
    <3>1. i \in 1 .. n - 1 + k /\ i > n - 1  BY <2>2, <1>17
    <3>4. j \in 1 .. k /\ n - 1 + j = i  BY <3>1
    <3>2. pipe'[w][i] = m[j]  BY <3>4, <1>4, <1>17
    <3>3. QED  BY <3>2, <3>4, <1>17
  <2>3. QED  BY <2>1, <2>2, <1>4
<1>8. \A v \in Workers : \A i \in 1 .. Len(pipe'[v]) :
        \/ \E j \in 1 .. Len(pipe[v]) : pipe'[v][i] = pipe[v][j]
        \/ \E j \in 1 .. Len(m) : pipe'[v][i] = m[j]
  BY <1>3, <1>7
<1>9. PipeOK'
  <2>1. \A v \in Workers : Shape(pipe'[v])  BY <1>3, <1>6 DEF PipeOK
  <2>2. \A v \in Workers : \A i \in 1 .. Len(pipe[v]) : QueryOK(pipe[v][i])  BY DEF PipeOK
  <2>3. \A v \in Workers : \A i \in 1 .. Len(pipe'[v]) : QueryOK(pipe'[v][i])
    BY <2>2, <1>8
  <2>4. QED  BY <2>1, <2>3 DEF PipeOK, Shape, QueryOK, Follows
<1>10. pipe'[w] # pipe[w] \/ m # <<>>
  <2>1. CASE m = <<>>
    <3>1. Len(pipe'[w]) # Len(pipe[w])  BY <2>1, <1>4
    <3>2. QED  BY <3>1
  <2>2. QED  BY <2>1
<1>11. Len(pipe[w]) >= 2 => pipe'[w] # <<>> /\ pipe'[w][1] = pipe[w][2]
  <2> SUFFICES ASSUME Len(pipe[w]) >= 2 PROVE pipe'[w] # <<>> /\ pipe'[w][1] = pipe[w][2]
    OBVIOUS
  <2>1. 1 \in 1 .. Len(pipe[w]) - 1 /\ Len(pipe'[w]) > 0  BY <1>4
  <2>2. pipe'[w][1] = pipe[w][1 + 1]  BY <2>1, <1>4
  <2>3. QED  BY <2>1, <2>2
<1>12. ASSUME Len(pipe[w]) < 2, pipe'[w] # <<>> PROVE m # <<>> /\ pipe'[w][1] = m[1]
  <2>4. n < 2  BY <1>17, <1>12
  <2>1. Len(pipe[w]) = 1  BY <2>4, <1>17
  <2>2. 1 \in 1 .. Len(m)
    <3>1. Len(pipe'[w]) >= 1  BY <1>4, <1>12
    <3>2. QED  BY <3>1, <2>1, <1>4
  <2>3. QED  BY <2>1, <2>2, <1>4
<1>13. /\ 1 \in 1 .. Len(pipe[w])
       /\ pipe[w][1].kind \in Before => 1 < Len(pipe[w])
       /\ 1 < Len(pipe[w]) /\ (pipe[w][1].kind \in Before \/ pipe[w][1 + 1].kind \in Inside)
            => Follows(pipe[w][1], pipe[w][1 + 1])
  BY <1>1, <1>4 DEF Shape
<1>14. InTx(w)' => Follows(pipe[w][1], pipe'[w][1])
  BY <1>4, <1>11, <1>12, <1>13 DEF InTx
<1>15. pipe[w][1].kind \in Before => InTx(w)'
  BY <1>4, <1>11, <1>13 DEF InTx, Follows, Order, Inside, TxKinds
<1>16. QED  BY <1>3, <1>5, <1>8, <1>9, <1>10, <1>14, <1>15

(* The first query alone: it is one of the queue.                            *)
LEMMA FirstQuery ==
  ASSUME IInv, NEW w \in Workers, pipe[w] # <<>>
  PROVE  /\ Head(pipe[w]) = pipe[w][1] /\ pipe[w][1] \in Query /\ QueryOK(pipe[w][1])
         /\ 1 \in 1 .. Len(pipe[w])
<1>1. pipe[w] \in Seq(Query)  BY DEF IInv, PipeTypes
<1>2. Head(pipe[w]) = pipe[w][1] /\ pipe[w][1] \in Query /\ 1 \in 1 .. Len(pipe[w])
  BY <1>1
<1>3. QED  BY <1>2 DEF IInv, PipeOK

(* A step of w outside a transaction: what it may do to the rows that other  *)
(* workers' transactions hold, and to the groups they delete.                *)
OthersKept(w) ==
  /\ \A g \in Groups :
       grp[g].life # "none" => grp'[g].life # "none" /\ grp'[g].owner = grp[g].owner
  /\ \A v \in Workers \ {w} :
       /\ \A p \in tx[v].members : p \in member'
       /\ \A m \in tx[v].msgs : msg'[m].life = "live" /\ msg'[m].group = tx[v].group
       /\ \A c \in tx[v].codes : code'[c].life = "live" /\ code'[c].group = tx[v].group
       /\ tx[v].dropped =>
            /\ \A p \in member' : p[2] = tx[v].group => p \in member
            /\ \A m \in Msgs : msg'[m].life = "live" /\ msg'[m].group = tx[v].group
                 => msg[m].life = "live" /\ msg[m].group = tx[v].group
            /\ \A c \in Codes : code'[c].life = "live" /\ code'[c].group = tx[v].group
                 => code[c].life = "live" /\ code[c].group = tx[v].group

LEMMA OutsideKeeps ==
  ASSUME IInv, NEW w \in Workers, ~InTx(w), ~InTx(w)', PipeTypes', PipeOK', SentByOwner',
         \A v \in Workers : v # w => pipe'[v] = pipe[v],
         UNCHANGED tx, TableTypes', ViewTypes', NoOrphans', OthersKept(w)
  PROVE  IInv'
<1>1. tx[w] = NoTx  BY DEF IInv, TxStages
<1>2. /\ tx[w].members = {} /\ tx[w].msgs = {} /\ tx[w].codes = {} /\ ~tx[w].dropped
      /\ ~tx[w].failed
  BY <1>1 DEF NoTx
<1>3. TxTypes'  BY DEF IInv, TxTypes
<1>4. TxStages'
  <2>1. \A v \in Workers : v # w => InTx(v)' = InTx(v)  BY DEF InTx
  <2>2. QED  BY <1>1, <1>2, <2>1 DEF IInv, TxStages
<1>5. RowsHeld'
  <2>1. ASSUME NEW v \in Workers
        PROVE  /\ \A p \in tx[v].members : p \in member' /\ p[2] = tx[v].group
               /\ \A m \in tx[v].msgs : msg'[m].life = "live" /\ msg'[m].group = tx[v].group
               /\ \A c \in tx[v].codes : code'[c].life = "live" /\ code'[c].group = tx[v].group
    BY <1>2 DEF IInv, RowsHeld, OthersKept
  <2>2. QED  BY <2>1 DEF IInv, RowsHeld
<1>6. Isolated'
  <2> SUFFICES ASSUME NEW v \in Workers, tx[v].dropped
               PROVE  /\ \A p \in member' : p[2] = tx[v].group => p \in tx[v].members
                      /\ \A m \in Msgs : msg'[m].life = "live" /\ msg'[m].group = tx[v].group
                           => m \in tx[v].msgs
                      /\ \A c \in Codes :
                           code'[c].life = "live" /\ code'[c].group = tx[v].group
                           => c \in tx[v].codes
    BY DEF Isolated
  <2>1. v \in Workers \ {w}  BY <1>2
  <2>2. QED  BY <2>1 DEF IInv, Isolated, OthersKept
<1>7. QED  BY <1>3, <1>4, <1>5, <1>6 DEF IInv

(* Nothing but pipelines and views changed.                                  *)
LEMMA SameTables ==
  ASSUME IInv, NEW w \in Workers, UNCHANGED tables
  PROVE  TableTypes' /\ NoOrphans' /\ OthersKept(w)
<1> UNCHANGED <<grp, member, msg, code>>  BY DEF tables
<1>1. TableTypes'  BY DEF IInv, TableTypes
<1>2. NoOrphans'  BY DEF IInv, NoOrphans, LiveGroup
<1>3. OthersKept(w)
  BY DEF IInv, OthersKept, RowsHeld
<1>4. QED  BY <1>1, <1>2, <1>3

(* An owner found for a query remains the owner.                             *)
LEMMA OwnerKept ==
  ASSUME IInv,
         \A g \in Groups :
           grp[g].life # "none" => grp'[g].life # "none" /\ grp'[g].owner = grp[g].owner,
         \A v \in Workers : \A i \in 1 .. Len(pipe'[v]) :
           \/ \E j \in 1 .. Len(pipe[v]) : pipe'[v][i] = pipe[v][j]
           \/ pipe'[v][i].kind \in TxKinds =>
                /\ grp'[pipe'[v][i].group].life # "none"
                /\ grp'[pipe'[v][i].group].owner = pipe'[v][i].user
  PROVE  SentByOwner'
<1> SUFFICES ASSUME NEW v \in Workers, NEW i \in 1 .. Len(pipe'[v]),
                    pipe'[v][i].kind \in TxKinds
             PROVE  /\ grp'[pipe'[v][i].group].life # "none"
                    /\ grp'[pipe'[v][i].group].owner = pipe'[v][i].user
  BY DEF SentByOwner
<1>1. ASSUME NEW j \in 1 .. Len(pipe[v]), pipe'[v][i] = pipe[v][j]
      PROVE  /\ grp'[pipe'[v][i].group].life # "none"
             /\ grp'[pipe'[v][i].group].owner = pipe'[v][i].user
  <2>1. QueryOK(pipe[v][j])  BY DEF IInv, PipeOK
  <2>2. pipe[v][j].group \in Groups  BY <2>1, <1>1 DEF QueryOK, TxKinds
  <2>3. /\ grp[pipe[v][j].group].life # "none"
        /\ grp[pipe[v][j].group].owner = pipe[v][j].user
    BY <1>1 DEF IInv, SentByOwner
  <2>4. QED  BY <2>2, <2>3, <1>1
<1>2. QED  BY <1>1

(* A query that is not of a transaction is answered and its callback sends m. *)
LEMMA AnswerKeeps ==
  ASSUME IInv, NEW w \in Workers, pipe[w] # <<>>, pipe[w][1].kind \notin TxKinds,
         NEW m \in Seq(Query), Shape(m), m # <<>> => m[1].kind \notin Inside,
         \A j \in 1 .. Len(m) : QueryOK(m[j]),
         \A j \in 1 .. Len(m) : m[j].kind \in TxKinds =>
           grp'[m[j].group].life # "none" /\ grp'[m[j].group].owner = m[j].user,
         Answered(w, m), UNCHANGED tx, TableTypes', ViewTypes', NoOrphans', OthersKept(w)
  PROVE  IInv'
<1>1. /\ PipeTypes' /\ PipeOK'
      /\ \A v \in Workers : v # w => pipe'[v] = pipe[v]
      /\ \A v \in Workers : \A i \in 1 .. Len(pipe'[v]) :
           \/ \E j \in 1 .. Len(pipe[v]) : pipe'[v][i] = pipe[v][j]
           \/ \E j \in 1 .. Len(m) : pipe'[v][i] = m[j]
      /\ InTx(w)' => Follows(pipe[w][1], pipe'[w][1])
  BY AnsweredMoves DEF IInv
<1>2. ~InTx(w) /\ ~InTx(w)'
  BY <1>1 DEF InTx, Inside, Follows, Order, TxKinds
<1>3. SentByOwner'
  <2>1. \A v \in Workers : \A i \in 1 .. Len(pipe'[v]) :
           \/ \E j \in 1 .. Len(pipe[v]) : pipe'[v][i] = pipe[v][j]
           \/ pipe'[v][i].kind \in TxKinds =>
                /\ grp'[pipe'[v][i].group].life # "none"
                /\ grp'[pipe'[v][i].group].owner = pipe'[v][i].user
    <3>1. ASSUME NEW v \in Workers, NEW i \in 1 .. Len(pipe'[v]),
                 NEW j \in 1 .. Len(m), pipe'[v][i] = m[j], pipe'[v][i].kind \in TxKinds
          PROVE  /\ grp'[pipe'[v][i].group].life # "none"
                 /\ grp'[pipe'[v][i].group].owner = pipe'[v][i].user
      <4>1. m[j].kind \in TxKinds  BY <3>1
      <4>2. grp'[m[j].group].life # "none" /\ grp'[m[j].group].owner = m[j].user
        BY <4>1
      <4>3. QED  BY <4>2, <3>1
    <3>2. QED  BY <3>1, <1>1
  <2>2. QED  BY <2>1, OwnerKept DEF OthersKept
<1>4. QED  BY <1>1, <1>2, <1>3, OutsideKeeps

(* Without anything more to send.                                            *)
LEMMA LastAnswerKeeps ==
  ASSUME IInv, NEW w \in Workers, pipe[w] # <<>>, pipe[w][1].kind \notin TxKinds,
         Answered(w, <<>>), UNCHANGED tx, TableTypes', ViewTypes', NoOrphans', OthersKept(w)
  PROVE  IInv'
<1>1. <<>> \in Seq(Query) /\ Len(<<>>) = 0  OBVIOUS
<1>2. Shape(<<>>)  BY <1>1 DEF Shape
<1>3. \A j \in 1 .. Len(<<>>) : FALSE  BY <1>1
<1>4. QED
  <2>1. /\ \A j \in 1 .. Len(<<>>) : QueryOK(<<>>[j])
        /\ \A j \in 1 .. Len(<<>>) : <<>>[j].kind \in TxKinds =>
             grp'[<<>>[j].group].life # "none" /\ grp'[<<>>[j].group].owner = <<>>[j].user
    BY <1>3
  <2>2. QED  BY <1>1, <1>2, <2>1, AnswerKeeps

LEMMA NoEffectKeeps ==
  ASSUME IInv, NEW w \in Workers, pipe[w] # <<>>, pipe[w][1].kind \notin TxKinds, NoEffect(w)
  PROVE  IInv'
<1>1. Answered(w, <<>>) /\ UNCHANGED <<tables, tx, views>>  BY DEF NoEffect
<1>2. ViewTypes'  BY <1>1 DEF IInv, ViewTypes, views
<1>3. QED  BY <1>1, <1>2, SameTables, LastAnswerKeeps

-----------------------------------------------------------------------------
(* The commands                                                              *)

LEMMA SendKeeps ==
  ASSUME IInv, NEW w \in Workers, NEW q \in Query, QueryOK(q), q.kind \notin TxKinds, Send(w, q)
  PROVE  IInv'
<1>1. pipe \in [Workers -> Seq(Query)] /\ pipe[w] \in Seq(Query) /\ Shape(pipe[w])
  BY DEF IInv, PipeTypes, PipeOK
<1>2. pipe' = [pipe EXCEPT ![w] = Append(pipe[w], q)] /\ UNCHANGED <<tables, tx, views>>
  BY DEF Send
<1>3. pipe'[w] = Append(pipe[w], q) /\ \A v \in Workers : v # w => pipe'[v] = pipe[v]
  BY <1>1, <1>2
<1>4. PICK n \in Nat : Len(pipe[w]) = n  BY <1>1
<1>5. /\ pipe'[w] \in Seq(Query) /\ Len(pipe'[w]) = n + 1 /\ pipe'[w] # <<>>
      /\ \A i \in 1 .. n : pipe'[w][i] = pipe[w][i]
      /\ pipe'[w][n + 1] = q
  BY <1>1, <1>3, <1>4, AppendProperties
<1>6. PipeTypes'  BY <1>1, <1>2, <1>3, <1>5 DEF PipeTypes
<1>7. Shape(pipe'[w])
  <2>1. \A i \in 1 .. n :
          /\ pipe[w][i].kind \in Before => i < n
          /\ i < n /\ (pipe[w][i].kind \in Before \/ pipe[w][i + 1].kind \in Inside)
               => Follows(pipe[w][i], pipe[w][i + 1])
    BY <1>1, <1>4 DEF Shape
  <2>2. q.kind \notin Before /\ q.kind \notin Inside  BY DEF Before, Inside
  <2>3. ASSUME NEW i \in 1 .. n + 1
        PROVE  /\ pipe'[w][i].kind \in Before => i < n + 1
               /\ i < n + 1 /\ (pipe'[w][i].kind \in Before \/ pipe'[w][i + 1].kind \in Inside)
                    => Follows(pipe'[w][i], pipe'[w][i + 1])
    <3>1. CASE i < n
      <4>1. i \in 1 .. n /\ i + 1 \in 1 .. n /\ i < n + 1  BY <3>1
      <4>2. QED  BY <4>1, <3>1, <2>1, <1>5
    <3>2. CASE i = n
      <4>1. i \in 1 .. n /\ i < n + 1 /\ pipe'[w][i + 1] = q  BY <3>2, <1>5
      <4>2. QED  BY <4>1, <3>2, <2>1, <2>2, <1>5
    <3>3. CASE i = n + 1  BY <3>3, <2>2, <1>5
    <3>4. QED  BY <3>1, <3>2, <3>3
  <2>4. QED  BY <2>3, <1>5 DEF Shape
<1>8. ASSUME NEW v \in Workers, NEW i \in 1 .. Len(pipe'[v])
      PROVE  (\E j \in 1 .. Len(pipe[v]) : pipe'[v][i] = pipe[v][j]) \/ pipe'[v][i] = q
  <2>1. CASE v = w
    <3>1. i \in 1 .. n \/ i = n + 1  BY <2>1, <1>5
    <3>2. QED  BY <3>1, <2>1, <1>4, <1>5
  <2>2. QED  BY <2>1, <1>3
<1>9. PipeOK'
  <2>1. \A v \in Workers : Shape(pipe'[v])  BY <1>3, <1>7 DEF IInv, PipeOK
  <2>2. \A v \in Workers : \A i \in 1 .. Len(pipe[v]) : QueryOK(pipe[v][i])
    BY DEF IInv, PipeOK
  <2>3. \A v \in Workers : \A i \in 1 .. Len(pipe'[v]) : QueryOK(pipe'[v][i])
    BY <2>2, <1>8
  <2>4. QED  BY <2>1, <2>3 DEF PipeOK, Shape, QueryOK, Follows
<1>10. UNCHANGED <<grp, member, msg, code, tx, shown, view>>  BY <1>2 DEF tables, views
<1>11. SentByOwner'  BY <1>8, <1>10, OwnerKept
<1>12. \A v \in Workers :
         (InTx(v)' <=> InTx(v)) /\ (InTx(v) => pipe'[v][1] = pipe[v][1])
  <2>1. CASE pipe[w] = <<>>
    <3>1. n = 0  BY <2>1, <1>4
    <3>2. pipe'[w][1] = q  BY <3>1, <1>5
    <3>3. QED  BY <2>1, <3>2, <1>3 DEF InTx, Inside
  <2>2. CASE pipe[w] # <<>>
    <3>1. 1 \in 1 .. n  BY <2>2, <1>1, <1>4
    <3>2. pipe'[w][1] = pipe[w][1]  BY <3>1, <1>5
    <3>3. QED  BY <2>2, <3>2, <1>3, <1>5 DEF InTx
  <2>3. QED  BY <2>1, <2>2
<1>13. TxStages'  BY <1>10, <1>12 DEF IInv, TxStages
<1>14. TableTypes' /\ ViewTypes' /\ TxTypes'
  BY <1>10 DEF IInv, TableTypes, ViewTypes, TxTypes
<1>15. RowsHeld' /\ Isolated'  BY <1>10 DEF IInv, RowsHeld, Isolated
<1>16. NoOrphans'  BY <1>10 DEF IInv, NoOrphans, LiveGroup
<1>17. QED  BY <1>6, <1>9, <1>11, <1>13, <1>14, <1>15, <1>16 DEF IInv

(* Whatever a client sends, the handler queues a query with what it carries. *)
LEMMA RequestKeeps ==
  ASSUME IInv, NEW w \in Workers, Request(w)
  PROVE  IInv'
<1> USE DEF Q, Query, QueryOK, TxKinds, Kinds
<1>1. PICK u \in Users :
        \/ server_create_group(w, u) \/ server_client_groups(w, u)
        \/ server_get_all_groups(w, u) \/ server_delete_group_msg(w, u)
        \/ server_join_group_code(w, u) \/ server_delete_group_code(w, u)
        \/ \E g \in Groups :
             \/ server_join_group(w, u, g) \/ server_group_msg(w, u, g)
             \/ server_get_group_msgs(w, u, g)
             \/ server_create_group_code(w, u, g) \/ server_delete_group(w, u, g)
  BY DEF Request
<1>2. CASE server_create_group(w, u)
  <2>1. PICK public \in BOOLEAN : Send(w, Q("create", u, None, public))
    BY <1>2 DEF server_create_group
  <2>2. QED  BY <2>1, SendKeeps
<1>3. CASE server_client_groups(w, u) \/ server_get_all_groups(w, u)
  BY <1>3, SendKeeps DEF server_client_groups, server_get_all_groups
<1>4. CASE server_delete_group_msg(w, u)
  <2>1. PICK m \in Msgs : Send(w, Q("delete_msg", u, None, m))
    BY <1>4 DEF server_delete_group_msg
  <2>2. QED  BY <2>1, SendKeeps
<1>5. CASE server_join_group_code(w, u) \/ server_delete_group_code(w, u)
  <2>1. PICK c \in Codes :
          Send(w, Q("join_code", u, None, c)) \/ Send(w, Q("delete_code", u, None, c))
    BY <1>5 DEF server_join_group_code, server_delete_group_code
  <2>2. QED  BY <2>1, SendKeeps
<1>6. ASSUME NEW g \in Groups,
             \/ server_join_group(w, u, g) \/ server_group_msg(w, u, g)
             \/ server_get_group_msgs(w, u, g) \/ server_delete_group(w, u, g)
      PROVE  IInv'
  BY <1>6, SendKeeps
  DEF server_join_group, server_group_msg, server_get_group_msgs, server_delete_group
<1>7. ASSUME NEW g \in Groups, server_create_group_code(w, u, g) PROVE IInv'
  <2>1. PICK max \in Int : Send(w, Q("create_code", u, g, max))
    BY <1>7 DEF server_create_group_code
  <2>2. QED  BY <2>1, SendKeeps
<1>8. QED  BY <1>1, <1>2, <1>3, <1>4, <1>5, <1>6, <1>7

-----------------------------------------------------------------------------
(* What the callbacks send                                                   *)

(* Queries that are no part of a transaction may go anywhere.                *)
LEMMA PlainSeq ==
  ASSUME NEW m \in Seq(Query), \A j \in 1 .. Len(m) : m[j].kind \notin TxKinds
  PROVE  Shape(m) /\ (m # <<>> => m[1].kind \notin Inside)
<1>1. m # <<>> => 1 \in 1 .. Len(m)  OBVIOUS
<1>2. \A j \in 1 .. Len(m) : m[j].kind \notin Before /\ m[j].kind \notin Inside
  BY DEF Before, Inside
<1>3. \A j \in 1 .. Len(m) : j < Len(m) => j + 1 \in 1 .. Len(m)  OBVIOUS
<1>4. QED  BY <1>1, <1>2, <1>3 DEF Shape

LEMMA BroadcastSeq ==
  ASSUME NEW g \in Groups, NEW what \in {"msg", "delete_msg", "join"},
         NEW m \in Msgs \cup {None}, what = "msg" => m \in Msgs
  PROVE  LET b == server_group_broadcast(g, what, m) IN
         /\ b \in Seq(Query) /\ Len(b) = 1
         /\ \A j \in 1 .. Len(b) : QueryOK(b[j]) /\ b[j].kind \notin TxKinds
<1> DEFINE n == [what |-> what, msg |-> m]
           q == Q("broadcast", None, g, n)
<1>1. n \in News /\ n.what = what /\ n.msg = m  BY DEF News
<1> HIDE DEF n
<1>2. q \in Query /\ QueryOK(q) /\ q.kind \notin TxKinds
  BY <1>1 DEF Q, Query, QueryOK, Kinds, TxKinds
<1> HIDE DEF q
<1>3. <<q>> \in Seq(Query) /\ Len(<<q>>) = 1 /\ \A j \in 1 .. 1 : <<q>>[j] = q
  BY <1>2
<1>4. server_group_broadcast(g, what, m) = <<q>>  BY DEF server_group_broadcast, q, n
<1>5. QED  BY <1>2, <1>3, <1>4

LEMMA JoinSeq ==
  ASSUME NEW u \in Users, NEW g \in Groups
  PROVE  LET b == on_user_group_join(u, g) IN
         /\ b \in Seq(Query)
         /\ \A j \in 1 .. Len(b) : QueryOK(b[j]) /\ b[j].kind \notin TxKinds
<1> DEFINE q == Q("get_group", u, g, None)
           b == server_group_broadcast(g, "join", None)
<1>1. q \in Query /\ QueryOK(q) /\ q.kind \notin TxKinds
  BY DEF Q, Query, QueryOK, Kinds, TxKinds
<1>2. /\ b \in Seq(Query) /\ Len(b) = 1
      /\ \A j \in 1 .. Len(b) : QueryOK(b[j]) /\ b[j].kind \notin TxKinds
  BY BroadcastSeq
<1> HIDE DEF q, b
<1>3. <<q>> \in Seq(Query) /\ Len(<<q>>) = 1 /\ <<q>>[1] = q  BY <1>1
<1>4. /\ <<q>> \o b \in Seq(Query) /\ Len(<<q>> \o b) = 2
      /\ (<<q>> \o b)[1] = q /\ (<<q>> \o b)[2] = b[1]
  BY <1>2, <1>3, ConcatProperties
<1>5. \A j \in 1 .. 2 : j = 1 \/ j = 2  OBVIOUS
<1>6. 1 \in 1 .. Len(b)  BY <1>2
<1>7. \A j \in 1 .. Len(<<q>> \o b) :
        QueryOK((<<q>> \o b)[j]) /\ (<<q>> \o b)[j].kind \notin TxKinds
  BY <1>1, <1>2, <1>4, <1>5, <1>6
<1>8. on_user_group_join(u, g) = <<q>> \o b  BY DEF on_user_group_join, q, b
<1>9. QED  BY <1>4, <1>7, <1>8

(* The transaction is sent whole.                                            *)
LEMMA TransactionSeq ==
  ASSUME NEW u \in Users, NEW g \in Groups
  PROVE  LET b == db_async_delete_group(u, g) IN
         /\ b \in Seq(Query) /\ Shape(b) /\ b[1].kind \notin Inside
         /\ \A j \in 1 .. Len(b) :
              /\ QueryOK(b[j])
              /\ b[j].group = g /\ b[j].user = u /\ b[j].kind \in TxKinds
<1> DEFINE kinds == <<"begin", "member_ids", "del_msgs", "del_members", "del_codes",
                      "del_group", "commit">>
           b == db_async_delete_group(u, g)
<1>1. /\ Len(kinds) = 7 /\ kinds[1] = "begin" /\ kinds[2] = "member_ids"
      /\ kinds[3] = "del_msgs" /\ kinds[4] = "del_members" /\ kinds[5] = "del_codes"
      /\ kinds[6] = "del_group" /\ kinds[7] = "commit"
  OBVIOUS
<1>2. b = [i \in 1 .. Len(kinds) |-> Q(kinds[i], u, g, None)]  BY DEF db_async_delete_group
<1>3. \A i \in 1 .. 7 : i = 1 \/ i = 2 \/ i = 3 \/ i = 4 \/ i = 5 \/ i = 6 \/ i = 7  OBVIOUS
<1> HIDE DEF kinds, b
<1>4. \A i \in 1 .. 7 : kinds[i] \in TxKinds  BY <1>1, <1>3 DEF TxKinds
<1>5. \A i \in 1 .. 7 :
        /\ b[i] = Q(kinds[i], u, g, None) /\ b[i] \in Query
        /\ b[i].kind = kinds[i] /\ b[i].user = u /\ b[i].group = g
  BY <1>1, <1>2, <1>4 DEF Q, Query, Kinds
<1>6. b \in Seq(Query) /\ Len(b) = 7
  BY <1>1, <1>2, <1>5
<1>7. \A i \in 1 .. 7 : QueryOK(b[i])
  BY <1>4, <1>5 DEF QueryOK, TxKinds
<1>8. Shape(b)
  <2>1. \A i \in 1 .. 7 : i < 7 => i + 1 \in 1 .. 7 /\ <<kinds[i], kinds[i + 1]>> \in Order
    BY <1>1, <1>3 DEF Order
  <2>2. \A i \in 1 .. 7 : i < 7 => Follows(b[i], b[i + 1])
    BY <2>1, <1>5 DEF Follows
  <2>3. \A i \in 1 .. 7 : b[i].kind \in Before => i < 7
    BY <1>1, <1>3, <1>5 DEF Before
  <2>4. QED  BY <2>2, <2>3, <1>6 DEF Shape
<1>9. b[1].kind \notin Inside  BY <1>1, <1>5 DEF Inside
<1>10. QED  BY <1>4, <1>5, <1>6, <1>7, <1>8, <1>9 DEF b

LEMMA PlainAnswerKeeps ==
  ASSUME IInv, NEW w \in Workers, pipe[w] # <<>>, pipe[w][1].kind \notin TxKinds,
         NEW m \in Seq(Query),
         \A j \in 1 .. Len(m) : QueryOK(m[j]) /\ m[j].kind \notin TxKinds,
         Answered(w, m), UNCHANGED tx, TableTypes', ViewTypes', NoOrphans', OthersKept(w)
  PROVE  IInv'
BY PlainSeq, AnswerKeeps

-----------------------------------------------------------------------------
(* The queries, one lemma per action                                         *)

(* The group of an open transaction was there when it began.                 *)
LEMMA TxGroup ==
  ASSUME IInv, NEW w \in Workers, InTx(w)
  PROVE  /\ tx[w].group \in Groups /\ grp[tx[w].group].life # "none"
         /\ grp[tx[w].group].owner = pipe[w][1].user
<1>1. /\ pipe[w] # <<>> /\ pipe[w][1].kind \in TxKinds /\ tx[w].group = pipe[w][1].group
  BY DEF InTx, IInv, TxStages, Inside
<1>2. QueryOK(pipe[w][1]) /\ 1 \in 1 .. Len(pipe[w])  BY <1>1, FirstQuery
<1>3. pipe[w][1].group \in Groups  BY <1>1, <1>2 DEF QueryOK, TxKinds
<1>4. QED  BY <1>1, <1>2, <1>3 DEF IInv, SentByOwner

LEMMA DroppedInTx ==
  ASSUME IInv, NEW w \in Workers, tx[w].dropped
  PROVE  InTx(w)
BY DEF IInv, TxStages, NoTx

LEMMA CreateGroupKeeps ==
  ASSUME IInv, NEW w \in Workers, CreateGroup(w)
  PROVE  IInv'
<1>1. /\ pipe[w] # <<>> /\ Head(pipe[w]) = pipe[w][1] /\ pipe[w][1].kind = "create"
      /\ QueryOK(pipe[w][1])
  BY FirstQuery DEF CreateGroup, First
<1>2. PICK u \in Users, b \in BOOLEAN : pipe[w][1].user = u /\ pipe[w][1].arg = b
  BY <1>1 DEF QueryOK
<1>3. pipe[w][1].kind \notin TxKinds  BY <1>1 DEF TxKinds
<1>4. CASE NoEffect(w)  BY <1>1, <1>3, <1>4, NoEffectKeeps
<1>5. ASSUME NEW g \in Unused(grp),
             grp' = [grp EXCEPT ![g] = [life |-> "live", owner |-> u, public |-> b]],
             member' = member \cup {<<u, g>>},
             shown' = [shown EXCEPT ![u] = @ \cup {g}],
             Answered(w, <<>>), UNCHANGED <<msg, code, tx, view>>
      PROVE  IInv'
  <2>1. g \in Groups /\ grp[g].life = "none"
    BY <1>5 DEF Unused, IInv, TableTypes
  <2>2. /\ grp'[g].life = "live" /\ grp'[g].owner = u
        /\ \A h \in Groups : h # g => grp'[h] = grp[h]
    BY <1>5, <2>1 DEF IInv, TableTypes
  <2>3. TableTypes'
    <3>1. grp' \in [Groups -> [life : Life, owner : Users \cup {None}, public : BOOLEAN]]
      BY <1>5, <2>1 DEF IInv, TableTypes, Life
    <3>2. member' \subseteq Users \X Groups  BY <1>5, <2>1 DEF IInv, TableTypes
    <3>3. QED  BY <3>1, <3>2, <1>5 DEF IInv, TableTypes
  <2>4. ViewTypes'  BY <1>5, <2>1 DEF IInv, ViewTypes
  <2>5. NoOrphans'
    <3>1. \A p \in member' : LiveGroup(p[2])'
      <4>1. \A p \in member : p[2] \in Groups /\ grp[p[2]].life = "live"
        BY DEF IInv, TableTypes, NoOrphans, LiveGroup
      <4>2. QED  BY <4>1, <2>1, <2>2, <1>5 DEF LiveGroup
    <3>2. \A m \in Msgs : msg'[m].life = "live" => <<msg'[m].user, msg'[m].group>> \in member'
      BY <1>5 DEF IInv, NoOrphans
    <3>3. \A c \in Codes : code'[c].life = "live" => LiveGroup(code[c].group)'
      <4>1. \A c \in Codes : code[c].life = "live" =>
              code[c].group \in Groups /\ grp[code[c].group].life = "live"
        BY DEF IInv, TableTypes, NoOrphans, LiveGroup
      <4>2. QED  BY <4>1, <2>1, <2>2, <1>5 DEF LiveGroup
    <3>4. \A h \in Groups : LiveGroup(h)' => <<grp'[h].owner, h>> \in member'
      BY <2>2, <1>5 DEF IInv, NoOrphans, LiveGroup
    <3>5. QED  BY <3>1, <3>2, <3>3, <3>4, <1>5 DEF NoOrphans
  <2>6. OthersKept(w)
    <3>1. \A h \in Groups :
            grp[h].life # "none" => grp'[h].life # "none" /\ grp'[h].owner = grp[h].owner
      BY <2>1, <2>2
    <3>2. ASSUME NEW v \in Workers, tx[v].dropped, NEW p \in member', p[2] = tx[v].group
          PROVE  p \in member
      <4>1. tx[v].group # g  BY <3>2, <2>1, DroppedInTx, TxGroup
      <4>2. QED  BY <4>1, <3>2, <1>5
    <3>3. QED  BY <3>1, <3>2, <1>5 DEF OthersKept, IInv, RowsHeld
  <2>7. QED  BY <2>3, <2>4, <2>5, <2>6, <1>1, <1>3, <1>5, LastAnswerKeeps
<1>6. QED  BY <1>1, <1>2, <1>4, <1>5 DEF CreateGroup, hist

LEMMA SendGroupsKeeps ==
  ASSUME IInv, NEW w \in Workers, SendGroups(w)
  PROVE  IInv'
<1>1. /\ pipe[w] # <<>> /\ Head(pipe[w]) = pipe[w][1] /\ QueryOK(pipe[w][1])
      /\ pipe[w][1].kind \in {"user_groups", "public_groups", "get_group"}
  BY FirstQuery DEF SendGroups, First
<1>2. pipe[w][1].kind \notin TxKinds /\ pipe[w][1].user \in Users
  BY <1>1 DEF TxKinds, QueryOK
<1>3. PICK selected :
        /\ shown' = [shown EXCEPT ![pipe[w][1].user] = @ \cup selected]
        /\ selected = CASE pipe[w][1].kind = "user_groups"   -> UserGroups(pipe[w][1].user)
                        [] pipe[w][1].kind = "public_groups" -> PublicGroups(pipe[w][1].user)
                        [] pipe[w][1].kind = "get_group"     ->
                             {g \in {pipe[w][1].group} : LiveGroup(g)}
  BY <1>1 DEF SendGroups
<1>4. selected \subseteq Groups
  BY <1>1, <1>3 DEF UserGroups, PublicGroups, QueryOK
<1>5. Answered(w, <<>>) /\ UNCHANGED <<tables, tx, view>>  BY DEF SendGroups
<1>6. ViewTypes'  BY <1>2, <1>3, <1>4, <1>5 DEF IInv, ViewTypes
<1>7. QED  BY <1>1, <1>2, <1>5, <1>6, SameTables, LastAnswerKeeps

LEMMA SendMsgsKeeps ==
  ASSUME IInv, NEW w \in Workers, SendMsgs(w)
  PROVE  IInv'
<1>1. /\ pipe[w] # <<>> /\ Head(pipe[w]) = pipe[w][1] /\ QueryOK(pipe[w][1])
      /\ pipe[w][1].kind = "group_msgs"
  BY FirstQuery DEF SendMsgs, First
<1>2. pipe[w][1].kind \notin TxKinds  BY <1>1 DEF TxKinds
<1>3. /\ view' = [view EXCEPT ![pipe[w][1].user] = @ \cup MsgsOf(pipe[w][1].group)]
      /\ Answered(w, <<>>) /\ UNCHANGED <<tables, tx, shown>>
  BY <1>1 DEF SendMsgs
<1>4. MsgsOf(pipe[w][1].group) \subseteq Msgs  BY DEF MsgsOf
<1>5. ViewTypes'  BY <1>3, <1>4 DEF IInv, ViewTypes
<1>6. QED  BY <1>1, <1>2, <1>3, <1>5, SameTables, LastAnswerKeeps

LEMMA BroadcastKeeps ==
  ASSUME IInv, NEW w \in Workers, Broadcast(w)
  PROVE  IInv'
<1>1. /\ pipe[w] # <<>> /\ Head(pipe[w]) = pipe[w][1] /\ QueryOK(pipe[w][1])
      /\ pipe[w][1].kind = "broadcast"
  BY FirstQuery DEF Broadcast, First
<1>2. pipe[w][1].kind \notin TxKinds  BY <1>1 DEF TxKinds
<1>3. Answered(w, <<>>) /\ UNCHANGED <<tables, tx, shown>>  BY DEF Broadcast
<1>4. LET q == Head(pipe[w]) IN
      view' = [u \in Users |->
        IF u \notin Members(q.group) THEN view[u]
        ELSE CASE q.arg.what = "msg"        -> view[u] \cup {q.arg.msg}
               [] q.arg.what = "delete_msg" -> view[u] \ {q.arg.msg}
               [] q.arg.what = "join"       -> view[u]]
  BY DEF Broadcast
<1>5. /\ Head(pipe[w]).arg.what \in {"msg", "delete_msg", "join"}
      /\ Head(pipe[w]).arg.what = "msg" => Head(pipe[w]).arg.msg \in Msgs
  BY <1>1 DEF QueryOK, News
<1>6. view' \in [Users -> SUBSET Msgs]
  BY <1>4, <1>5 DEF IInv, ViewTypes
<1>7. ViewTypes'  BY <1>3, <1>6 DEF IInv, ViewTypes
<1>8. QED  BY <1>1, <1>2, <1>3, <1>7, SameTables, LastAnswerKeeps

(* A row is added to GroupMembers: the group is there, and no transaction    *)
(* has deleted it.                                                           *)
LEMMA MemberAdded ==
  ASSUME IInv, NEW w \in Workers, NEW u \in Users, NEW g \in Groups,
         LiveGroup(g), ~HeldGroup(w, g), member' = member \cup {<<u, g>>},
         UNCHANGED <<grp, msg>>
  PROVE  /\ member' \subseteq Users \X Groups
         /\ \A p \in member' : LiveGroup(p[2])'
         /\ \A m \in Msgs : msg'[m].life = "live" => <<msg'[m].user, msg'[m].group>> \in member'
         /\ \A h \in Groups : LiveGroup(h)' => <<grp'[h].owner, h>> \in member'
         /\ \A v \in Workers \ {w} :
              tx[v].dropped => \A p \in member' : p[2] = tx[v].group => p \in member
<1>1. \A p \in member' : LiveGroup(p[2])'  BY DEF IInv, NoOrphans, LiveGroup
<1>2. \A v \in Workers \ {w} : tx[v].dropped => tx[v].group # g  BY DEF HeldGroup
<1>3. QED  BY <1>1, <1>2 DEF IInv, TableTypes, NoOrphans, LiveGroup

LEMMA JoinPublicKeeps ==
  ASSUME IInv, NEW w \in Workers, JoinPublic(w)
  PROVE  IInv'
<1>1. /\ pipe[w] # <<>> /\ Head(pipe[w]) = pipe[w][1] /\ QueryOK(pipe[w][1])
      /\ pipe[w][1].kind = "join"
  BY FirstQuery DEF JoinPublic, First
<1>2. pipe[w][1].kind \notin TxKinds  BY <1>1 DEF TxKinds
<1>3. PICK u \in Users, g \in Groups : pipe[w][1].user = u /\ pipe[w][1].group = g
  BY <1>1 DEF QueryOK
<1>4. /\ on_user_group_join(u, g) \in Seq(Query)
      /\ \A j \in 1 .. Len(on_user_group_join(u, g)) :
           QueryOK(on_user_group_join(u, g)[j]) /\ on_user_group_join(u, g)[j].kind \notin TxKinds
  BY JoinSeq
<1>5. CASE NoEffect(w)  BY <1>1, <1>2, <1>5, NoEffectKeeps
<1>6. CASE Answered(w, on_user_group_join(u, g)) /\ UNCHANGED <<tables, tx, views>>
  <2>1. ViewTypes'  BY <1>6 DEF IInv, ViewTypes, views
  <2>2. QED  BY <2>1, <1>1, <1>2, <1>4, <1>6, SameTables, PlainAnswerKeeps
<1>7. CASE /\ LiveGroup(g) /\ ~HeldGroup(w, g) /\ member' = member \cup {<<u, g>>}
           /\ Answered(w, on_user_group_join(u, g))
           /\ UNCHANGED <<grp, msg, code, tx, views>>
  <2>1. /\ member' \subseteq Users \X Groups
        /\ \A p \in member' : LiveGroup(p[2])'
        /\ \A m \in Msgs : msg'[m].life = "live" => <<msg'[m].user, msg'[m].group>> \in member'
        /\ \A h \in Groups : LiveGroup(h)' => <<grp'[h].owner, h>> \in member'
        /\ \A v \in Workers \ {w} :
             tx[v].dropped => \A p \in member' : p[2] = tx[v].group => p \in member
    BY <1>7, MemberAdded
  <2>2. ViewTypes'  BY <1>7 DEF IInv, ViewTypes, views
  <2>3. TableTypes'  BY <2>1, <1>7 DEF IInv, TableTypes
  <2>4. NoOrphans'  BY <2>1, <1>7 DEF IInv, NoOrphans, LiveGroup
  <2>5. OthersKept(w)  BY <2>1, <1>7 DEF IInv, OthersKept, RowsHeld
  <2>6. QED  BY <2>2, <2>3, <2>4, <2>5, <1>1, <1>2, <1>4, <1>7, PlainAnswerKeeps
<1>8. QED  BY <1>1, <1>3, <1>5, <1>6, <1>7 DEF JoinPublic

(* The statement keeps its place in the pipeline while it waits for the lock *)
(* on the code it has read.                                                  *)
LEMMA JoinCodeReadsKeeps ==
  ASSUME IInv, NEW w \in Workers, JoinCodeReads(w)
  PROVE  IInv'
<1>1. /\ pipe[w] # <<>> /\ Head(pipe[w]) = pipe[w][1] /\ QueryOK(pipe[w][1])
      /\ pipe[w][1].kind = "join_code" /\ 1 \in 1 .. Len(pipe[w])
  BY FirstQuery DEF JoinCodeReads, First
<1>2. pipe[w][1].kind \notin TxKinds  BY <1>1 DEF TxKinds
<1>3. PICK u \in Users, c \in Codes : pipe[w][1].user = u /\ pipe[w][1].arg = c
  BY <1>1 DEF QueryOK
<1>4. CASE NoEffect(w)  BY <1>1, <1>2, <1>4, NoEffectKeeps
<1>5. CASE /\ code[c].life = "live"
           /\ pipe' = [pipe EXCEPT ![w] =
                [pipe[w] EXCEPT ![1] = Q("join_code_update", u, code[c].group, c)]]
           /\ UNCHANGED <<tables, tx, views>>
  <2>1. PICK g \in Groups : g = code[c].group  BY <1>5 DEF IInv, TableTypes
  <2> DEFINE q == Q("join_code_update", u, g, c)
  <2>2. q \in Query /\ QueryOK(q) /\ q.kind \notin TxKinds
    BY DEF Q, Query, QueryOK, Kinds, TxKinds
  <2>3. pipe' = [pipe EXCEPT ![w] = [pipe[w] EXCEPT ![1] = q]]  BY <1>5, <2>1
  <2> HIDE DEF q
  <2>4. pipe \in [Workers -> Seq(Query)] /\ pipe[w] \in Seq(Query) /\ Shape(pipe[w])
    BY DEF IInv, PipeTypes, PipeOK
  <2>5. /\ pipe'[w] = [pipe[w] EXCEPT ![1] = q]
        /\ \A v \in Workers : v # w => pipe'[v] = pipe[v]
    BY <2>3, <2>4
  <2>6. /\ pipe'[w] \in Seq(Query) /\ Len(pipe'[w]) = Len(pipe[w])
        /\ \A j \in 1 .. Len(pipe[w]) : pipe'[w][j] = IF j = 1 THEN q ELSE pipe[w][j]
    BY <2>2, <2>4, <2>5, <1>1, ExceptSeq
  <2>7. PipeTypes'  BY <2>3, <2>4, <2>6 DEF PipeTypes
  <2>8. Shape(pipe'[w])
    <3>1. PICK n \in Nat : n = Len(pipe[w])  BY <2>4
    <3>2. \A i \in 1 .. n :
            /\ pipe[w][i].kind \in Before => i < n
            /\ i < n /\ (pipe[w][i].kind \in Before \/ pipe[w][i + 1].kind \in Inside)
                 => Follows(pipe[w][i], pipe[w][i + 1])
      BY <2>4, <3>1 DEF Shape
    <3>3. q.kind \notin Before /\ q.kind \notin Inside  BY <2>2 DEF Before, Inside
    <3>4. ~\E r : Follows(pipe[w][1], r)  BY <1>2 DEF Follows, Order, TxKinds
    <3>5. ASSUME NEW i \in 1 .. n
          PROVE  /\ pipe'[w][i].kind \in Before => i < n
                 /\ i < n /\ (pipe'[w][i].kind \in Before \/ pipe'[w][i + 1].kind \in Inside)
                      => Follows(pipe'[w][i], pipe'[w][i + 1])
      <4>1. i < n => i + 1 \in 1 .. n /\ i + 1 # 1  OBVIOUS
      <4>2. i < n => pipe'[w][i + 1] = pipe[w][i + 1]  BY <4>1, <2>6, <3>1
      <4>3. CASE i = 1
        <5>1. pipe'[w][i] = q  BY <4>3, <2>6, <3>1
        <5>2. i < n => pipe[w][i + 1].kind \notin Inside  BY <4>3, <3>2, <3>4
        <5>3. QED  BY <5>1, <5>2, <4>2, <3>3
      <4>4. CASE i # 1
        <5>1. pipe'[w][i] = pipe[w][i]  BY <4>4, <2>6, <3>1
        <5>2. QED  BY <5>1, <4>2, <3>2
      <4>5. QED  BY <4>3, <4>4
    <3>6. QED  BY <3>5, <3>1, <2>6 DEF Shape
  <2>9. ASSUME NEW v \in Workers, NEW i \in 1 .. Len(pipe'[v])
        PROVE  (\E j \in 1 .. Len(pipe[v]) : pipe'[v][i] = pipe[v][j]) \/ pipe'[v][i] = q
    BY <2>5, <2>6
  <2>10. PipeOK'
    <3>1. \A v \in Workers : Shape(pipe'[v])  BY <2>5, <2>8 DEF IInv, PipeOK
    <3>2. \A v \in Workers : \A i \in 1 .. Len(pipe[v]) : QueryOK(pipe[v][i])
      BY DEF IInv, PipeOK
    <3>3. \A v \in Workers : \A i \in 1 .. Len(pipe'[v]) : QueryOK(pipe'[v][i])
      BY <3>2, <2>2, <2>9
    <3>4. QED  BY <3>1, <3>3 DEF PipeOK, Shape, QueryOK, Follows
  <2>11. SentByOwner'
    <3>1. UNCHANGED grp  BY <1>5 DEF tables
    <3>2. QED  BY <3>1, <2>2, <2>9, OwnerKept
  <2>12. pipe'[w][1] = q  BY <2>6, <1>1
  <2>13. ~InTx(w) /\ ~InTx(w)'  BY <2>2, <2>12, <1>2 DEF InTx, Inside
  <2>14. ViewTypes'  BY <1>5 DEF IInv, ViewTypes, views
  <2>15. QED
    BY <2>5, <2>7, <2>10, <2>11, <2>13, <2>14, <1>5, SameTables, OutsideKeeps
<1>6. QED  BY <1>1, <1>3, <1>4, <1>5 DEF JoinCodeReads

(* A counted use: every code keeps its group and its limit, and only live    *)
(* codes that no other worker holds are deleted.                             *)
LEMMA CountedCodes ==
  ASSUME TableTypes, NEW w \in Workers, NEW c \in Codes,
         \A k \in Exhausted(c) : ~HeldCode(w, k),
         code' = CountUse(c)
  PROVE  /\ code' \in [Codes -> [life : Life, group : Groups \cup {None}, uses : Nat, max : Int]]
         /\ \A k \in Codes :
              /\ code'[k].group = code[k].group /\ code'[k].max = code[k].max
              /\ code'[k].uses = UsesAfter(c, k)
              /\ code'[k].life = IF k \in Exhausted(c) THEN "gone" ELSE code[k].life
              /\ code'[k].life = "live" => code[k].life = "live"
              /\ code'[k].life # "none" => code[k].life # "none"
              /\ HeldCode(w, k) => code'[k].life = code[k].life
<1>1. code \in [Codes -> [life : Life, group : Groups \cup {None}, uses : Nat, max : Int]]
  BY DEF TableTypes
<1>2. \A k \in Exhausted(c) : code[k].life = "live"  BY DEF Exhausted
<1>3. ASSUME NEW k \in Codes
      PROVE  /\ code'[k] \in [life : Life, group : Groups \cup {None}, uses : Nat, max : Int]
             /\ code'[k].group = code[k].group /\ code'[k].max = code[k].max
             /\ code'[k].uses = UsesAfter(c, k)
             /\ code'[k].life = IF k \in Exhausted(c) THEN "gone" ELSE code[k].life
  <2>1. code[k] \in [life : Life, group : Groups \cup {None}, uses : Nat, max : Int]
    BY <1>1
  <2>2. PICK n \in Nat : n = UsesAfter(c, k)
    <3>1. code[c].uses \in Nat /\ code[k].uses \in Nat  BY <1>1
    <3>2. UsesAfter(c, k) \in Nat  BY <3>1 DEF UsesAfter
    <3>3. QED  BY <3>2
  <2>3. PICK l \in Life : l = IF k \in Exhausted(c) THEN "gone" ELSE code[k].life
    BY <2>1 DEF Life
  <2>4. code'[k] = [life |-> l, group |-> code[k].group, uses |-> n, max |-> code[k].max]
    BY <2>2, <2>3 DEF CountUse
  <2>5. QED  BY <2>1, <2>2, <2>3, <2>4
<1>4. code' \in [Codes -> [life : Life, group : Groups \cup {None}, uses : Nat, max : Int]]
  BY <1>3 DEF CountUse
<1>5. QED  BY <1>2, <1>3, <1>4

LEMMA JoinCodeUpdatesKeeps ==
  ASSUME IInv, NEW w \in Workers, JoinCodeUpdates(w)
  PROVE  IInv'
<1>1. /\ pipe[w] # <<>> /\ Head(pipe[w]) = pipe[w][1] /\ QueryOK(pipe[w][1])
      /\ pipe[w][1].kind = "join_code_update"
  BY FirstQuery DEF JoinCodeUpdates, First
<1>2. pipe[w][1].kind \notin TxKinds  BY <1>1 DEF TxKinds
<1>3. PICK u \in Users, g \in Groups, c \in Codes :
        pipe[w][1].user = u /\ pipe[w][1].group = g /\ pipe[w][1].arg = c
  BY <1>1 DEF QueryOK
<1>4. CASE NoEffect(w)  BY <1>1, <1>2, <1>4, NoEffectKeeps
<1>5. CASE /\ ~HeldCode(w, c) /\ ~HeldGroup(w, g) /\ LiveGroup(g)
           /\ member' = member \cup {<<u, g>>}
           /\ code[c].life = "live" => \A k \in Exhausted(c) : ~HeldCode(w, k)
           /\ code' = IF code[c].life = "live" THEN CountUse(c) ELSE code
           /\ Answered(w, IF code[c].life = "live" THEN on_user_group_join(u, g) ELSE <<>>)
           /\ UNCHANGED <<grp, msg, tx, views>>
  <2>1. /\ member' \subseteq Users \X Groups
        /\ \A p \in member' : LiveGroup(p[2])'
        /\ \A m \in Msgs : msg'[m].life = "live" => <<msg'[m].user, msg'[m].group>> \in member'
        /\ \A h \in Groups : LiveGroup(h)' => <<grp'[h].owner, h>> \in member'
        /\ \A v \in Workers \ {w} :
             tx[v].dropped => \A p \in member' : p[2] = tx[v].group => p \in member
    BY <1>5, MemberAdded
  <2>2. /\ code' \in [Codes -> [life : Life, group : Groups \cup {None}, uses : Nat, max : Int]]
        /\ \A d \in Codes :
             /\ code'[d].group = code[d].group
             /\ code'[d].life = "live" => code[d].life = "live"
             /\ code'[d].life # "none" => code[d].life # "none"
             /\ HeldCode(w, d) => code'[d].life = code[d].life
    <3>1. CASE code[c].life # "live"  BY <3>1, <1>5 DEF IInv, TableTypes
    <3>2. CASE code[c].life = "live"  BY <3>2, <1>5, CountedCodes DEF IInv
    <3>3. QED  BY <3>1, <3>2
  <2>3. ViewTypes'  BY <1>5 DEF IInv, ViewTypes, views
  <2>4. TableTypes'
    <3>1. \A d \in Codes : code'[d].life # "none" => code'[d].group \in Groups
      BY <2>2 DEF IInv, TableTypes
    <3>2. QED  BY <3>1, <2>1, <2>2, <1>5 DEF IInv, TableTypes
  <2>5. NoOrphans'
    <3>1. \A d \in Codes : code'[d].life = "live" => LiveGroup(code'[d].group)
      BY <2>2 DEF IInv, NoOrphans
    <3>2. QED  BY <3>1, <2>1, <1>5 DEF NoOrphans, LiveGroup
  <2>6. OthersKept(w)
    <3>2. ASSUME NEW v \in Workers \ {w}, NEW d \in tx[v].codes
          PROVE  code'[d].life = "live" /\ code'[d].group = tx[v].group
      <4>1. d \in Codes /\ HeldCode(w, d)  BY DEF IInv, TxTypes, Tx, HeldCode
      <4>2. QED  BY <4>1, <2>2 DEF IInv, RowsHeld
    <3>3. \A v \in Workers \ {w} : \A d \in Codes :
            code'[d].life = "live" /\ code'[d].group = tx[v].group
              => code[d].life = "live" /\ code[d].group = tx[v].group
      BY <2>2
    <3>4. QED  BY <3>2, <3>3, <2>1, <1>5 DEF OthersKept, IInv, RowsHeld
  <2>7. CASE code[c].life = "live"
    BY <2>3, <2>4, <2>5, <2>6, <2>7, <1>1, <1>2, <1>5, JoinSeq, PlainAnswerKeeps
  <2>8. CASE code[c].life # "live"
    BY <2>3, <2>4, <2>5, <2>6, <2>8, <1>1, <1>2, <1>5, LastAnswerKeeps
  <2>9. QED  BY <2>7, <2>8
<1>6. QED  BY <1>1, <1>3, <1>4, <1>5 DEF JoinCodeUpdates

(* The author is a member whose row no transaction has deleted.              *)
LEMMA InsertMsgKeeps ==
  ASSUME IInv, NEW w \in Workers, InsertMsg(w)
  PROVE  IInv'
<1>1. /\ pipe[w] # <<>> /\ Head(pipe[w]) = pipe[w][1] /\ QueryOK(pipe[w][1])
      /\ pipe[w][1].kind = "insert_msg"
  BY FirstQuery DEF InsertMsg, First
<1>2. pipe[w][1].kind \notin TxKinds  BY <1>1 DEF TxKinds
<1>3. PICK u \in Users, g \in Groups : pipe[w][1].user = u /\ pipe[w][1].group = g
  BY <1>1 DEF QueryOK
<1>4. CASE NoEffect(w)  BY <1>1, <1>2, <1>4, NoEffectKeeps
<1>5. ASSUME <<u, g>> \in member, ~HeldMember(w, <<u, g>>), NEW m \in Unused(msg),
             msg' = [msg EXCEPT ![m] = [life |-> "live", user |-> u, group |-> g]],
             Answered(w, server_group_broadcast(g, "msg", m)),
             UNCHANGED <<grp, member, code, tx, views>>
      PROVE  IInv'
  <2>1. m \in Msgs /\ msg[m].life = "none"  BY <1>5 DEF Unused, IInv, TableTypes
  <2>2. /\ msg' \in [Msgs -> [life : Life, user : Users \cup {None}, group : Groups \cup {None}]]
        /\ msg'[m].life = "live" /\ msg'[m].user = u /\ msg'[m].group = g
        /\ \A n \in Msgs : n # m => msg'[n] = msg[n]
    BY <2>1, <1>5 DEF IInv, TableTypes, Life
  <2>3. TableTypes'
    <3>1. \A n \in Msgs : msg'[n].life # "none" => msg'[n].user \in Users /\ msg'[n].group \in Groups
      BY <2>2 DEF IInv, TableTypes
    <3>2. QED  BY <3>1, <2>2, <1>5 DEF IInv, TableTypes
  <2>4. ViewTypes'  BY <1>5 DEF IInv, ViewTypes, views
  <2>5. NoOrphans'
    <3>1. \A n \in Msgs : msg'[n].life = "live" => <<msg'[n].user, msg'[n].group>> \in member
      BY <2>2, <1>5 DEF IInv, NoOrphans
    <3>2. QED  BY <3>1, <1>5 DEF IInv, NoOrphans, LiveGroup
  <2>6. OthersKept(w)
    <3>1. ASSUME NEW v \in Workers \ {w}
          PROVE  /\ \A n \in tx[v].msgs : msg'[n].life = "live" /\ msg'[n].group = tx[v].group
                 /\ tx[v].dropped => tx[v].group # g
      <4>1. \A n \in tx[v].msgs : n \in Msgs /\ n # m
        BY <2>1 DEF IInv, TxTypes, Tx, RowsHeld
      <4>2. tx[v].dropped => tx[v].group # g
        BY <1>5 DEF HeldMember, IInv, Isolated
      <4>3. QED  BY <4>1, <4>2, <2>2 DEF IInv, RowsHeld
    <3>2. ASSUME NEW v \in Workers \ {w}, tx[v].dropped, NEW n \in Msgs,
                 msg'[n].life = "live", msg'[n].group = tx[v].group
          PROVE  msg[n].life = "live" /\ msg[n].group = tx[v].group
      BY <3>1, <3>2, <2>2
    <3>3. QED  BY <3>1, <3>2, <1>5 DEF OthersKept, IInv, RowsHeld
  <2>7. QED
    BY <2>1, <2>3, <2>4, <2>5, <2>6, <1>1, <1>2, <1>5, BroadcastSeq, PlainAnswerKeeps
<1>6. QED  BY <1>1, <1>3, <1>4, <1>5 DEF InsertMsg

LEMMA DeleteMsgKeeps ==
  ASSUME IInv, NEW w \in Workers, DeleteMsg(w)
  PROVE  IInv'
<1>1. /\ pipe[w] # <<>> /\ Head(pipe[w]) = pipe[w][1] /\ QueryOK(pipe[w][1])
      /\ pipe[w][1].kind = "delete_msg"
  BY FirstQuery DEF DeleteMsg, First
<1>2. pipe[w][1].kind \notin TxKinds  BY <1>1 DEF TxKinds
<1>3. PICK m \in Msgs : pipe[w][1].arg = m  BY <1>1 DEF QueryOK
<1>4. CASE NoEffect(w)  BY <1>1, <1>2, <1>4, NoEffectKeeps
<1>5. CASE /\ msg[m].life = "live" /\ ~HeldMsg(w, m)
           /\ msg' = [msg EXCEPT ![m].life = "gone"]
           /\ Answered(w, server_group_broadcast(msg[m].group, "delete_msg", m))
           /\ UNCHANGED <<grp, member, code, tx, views>>
  <2>1. /\ msg' \in [Msgs -> [life : Life, user : Users \cup {None}, group : Groups \cup {None}]]
        /\ msg'[m].life = "gone"
        /\ \A n \in Msgs : n # m => msg'[n] = msg[n]
    BY <1>5 DEF IInv, TableTypes, Life
  <2>2. msg'[m].user = msg[m].user /\ msg'[m].group = msg[m].group
    BY <1>5 DEF IInv, TableTypes
  <2>3. TableTypes'
    <3>1. \A n \in Msgs : msg'[n].life # "none" => msg'[n].user \in Users /\ msg'[n].group \in Groups
      BY <2>1, <2>2, <1>5 DEF IInv, TableTypes
    <3>2. QED  BY <3>1, <2>1, <1>5 DEF IInv, TableTypes
  <2>4. ViewTypes'  BY <1>5 DEF IInv, ViewTypes, views
  <2>5. NoOrphans'
    <3>1. \A n \in Msgs : msg'[n].life = "live" => <<msg'[n].user, msg'[n].group>> \in member
      BY <2>1 DEF IInv, NoOrphans
    <3>2. QED  BY <3>1, <1>5 DEF IInv, NoOrphans, LiveGroup
  <2>6. OthersKept(w)
    <3>1. ASSUME NEW v \in Workers \ {w}, NEW n \in tx[v].msgs
          PROVE  msg'[n].life = "live" /\ msg'[n].group = tx[v].group
      <4>1. n \in Msgs /\ n # m  BY <1>5 DEF HeldMsg, IInv, TxTypes, Tx
      <4>2. QED  BY <4>1, <2>1 DEF IInv, RowsHeld
    <3>2. ASSUME NEW v \in Workers \ {w}, NEW n \in Msgs,
                 msg'[n].life = "live", msg'[n].group = tx[v].group
          PROVE  msg[n].life = "live" /\ msg[n].group = tx[v].group
      BY <3>2, <2>1
    <3>3. QED  BY <3>1, <3>2, <1>5 DEF OthersKept, IInv, RowsHeld
  <2>7. msg[m].group \in Groups  BY <1>5 DEF IInv, TableTypes
  <2>8. QED
    BY <2>3, <2>4, <2>5, <2>6, <2>7, <1>1, <1>2, <1>5, BroadcastSeq, PlainAnswerKeeps
<1>6. QED  BY <1>1, <1>3, <1>4, <1>5 DEF DeleteMsg

(* The maker of a code is a member, and no transaction has deleted the group. *)
LEMMA CreateCodeKeeps ==
  ASSUME IInv, NEW w \in Workers, CreateCode(w)
  PROVE  IInv'
<1>1. /\ pipe[w] # <<>> /\ Head(pipe[w]) = pipe[w][1] /\ QueryOK(pipe[w][1])
      /\ pipe[w][1].kind = "create_code"
  BY FirstQuery DEF CreateCode, First
<1>2. pipe[w][1].kind \notin TxKinds  BY <1>1 DEF TxKinds
<1>3. PICK u \in Users, g \in Groups, max \in Int :
        pipe[w][1].user = u /\ pipe[w][1].group = g /\ pipe[w][1].arg = max
  BY <1>1 DEF QueryOK
<1>4. CASE NoEffect(w)  BY <1>1, <1>2, <1>4, NoEffectKeeps
<1>5. ASSUME u \in Members(g), ~HeldGroup(w, g), NEW c \in Unused(code),
             code' = [code EXCEPT ![c] = [life |-> "live", group |-> g, uses |-> 0, max |-> max]],
             Answered(w, <<>>), UNCHANGED <<grp, member, msg, tx, views>>
      PROVE  IInv'
  <2>1. c \in Codes /\ code[c].life = "none"  BY <1>5 DEF Unused, IInv, TableTypes
  <2>2. /\ code' \in [Codes -> [life : Life, group : Groups \cup {None}, uses : Nat, max : Int]]
        /\ code'[c].life = "live" /\ code'[c].group = g
        /\ \A d \in Codes : d # c => code'[d] = code[d]
    BY <2>1, <1>5 DEF IInv, TableTypes, Life
  <2>3. TableTypes'
    <3>1. \A d \in Codes : code'[d].life # "none" => code'[d].group \in Groups
      BY <2>2 DEF IInv, TableTypes
    <3>2. QED  BY <3>1, <2>2, <1>5 DEF IInv, TableTypes
  <2>4. ViewTypes'  BY <1>5 DEF IInv, ViewTypes, views
  <2>5. NoOrphans'
    <3>1. LiveGroup(g)
      <4>1. <<u, g>> \in member  BY <1>5 DEF Members
      <4>2. QED  BY <4>1 DEF IInv, NoOrphans
    <3>2. \A d \in Codes : code'[d].life = "live" => LiveGroup(code'[d].group)
      BY <3>1, <2>2 DEF IInv, NoOrphans
    <3>3. QED  BY <3>2, <1>5 DEF IInv, NoOrphans, LiveGroup
  <2>6. OthersKept(w)
    <3>1. ASSUME NEW v \in Workers \ {w}, NEW d \in tx[v].codes
          PROVE  code'[d].life = "live" /\ code'[d].group = tx[v].group
      <4>1. d \in Codes /\ d # c  BY <2>1 DEF IInv, TxTypes, Tx, RowsHeld
      <4>2. QED  BY <4>1, <2>2 DEF IInv, RowsHeld
    <3>2. ASSUME NEW v \in Workers \ {w}, tx[v].dropped, NEW d \in Codes,
                 code'[d].life = "live", code'[d].group = tx[v].group
          PROVE  code[d].life = "live" /\ code[d].group = tx[v].group
      <4>1. tx[v].group # g  BY <3>2, <1>5 DEF HeldGroup
      <4>2. QED  BY <4>1, <3>2, <2>2
    <3>3. QED  BY <3>1, <3>2, <1>5 DEF OthersKept, IInv, RowsHeld
  <2>7. QED  BY <2>3, <2>4, <2>5, <2>6, <1>1, <1>2, <1>5, LastAnswerKeeps
<1>6. QED  BY <1>1, <1>3, <1>4, <1>5 DEF CreateCode

LEMMA DeleteCodeKeeps ==
  ASSUME IInv, NEW w \in Workers, DeleteCode(w)
  PROVE  IInv'
<1>1. /\ pipe[w] # <<>> /\ Head(pipe[w]) = pipe[w][1] /\ QueryOK(pipe[w][1])
      /\ pipe[w][1].kind = "delete_code"
  BY FirstQuery DEF DeleteCode, First
<1>2. pipe[w][1].kind \notin TxKinds  BY <1>1 DEF TxKinds
<1>3. PICK c \in Codes : pipe[w][1].arg = c  BY <1>1 DEF QueryOK
<1>4. CASE NoEffect(w)  BY <1>1, <1>2, <1>4, NoEffectKeeps
<1>5. CASE /\ code[c].life = "live" /\ ~HeldCode(w, c)
           /\ code' = [code EXCEPT ![c].life = "gone"]
           /\ Answered(w, <<>>)
           /\ UNCHANGED <<grp, member, msg, tx, views>>
  <2>1. /\ code' \in [Codes -> [life : Life, group : Groups \cup {None}, uses : Nat, max : Int]]
        /\ code'[c].life = "gone"
        /\ \A d \in Codes : d # c => code'[d] = code[d]
    BY <1>5 DEF IInv, TableTypes, Life
  <2>2. code'[c].group = code[c].group  BY <1>5 DEF IInv, TableTypes
  <2>3. TableTypes'
    <3>1. \A d \in Codes : code'[d].life # "none" => code'[d].group \in Groups
      BY <2>1, <2>2, <1>5 DEF IInv, TableTypes
    <3>2. QED  BY <3>1, <2>1, <1>5 DEF IInv, TableTypes
  <2>4. ViewTypes'  BY <1>5 DEF IInv, ViewTypes, views
  <2>5. NoOrphans'
    <3>1. \A d \in Codes : code'[d].life = "live" => LiveGroup(code'[d].group)
      BY <2>1 DEF IInv, NoOrphans
    <3>2. QED  BY <3>1, <1>5 DEF IInv, NoOrphans, LiveGroup
  <2>6. OthersKept(w)
    <3>1. ASSUME NEW v \in Workers \ {w}, NEW d \in tx[v].codes
          PROVE  code'[d].life = "live" /\ code'[d].group = tx[v].group
      <4>1. d \in Codes /\ d # c  BY <1>5 DEF HeldCode, IInv, TxTypes, Tx
      <4>2. QED  BY <4>1, <2>1 DEF IInv, RowsHeld
    <3>2. ASSUME NEW v \in Workers \ {w}, NEW d \in Codes,
                 code'[d].life = "live", code'[d].group = tx[v].group
          PROVE  code[d].life = "live" /\ code[d].group = tx[v].group
      BY <3>2, <2>1
    <3>3. QED  BY <3>1, <3>2, <1>5 DEF OthersKept, IInv, RowsHeld
  <2>7. QED  BY <2>3, <2>4, <2>5, <2>6, <1>1, <1>2, <1>5, LastAnswerKeeps
<1>6. QED  BY <1>1, <1>3, <1>4, <1>5 DEF DeleteCode

(* The transaction is sent for the owner of a group that is there.           *)
LEMMA CheckOwnerKeeps ==
  ASSUME IInv, NEW w \in Workers, CheckOwner(w)
  PROVE  IInv'
<1>1. /\ pipe[w] # <<>> /\ Head(pipe[w]) = pipe[w][1] /\ QueryOK(pipe[w][1])
      /\ pipe[w][1].kind = "owner"
  BY FirstQuery DEF CheckOwner, First
<1>2. pipe[w][1].kind \notin TxKinds  BY <1>1 DEF TxKinds
<1>3. PICK u \in Users, g \in Groups : pipe[w][1].user = u /\ pipe[w][1].group = g
  BY <1>1 DEF QueryOK
<1>4. CASE NoEffect(w)  BY <1>1, <1>2, <1>4, NoEffectKeeps
<1>5. CASE /\ LiveGroup(g) /\ grp[g].owner = u
           /\ Answered(w, db_async_delete_group(u, g))
           /\ UNCHANGED <<tables, tx, views>>
  <2>1. PICK b \in Seq(Query) : b = db_async_delete_group(u, g)  BY TransactionSeq
  <2>2. /\ Shape(b) /\ b[1].kind \notin Inside
        /\ \A j \in 1 .. Len(b) : QueryOK(b[j]) /\ b[j].group = g /\ b[j].user = u
    BY <2>1, TransactionSeq
  <2>3. grp' = grp /\ ViewTypes'  BY <1>5 DEF tables, views, IInv, ViewTypes
  <2>4. \A j \in 1 .. Len(b) : b[j].kind \in TxKinds =>
          grp'[b[j].group].life # "none" /\ grp'[b[j].group].owner = b[j].user
    BY <2>2, <2>3, <1>5 DEF LiveGroup
  <2>5. TableTypes' /\ NoOrphans' /\ OthersKept(w)  BY <1>5, SameTables
  <2>6. Answered(w, b) /\ UNCHANGED tx  BY <2>1, <1>5
  <2>7. QED  BY <2>2, <2>3, <2>4, <2>5, <2>6, <1>1, <1>2, AnswerKeeps
<1>6. QED  BY <1>1, <1>3, <1>4, <1>5 DEF CheckOwner

LEMMA DeadlockFailsMsgKeeps ==
  ASSUME IInv, NEW w \in Workers, DeadlockFailsMsg(w)
  PROVE  IInv'
<1>1. /\ pipe[w] # <<>> /\ Head(pipe[w]).kind = "insert_msg" /\ NoEffect(w)
  BY DEF DeadlockFailsMsg, MsgWaits, First
<1>2. pipe[w][1].kind \notin TxKinds  BY <1>1, FirstQuery DEF TxKinds
<1>3. QED  BY <1>1, <1>2, NoEffectKeeps

-----------------------------------------------------------------------------
(* The transaction                                                           *)

LEMMA StatementKeeps ==
  ASSUME IInv, NEW w \in Workers, pipe[w] # <<>>, pipe[w][1].kind \in Before,
         NEW t \in Tx, Statement(w, t), t.group = pipe[w][1].group,
         t.failed => t.members = {} /\ t.msgs = {} /\ t.codes = {} /\ ~t.dropped,
         t.dropped <=> pipe[w][1].kind = "del_group" /\ ~t.failed,
         \A p \in t.members : p \in member /\ p[2] = t.group,
         \A m \in t.msgs : msg[m].life = "live" /\ msg[m].group = t.group,
         \A c \in t.codes : code[c].life = "live" /\ code[c].group = t.group,
         \A v \in Workers \ {w} :
           /\ tx[v].members \cap t.members = {} /\ tx[v].msgs \cap t.msgs = {}
           /\ tx[v].codes \cap t.codes = {},
         t.dropped =>
           /\ \A p \in member : p[2] = t.group => p \in t.members
           /\ \A m \in Msgs : msg[m].life = "live" /\ msg[m].group = t.group => m \in t.msgs
           /\ \A c \in Codes :
                code[c].life = "live" /\ code[c].group = t.group => c \in t.codes
  PROVE  IInv'
<1>1. /\ tx' = [tx EXCEPT ![w] = t] /\ Answered(w, <<>>)
      /\ UNCHANGED <<grp, member, msg, code, shown, view>>
  BY DEF Statement, tables, views
<1>2. <<>> \in Seq(Query) /\ Len(<<>>) = 0  OBVIOUS
<1>3. Shape(<<>>) /\ \A j \in 1 .. Len(<<>>) : QueryOK(<<>>[j])  BY <1>2 DEF Shape
<1>4. /\ PipeTypes' /\ PipeOK'
      /\ \A v \in Workers : v # w => pipe'[v] = pipe[v]
      /\ \A v \in Workers : \A i \in 1 .. Len(pipe'[v]) :
           \/ \E j \in 1 .. Len(pipe[v]) : pipe'[v][i] = pipe[v][j]
           \/ \E j \in 1 .. Len(<<>>) : pipe'[v][i] = <<>>[j]
      /\ InTx(w)' => Follows(pipe[w][1], pipe'[w][1])
      /\ pipe[w][1].kind \in Before => InTx(w)'
  BY <1>1, <1>2, <1>3, AnsweredMoves DEF IInv
<1>5. InTx(w)' /\ Follows(pipe[w][1], pipe'[w][1])  BY <1>4
<1>6. \A v \in Workers : \A i \in 1 .. Len(pipe'[v]) :
        \E j \in 1 .. Len(pipe[v]) : pipe'[v][i] = pipe[v][j]
  BY <1>2, <1>4
<1>7. SentByOwner'  BY <1>1, <1>6, OwnerKept
<1>8. TableTypes' /\ ViewTypes'  BY <1>1 DEF IInv, TableTypes, ViewTypes
<1>9. tx'[w] = t /\ \A v \in Workers : v # w => tx'[v] = tx[v]
  BY <1>1 DEF IInv, TxTypes
<1>10. TxTypes'  BY <1>1 DEF IInv, TxTypes
<1>11. TxStages'
  <2>1. pipe'[w][1].kind = "commit" <=> pipe[w][1].kind = "del_group"
    BY <1>5 DEF Follows, Order
  <2>2. pipe'[w][1].group = pipe[w][1].group  BY <1>5 DEF Follows
  <2>3. ASSUME NEW v \in Workers
        PROVE  /\ ~InTx(v)' => tx'[v] = NoTx
               /\ InTx(v)' => tx'[v].group = pipe'[v][1].group
               /\ tx'[v].failed => /\ tx'[v].members = {} /\ tx'[v].msgs = {}
                                   /\ tx'[v].codes = {} /\ ~tx'[v].dropped
               /\ InTx(v)' => (tx'[v].dropped <=> pipe'[v][1].kind = "commit" /\ ~tx'[v].failed)
    <3>1. CASE v = w  BY <3>1, <2>1, <2>2, <1>5, <1>9
    <3>2. CASE v # w
      <4>1. tx'[v] = tx[v] /\ pipe'[v] = pipe[v] /\ (InTx(v)' <=> InTx(v))
        BY <3>2, <1>4, <1>9 DEF InTx
      <4>2. QED  BY <4>1 DEF IInv, TxStages
    <3>3. QED  BY <3>1, <3>2
  <2>4. QED  BY <2>3 DEF TxStages
<1>12. RowsHeld'
  <2>1. ASSUME NEW v \in Workers
        PROVE  /\ \A p \in tx'[v].members : p \in member /\ p[2] = tx'[v].group
               /\ \A m \in tx'[v].msgs : msg[m].life = "live" /\ msg[m].group = tx'[v].group
               /\ \A c \in tx'[v].codes : code[c].life = "live" /\ code[c].group = tx'[v].group
    <3>1. CASE v = w  BY <3>1, <1>9
    <3>2. CASE v # w  BY <3>2, <1>9 DEF IInv, RowsHeld
    <3>3. QED  BY <3>1, <3>2
  <2>2. ASSUME NEW v \in Workers, NEW x \in Workers, v # x
        PROVE  /\ tx'[v].members \cap tx'[x].members = {}
               /\ tx'[v].msgs \cap tx'[x].msgs = {}
               /\ tx'[v].codes \cap tx'[x].codes = {}
    <3>1. CASE v = w  BY <3>1, <2>2, <1>9
    <3>2. CASE x = w  BY <3>2, <2>2, <1>9
    <3>3. CASE v # w /\ x # w  BY <3>3, <2>2, <1>9 DEF IInv, RowsHeld
    <3>4. QED  BY <3>1, <3>2, <3>3
  <2>3. QED  BY <2>1, <2>2, <1>1 DEF RowsHeld
<1>13. NoOrphans'  BY <1>1 DEF IInv, NoOrphans, LiveGroup
<1>14. Isolated'
  <2> SUFFICES ASSUME NEW v \in Workers, tx'[v].dropped
               PROVE  /\ \A p \in member : p[2] = tx'[v].group => p \in tx'[v].members
                      /\ \A m \in Msgs : msg[m].life = "live" /\ msg[m].group = tx'[v].group
                           => m \in tx'[v].msgs
                      /\ \A c \in Codes :
                           code[c].life = "live" /\ code[c].group = tx'[v].group
                           => c \in tx'[v].codes
    BY <1>1 DEF Isolated
  <2>1. CASE v = w  BY <2>1, <1>9
  <2>2. CASE v # w  BY <2>2, <1>9 DEF IInv, Isolated
  <2>3. QED  BY <2>1, <2>2
<1>15. QED
  BY <1>4, <1>7, <1>8, <1>10, <1>11, <1>12, <1>13, <1>14 DEF IInv

(* What an open transaction holds, for the proofs of its statements.         *)
LEMMA OpenTx ==
  ASSUME IInv, NEW w \in Workers, pipe[w] # <<>>, pipe[w][1].kind \in Inside
  PROVE  /\ tx[w] \in Tx /\ tx[w].group = pipe[w][1].group /\ tx[w].group \in Groups
         /\ tx[w].failed => /\ tx[w].members = {} /\ tx[w].msgs = {} /\ tx[w].codes = {}
                            /\ ~tx[w].dropped
         /\ tx[w].dropped <=> pipe[w][1].kind = "commit" /\ ~tx[w].failed
         /\ \A p \in tx[w].members : p \in member /\ p[2] = tx[w].group
         /\ \A m \in tx[w].msgs : msg[m].life = "live" /\ msg[m].group = tx[w].group
         /\ \A c \in tx[w].codes : code[c].life = "live" /\ code[c].group = tx[w].group
         /\ \A v \in Workers \ {w} :
              /\ tx[v].members \cap tx[w].members = {} /\ tx[v].msgs \cap tx[w].msgs = {}
              /\ tx[v].codes \cap tx[w].codes = {}
<1>1. InTx(w)  BY DEF InTx
<1>2. tx[w] \in Tx /\ tx[w].group \in Groups  BY <1>1, TxGroup DEF IInv, TxTypes
<1>3. /\ tx[w].group = pipe[w][1].group
      /\ tx[w].failed => /\ tx[w].members = {} /\ tx[w].msgs = {} /\ tx[w].codes = {}
                         /\ ~tx[w].dropped
      /\ tx[w].dropped <=> pipe[w][1].kind = "commit" /\ ~tx[w].failed
  BY <1>1 DEF IInv, TxStages
<1>4. /\ \A p \in tx[w].members : p \in member /\ p[2] = tx[w].group
      /\ \A m \in tx[w].msgs : msg[m].life = "live" /\ msg[m].group = tx[w].group
      /\ \A c \in tx[w].codes : code[c].life = "live" /\ code[c].group = tx[w].group
      /\ \A v \in Workers \ {w} :
           /\ tx[v].members \cap tx[w].members = {} /\ tx[v].msgs \cap tx[w].msgs = {}
           /\ tx[v].codes \cap tx[w].codes = {}
  BY DEF IInv, RowsHeld
<1>5. QED  BY <1>2, <1>3, <1>4

LEMMA BeginKeeps ==
  ASSUME IInv, NEW w \in Workers, Begin(w)
  PROVE  IInv'
<1>1. /\ pipe[w] # <<>> /\ Head(pipe[w]) = pipe[w][1] /\ QueryOK(pipe[w][1])
      /\ pipe[w][1].kind = "begin"
  BY FirstQuery DEF Begin, First
<1>2. PICK g \in Groups : pipe[w][1].group = g  BY <1>1 DEF QueryOK
<1> DEFINE t == [NoTx EXCEPT !.group = g]
<1>3. /\ t \in Tx /\ t.group = g /\ ~t.failed /\ ~t.dropped
      /\ t.members = {} /\ t.msgs = {} /\ t.codes = {}
  BY DEF Tx, NoTx
<1>4. Statement(w, t)  BY <1>1, <1>2 DEF Begin
<1> HIDE DEF t
<1>5. QED  BY <1>1, <1>2, <1>3, <1>4, StatementKeeps DEF Before, TxKinds

(* A statement that fails leaves a transaction that holds nothing.           *)
LEMMA FailedKeeps ==
  ASSUME IInv, NEW w \in Workers, pipe[w] # <<>>, pipe[w][1].kind \in Inside \ {"commit"},
         Statement(w, Failed(w))
  PROVE  IInv'
<1>1. tx[w].group = pipe[w][1].group /\ tx[w].group \in Groups  BY OpenTx
<1> DEFINE t == Failed(w)
<1>2. /\ t \in Tx /\ t.group = tx[w].group /\ t.failed /\ ~t.dropped
      /\ t.members = {} /\ t.msgs = {} /\ t.codes = {}
  BY <1>1 DEF Failed, Tx, NoTx
<1>3. Statement(w, t)  OBVIOUS
<1> HIDE DEF t
<1>4. QED  BY <1>1, <1>2, <1>3, StatementKeeps DEF Before, Inside, TxKinds

LEMMA SkippedKeeps ==
  ASSUME IInv, NEW w \in Workers, Skipped(w)
  PROVE  IInv'
<1>1. /\ pipe[w] # <<>> /\ Statement(w, tx[w]) /\ tx[w].failed
      /\ pipe[w][1].kind \in {"member_ids", "del_msgs", "del_members", "del_codes", "del_group"}
  BY FirstQuery DEF Skipped, First
<1>2. pipe[w][1].kind \in Inside /\ pipe[w][1].kind \in Before
  BY <1>1 DEF Inside, Before, TxKinds
<1>3. QED  BY <1>1, <1>2, OpenTx, StatementKeeps

LEMMA SelectMemberIdsKeeps ==
  ASSUME IInv, NEW w \in Workers, SelectMemberIds(w)
  PROVE  IInv'
<1>1. /\ pipe[w] # <<>> /\ pipe[w][1].kind = "member_ids" /\ ~tx[w].failed
  BY FirstQuery DEF SelectMemberIds, First
<1>2. pipe[w][1].kind \in Inside /\ pipe[w][1].kind \in Before
  BY <1>1 DEF Inside, Before, TxKinds
<1>3. PICK s \in SUBSET Users : Statement(w, [tx[w] EXCEPT !.ids = s])
  BY DEF SelectMemberIds, Members
<1> DEFINE t == [tx[w] EXCEPT !.ids = s]
<1>4. /\ t \in Tx /\ t.group = tx[w].group /\ t.failed = tx[w].failed
      /\ t.dropped = tx[w].dropped
      /\ t.members = tx[w].members /\ t.msgs = tx[w].msgs /\ t.codes = tx[w].codes
  BY <1>1, <1>2, OpenTx DEF Tx
<1>5. Statement(w, t)  BY <1>3
<1> HIDE DEF t
<1>6. QED  BY <1>1, <1>2, <1>4, <1>5, OpenTx, StatementKeeps

LEMMA DelMsgsKeeps ==
  ASSUME IInv, NEW w \in Workers, DelMsgs(w)
  PROVE  IInv'
<1>1. /\ pipe[w] # <<>> /\ pipe[w][1].kind = "del_msgs" /\ ~tx[w].failed
  BY FirstQuery DEF DelMsgs, First
<1>2. pipe[w][1].kind \in Inside /\ pipe[w][1].kind \in Before
  BY <1>1 DEF Inside, Before, TxKinds
<1> DEFINE s == MsgsOf(tx[w].group)
           t == [tx[w] EXCEPT !.msgs = s]
<1>3. /\ s \in SUBSET Msgs /\ Statement(w, t)
      /\ \A m \in s : msg[m].life = "live" /\ msg[m].group = tx[w].group /\ ~HeldMsg(w, m)
  BY DEF DelMsgs, MsgsOf
<1>4. \A v \in Workers \ {w} : tx[v].msgs \cap s = {}  BY <1>3 DEF HeldMsg
<1> HIDE DEF s
<1>5. /\ t \in Tx /\ t.group = tx[w].group /\ t.failed = tx[w].failed
      /\ t.dropped = tx[w].dropped
      /\ t.members = tx[w].members /\ t.msgs = s /\ t.codes = tx[w].codes
  BY <1>1, <1>2, <1>3, OpenTx DEF Tx
<1> HIDE DEF t
<1>6. QED  BY <1>1, <1>2, <1>3, <1>4, <1>5, OpenTx, StatementKeeps

LEMMA DelMembersKeeps ==
  ASSUME IInv, NEW w \in Workers, DelMembers(w)
  PROVE  IInv'
<1>1. /\ pipe[w] # <<>> /\ pipe[w][1].kind = "del_members" /\ ~tx[w].failed
  BY FirstQuery DEF DelMembers, First
<1>2. pipe[w][1].kind \in Inside /\ pipe[w][1].kind \in Before
  BY <1>1 DEF Inside, Before, TxKinds
<1> DEFINE s == Members(tx[w].group) \X {tx[w].group}
           t == [tx[w] EXCEPT !.members = s]
<1>3. \A p \in s : ~HeldMember(w, p)  BY DEF DelMembers
<1>4. Statement(w, t) \/ Statement(w, Failed(w))  BY DEF DelMembers
<1>5. tx[w].group \in Groups  BY <1>1, <1>2, OpenTx
<1>6. \A p \in s : p \in member /\ p[2] = tx[w].group  BY DEF Members
<1>7. s \in SUBSET (Users \X Groups)  BY <1>5 DEF Members
<1>8. \A v \in Workers \ {w} : tx[v].members \cap s = {}  BY <1>3 DEF HeldMember
<1> HIDE DEF s
<1>9. /\ t \in Tx /\ t.group = tx[w].group /\ t.failed = tx[w].failed
      /\ t.dropped = tx[w].dropped
      /\ t.members = s /\ t.msgs = tx[w].msgs /\ t.codes = tx[w].codes
  BY <1>1, <1>2, <1>7, OpenTx DEF Tx
<1> HIDE DEF t
<1>10. CASE Statement(w, t)
  BY <1>1, <1>2, <1>6, <1>8, <1>9, <1>10, OpenTx, StatementKeeps
<1>11. CASE Statement(w, Failed(w))  BY <1>1, <1>2, <1>11, FailedKeeps
<1>12. QED  BY <1>4, <1>10, <1>11

LEMMA DelCodesKeeps ==
  ASSUME IInv, NEW w \in Workers, DelCodes(w)
  PROVE  IInv'
<1>1. /\ pipe[w] # <<>> /\ pipe[w][1].kind = "del_codes" /\ ~tx[w].failed
  BY FirstQuery DEF DelCodes, First
<1>2. pipe[w][1].kind \in Inside /\ pipe[w][1].kind \in Before
  BY <1>1 DEF Inside, Before, TxKinds
<1> DEFINE s == CodesOf(tx[w].group)
           t == [tx[w] EXCEPT !.codes = s]
<1>3. /\ s \in SUBSET Codes /\ Statement(w, t)
      /\ \A c \in s : code[c].life = "live" /\ code[c].group = tx[w].group /\ ~HeldCode(w, c)
  BY DEF DelCodes, CodesOf
<1>4. \A v \in Workers \ {w} : tx[v].codes \cap s = {}  BY <1>3 DEF HeldCode
<1> HIDE DEF s
<1>5. /\ t \in Tx /\ t.group = tx[w].group /\ t.failed = tx[w].failed
      /\ t.dropped = tx[w].dropped
      /\ t.members = tx[w].members /\ t.msgs = tx[w].msgs /\ t.codes = s
  BY <1>1, <1>2, <1>3, OpenTx DEF Tx
<1> HIDE DEF t
<1>6. QED  BY <1>1, <1>2, <1>3, <1>4, <1>5, OpenTx, StatementKeeps

(* The row of the group goes only when the transaction holds every row that  *)
(* refers to it.                                                             *)
LEMMA DelGroupKeeps ==
  ASSUME IInv, NEW w \in Workers, DelGroup(w)
  PROVE  IInv'
<1>1. /\ pipe[w] # <<>> /\ pipe[w][1].kind = "del_group" /\ ~tx[w].failed
  BY FirstQuery DEF DelGroup, First
<1>2. pipe[w][1].kind \in Inside /\ pipe[w][1].kind \in Before
  BY <1>1 DEF Inside, Before, TxKinds
<1> DEFINE g == tx[w].group
           t == [tx[w] EXCEPT !.dropped = TRUE]
<1>3. \/ Statement(w, Failed(w))
      \/ /\ Statement(w, t)
         /\ Members(g) \X {g} \subseteq tx[w].members
         /\ MsgsOf(g) \subseteq tx[w].msgs
         /\ CodesOf(g) \subseteq tx[w].codes
  BY DEF DelGroup
<1>4. CASE Statement(w, Failed(w))  BY <1>1, <1>2, <1>4, FailedKeeps
<1>5. CASE /\ Statement(w, t)
           /\ Members(g) \X {g} \subseteq tx[w].members
           /\ MsgsOf(g) \subseteq tx[w].msgs
           /\ CodesOf(g) \subseteq tx[w].codes
  <2>1. \A p \in member : p[2] = g => p \in tx[w].members
    <3>1. \A p \in member : p[1] \in Users /\ p = <<p[1], p[2]>>
      BY DEF IInv, TableTypes
    <3>2. \A p \in member : p[2] = g => p \in Members(g) \X {g}
      BY <3>1 DEF Members
    <3>3. QED  BY <3>2, <1>5
  <2>2. \A m \in Msgs : msg[m].life = "live" /\ msg[m].group = g => m \in tx[w].msgs
    BY <1>5 DEF MsgsOf
  <2>3. \A c \in Codes : code[c].life = "live" /\ code[c].group = g => c \in tx[w].codes
    BY <1>5 DEF CodesOf
  <2>7. tx[w] \in Tx  BY DEF IInv, TxTypes
  <2>8. t.dropped = TRUE  BY <2>7 DEF Tx
  <2>9. t \in Tx  BY <2>7 DEF Tx
  <2>10. t.failed = tx[w].failed  BY <2>7 DEF Tx
  <2>4. /\ t.group = g
        /\ t.members = tx[w].members /\ t.msgs = tx[w].msgs /\ t.codes = tx[w].codes
    BY <2>7 DEF Tx
  <2>5. Statement(w, t)  BY <1>5
  <2> HIDE DEF t
  <2>6. QED
    BY <2>1, <2>2, <2>3, <2>4, <2>5, <2>8, <2>9, <2>10, <1>1, <1>2, OpenTx, StatementKeeps
<1>6. QED  BY <1>3, <1>4, <1>5

(* What COMMIT does to the tables, when no statement failed: the transaction *)
(* holds every row of its group, and no other transaction holds one of them. *)
LEMMA CommitTables ==
  ASSUME IInv, NEW w \in Workers, pipe[w] # <<>>, pipe[w][1].kind = "commit", ~tx[w].failed,
         Commit(w)
  PROVE  TableTypes' /\ NoOrphans' /\ OthersKept(w)
<1> DEFINE t == tx[w]
<1>1. pipe[w][1].kind \in Inside  BY DEF Inside, TxKinds
<1>2. /\ t \in Tx /\ t.group \in Groups /\ t.dropped
      /\ \A p \in t.members : p \in member /\ p[2] = t.group
      /\ \A v \in Workers \ {w} :
           /\ tx[v].members \cap t.members = {} /\ tx[v].msgs \cap t.msgs = {}
           /\ tx[v].codes \cap t.codes = {}
  BY <1>1, OpenTx
<1>3. /\ \A p \in member : p[2] = t.group => p \in t.members
      /\ \A m \in Msgs : msg[m].life = "live" /\ msg[m].group = t.group => m \in t.msgs
      /\ \A c \in Codes : code[c].life = "live" /\ code[c].group = t.group => c \in t.codes
  BY <1>2 DEF IInv, Isolated
<1>4. /\ grp' = [grp EXCEPT ![t.group].life = "gone"]
      /\ member' = member \ t.members
      /\ msg' = [m \in Msgs |-> IF m \in t.msgs THEN [msg[m] EXCEPT !.life = "gone"] ELSE msg[m]]
      /\ code' = [c \in Codes |-> IF c \in t.codes THEN [code[c] EXCEPT !.life = "gone"]
                                  ELSE code[c]]
  BY DEF Commit
<1> HIDE DEF t
<1>5. /\ grp' \in [Groups -> [life : Life, owner : Users \cup {None}, public : BOOLEAN]]
      /\ grp'[t.group].life = "gone" /\ grp'[t.group].owner = grp[t.group].owner
      /\ \A g \in Groups : g # t.group => grp'[g] = grp[g]
  <2>1. /\ grp \in [Groups -> [life : Life, owner : Users \cup {None}, public : BOOLEAN]]
        /\ "gone" \in Life
    BY DEF IInv, TableTypes, Life
  <2> HIDE DEF Life
  <2>2. grp' \in [Groups -> [life : Life, owner : Users \cup {None}, public : BOOLEAN]]
    BY <2>1, <1>2, <1>4
  <2>3. grp'[t.group].life = "gone" /\ grp'[t.group].owner = grp[t.group].owner
    BY <2>1, <1>2, <1>4
  <2>4. \A g \in Groups : g # t.group => grp'[g] = grp[g]  BY <2>1, <1>2, <1>4
  <2>5. QED  BY <2>2, <2>3, <2>4
<1>6. /\ msg' \in [Msgs -> [life : Life, user : Users \cup {None}, group : Groups \cup {None}]]
      /\ \A m \in Msgs :
           /\ m \in t.msgs => msg'[m].life = "gone"
           /\ m \notin t.msgs => msg'[m] = msg[m]
           /\ msg'[m].user = msg[m].user /\ msg'[m].group = msg[m].group
  <2>1. \A m \in Msgs : msg[m] \in [life : Life, user : Users \cup {None}, group : Groups \cup {None}]
    BY DEF IInv, TableTypes
  <2>2. "gone" \in Life  BY DEF Life
  <2>3. ASSUME NEW m \in Msgs
        PROVE  /\ msg'[m] \in [life : Life, user : Users \cup {None}, group : Groups \cup {None}]
               /\ m \in t.msgs => msg'[m].life = "gone"
               /\ m \notin t.msgs => msg'[m] = msg[m]
               /\ msg'[m].user = msg[m].user /\ msg'[m].group = msg[m].group
    <3>1. CASE m \in t.msgs
      <4>1. msg'[m] = [msg[m] EXCEPT !.life = "gone"]  BY <3>1, <1>4
      <4>2. QED  BY <4>1, <3>1, <2>1, <2>2
    <3>2. CASE m \notin t.msgs
      <4>1. msg'[m] = msg[m]  BY <3>2, <1>4
      <4>2. QED  BY <4>1, <3>2, <2>1
    <3>3. QED  BY <3>1, <3>2
  <2>4. msg' = [m \in Msgs |-> msg'[m]]  BY <1>4
  <2>5. QED  BY <2>3, <2>4
<1>7. /\ code' \in [Codes -> [life : Life, group : Groups \cup {None}, uses : Nat, max : Int]]
      /\ \A c \in Codes :
           /\ c \in t.codes => code'[c].life = "gone"
           /\ c \notin t.codes => code'[c] = code[c]
           /\ code'[c].group = code[c].group
  <2>1. \A c \in Codes : code[c] \in [life : Life, group : Groups \cup {None}, uses : Nat, max : Int]
    BY DEF IInv, TableTypes
  <2>2. "gone" \in Life  BY DEF Life
  <2>3. ASSUME NEW c \in Codes
        PROVE  /\ code'[c] \in [life : Life, group : Groups \cup {None}, uses : Nat, max : Int]
               /\ c \in t.codes => code'[c].life = "gone"
               /\ c \notin t.codes => code'[c] = code[c]
               /\ code'[c].group = code[c].group
    <3>1. CASE c \in t.codes
      <4>1. code'[c] = [code[c] EXCEPT !.life = "gone"]  BY <3>1, <1>4
      <4>2. QED  BY <4>1, <3>1, <2>1, <2>2
    <3>2. CASE c \notin t.codes
      <4>1. code'[c] = code[c]  BY <3>2, <1>4
      <4>2. QED  BY <4>1, <3>2, <2>1
    <3>3. QED  BY <3>1, <3>2
  <2>4. code' = [c \in Codes |-> code'[c]]  BY <1>4
  <2>5. QED  BY <2>3, <2>4
<1>8. /\ \A m \in Msgs : m \in t.msgs => msg[m].life = "live"
      /\ \A c \in Codes : c \in t.codes => code[c].life = "live"
  BY DEF IInv, RowsHeld, t
<1>9. TableTypes'
  <2>1. \A m \in Msgs : msg'[m].life # "none" => msg'[m].user \in Users /\ msg'[m].group \in Groups
    BY <1>6, <1>8 DEF IInv, TableTypes
  <2>2. \A c \in Codes : code'[c].life # "none" => code'[c].group \in Groups
    BY <1>7, <1>8 DEF IInv, TableTypes
  <2>3. member' \subseteq Users \X Groups  BY <1>4 DEF IInv, TableTypes
  <2>4. QED  BY <2>1, <2>2, <2>3, <1>5, <1>6, <1>7 DEF TableTypes
<1>10. NoOrphans'
  <2>1. \A p \in member' : p \in member /\ p[2] # t.group  BY <1>3, <1>4
  <2>2. \A p \in member' : grp'[p[2]].life = "live"
    <3>1. \A p \in member : p[2] \in Groups /\ grp[p[2]].life = "live"
      BY DEF IInv, TableTypes, NoOrphans, LiveGroup
    <3>2. QED  BY <3>1, <2>1, <1>5
  <2>3. \A m \in Msgs : msg'[m].life = "live" => <<msg'[m].user, msg'[m].group>> \in member'
    <3> SUFFICES ASSUME NEW m \in Msgs, msg'[m].life = "live"
                 PROVE  <<msg'[m].user, msg'[m].group>> \in member'
      OBVIOUS
    <3>1. msg'[m] = msg[m] /\ msg[m].life = "live" /\ msg[m].group # t.group  BY <1>3, <1>6
    <3>2. <<msg[m].user, msg[m].group>> \in member  BY <3>1 DEF IInv, NoOrphans
    <3>3. <<msg[m].user, msg[m].group>> \notin t.members  BY <3>1, <1>2
    <3>4. QED  BY <3>1, <3>2, <3>3, <1>4
  <2>4. \A c \in Codes : code'[c].life = "live" => grp'[code'[c].group].life = "live"
    <3>1. \A c \in Codes : code[c].life = "live" =>
            code[c].group \in Groups /\ grp[code[c].group].life = "live"
      BY DEF IInv, TableTypes, NoOrphans, LiveGroup
    <3>2. QED  BY <3>1, <1>3, <1>5, <1>7
  <2>5. \A g \in Groups : grp'[g].life = "live" => <<grp'[g].owner, g>> \in member'
    <3> SUFFICES ASSUME NEW g \in Groups, grp'[g].life = "live"
                 PROVE  <<grp'[g].owner, g>> \in member'
      OBVIOUS
    <3>1. g # t.group /\ grp'[g] = grp[g]  BY <1>5
    <3>2. <<grp[g].owner, g>> \in member  BY <3>1 DEF IInv, NoOrphans, LiveGroup
    <3>3. <<grp[g].owner, g>> \notin t.members  BY <3>1, <1>2
    <3>4. QED  BY <3>1, <3>2, <3>3, <1>4
  <2>6. QED  BY <2>2, <2>3, <2>4, <2>5 DEF NoOrphans, LiveGroup
<1>11. OthersKept(w)
  <2>1. \A g \in Groups :
          grp[g].life # "none" => grp'[g].life # "none" /\ grp'[g].owner = grp[g].owner
    BY <1>5
  <2>2. ASSUME NEW v \in Workers \ {w}
        PROVE  /\ \A p \in tx[v].members : p \in member'
               /\ \A m \in tx[v].msgs : msg'[m].life = "live" /\ msg'[m].group = tx[v].group
               /\ \A c \in tx[v].codes : code'[c].life = "live" /\ code'[c].group = tx[v].group
    <3>1. tx[v].msgs \subseteq Msgs /\ tx[v].codes \subseteq Codes  BY DEF IInv, TxTypes, Tx
    <3>2. \A p \in tx[v].members : p \in member'  BY <1>2, <1>4 DEF IInv, RowsHeld
    <3>3. \A m \in tx[v].msgs : msg'[m].life = "live" /\ msg'[m].group = tx[v].group
      BY <3>1, <1>2, <1>6 DEF IInv, RowsHeld
    <3>4. \A c \in tx[v].codes : code'[c].life = "live" /\ code'[c].group = tx[v].group
      BY <3>1, <1>2, <1>7 DEF IInv, RowsHeld
    <3>5. QED  BY <3>2, <3>3, <3>4
  <2>3. /\ \A p \in member' : p \in member
        /\ \A m \in Msgs : msg'[m].life = "live" => msg[m] = msg'[m]
        /\ \A c \in Codes : code'[c].life = "live" => code[c] = code'[c]
    BY <1>4, <1>6, <1>7
  <2>4. QED  BY <2>1, <2>2, <2>3 DEF OthersKept
<1>12. QED  BY <1>9, <1>10, <1>11

LEMMA CommitKeeps ==
  ASSUME IInv, NEW w \in Workers, Commit(w)
  PROVE  IInv'
<1>1. pipe[w] # <<>> /\ pipe[w][1].kind = "commit"  BY FirstQuery DEF Commit, First
<1>2. Answered(w, <<>>) /\ tx' = [tx EXCEPT ![w] = NoTx]  BY DEF Commit
<1>3. TableTypes' /\ NoOrphans' /\ OthersKept(w)
  <2>1. CASE tx[w].failed
    <3>1. UNCHANGED tables  BY <2>1 DEF Commit
    <3>2. QED  BY <3>1, SameTables
  <2>2. CASE ~tx[w].failed  BY <2>2, <1>1, CommitTables
  <2>3. QED  BY <2>1, <2>2
<1>4. ViewTypes'
  <2>1. CASE UNCHANGED views  BY <2>1 DEF IInv, ViewTypes, views
  <2>2. CASE /\ UNCHANGED shown
             /\ view' = [u \in Users |-> IF u \in tx[w].ids
                           THEN {m \in view[u] : msg[m].group # tx[w].group} ELSE view[u]]
    BY <2>2 DEF IInv, ViewTypes
  <2>3. QED  BY <2>1, <2>2 DEF Commit
<1>5. <<>> \in Seq(Query) /\ Len(<<>>) = 0  OBVIOUS
<1>6. Shape(<<>>) /\ \A j \in 1 .. Len(<<>>) : QueryOK(<<>>[j])  BY <1>5 DEF Shape
<1>7. /\ PipeTypes' /\ PipeOK'
      /\ \A v \in Workers : v # w => pipe'[v] = pipe[v]
      /\ \A v \in Workers : \A i \in 1 .. Len(pipe'[v]) :
           \/ \E j \in 1 .. Len(pipe[v]) : pipe'[v][i] = pipe[v][j]
           \/ \E j \in 1 .. Len(<<>>) : pipe'[v][i] = <<>>[j]
      /\ InTx(w)' => Follows(pipe[w][1], pipe'[w][1])
  BY <1>1, <1>2, <1>5, <1>6, AnsweredMoves DEF IInv
<1>8. ~InTx(w)'  BY <1>1, <1>7 DEF Follows, Order
<1>9. \A v \in Workers : \A i \in 1 .. Len(pipe'[v]) :
        \E j \in 1 .. Len(pipe[v]) : pipe'[v][i] = pipe[v][j]
  <2>1. \A j \in 1 .. Len(<<>>) : FALSE  BY <1>5
  <2>2. QED  BY <2>1, <1>7
<1>10. SentByOwner'  BY <1>3, <1>9, OwnerKept DEF OthersKept
<1>11. NoTx \in Tx  BY DEF NoTx, Tx
<1>12. TxTypes' /\ tx'[w] = NoTx /\ \A v \in Workers : v # w => tx'[v] = tx[v]
  BY <1>2, <1>11 DEF IInv, TxTypes
<1>13. /\ tx'[w].members = {} /\ tx'[w].msgs = {} /\ tx'[w].codes = {} /\ ~tx'[w].dropped
       /\ ~tx'[w].failed
  BY <1>12 DEF NoTx
<1>14. TxStages'
  <2>1. \A v \in Workers : v # w => InTx(v)' = InTx(v)  BY <1>7 DEF InTx
  <2>2. QED  BY <2>1, <1>7, <1>8, <1>12, <1>13 DEF IInv, TxStages
<1>15. RowsHeld'
  <2>1. ASSUME NEW v \in Workers
        PROVE  /\ \A p \in tx'[v].members : p \in member' /\ p[2] = tx'[v].group
               /\ \A m \in tx'[v].msgs : msg'[m].life = "live" /\ msg'[m].group = tx'[v].group
               /\ \A c \in tx'[v].codes : code'[c].life = "live" /\ code'[c].group = tx'[v].group
    <3>1. CASE v = w  BY <3>1, <1>13
    <3>2. CASE v # w  BY <3>2, <1>3, <1>12 DEF IInv, RowsHeld, OthersKept
    <3>3. QED  BY <3>1, <3>2
  <2>2. ASSUME NEW v \in Workers, NEW x \in Workers, v # x
        PROVE  /\ tx'[v].members \cap tx'[x].members = {}
               /\ tx'[v].msgs \cap tx'[x].msgs = {}
               /\ tx'[v].codes \cap tx'[x].codes = {}
    <3>1. CASE v = w \/ x = w  BY <3>1, <1>13
    <3>2. CASE v # w /\ x # w  BY <3>2, <2>2, <1>12 DEF IInv, RowsHeld
    <3>3. QED  BY <3>1, <3>2
  <2>3. QED  BY <2>1, <2>2 DEF RowsHeld
<1>16. Isolated'
  <2> SUFFICES ASSUME NEW v \in Workers, tx'[v].dropped
               PROVE  /\ \A p \in member' : p[2] = tx'[v].group => p \in tx'[v].members
                      /\ \A m \in Msgs : msg'[m].life = "live" /\ msg'[m].group = tx'[v].group
                           => m \in tx'[v].msgs
                      /\ \A c \in Codes :
                           code'[c].life = "live" /\ code'[c].group = tx'[v].group
                           => c \in tx'[v].codes
    BY DEF Isolated
  <2>1. v \in Workers \ {w} /\ tx'[v] = tx[v]  BY <1>12, <1>13
  <2>2. QED  BY <2>1, <1>3 DEF IInv, Isolated, OthersKept
<1>17. QED
  BY <1>3, <1>4, <1>7, <1>10, <1>12, <1>14, <1>15, <1>16 DEF IInv

-----------------------------------------------------------------------------
(* The invariant                                                             *)

LEMMA InitHolds == Init => IInv
<1> SUFFICES ASSUME Init PROVE IInv  OBVIOUS
<1>1. \A w \in Workers : pipe[w] = <<>> /\ Len(pipe[w]) = 0 /\ tx[w] = NoTx  BY DEF Init
<1>2. PipeTypes  BY DEF Init, PipeTypes
<1>3. PipeOK /\ SentByOwner  BY <1>1 DEF PipeOK, SentByOwner, Shape
<1>4. TableTypes  BY DEF Init, TableTypes, Life
<1>5. ViewTypes  BY DEF Init, ViewTypes
<1>6. NoTx \in Tx  BY DEF NoTx, Tx
<1>7. TxTypes  BY <1>6 DEF Init, TxTypes
<1>8. \A w \in Workers :
        /\ tx[w].members = {} /\ tx[w].msgs = {} /\ tx[w].codes = {} /\ ~tx[w].dropped
        /\ ~tx[w].failed
  BY <1>1 DEF NoTx
<1>9. TxStages  BY <1>1, <1>8 DEF TxStages, InTx
<1>10. RowsHeld /\ Isolated  BY <1>8 DEF RowsHeld, Isolated
<1>11. NoOrphans  BY DEF Init, NoOrphans, LiveGroup
<1>12. QED
  BY <1>2, <1>3, <1>4, <1>5, <1>7, <1>9, <1>10, <1>11 DEF IInv

LEMMA StutterKeeps == ASSUME IInv, UNCHANGED vars PROVE IInv'
<1> UNCHANGED <<grp, member, msg, code, pipe, tx, shown, view>>  BY DEF vars
<1>1. PipeTypes' /\ PipeOK' /\ SentByOwner'
  BY DEF IInv, PipeTypes, PipeOK, SentByOwner, Shape, QueryOK, Follows
<1>2. TableTypes' /\ ViewTypes' /\ TxTypes'
  BY DEF IInv, TableTypes, ViewTypes, TxTypes
<1>3. TxStages'  BY DEF IInv, TxStages, InTx
<1>4. RowsHeld' /\ Isolated'  BY DEF IInv, RowsHeld, Isolated
<1>5. NoOrphans'  BY DEF IInv, NoOrphans, LiveGroup
<1>6. QED  BY <1>1, <1>2, <1>3, <1>4, <1>5 DEF IInv

LEMMA NextKeeps == IInv /\ [Next]_vars => IInv'
<1> SUFFICES ASSUME IInv, [Next]_vars PROVE IInv'  OBVIOUS
<1>1. ASSUME NEW w \in Workers, Execute(w) PROVE IInv'
  BY <1>1, CreateGroupKeeps, SendGroupsKeeps, SendMsgsKeeps, BroadcastKeeps, JoinPublicKeeps,
     JoinCodeReadsKeeps, JoinCodeUpdatesKeeps, InsertMsgKeeps, DeleteMsgKeeps, CreateCodeKeeps,
     DeleteCodeKeeps, CheckOwnerKeeps, BeginKeeps, SkippedKeeps, SelectMemberIdsKeeps,
     DelMsgsKeeps, DelMembersKeeps, DelCodesKeeps, DelGroupKeeps, DeadlockFailsMsgKeeps,
     CommitKeeps
  DEF Execute
<1>2. QED  BY <1>1, RequestKeeps, StutterKeeps DEF Next

LEMMA InvariantHolds == Spec => []IInv
  BY InitHolds, NextKeeps, PTL DEF Spec

-----------------------------------------------------------------------------
(* Who deletes                                                               *)

LEMMA LeastNatural ==
  ASSUME NEW T \in SUBSET Nat, T # {}
  PROVE  \E x \in T : \A y \in T : x <= y
<1> DEFINE R == OpToRel(<, Nat)
<1>1. IsWellFoundedOn(R, Nat)  BY NatLessThanWellFounded
<1>2. \A x, y \in Nat : y < x => <<y, x>> \in R  BY DEF OpToRel
<1> HIDE DEF R
<1>3. PICK x \in T : \A y \in T : ~ (<<y, x>> \in R)  BY <1>1, WFMin
<1>4. \A y \in T : ~ (y < x)  BY <1>2, <1>3, Zenon
<1>5. QED  BY <1>4

(* A sequence that is the same one place on is the same everywhere.          *)
LEMMA SameThroughout ==
  ASSUME NEW p, NEW b, NEW n \in Nat, n >= 1, \A i \in 1 .. n - 1 : p[i] = p[i + 1], p[n] = b
  PROVE  p[1] = b
<1> SUFFICES ASSUME p[1] # b PROVE FALSE  OBVIOUS
<1> DEFINE T == {i \in Nat : i >= 1 /\ i <= n /\ p[i] = b}
<1>1. T \in SUBSET Nat /\ n \in T  OBVIOUS
<1>2. PICK x \in T : \A y \in T : x <= y  BY <1>1, LeastNatural
<1>3. x \in Nat /\ x >= 1 /\ x <= n /\ p[x] = b /\ x # 1  BY <1>2
<1>4. x - 1 \in 1 .. n - 1 /\ x - 1 \in Nat /\ (x - 1) + 1 = x  BY <1>3
<1>5. p[x - 1] = b  BY <1>3, <1>4
<1>6. x - 1 \in T  BY <1>3, <1>4, <1>5
<1>7. QED  BY <1>2, <1>3, <1>6

(* A queue whose first query is answered by another one is not the same      *)
(* queue.                                                                    *)
LEMMA QueueMoves ==
  ASSUME NEW S, NEW p \in Seq(S), p # <<>>, NEW b \in S, p[1] # b
  PROVE  Tail(p) \o <<b>> # p
<1>1. <<b>> \in Seq(S) /\ Len(<<b>>) = 1 /\ <<b>>[1] = b  OBVIOUS
<1>2. PICK n \in Nat : n = Len(p)  OBVIOUS
<1>3. PICK r : r = Tail(p) \o <<b>>  OBVIOUS
<1>4. n >= 1 /\ (\A i \in 1 .. n - 1 : r[i] = p[i + 1]) /\ r[n] = b
  <2>1. /\ Len(p) >= 1
        /\ \A i \in 1 .. Len(p) - 1 : (Tail(p) \o <<b>>)[i] = p[i + 1]
        /\ \A i \in 1 .. Len(<<b>>) : (Tail(p) \o <<b>>)[Len(p) - 1 + i] = <<b>>[i]
    BY <1>1, AnsweredSeq
  <2>2. 1 \in 1 .. Len(<<b>>) /\ Len(p) - 1 + 1 = Len(p)  BY <1>1
  <2>3. (Tail(p) \o <<b>>)[Len(p)] = b  BY <2>1, <2>2, <1>1
  <2>4. QED  BY <2>1, <2>3, <1>2, <1>3
<1>5. r = p => p[1] = b
  <2> SUFFICES ASSUME r = p PROVE p[1] = b  OBVIOUS
  <2>1. (\A i \in 1 .. n - 1 : p[i] = p[i + 1]) /\ p[n] = b  BY <1>4
  <2>2. QED  BY <2>1, <1>4, SameThroughout
<1>6. QED  BY <1>3, <1>5

(* The two deletions: a committed transaction takes its group and messages   *)
(* of that group on behalf of the owner it was sent for, delete_msg the      *)
(* message of its author or of the owner.                                    *)
LEMMA CommitRight ==
  ASSUME IInv, NEW w \in Workers, Commit(w)
  PROVE  /\ \A g \in Groups : (LiveGroup(g) /\ grp'[g].life = "gone") =>
              pipe'[w] # pipe[w] /\ Head(pipe[w]).user = grp[g].owner
         /\ \A m \in Msgs : (msg[m].life = "live" /\ msg'[m].life = "gone") =>
              pipe'[w] # pipe[w] /\ Head(pipe[w]).user = grp[msg[m].group].owner
<1>1. pipe[w] # <<>> /\ pipe[w][1].kind = "commit" /\ Head(pipe[w]) = pipe[w][1]
  BY FirstQuery DEF Commit, First
<1>2. InTx(w)  BY <1>1 DEF InTx, Inside, TxKinds
<1>3. tx[w].group \in Groups /\ Head(pipe[w]).user = grp[tx[w].group].owner
  BY <1>1, <1>2, TxGroup
<1>4. pipe'[w] # pipe[w]
  <2>1. <<>> \in Seq(Query) /\ Len(<<>>) = 0 /\ pipe \in [Workers -> Seq(Query)]
    BY DEF IInv, PipeTypes
  <2>2. pipe'[w] = Tail(pipe[w]) \o <<>>  BY <2>1 DEF Commit, Answered
  <2>3. Len(Tail(pipe[w]) \o <<>>) = Len(pipe[w]) - 1 + Len(<<>>) /\ Len(pipe[w]) \in Nat
    BY <2>1, <1>1, AnsweredSeq
  <2>4. Len(pipe'[w]) = Len(pipe[w]) - 1  BY <2>1, <2>2, <2>3
  <2>5. QED  BY <2>3, <2>4
<1>5. CASE tx[w].failed
  <2>1. UNCHANGED <<grp, msg>>  BY <1>5 DEF Commit, tables
  <2>2. QED  BY <2>1 DEF LiveGroup
<1>6. CASE ~tx[w].failed
  <2>1. /\ grp' = [grp EXCEPT ![tx[w].group].life = "gone"]
        /\ msg' = [m \in Msgs |-> IF m \in tx[w].msgs THEN [msg[m] EXCEPT !.life = "gone"]
                                  ELSE msg[m]]
    BY <1>6 DEF Commit
  <2>2. \A g \in Groups : g # tx[w].group => grp'[g] = grp[g]
    BY <2>1, <1>3 DEF IInv, TableTypes
  <2>3. \A m \in Msgs : m \notin tx[w].msgs => msg'[m] = msg[m]  BY <2>1
  <2>4. \A m \in tx[w].msgs : msg[m].group = tx[w].group  BY DEF IInv, RowsHeld
  <2>5. QED  BY <2>2, <2>3, <2>4, <1>3, <1>4 DEF LiveGroup
<1>7. QED  BY <1>5, <1>6

LEMMA DeleteMsgRight ==
  ASSUME IInv, NEW w \in Workers, DeleteMsg(w)
  PROVE  /\ \A g \in Groups : ~ (LiveGroup(g) /\ grp'[g].life = "gone")
         /\ \A m \in Msgs : (msg[m].life = "live" /\ msg'[m].life = "gone") =>
              /\ pipe'[w] # pipe[w]
              /\ Head(pipe[w]).user \in {msg[m].user, grp[msg[m].group].owner}
<1>1. UNCHANGED grp  BY DEF DeleteMsg, NoEffect, tables
<1>2. pipe[w] # <<>> /\ pipe[w][1].kind = "delete_msg" /\ Head(pipe[w]) = pipe[w][1]
  BY FirstQuery DEF DeleteMsg, First
<1>3. PICK d : d = pipe[w][1].arg  OBVIOUS
<1>4. d \in Msgs  BY <1>2, <1>3, FirstQuery DEF QueryOK
<1>5. \/ UNCHANGED msg
      \/ /\ msg[d].user = pipe[w][1].user \/ grp[msg[d].group].owner = pipe[w][1].user
         /\ msg[d].life = "live"
         /\ msg' = [msg EXCEPT ![d].life = "gone"]
         /\ Answered(w, server_group_broadcast(msg[d].group, "delete_msg", d))
  BY <1>2, <1>3 DEF DeleteMsg, NoEffect, tables
<1>6. CASE UNCHANGED msg  BY <1>1, <1>6 DEF LiveGroup
<1>7. CASE /\ msg[d].user = pipe[w][1].user \/ grp[msg[d].group].owner = pipe[w][1].user
           /\ msg[d].life = "live"
           /\ msg' = [msg EXCEPT ![d].life = "gone"]
           /\ Answered(w, server_group_broadcast(msg[d].group, "delete_msg", d))
  <2>1. \A m \in Msgs : m # d => msg'[m] = msg[m]  BY <1>4, <1>7 DEF IInv, TableTypes
  <2>2. PICK b : b = Q("broadcast", None, msg[d].group, [what |-> "delete_msg", msg |-> d])
    OBVIOUS
  <2>3. b \in Query /\ b.kind = "broadcast"
    <3>1. msg[d].group \in Groups \cup {None}  BY <1>4 DEF IInv, TableTypes
    <3>2. [what |-> "delete_msg", msg |-> d] \in News  BY <1>4 DEF News
    <3>3. QED  BY <2>2, <3>1, <3>2 DEF Q, Query, Kinds
  <2>4. pipe \in [Workers -> Seq(Query)]  BY DEF IInv, PipeTypes
  <2>5. pipe'[w] = Tail(pipe[w]) \o <<b>>
    BY <2>2, <2>4, <1>7 DEF Answered, server_group_broadcast
  <2>6. pipe'[w] # pipe[w]
    <3>1. pipe[w][1] # b /\ pipe[w] \in Seq(Query)  BY <1>2, <2>3, <2>4
    <3>2. QED  BY <3>1, <2>3, <2>5, <1>2, QueueMoves
  <2>7. QED  BY <2>1, <2>6, <1>1, <1>2, <1>7 DEF LiveGroup
<1>8. QED  BY <1>5, <1>6, <1>7

LEMMA NothingGone ==
  ASSUME IInv, NEW w \in Workers,
         Request(w) \/ (Execute(w) /\ ~Commit(w) /\ ~DeleteMsg(w))
  PROVE  /\ \A g \in Groups : ~ (LiveGroup(g) /\ grp'[g].life = "gone")
         /\ \A m \in Msgs : ~ (msg[m].life = "live" /\ msg'[m].life = "gone")
<1>1. ASSUME UNCHANGED grp
      PROVE  \A g \in Groups : ~ (LiveGroup(g) /\ grp'[g].life = "gone")
  BY <1>1 DEF LiveGroup
<1>2. ASSUME UNCHANGED msg
      PROVE  \A m \in Msgs : ~ (msg[m].life = "live" /\ msg'[m].life = "gone")
  BY <1>2
<1>3. CASE CreateGroup(w)
  <2>1. UNCHANGED msg  BY <1>3 DEF CreateGroup, NoEffect, tables
  <2>2. PICK q : q = Head(pipe[w])  OBVIOUS
  <2>3. \/ UNCHANGED grp
        \/ \E g \in Unused(grp) :
             grp' = [grp EXCEPT ![g] = [life |-> "live", owner |-> q.user, public |-> q.arg]]
    BY <1>3, <2>2 DEF CreateGroup, NoEffect, tables
  <2>4. \A g \in Groups : ~ (LiveGroup(g) /\ grp'[g].life = "gone")
    BY <2>3 DEF LiveGroup, Unused, IInv, TableTypes
  <2>5. QED  BY <2>1, <2>4, <1>2
<1>4. CASE InsertMsg(w)
  <2>1. UNCHANGED grp  BY <1>4 DEF InsertMsg, NoEffect, tables
  <2>2. PICK q : q = Head(pipe[w])  OBVIOUS
  <2>3. \/ UNCHANGED msg
        \/ \E m \in Unused(msg) :
             msg' = [msg EXCEPT ![m] = [life |-> "live", user |-> q.user, group |-> q.group]]
    BY <1>4, <2>2 DEF InsertMsg, NoEffect, tables
  <2>4. \A m \in Msgs : ~ (msg[m].life = "live" /\ msg'[m].life = "gone")
    BY <2>3 DEF Unused, IInv, TableTypes
  <2>5. QED  BY <2>1, <2>4, <1>1
<1>5. CASE UNCHANGED <<grp, msg>>  BY <1>1, <1>2, <1>5
<1>6. CASE Request(w)
  <2>1. UNCHANGED <<grp, msg>>
    BY <1>6 DEF Request, Send, tables, server_create_group, server_client_groups,
       server_get_all_groups, server_delete_group_msg, server_join_group_code,
       server_delete_group_code, server_join_group, server_group_msg, server_get_group_msgs,
       server_create_group_code, server_delete_group
  <2>2. QED  BY <2>1, <1>5
<1>7. CASE SendGroups(w) \/ SendMsgs(w) \/ Broadcast(w) \/ JoinPublic(w) \/ JoinCodeReads(w)
           \/ JoinCodeUpdates(w) \/ CreateCode(w) \/ DeleteCode(w) \/ CheckOwner(w)
           \/ DeadlockFailsMsg(w)
  <2>1. UNCHANGED <<grp, msg>>
    BY <1>7 DEF SendGroups, SendMsgs, Broadcast, JoinPublic, JoinCodeReads, JoinCodeUpdates,
       CreateCode, DeleteCode, CheckOwner, DeadlockFailsMsg, NoEffect, tables
  <2>2. QED  BY <2>1, <1>5
<1>8. CASE Begin(w) \/ Skipped(w) \/ SelectMemberIds(w) \/ DelMsgs(w) \/ DelMembers(w)
           \/ DelCodes(w) \/ DelGroup(w)
  <2>1. UNCHANGED <<grp, msg>>
    BY <1>8 DEF Begin, Skipped, SelectMemberIds, DelMsgs, DelMembers, DelCodes, DelGroup,
       Statement, tables
  <2>2. QED  BY <2>1, <1>5
<1>9. QED  BY <1>3, <1>4, <1>6, <1>7, <1>8 DEF Execute

-----------------------------------------------------------------------------
(* The tables, the queues and what the clients were sent are well typed, and *)
(* a transaction only holds members that are there.                          *)
THEOREM TypeCorrect == Spec => []TypeOK
<1>1. IInv => TypeOK
  <2> SUFFICES ASSUME IInv PROVE TypeOK  OBVIOUS
  <2>1. ASSUME NEW w \in Workers, NEW i \in DOMAIN pipe[w]
        PROVE  pipe[w][i].user \in Users \cup {None} /\ pipe[w][i].group \in Groups \cup {None}
    <3>1. pipe[w] \in Seq(Query)  BY DEF IInv, PipeTypes
    <3>2. pipe[w][i] \in Query  BY <3>1
    <3>3. QED  BY <3>2 DEF Query
  <2>2. \A w \in Workers : tx[w].ids \subseteq Users /\ tx[w].members \subseteq member
    BY DEF IInv, TxTypes, Tx, RowsHeld
  <2>3. \A u \in Users : shown[u] \subseteq Groups /\ view[u] \subseteq Msgs
    BY DEF IInv, ViewTypes
  <2>4. QED  BY <2>1, <2>2, <2>3 DEF TypeOK, IInv, TableTypes
<1>2. QED  BY <1>1, InvariantHolds, PTL

(* However the deletion of a group interleaves with joins, messages and      *)
(* codes of other workers, no row is left without the row it refers to.      *)
THEOREM NoOrphansHolds == Spec => []NoOrphans
<1>1. IInv => NoOrphans  BY DEF IInv
<1>2. QED  BY <1>1, InvariantHolds, PTL

(* From the deletion of the group's row to COMMIT nobody adds a row to it.   *)
THEOREM DeletionIsolatedHolds == Spec => []DeletionIsolated
<1>1. IInv => DeletionIsolated
  <2> SUFFICES ASSUME IInv, NEW w \in Workers, tx[w].dropped
               PROVE  /\ Members(tx[w].group) \X {tx[w].group} \subseteq tx[w].members
                      /\ MsgsOf(tx[w].group) \subseteq tx[w].msgs
                      /\ CodesOf(tx[w].group) \subseteq tx[w].codes
    BY DEF DeletionIsolated
  <2>1. \A p \in Members(tx[w].group) \X {tx[w].group} : p \in member /\ p[2] = tx[w].group
    BY DEF Members
  <2>2. QED  BY <2>1 DEF IInv, Isolated, MsgsOf, CodesOf
<1>2. QED  BY <1>1, InvariantHolds, PTL

(* The owner is looked up before the transaction is queued; by the time it   *)
(* commits the group still has that owner, and the messages it deletes are   *)
(* of that group.  Otherwise only delete_msg deletes a message.              *)
THEOREM DeletedByRightHolds == Spec => DeletedByRight
<1> DEFINE Right ==
      /\ \A g \in Groups : (LiveGroup(g) /\ grp'[g].life = "gone") =>
           \E w \in Workers : pipe'[w] # pipe[w] /\ Head(pipe[w]).user = grp[g].owner
      /\ \A m \in Msgs : (msg[m].life = "live" /\ msg'[m].life = "gone") =>
           \E w \in Workers : pipe'[w] # pipe[w] /\
             Head(pipe[w]).user \in {msg[m].user, grp[msg[m].group].owner}
<1>1. IInv /\ [Next]_vars => [Right]_vars
  <2> SUFFICES ASSUME IInv, Next PROVE Right  OBVIOUS
  <2>1. PICK w \in Workers : Request(w) \/ Execute(w)  BY DEF Next
  <2>2. CASE Commit(w)  BY <2>2, CommitRight
  <2>3. CASE DeleteMsg(w)  BY <2>3, DeleteMsgRight
  <2>4. CASE Request(w) \/ (Execute(w) /\ ~Commit(w) /\ ~DeleteMsg(w))
    BY <2>4, NothingGone
  <2>5. QED  BY <2>1, <2>2, <2>3, <2>4
<1>2. Spec => [][Right]_vars  BY <1>1, InvariantHolds, PTL DEF Spec
<1>3. QED  BY <1>2 DEF DeletedByRight

-----------------------------------------------------------------------------
(* One worker                                                               *)

OneWorker == \E w \in Workers : \A v \in Workers : v = w

Memberships == [user : Users, group : Groups, code : Codes, counted : BOOLEAN]

HistTypes ==
  /\ audience \in [Msgs -> SUBSET Users]
  /\ byCode \subseteq Memberships /\ IsFiniteSet(byCode)

(* From the second statement on a transaction knows all members of its      *)
(* group: nothing of the same worker comes between its statements.          *)
IdsSelected ==
  \A w \in Workers : (InTx(w) /\ ~tx[w].failed) =>
    /\ pipe[w][1].kind = "member_ids" => tx[w].members = {}
    /\ pipe[w][1].kind # "member_ids" =>
         \A p \in member : p[2] = tx[w].group => p[1] \in tx[w].ids

(* A code that was read is still there when its use is counted.             *)
CodeRead ==
  \A w \in Workers : \A i \in 1 .. Len(pipe[w]) :
    pipe[w][i].kind = "join_code_update" => i = 1 /\ code[pipe[w][i].arg].life = "live"

Uses(c) == {b \in byCode : b.code = c}

(* Memberships are counted, and a code that is there has a use left.        *)
UsesCounted ==
  \A c \in Codes :
    /\ Cardinality(Uses(c)) <= code[c].uses
    /\ code[c].life = "none" => code[c].uses = 0
    /\ code[c].life = "live" /\ code[c].max > 0 => code[c].uses < code[c].max
    /\ code[c].life = "gone" /\ code[c].max > 0 => code[c].uses <= code[c].max

IsNews(q, what, m) == q.kind = "broadcast" /\ q.arg = [what |-> what, msg |-> m]

(* A broadcast about a message goes to the group of the message.            *)
NewsMatch ==
  \A w \in Workers : \A i \in 1 .. Len(pipe[w]) : \A m \in Msgs :
    IsNews(pipe[w][i], "msg", m) \/ IsNews(pipe[w][i], "delete_msg", m) =>
      msg[m].life # "none" /\ pipe[w][i].group = msg[m].group

(* A group that messages belong to was created, and whoever was a member    *)
(* when a message was written is one as long as the group is there.         *)
AudienceStays ==
  \A m \in Msgs : msg[m].life # "none" =>
    /\ grp[msg[m].group].life # "none"
    /\ LiveGroup(msg[m].group) => \A u \in audience[m] : <<u, msg[m].group>> \in member

Pending(p, m) == \E i \in 1 .. Len(p) : IsNews(p[i], "delete_msg", m)

Followed(p, m) ==
  \A i \in 1 .. Len(p) : IsNews(p[i], "msg", m) =>
    \E j \in i + 1 .. Len(p) : IsNews(p[j], "delete_msg", m)

(* A deleted message that is still shown belongs to a group that is there,  *)
(* and the broadcast that removes it is queued.                             *)
SeenIsPending ==
  \A w \in Workers : \A m \in Msgs : \A u \in audience[m] :
    (msg[m].life = "gone" /\ m \in view[u]) => LiveGroup(msg[m].group) /\ Pending(pipe[w], m)

(* The broadcast of a message that has been deleted since is followed by    *)
(* the broadcast that removes it.                                           *)
NewsFollowed ==
  \A w \in Workers : \A m \in Msgs :
    (msg[m].life = "gone" /\ LiveGroup(msg[m].group)) => Followed(pipe[w], m)

ViewInv == NewsMatch /\ AudienceStays /\ SeenIsPending /\ NewsFollowed

Rest == HistTypes /\ IdsSelected /\ CodeRead /\ UsesCounted /\ ViewInv

OInv == IInv /\ Rest


-----------------------------------------------------------------------------
(* Broadcasts in the pipeline                                                *)

(* The first d queries leave p and more come behind; a query may change as   *)
(* long as it is no broadcast.                                               *)
Moves(p, r, d, more) ==
  /\ d \in {0, 1} /\ d <= Len(p)
  /\ Len(r) = Len(p) - d + Len(more)
  /\ \A i \in 1 .. Len(p) - d :
       r[i] = p[i + d] \/ (r[i].kind # "broadcast" /\ p[i + d].kind # "broadcast")
  /\ \A i \in 1 .. Len(more) : r[Len(p) - d + i] = more[i]

(* Queries that are not about a message.                                     *)
NoNews(s) ==
  \A j \in 1 .. Len(s) : \A m \in Msgs :
    ~IsNews(s[j], "msg", m) /\ ~IsNews(s[j], "delete_msg", m)

LEMMA NewsKinds ==
  ASSUME NEW q, NEW m \in Msgs, NEW n \in Msgs
  PROVE  /\ IsNews(q, "msg", m) => ~IsNews(q, "delete_msg", n)
         /\ IsNews(q, "msg", m) /\ IsNews(q, "msg", n) => m = n
         /\ IsNews(q, "delete_msg", m) /\ IsNews(q, "delete_msg", n) => m = n
<1>1. \A a, b \in {"msg", "delete_msg"} :
        [what |-> a, msg |-> m] = [what |-> b, msg |-> n] => a = b /\ m = n
  <2> SUFFICES ASSUME NEW a \in {"msg", "delete_msg"}, NEW b \in {"msg", "delete_msg"},
                      [what |-> a, msg |-> m] = [what |-> b, msg |-> n]
               PROVE  a = b /\ m = n
    OBVIOUS
  <2>1. /\ [what |-> a, msg |-> m].what = [what |-> b, msg |-> n].what
        /\ [what |-> a, msg |-> m].msg = [what |-> b, msg |-> n].msg
    OBVIOUS
  <2>2. QED  BY <2>1
<1>2. QED  BY <1>1 DEF IsNews

(* Where a broadcast of the new pipeline comes from.                         *)
LEMMA NewsFrom ==
  ASSUME NEW p \in Seq(Query), NEW r \in Seq(Query), NEW more \in Seq(Query), NEW d,
         Moves(p, r, d, more), NEW i \in 1 .. Len(r), r[i].kind = "broadcast"
  PROVE  \/ i + d \in 1 .. Len(p) /\ i \in 1 .. Len(p) - d /\ r[i] = p[i + d]
         \/ \E j \in 1 .. Len(more) : r[i] = more[j] /\ i = Len(p) - d + j
<1>1. PICK n \in Nat, k \in Nat : Len(p) = n /\ Len(more) = k  OBVIOUS
<1>2. /\ d \in {0, 1} /\ d <= n /\ Len(r) = n - d + k
      /\ \A x \in 1 .. n - d :
           r[x] = p[x + d] \/ (r[x].kind # "broadcast" /\ p[x + d].kind # "broadcast")
      /\ \A x \in 1 .. k : r[n - d + x] = more[x]
  BY <1>1 DEF Moves
<1>3. i \in 1 .. n - d + k  BY <1>2
<1>4. CASE i <= n - d
  <2>1. i \in 1 .. n - d /\ i + d \in 1 .. n  BY <1>2, <1>3, <1>4
  <2>2. QED  BY <2>1, <1>1, <1>2
<1>5. CASE i > n - d
  <2> DEFINE j == i - (n - d)
  <2>1. j \in 1 .. k /\ i = n - d + j  BY <1>2, <1>3, <1>5
  <2>2. QED  BY <2>1, <1>1, <1>2
<1>6. QED  BY <1>2, <1>3, <1>4, <1>5

(* Where a broadcast of the old pipeline goes to.                            *)
LEMMA NewsTo ==
  ASSUME NEW p \in Seq(Query), NEW r \in Seq(Query), NEW more \in Seq(Query), NEW d,
         Moves(p, r, d, more), NEW i \in 1 .. Len(p), p[i].kind = "broadcast", i > d
  PROVE  i - d \in 1 .. Len(r) /\ r[i - d] = p[i]
<1>1. PICK n \in Nat, k \in Nat : Len(p) = n /\ Len(more) = k  OBVIOUS
<1>2. /\ d \in {0, 1} /\ d <= n /\ Len(r) = n - d + k
      /\ \A x \in 1 .. n - d :
           r[x] = p[x + d] \/ (r[x].kind # "broadcast" /\ p[x + d].kind # "broadcast")
  BY <1>1 DEF Moves
<1>3. i - d \in 1 .. n - d /\ i - d + d = i /\ i - d \in 1 .. n - d + k  BY <1>1, <1>2
<1>4. r[i - d] = p[i - d + d] \/ (r[i - d].kind # "broadcast" /\ p[i - d + d].kind # "broadcast")
  BY <1>2, <1>3
<1>5. QED  BY <1>2, <1>3, <1>4

LEMMA PendingStays ==
  ASSUME NEW p \in Seq(Query), NEW r \in Seq(Query), NEW more \in Seq(Query), NEW d,
         Moves(p, r, d, more), NEW m, Pending(p, m),
         d = 0 \/ ~IsNews(p[1], "delete_msg", m)
  PROVE  Pending(r, m)
<1>1. PICK i \in 1 .. Len(p) : IsNews(p[i], "delete_msg", m)  BY DEF Pending
<1>2. d \in {0, 1}  BY DEF Moves
<1>3. i > d  BY <1>1, <1>2
<1>4. i - d \in 1 .. Len(r) /\ r[i - d] = p[i]  BY <1>1, <1>3, NewsTo DEF IsNews
<1>5. QED  BY <1>1, <1>4 DEF Pending

LEMMA FollowedStays ==
  ASSUME NEW p \in Seq(Query), NEW r \in Seq(Query), NEW more \in Seq(Query), NEW d,
         Moves(p, r, d, more), NEW m, Followed(p, m),
         \A j \in 1 .. Len(more) : ~IsNews(more[j], "msg", m)
  PROVE  Followed(r, m)
<1> SUFFICES ASSUME NEW i \in 1 .. Len(r), IsNews(r[i], "msg", m)
             PROVE  \E j \in i + 1 .. Len(r) : IsNews(r[j], "delete_msg", m)
  BY DEF Followed
<1>1. i + d \in 1 .. Len(p) /\ r[i] = p[i + d]  BY NewsFrom DEF IsNews
<1>3. d \in {0, 1}  BY DEF Moves
<1>4. PICK n \in Nat : Len(p) = n  OBVIOUS
<1>9. \E j \in i + d + 1 .. Len(p) : IsNews(p[j], "delete_msg", m)  BY <1>1 DEF Followed
<1>2. PICK j \in 1 .. Len(p) : IsNews(p[j], "delete_msg", m) /\ j >= i + d + 1
  BY <1>3, <1>4, <1>9
<1>5. j > d /\ j - d >= i + 1 /\ j \in Int  BY <1>2, <1>3, <1>4
<1>6. j - d \in 1 .. Len(r) /\ r[j - d] = p[j]  BY <1>2, <1>5, NewsTo DEF IsNews
<1>7. j - d \in i + 1 .. Len(r)  BY <1>3, <1>5, <1>6
<1>8. QED  BY <1>2, <1>6, <1>7

(* The broadcast of a message leaves the pipeline before the one that        *)
(* removes it.                                                               *)
LEMMA FollowedIsPending ==
  ASSUME NEW p \in Seq(Query), NEW r \in Seq(Query), NEW more \in Seq(Query),
         Moves(p, r, 1, more), NEW m, Followed(p, m), IsNews(p[1], "msg", m)
  PROVE  Pending(r, m)
<1>1. 1 \in 1 .. Len(p)  BY DEF Moves
<1>2. \E j \in 1 + 1 .. Len(p) : IsNews(p[j], "delete_msg", m)  BY <1>1 DEF Followed
<1>3. PICK j \in 1 .. Len(p) : IsNews(p[j], "delete_msg", m) /\ j > 1  BY <1>2
<1>4. j - 1 \in 1 .. Len(r) /\ r[j - 1] = p[j]  BY <1>3, NewsTo DEF IsNews
<1>5. QED  BY <1>3, <1>4 DEF Pending

(* A broadcast of a deletion goes to the end, behind everything else.        *)
LEMMA LastIsPending ==
  ASSUME NEW p \in Seq(Query), NEW r \in Seq(Query), NEW more \in Seq(Query), NEW d,
         Moves(p, r, d, more), Len(more) = 1, NEW m \in Msgs, IsNews(more[1], "delete_msg", m)
  PROVE  Pending(r, m) /\ Followed(r, m)
<1>1. PICK n \in Nat : Len(p) = n  OBVIOUS
<1>2. d \in {0, 1} /\ d <= n /\ Len(r) = n - d + 1 /\ r[n - d + 1] = more[1]
  <2>1. 1 \in 1 .. Len(more)  OBVIOUS
  <2>2. QED  BY <2>1, <1>1 DEF Moves
<1>3. PICK l \in Nat : l >= 1 /\ Len(r) = l /\ r[l] = more[1]  BY <1>2
<1>4. Pending(r, m)  BY <1>3 DEF Pending
<1>5. ASSUME NEW i \in 1 .. Len(r), IsNews(r[i], "msg", m)
      PROVE  \E j \in i + 1 .. Len(r) : IsNews(r[j], "delete_msg", m)
  <2>1. i # l  BY <1>3, <1>5, NewsKinds
  <2>2. l \in i + 1 .. Len(r)  BY <2>1, <1>3
  <2>3. QED  BY <2>2, <1>3
<1>6. QED  BY <1>4, <1>5 DEF Followed

LEMMA AnsweredMove ==
  ASSUME PipeTypes, NEW w \in Workers, pipe[w] # <<>>, NEW more \in Seq(Query),
         Answered(w, more)
  PROVE  /\ pipe[w] \in Seq(Query) /\ pipe'[w] \in Seq(Query)
         /\ Moves(pipe[w], pipe'[w], 1, more)
<1>1. pipe \in [Workers -> Seq(Query)] /\ pipe[w] \in Seq(Query)  BY DEF PipeTypes
<1>2. pipe'[w] = Tail(pipe[w]) \o more  BY <1>1 DEF Answered
<1>3. QED  BY <1>1, <1>2, AnsweredSeq DEF Moves

-----------------------------------------------------------------------------
(* Steps that leave messages as they are                                     *)

(* What pages show changes only by messages that are there; groups that were *)
(* created live on and members stay.                                         *)
Quiet ==
  /\ UNCHANGED <<msg, audience>>
  /\ \A u \in Users : \A m \in view'[u] : m \in view[u] \/ msg[m].life = "live"
  /\ \A g \in Groups : grp[g].life # "none" => grp'[g].life = grp[g].life
  /\ member \subseteq member'

(* The broadcasts after a step, for the one worker.                          *)
LEMMA FollowedAfter ==
  ASSUME OneWorker, NEW w \in Workers,
         \A m \in Msgs : (msg'[m].life = "gone" /\ grp'[msg'[m].group].life = "live") =>
           Followed(pipe'[w], m)
  PROVE  NewsFollowed'
BY DEF OneWorker, NewsFollowed, Followed, IsNews, LiveGroup

LEMMA QuietKeeps ==
  ASSUME OInv, OneWorker, NEW w \in Workers, NEW d, NEW more \in Seq(Query),
         pipe'[w] \in Seq(Query), Moves(pipe[w], pipe'[w], d, more), NoNews(more),
         d = 0 \/ pipe[w][1].kind # "broadcast", Quiet
  PROVE  ViewInv'
<1>1. pipe[w] \in Seq(Query)  BY DEF OInv, IInv, PipeTypes
<1>2. \A v \in Workers : v = w  BY DEF OneWorker
<1>3. /\ UNCHANGED <<msg, audience>> /\ audience \in [Msgs -> SUBSET Users]
      /\ \A m \in Msgs : msg[m].life # "none" => msg[m].group \in Groups
  BY DEF OInv, Rest, HistTypes, IInv, TableTypes, Quiet
<1>4. \A m \in Msgs : msg[m].life # "none" =>
        (LiveGroup(msg[m].group)' <=> LiveGroup(msg[m].group)) /\ grp'[msg[m].group].life # "none"
  <2>1. \A m \in Msgs : msg[m].life # "none" => grp[msg[m].group].life # "none"
    BY DEF OInv, Rest, ViewInv, AudienceStays
  <2>2. QED  BY <2>1, <1>3 DEF Quiet, LiveGroup
<1>5. NewsMatch'
  <2> SUFFICES ASSUME NEW i \in 1 .. Len(pipe'[w]), NEW m \in Msgs,
                      IsNews(pipe'[w][i], "msg", m) \/ IsNews(pipe'[w][i], "delete_msg", m)
               PROVE  msg[m].life # "none" /\ pipe'[w][i].group = msg[m].group
    BY <1>2, <1>3 DEF NewsMatch, IsNews
  <2>3. pipe'[w][i].kind = "broadcast"  BY DEF IsNews
  <2>4. \/ i + d \in 1 .. Len(pipe[w]) /\ pipe'[w][i] = pipe[w][i + d]
        \/ \E j \in 1 .. Len(more) : pipe'[w][i] = more[j]
    BY <2>3, <1>1, NewsFrom
  <2>5. ~\E j \in 1 .. Len(more) : pipe'[w][i] = more[j]  BY DEF NoNews
  <2>1. PICK j \in 1 .. Len(pipe[w]) : pipe'[w][i] = pipe[w][j]  BY <2>4, <2>5
  <2>2. QED  BY <2>1 DEF OInv, Rest, ViewInv, NewsMatch
<1>6. AudienceStays'
  BY <1>3, <1>4 DEF OInv, Rest, ViewInv, AudienceStays, Quiet, LiveGroup
<1>7. SeenIsPending'
  <2> SUFFICES ASSUME NEW m \in Msgs, NEW u \in audience[m], msg[m].life = "gone", m \in view'[u]
               PROVE  LiveGroup(msg[m].group)' /\ Pending(pipe'[w], m)
    BY <1>2, <1>3 DEF SeenIsPending, Pending, IsNews, LiveGroup
  <2>1. m \in view[u]  BY <1>3 DEF Quiet
  <2>2. LiveGroup(msg[m].group) /\ Pending(pipe[w], m)
    BY <2>1 DEF OInv, Rest, ViewInv, SeenIsPending
  <2>3. d = 0 \/ ~IsNews(pipe[w][1], "delete_msg", m)  BY DEF IsNews
  <2>4. QED  BY <2>2, <2>3, <1>1, <1>4, PendingStays
<1>8. NewsFollowed'
  <2>2. msg' = msg  BY <1>3
  <2>1. ASSUME NEW m \in Msgs, msg[m].life = "gone", grp'[msg[m].group].life = "live"
        PROVE  Followed(pipe'[w], m)
    <3>1. LiveGroup(msg[m].group)'  BY <2>1, <2>2 DEF LiveGroup
    <3>2. Followed(pipe[w], m)  BY <2>1, <3>1, <1>4 DEF OInv, Rest, ViewInv, NewsFollowed
    <3>3. QED  BY <3>2, <1>1, FollowedStays DEF NoNews
  <2>3. QED  BY <2>1, <2>2, FollowedAfter
<1>9. QED  BY <1>5, <1>6, <1>7, <1>8 DEF ViewInv

(* The statement that counts the use of a code is the first query as soon as *)
(* it is sent, so once a query is answered there is none.                    *)
LEMMA AnsweredCodeRead ==
  ASSUME OInv, OneWorker, NEW w \in Workers, pipe[w] # <<>>, NEW more \in Seq(Query),
         \A j \in 1 .. Len(more) : more[j].kind # "join_code_update", Answered(w, more)
  PROVE  CodeRead'
<1>1. pipe \in [Workers -> Seq(Query)] /\ pipe[w] \in Seq(Query)
  BY DEF OInv, IInv, PipeTypes
<1>2. \A v \in Workers : v = w  BY DEF OneWorker
<1>3. pipe'[w] = Tail(pipe[w]) \o more  BY <1>1 DEF Answered
<1>4. PICK n \in Nat, k \in Nat : Len(pipe[w]) = n /\ Len(more) = k /\ n >= 1
  BY <1>1
<1>5. /\ Len(pipe'[w]) = n - 1 + k
      /\ \A i \in 1 .. n - 1 : pipe'[w][i] = pipe[w][i + 1]
      /\ \A i \in 1 .. k : pipe'[w][n - 1 + i] = more[i]
  <2>1. /\ Len(pipe'[w]) = Len(pipe[w]) - 1 + Len(more)
        /\ \A i \in 1 .. Len(pipe[w]) - 1 : pipe'[w][i] = pipe[w][i + 1]
        /\ \A i \in 1 .. Len(more) : pipe'[w][Len(pipe[w]) - 1 + i] = more[i]
    BY <1>1, <1>3, AnsweredSeq
  <2>2. QED  BY <2>1, <1>4
<1>6. ASSUME NEW i \in 1 .. n - 1 + k PROVE pipe'[w][i].kind # "join_code_update"
  <2>1. CASE i <= n - 1
    <3>1. i \in 1 .. n - 1 /\ i + 1 \in 1 .. n /\ i + 1 # 1  BY <2>1
    <3>2. pipe[w][i + 1].kind # "join_code_update"
      BY <3>1, <1>4 DEF OInv, Rest, CodeRead
    <3>3. QED  BY <3>1, <3>2, <1>5
  <2>2. CASE i > n - 1
    <3>1. PICK j \in 1 .. k : i = n - 1 + j
      <4>1. i - (n - 1) \in 1 .. k /\ i = n - 1 + (i - (n - 1))  BY <2>2
      <4>2. QED  BY <4>1
    <3>2. pipe'[w][i] = more[j]  BY <3>1, <1>5
    <3>3. more[j].kind # "join_code_update"  BY <1>4
    <3>4. QED  BY <3>2, <3>3
  <2>3. QED  BY <2>1, <2>2
<1>7. QED  BY <1>2, <1>5, <1>6 DEF CodeRead

(* Without a transaction no ids are due.                                     *)
LEMMA NoTxSelected ==
  ASSUME IInv', OneWorker, NEW w \in Workers, tx'[w] = NoTx
  PROVE  IdsSelected'
<1>1. ASSUME InTx(w)' PROVE FALSE
  <2>1. /\ pipe'[w] # <<>> /\ pipe'[w][1].kind \in Inside
        /\ tx'[w].group = pipe'[w][1].group
    BY <1>1 DEF InTx, IInv, TxStages
  <2>2. pipe'[w] \in Seq(Query)  BY DEF IInv, PipeTypes
  <2>3. 1 \in 1 .. Len(pipe'[w])  BY <2>1, <2>2
  <2>4. QueryOK(pipe'[w][1])
    <3>1. PipeOK'  BY DEF IInv
    <3>2. \A i \in 1 .. Len(pipe'[w]) : QueryOK(pipe'[w][i])  BY <3>1 DEF PipeOK, QueryOK
    <3>3. QED  BY <3>2, <2>3
  <2>5. pipe'[w][1].group \in Groups  BY <2>1, <2>4 DEF QueryOK, Inside, TxKinds
  <2>6. QED  BY <2>1, <2>5 DEF NoTx
<1>2. \A v \in Workers : v = w  BY DEF OneWorker
<1>3. QED  BY <1>1, <1>2 DEF IdsSelected

(* A query outside transactions that is no broadcast.                        *)
LEMMA OutsideAnswer ==
  ASSUME OInv, IInv', OneWorker, NEW w \in Workers, pipe[w] # <<>>,
         pipe[w][1].kind \notin TxKinds \cup {"broadcast"},
         NEW more \in Seq(Query), NoNews(more),
         \A j \in 1 .. Len(more) : more[j].kind # "join_code_update",
         Answered(w, more), UNCHANGED tx, HistTypes', UsesCounted', Quiet
  PROVE  Rest'
<1>1. ~InTx(w)  BY DEF InTx, Inside
<1>2. tx[w] = NoTx  BY <1>1 DEF OInv, IInv, TxStages
<1>3. IdsSelected'  BY <1>2, NoTxSelected
<1>4. CodeRead'  BY AnsweredCodeRead
<1>5. pipe'[w] \in Seq(Query) /\ Moves(pipe[w], pipe'[w], 1, more)
  BY AnsweredMove DEF OInv, IInv
<1>6. ViewInv'  BY <1>5, QuietKeeps
<1>7. QED  BY <1>3, <1>4, <1>6 DEF Rest

LEMMA NothingMore ==
  /\ <<>> \in Seq(Query) /\ NoNews(<<>>) /\ Len(<<>>) = 0
  /\ \A j \in 1 .. Len(<<>>) : <<>>[j].kind # "join_code_update"
<1>1. <<>> \in Seq(Query) /\ Len(<<>>) = 0  OBVIOUS
<1>2. \A j \in 1 .. Len(<<>>) : FALSE  BY <1>1
<1>3. QED  BY <1>1, <1>2 DEF NoNews

(* Codes and their uses stay as they are.                                    *)
LEMMA SameUses ==
  ASSUME OInv, UNCHANGED <<code, byCode>>
  PROVE  UsesCounted'
BY DEF OInv, Rest, UsesCounted, Uses

LEMMA SameHist ==
  ASSUME OInv, UNCHANGED hist
  PROVE  HistTypes' /\ UNCHANGED <<audience, byCode>>
BY DEF OInv, Rest, HistTypes, hist

LEMMA SameIsQuiet ==
  ASSUME OInv, UNCHANGED <<grp, member, msg, view, audience>>
  PROVE  Quiet
BY DEF Quiet

LEMMA NoEffectRest ==
  ASSUME OInv, IInv', OneWorker, NEW w \in Workers, pipe[w] # <<>>,
         pipe[w][1].kind \notin TxKinds \cup {"broadcast"}, NoEffect(w)
  PROVE  Rest'
<1>1. /\ Answered(w, <<>>) /\ UNCHANGED tx
      /\ UNCHANGED <<grp, member, msg, code, view>> /\ UNCHANGED hist
  BY DEF NoEffect, tables, views
<1>2. HistTypes' /\ UNCHANGED <<audience, byCode>>  BY <1>1, SameHist
<1>3. UsesCounted'  BY <1>1, <1>2, SameUses
<1>4. Quiet  BY <1>1, <1>2, SameIsQuiet
<1>5. QED  BY <1>1, <1>2, <1>3, <1>4, NothingMore, OutsideAnswer

-----------------------------------------------------------------------------
(* The commands and the queries outside transactions                         *)

LEMMA SendRest ==
  ASSUME OInv, IInv', OneWorker, NEW w \in Workers, NEW q \in Query,
         q.kind \notin TxKinds \cup {"broadcast", "join_code_update"}, Send(w, q)
  PROVE  Rest'
<1>1. pipe \in [Workers -> Seq(Query)] /\ pipe[w] \in Seq(Query)
  BY DEF OInv, IInv, PipeTypes
<1>2. /\ pipe' = [pipe EXCEPT ![w] = Append(pipe[w], q)]
      /\ UNCHANGED <<grp, member, msg, code, tx, view>> /\ UNCHANGED hist
  BY DEF Send, tables, views
<1>3. \A v \in Workers : v = w  BY DEF OneWorker
<1>4. pipe'[w] = Append(pipe[w], q)  BY <1>1, <1>2
<1>5. PICK n \in Nat : Len(pipe[w]) = n  BY <1>1
<1>6. /\ pipe'[w] \in Seq(Query) /\ Len(pipe'[w]) = n + 1
      /\ \A i \in 1 .. n : pipe'[w][i] = pipe[w][i]
      /\ pipe'[w][n + 1] = q
  BY <1>1, <1>4, <1>5, AppendProperties
<1>7. <<q>> \in Seq(Query) /\ Len(<<q>>) = 1 /\ <<q>>[1] = q /\ \A j \in 1 .. 1 : j = 1
  OBVIOUS
<1>8. HistTypes' /\ UNCHANGED <<audience, byCode>>  BY <1>2, SameHist
<1>9. UsesCounted'  BY <1>2, <1>8, SameUses
<1>10. CodeRead'
  <2> SUFFICES ASSUME NEW i \in 1 .. n + 1, pipe'[w][i].kind = "join_code_update"
               PROVE  i = 1 /\ code'[pipe'[w][i].arg].life = "live"
    BY <1>3, <1>6 DEF CodeRead
  <2>1. i # n + 1  BY <1>6
  <2>2. i \in 1 .. n  BY <2>1
  <2>3. QED  BY <2>2, <1>2, <1>5, <1>6 DEF OInv, Rest, CodeRead
<1>11. IdsSelected'
  <2>1. CASE ~InTx(w)
    <3>1. tx'[w] = NoTx  BY <2>1, <1>2 DEF OInv, IInv, TxStages
    <3>2. QED  BY <3>1, NoTxSelected
  <2>2. CASE InTx(w)
    <3>1. 1 \in 1 .. n  BY <2>2, <1>1, <1>5 DEF InTx
    <3>2. pipe'[w][1] = pipe[w][1]  BY <3>1, <1>6
    <3>3. QED  BY <2>2, <3>2, <1>2, <1>3 DEF OInv, Rest, IdsSelected
  <2>3. QED  BY <2>1, <2>2
<1>12. Moves(pipe[w], pipe'[w], 0, <<q>>)
  <2>1. \A i \in 1 .. n - 0 : pipe'[w][i] = pipe[w][i + 0]  BY <1>6
  <2>2. \A i \in 1 .. Len(<<q>>) : pipe'[w][n - 0 + i] = <<q>>[i]  BY <1>6, <1>7
  <2>3. Len(pipe'[w]) = n - 0 + Len(<<q>>) /\ 0 <= n  BY <1>6, <1>7
  <2>4. QED  BY <2>1, <2>2, <2>3, <1>5 DEF Moves
<1>13. NoNews(<<q>>)  BY <1>7 DEF NoNews, IsNews
<1>14. ViewInv'  BY <1>2, <1>6, <1>7, <1>8, <1>12, <1>13, SameIsQuiet, QuietKeeps
<1>15. QED  BY <1>8, <1>9, <1>10, <1>11, <1>14 DEF Rest

LEMMA RequestRest ==
  ASSUME OInv, IInv', OneWorker, NEW w \in Workers, Request(w)
  PROVE  Rest'
<1>1. \E q \in Query : q.kind \notin TxKinds \cup {"broadcast", "join_code_update"} /\ Send(w, q)
  <2>1. PICK u \in Users :
          \/ server_create_group(w, u) \/ server_client_groups(w, u)
          \/ server_get_all_groups(w, u) \/ server_delete_group_msg(w, u)
          \/ server_join_group_code(w, u) \/ server_delete_group_code(w, u)
          \/ \E g \in Groups :
               \/ server_join_group(w, u, g) \/ server_group_msg(w, u, g)
               \/ server_get_group_msgs(w, u, g)
               \/ server_create_group_code(w, u, g) \/ server_delete_group(w, u, g)
    BY DEF Request
  <2>2. PICK kind, g, arg :
          /\ kind \in Kinds \ (TxKinds \cup {"broadcast", "join_code_update"})
          /\ g \in Groups \cup {None}
          /\ arg \in BOOLEAN \cup Int \cup Msgs \cup Codes \cup {None} \cup News
          /\ Send(w, Q(kind, u, g, arg))
    BY <2>1 DEF server_create_group, server_client_groups, server_get_all_groups,
         server_delete_group_msg, server_join_group_code, server_delete_group_code,
         server_join_group, server_group_msg, server_get_group_msgs,
         server_create_group_code, server_delete_group, Kinds, TxKinds
  <2>3. Q(kind, u, g, arg) \in Query /\ Q(kind, u, g, arg).kind = kind
    BY <2>2 DEF Q, Query
  <2>4. QED  BY <2>2, <2>3
<1>2. QED  BY <1>1, SendRest

LEMMA CreateGroupRest ==
  ASSUME OInv, IInv', OneWorker, NEW w \in Workers, CreateGroup(w)
  PROVE  Rest'
<1>1. /\ pipe[w] # <<>> /\ Head(pipe[w]) = pipe[w][1] /\ pipe[w][1].kind = "create"
  BY FirstQuery DEF CreateGroup, First, OInv
<1>2. pipe[w][1].kind \notin TxKinds \cup {"broadcast"}  BY <1>1 DEF TxKinds
<1>3. CASE NoEffect(w)  BY <1>1, <1>2, <1>3, NoEffectRest
<1>4. CASE ~NoEffect(w)
  <2>1. /\ Answered(w, <<>>) /\ UNCHANGED <<msg, code, tx, view>> /\ UNCHANGED hist
    BY <1>4 DEF CreateGroup
  <2>2. PICK g \in Unused(grp) :
          /\ grp' = [grp EXCEPT ![g] = [life |-> "live", owner |-> Head(pipe[w]).user,
                                        public |-> Head(pipe[w]).arg]]
          /\ member \subseteq member'
    BY <1>4 DEF CreateGroup
  <2>3. \A h \in Groups : grp[h].life # "none" => grp'[h].life = grp[h].life
    BY <2>2 DEF Unused, OInv, IInv, TableTypes
  <2>4. HistTypes' /\ UNCHANGED <<audience, byCode>>  BY <2>1, SameHist
  <2>5. Quiet  BY <2>1, <2>2, <2>3, <2>4 DEF Quiet
  <2>6. UsesCounted'  BY <2>1, <2>4, SameUses
  <2>7. QED  BY <2>1, <2>4, <2>5, <2>6, <1>1, <1>2, NothingMore, OutsideAnswer
<1>5. QED  BY <1>3, <1>4

LEMMA SendGroupsRest ==
  ASSUME OInv, IInv', OneWorker, NEW w \in Workers, SendGroups(w)
  PROVE  Rest'
<1>1. /\ pipe[w] # <<>> /\ pipe[w][1].kind \in {"user_groups", "public_groups", "get_group"}
  BY FirstQuery DEF SendGroups, First, OInv
<1>2. pipe[w][1].kind \notin TxKinds \cup {"broadcast"}  BY <1>1 DEF TxKinds
<1>3. Answered(w, <<>>) /\ UNCHANGED <<grp, member, msg, code, tx, view>> /\ UNCHANGED hist
  BY DEF SendGroups, tables
<1>4. HistTypes' /\ UNCHANGED <<audience, byCode>>  BY <1>3, SameHist
<1>5. UsesCounted'  BY <1>3, <1>4, SameUses
<1>6. Quiet  BY <1>3, <1>4, SameIsQuiet
<1>7. QED  BY <1>1, <1>2, <1>3, <1>4, <1>5, <1>6, NothingMore, OutsideAnswer

(* Only messages that are there are sent.                                    *)
LEMMA SendMsgsRest ==
  ASSUME OInv, IInv', OneWorker, NEW w \in Workers, SendMsgs(w)
  PROVE  Rest'
<1>1. /\ pipe[w] # <<>> /\ Head(pipe[w]) = pipe[w][1] /\ pipe[w][1].kind = "group_msgs"
  BY FirstQuery DEF SendMsgs, First, OInv
<1>2. pipe[w][1].kind \notin TxKinds \cup {"broadcast"}  BY <1>1 DEF TxKinds
<1>3. Answered(w, <<>>) /\ UNCHANGED <<grp, member, msg, code, tx>> /\ UNCHANGED hist
  BY DEF SendMsgs, tables
<1>4. view' = [view EXCEPT ![pipe[w][1].user] = @ \cup MsgsOf(pipe[w][1].group)]
  BY <1>1 DEF SendMsgs
<1>5. HistTypes' /\ UNCHANGED <<audience, byCode>>  BY <1>3, SameHist
<1>6. UsesCounted'  BY <1>3, <1>5, SameUses
<1>7. \A u \in Users : \A m \in view'[u] : m \in view[u] \/ msg[m].life = "live"
  BY <1>4 DEF MsgsOf, OInv, IInv, ViewTypes
<1>8. Quiet  BY <1>3, <1>5, <1>7 DEF Quiet
<1>9. QED  BY <1>1, <1>2, <1>3, <1>5, <1>6, <1>8, NothingMore, OutsideAnswer

LEMMA JoinNews ==
  ASSUME NEW u \in Users, NEW g \in Groups
  PROVE  LET b == on_user_group_join(u, g) IN
         /\ b \in Seq(Query) /\ NoNews(b)
         /\ \A j \in 1 .. Len(b) : b[j].kind # "join_code_update"
<1> DEFINE n == [what |-> "join", msg |-> None]
           q == Q("get_group", u, g, None)
           r == Q("broadcast", None, g, n)
           b == on_user_group_join(u, g)
<1>1. b = <<q>> \o <<r>> /\ b \in Seq(Query)
  BY JoinSeq DEF on_user_group_join, server_group_broadcast
<1>2. q.kind = "get_group" /\ r.kind = "broadcast" /\ r.arg = n  BY DEF Q
<1>3. \A m \in Msgs : n # [what |-> "msg", msg |-> m] /\ n # [what |-> "delete_msg", msg |-> m]
  <2> SUFFICES ASSUME NEW m \in Msgs, NEW a \in {"msg", "delete_msg"}
               PROVE  n # [what |-> a, msg |-> m]
    OBVIOUS
  <2>1. n.what = "join" /\ [what |-> a, msg |-> m].what = a  OBVIOUS
  <2>2. QED  BY <2>1
<1> HIDE DEF n, q, r
<1>4. Len(b) = 2 /\ b[1] = q /\ b[2] = r
  <2>1. /\ <<q>> \in Seq({q, r}) /\ Len(<<q>>) = 1 /\ <<q>>[1] = q
        /\ <<r>> \in Seq({q, r}) /\ Len(<<r>>) = 1 /\ <<r>>[1] = r
    OBVIOUS
  <2>2. QED  BY <2>1, <1>1, ConcatProperties
<1> HIDE DEF b
<1>5. \A j \in 1 .. 2 : j = 1 \/ j = 2  OBVIOUS
<1>6. \A j \in 1 .. Len(b) : b[j] = q \/ b[j] = r  BY <1>4, <1>5
<1>7. NoNews(b) /\ \A j \in 1 .. Len(b) : b[j].kind # "join_code_update"
  BY <1>2, <1>3, <1>6 DEF NoNews, IsNews
<1>8. QED  BY <1>1, <1>7 DEF b

LEMMA JoinPublicRest ==
  ASSUME OInv, IInv', OneWorker, NEW w \in Workers, JoinPublic(w)
  PROVE  Rest'
<1>1. /\ pipe[w] # <<>> /\ Head(pipe[w]) = pipe[w][1] /\ QueryOK(pipe[w][1])
      /\ pipe[w][1].kind = "join"
  BY FirstQuery DEF JoinPublic, First, OInv
<1>2. pipe[w][1].kind \notin TxKinds \cup {"broadcast"}  BY <1>1 DEF TxKinds
<1>3. PICK u \in Users, g \in Groups : pipe[w][1].user = u /\ pipe[w][1].group = g
  BY <1>1 DEF QueryOK
<1>4. CASE NoEffect(w)  BY <1>1, <1>2, <1>4, NoEffectRest
<1>5. CASE ~NoEffect(w)
  <2>1. /\ Answered(w, on_user_group_join(u, g)) /\ member \subseteq member'
        /\ UNCHANGED <<grp, msg, code, tx, view>> /\ UNCHANGED hist
    BY <1>1, <1>3, <1>5 DEF JoinPublic, tables, views
  <2>2. HistTypes' /\ UNCHANGED <<audience, byCode>>  BY <2>1, SameHist
  <2>3. UsesCounted'  BY <2>1, <2>2, SameUses
  <2>4. Quiet  BY <2>1, <2>2 DEF Quiet
  <2>5. QED  BY <2>1, <2>2, <2>3, <2>4, <1>1, <1>2, JoinNews, OutsideAnswer
<1>6. QED  BY <1>4, <1>5

(* The code is there when it is read, and its statement is the first query   *)
(* until the use is counted.                                                 *)
LEMMA JoinCodeReadsRest ==
  ASSUME OInv, IInv', OneWorker, NEW w \in Workers, JoinCodeReads(w)
  PROVE  Rest'
<1>1. /\ pipe[w] # <<>> /\ Head(pipe[w]) = pipe[w][1] /\ QueryOK(pipe[w][1])
      /\ pipe[w][1].kind = "join_code" /\ 1 \in 1 .. Len(pipe[w])
  BY FirstQuery DEF JoinCodeReads, First, OInv
<1>2. pipe[w][1].kind \notin TxKinds \cup {"broadcast"}  BY <1>1 DEF TxKinds
<1>3. PICK u \in Users, c \in Codes : pipe[w][1].user = u /\ pipe[w][1].arg = c
  BY <1>1 DEF QueryOK
<1>4. CASE NoEffect(w)  BY <1>1, <1>2, <1>4, NoEffectRest
<1>5. CASE /\ code[c].life = "live"
           /\ pipe' = [pipe EXCEPT ![w] =
                [pipe[w] EXCEPT ![1] = Q("join_code_update", u, code[c].group, c)]]
           /\ UNCHANGED <<tables, tx, views>> /\ UNCHANGED hist
  <2>1. PICK q \in Query :
          /\ q.kind = "join_code_update" /\ q.arg = c
          /\ pipe' = [pipe EXCEPT ![w] = [pipe[w] EXCEPT ![1] = q]]
    <3>1. code[c].group \in Groups  BY <1>5 DEF OInv, IInv, TableTypes
    <3> DEFINE q == Q("join_code_update", u, code[c].group, c)
    <3>2. q \in Query /\ q.kind = "join_code_update" /\ q.arg = c
      BY <3>1 DEF Q, Query, Kinds
    <3>3. pipe' = [pipe EXCEPT ![w] = [pipe[w] EXCEPT ![1] = q]]  BY <1>5
    <3> HIDE DEF q
    <3>4. QED  BY <3>2, <3>3
  <2>2. pipe \in [Workers -> Seq(Query)] /\ pipe[w] \in Seq(Query)
    BY DEF OInv, IInv, PipeTypes
  <2>3. pipe'[w] = [pipe[w] EXCEPT ![1] = q]  BY <2>1, <2>2
  <2>4. /\ pipe'[w] \in Seq(Query) /\ Len(pipe'[w]) = Len(pipe[w])
        /\ \A j \in 1 .. Len(pipe[w]) : pipe'[w][j] = IF j = 1 THEN q ELSE pipe[w][j]
    BY <2>2, <2>3, <1>1, ExceptSeq
  <2>5. UNCHANGED <<grp, member, msg, code, tx, view>>  BY <1>5 DEF tables, views
  <2>6. \A v \in Workers : v = w  BY DEF OneWorker
  <2>7. HistTypes' /\ UNCHANGED <<audience, byCode>>  BY <1>5, SameHist
  <2>8. UsesCounted'  BY <2>5, <2>7, SameUses
  <2>9. IdsSelected'
    <3>1. ~InTx(w)  BY <1>2 DEF InTx, Inside
    <3>2. tx'[w] = NoTx  BY <3>1, <2>5 DEF OInv, IInv, TxStages
    <3>3. QED  BY <3>2, NoTxSelected
  <2>10. CodeRead'
    <3> SUFFICES ASSUME NEW i \in 1 .. Len(pipe[w]), pipe'[w][i].kind = "join_code_update"
                 PROVE  i = 1 /\ code'[pipe'[w][i].arg].life = "live"
      BY <2>4, <2>6 DEF CodeRead
    <3>1. i = 1
      <4>1. ASSUME i # 1 PROVE FALSE
        <5>1. pipe[w][i].kind = "join_code_update"  BY <4>1, <2>4
        <5>2. QED  BY <4>1, <5>1 DEF OInv, Rest, CodeRead
      <4>2. QED  BY <4>1
    <3>2. pipe'[w][i] = q  BY <3>1, <2>4
    <3>3. QED  BY <3>1, <3>2, <2>1, <2>5, <1>5
  <2>11. Moves(pipe[w], pipe'[w], 0, <<>>)
    <3>1. PICK n \in Nat : n = Len(pipe[w])  BY <2>2
    <3>2. \A i \in 1 .. n : i + 0 = i  OBVIOUS
    <3>3. \A i \in 1 .. n - 0 :
            \/ pipe'[w][i] = pipe[w][i + 0]
            \/ pipe'[w][i].kind # "broadcast" /\ pipe[w][i + 0].kind # "broadcast"
      BY <3>1, <3>2, <2>1, <2>4, <1>1
    <3>4. 0 <= n /\ Len(pipe'[w]) = n - 0 + Len(<<>>)  BY <3>1, <2>4, NothingMore
    <3>5. \A i \in 1 .. Len(<<>>) : pipe'[w][n - 0 + i] = <<>>[i]  BY NothingMore
    <3>6. QED  BY <3>1, <3>3, <3>4, <3>5 DEF Moves
  <2>12. ViewInv'  BY <2>4, <2>5, <2>7, <2>11, NothingMore, SameIsQuiet, QuietKeeps
  <2>13. QED  BY <2>7, <2>8, <2>9, <2>10, <2>12 DEF Rest
<1>6. QED  BY <1>1, <1>3, <1>4, <1>5 DEF JoinCodeReads

(* One more use of a code that has one left.                                 *)
LEMMA UseCounted ==
  ASSUME OInv, NEW c \in Codes, NEW u \in Users, NEW g \in Groups, code[c].life = "live",
         \A k \in Codes :
           /\ code'[k].max = code[k].max /\ code'[k].uses = UsesAfter(c, k)
           /\ code'[k].life = IF k \in Exhausted(c) THEN "gone" ELSE code[k].life,
         byCode' = byCode \cup {[user |-> u, group |-> g, code |-> c, counted |-> TRUE]}
  PROVE  UsesCounted' /\ byCode' \subseteq Memberships /\ IsFiniteSet(byCode')
<1> DEFINE b == [user |-> u, group |-> g, code |-> c, counted |-> TRUE]
<1>1. b \in Memberships /\ b.code = c  BY DEF Memberships
<1>2. byCode \subseteq Memberships /\ IsFiniteSet(byCode)
  BY DEF OInv, Rest, HistTypes
<1>3. byCode' = byCode \cup {b}  OBVIOUS
<1> HIDE DEF b
<1>4. byCode' \subseteq Memberships /\ IsFiniteSet(byCode')
  BY <1>1, <1>2, <1>3, FS_AddElement
<1>5. ASSUME NEW k \in Codes PROVE code[k].uses \in Nat /\ code[k].max \in Int
  BY DEF OInv, IInv, TableTypes
<1>8. \A d \in Codes : Uses(d)' = IF d = c THEN Uses(c) \cup {b} ELSE Uses(d)
  BY <1>1, <1>3 DEF Uses
<1>9. \A d \in Codes : IsFiniteSet(Uses(d)) /\ Cardinality(Uses(d)) \in Nat
  BY <1>2, FS_Subset, FS_CardinalityType DEF Uses
<1>14. ASSUME NEW d \in Codes
       PROVE  /\ Cardinality(Uses(d)') <= code'[d].uses
              /\ code'[d].life = "none" => code'[d].uses = 0
              /\ code'[d].life = "live" /\ code'[d].max > 0 => code'[d].uses < code'[d].max
              /\ code'[d].life = "gone" /\ code'[d].max > 0 => code'[d].uses <= code'[d].max
  <2>1. PICK n \in Nat, x \in Int, k \in Nat :
          code[d].uses = n /\ code[d].max = x /\ Cardinality(Uses(d)) = k /\ k <= n
    BY <1>5, <1>9 DEF OInv, Rest, UsesCounted
  <2>2. /\ code[d].life = "none" => n = 0
        /\ code[d].life = "live" /\ x > 0 => n < x
        /\ code[d].life = "gone" /\ x > 0 => n <= x
    BY <2>1 DEF OInv, Rest, UsesCounted
  <2>3. d \in Exhausted(c) <=>
          code[d].life = "live" /\ x # -1 /\ (IF d = c THEN n + 1 ELSE n) >= x
    BY <2>1 DEF Exhausted, UsedUp, UsesAfter
  <2>4. /\ code'[d].max = x /\ code'[d].uses = IF d = c THEN n + 1 ELSE n
        /\ code'[d].life = IF d \in Exhausted(c) THEN "gone" ELSE code[d].life
    BY <2>1 DEF UsesAfter
  <2>5. CASE d = c
    <3>1. Cardinality(Uses(c) \cup {b}) = k \/ Cardinality(Uses(c) \cup {b}) = k + 1
      BY <1>9, <2>1, <2>5, FS_AddElement
    <3>2. Uses(d)' = Uses(c) \cup {b}  BY <1>8, <2>5
    <3>3. Cardinality(Uses(d)') <= n + 1  BY <2>1, <3>1, <3>2
    <3>4. QED  BY <2>2, <2>3, <2>4, <2>5, <3>3
  <2>6. CASE d # c
    <3>1. Uses(d)' = Uses(d)  BY <1>8, <2>6
    <3>2. QED  BY <2>1, <2>2, <2>3, <2>4, <2>6, <3>1
  <2>7. QED  BY <2>5, <2>6
<1>15. UsesCounted'  BY <1>14 DEF UsesCounted
<1>16. QED  BY <1>4, <1>15

LEMMA JoinCodeUpdatesRest ==
  ASSUME OInv, IInv', OneWorker, NEW w \in Workers, JoinCodeUpdates(w)
  PROVE  Rest'
<1>1. /\ pipe[w] # <<>> /\ Head(pipe[w]) = pipe[w][1] /\ QueryOK(pipe[w][1])
      /\ pipe[w][1].kind = "join_code_update" /\ 1 \in 1 .. Len(pipe[w])
  BY FirstQuery DEF JoinCodeUpdates, First, OInv
<1>2. pipe[w][1].kind \notin TxKinds \cup {"broadcast"}  BY <1>1 DEF TxKinds
<1>3. PICK u \in Users, g \in Groups, c \in Codes :
        pipe[w][1].user = u /\ pipe[w][1].group = g /\ pipe[w][1].arg = c
  BY <1>1 DEF QueryOK
<1>4. code[c].life = "live"  BY <1>1, <1>3 DEF OInv, Rest, CodeRead
<1>5. CASE NoEffect(w)  BY <1>1, <1>2, <1>5, NoEffectRest
<1>6. CASE ~NoEffect(w)
  <2>1. /\ member \subseteq member'
        /\ \A k \in Exhausted(c) : ~HeldCode(w, k)
        /\ code' = CountUse(c)
        /\ byCode' = byCode \cup {[user |-> u, group |-> g, code |-> c, counted |-> TRUE]}
        /\ Answered(w, on_user_group_join(u, g))
        /\ UNCHANGED <<grp, msg, tx, view, audience>>
    BY <1>1, <1>3, <1>4, <1>6 DEF JoinCodeUpdates, views
  <2>2. /\ UsesCounted' /\ byCode' \subseteq Memberships
        /\ IsFiniteSet(byCode')
    <3>1. TableTypes  BY DEF OInv, IInv
    <3>2. \A k \in Codes :
            /\ code'[k].max = code[k].max /\ code'[k].uses = UsesAfter(c, k)
            /\ code'[k].life = IF k \in Exhausted(c) THEN "gone" ELSE code[k].life
      BY <2>1, <3>1, CountedCodes
    <3>3. QED  BY <2>1, <3>2, <1>4, UseCounted
  <2>3. HistTypes'  BY <2>1, <2>2 DEF OInv, Rest, HistTypes
  <2>4. Quiet  BY <2>1 DEF Quiet
  <2>5. QED  BY <2>1, <2>2, <2>3, <2>4, <1>1, <1>2, JoinNews, OutsideAnswer
<1>7. QED  BY <1>5, <1>6

LEMMA CreateCodeRest ==
  ASSUME OInv, IInv', OneWorker, NEW w \in Workers, CreateCode(w)
  PROVE  Rest'
<1>1. /\ pipe[w] # <<>> /\ Head(pipe[w]) = pipe[w][1] /\ QueryOK(pipe[w][1])
      /\ pipe[w][1].kind = "create_code"
  BY FirstQuery DEF CreateCode, First, OInv
<1>2. pipe[w][1].kind \notin TxKinds \cup {"broadcast"}  BY <1>1 DEF TxKinds
<1>3. CASE NoEffect(w)  BY <1>1, <1>2, <1>3, NoEffectRest
<1>4. CASE ~NoEffect(w)
  <2>1. Answered(w, <<>>) /\ UNCHANGED <<grp, member, msg, tx, view>> /\ UNCHANGED hist
    BY <1>4 DEF CreateCode, views
  <2>2. PICK c \in Unused(code), x \in Int :
          code' = [code EXCEPT ![c] = [life |-> "live", group |-> Head(pipe[w]).group,
                                       uses |-> 0, max |-> x]]
    BY <1>1, <1>4 DEF CreateCode, QueryOK
  <2>3. HistTypes' /\ UNCHANGED <<audience, byCode>>  BY <2>1, SameHist
  <2>4. c \in Codes /\ code[c].life = "none"  BY <2>2 DEF Unused, OInv, IInv, TableTypes
  <2>5. /\ code'[c].life = "live" /\ code'[c].uses = 0 /\ code'[c].max = x
        /\ \A d \in Codes \ {c} : code'[d] = code[d]
    BY <2>2, <2>4 DEF OInv, IInv, TableTypes
  <2>6. \A d \in Codes : Uses(d)' = Uses(d)  BY <2>3 DEF Uses
  <2>7. Cardinality(Uses(c)) <= 0  BY <2>4 DEF OInv, Rest, UsesCounted
  <2>8. UsesCounted'
    <3> SUFFICES ASSUME NEW d \in Codes
        PROVE  /\ Cardinality(Uses(d)') <= code'[d].uses
               /\ code'[d].life = "none" => code'[d].uses = 0
               /\ code'[d].life = "live" /\ code'[d].max > 0 => code'[d].uses < code'[d].max
               /\ code'[d].life = "gone" /\ code'[d].max > 0 => code'[d].uses <= code'[d].max
      BY DEF UsesCounted
    <3>1. CASE d = c  BY <3>1, <2>5, <2>6, <2>7
    <3>2. CASE d # c
      <4>1. Uses(d)' = Uses(d) /\ code'[d] = code[d]  BY <3>2, <2>5, <2>6
      <4>2. QED  BY <4>1 DEF OInv, Rest, UsesCounted
    <3>3. QED  BY <3>1, <3>2
  <2>9. Quiet  BY <2>1, <2>3, SameIsQuiet
  <2>10. QED  BY <2>1, <2>3, <2>8, <2>9, <1>1, <1>2, NothingMore, OutsideAnswer
<1>5. QED  BY <1>3, <1>4

(* Codes that go keep their counts.                                          *)
LEMMA GoneUses ==
  ASSUME OInv, UNCHANGED byCode,
         \A c \in Codes : /\ code'[c].uses = code[c].uses /\ code'[c].max = code[c].max
                          /\ \/ code'[c].life = code[c].life
                             \/ code[c].life = "live" /\ code'[c].life = "gone"
  PROVE  UsesCounted'
<1>1. \A d \in Codes : Uses(d)' = Uses(d)  BY DEF Uses
<1>2. \A c \in Codes : code[c].uses \in Nat /\ code[c].max \in Int
  BY DEF OInv, IInv, TableTypes
<1> SUFFICES ASSUME NEW d \in Codes
    PROVE  /\ Cardinality(Uses(d)') <= code'[d].uses
           /\ code'[d].life = "none" => code'[d].uses = 0
           /\ code'[d].life = "live" /\ code'[d].max > 0 => code'[d].uses < code'[d].max
           /\ code'[d].life = "gone" /\ code'[d].max > 0 => code'[d].uses <= code'[d].max
  BY DEF UsesCounted
<1>3. QED  BY <1>1, <1>2 DEF OInv, Rest, UsesCounted

LEMMA DeleteCodeRest ==
  ASSUME OInv, IInv', OneWorker, NEW w \in Workers, DeleteCode(w)
  PROVE  Rest'
<1>1. /\ pipe[w] # <<>> /\ Head(pipe[w]) = pipe[w][1] /\ QueryOK(pipe[w][1])
      /\ pipe[w][1].kind = "delete_code"
  BY FirstQuery DEF DeleteCode, First, OInv
<1>2. pipe[w][1].kind \notin TxKinds \cup {"broadcast"}  BY <1>1 DEF TxKinds
<1>3. PICK c \in Codes : pipe[w][1].arg = c  BY <1>1 DEF QueryOK
<1>4. CASE NoEffect(w)  BY <1>1, <1>2, <1>4, NoEffectRest
<1>5. CASE ~NoEffect(w)
  <2>1. /\ Answered(w, <<>>) /\ UNCHANGED <<grp, member, msg, tx, view>> /\ UNCHANGED hist
        /\ code[c].life = "live" /\ code' = [code EXCEPT ![c].life = "gone"]
    BY <1>1, <1>3, <1>5 DEF DeleteCode, views
  <2>2. HistTypes' /\ UNCHANGED <<audience, byCode>>  BY <2>1, SameHist
  <2>3. UsesCounted'
    <3>1. code \in [Codes -> [life : Life, group : Groups \cup {None}, uses : Nat, max : Int]]
      BY DEF OInv, IInv, TableTypes
    <3>2. \A d \in Codes : /\ code'[d].uses = code[d].uses /\ code'[d].max = code[d].max
                           /\ \/ code'[d].life = code[d].life
                              \/ code[d].life = "live" /\ code'[d].life = "gone"
      BY <3>1, <2>1
    <3>3. QED  BY <3>2, <2>2, GoneUses
  <2>4. Quiet  BY <2>1, <2>2, SameIsQuiet
  <2>5. QED  BY <2>1, <2>2, <2>3, <2>4, <1>1, <1>2, NothingMore, OutsideAnswer
<1>6. QED  BY <1>4, <1>5

LEMMA CheckOwnerRest ==
  ASSUME OInv, IInv', OneWorker, NEW w \in Workers, CheckOwner(w)
  PROVE  Rest'
<1>1. /\ pipe[w] # <<>> /\ Head(pipe[w]) = pipe[w][1] /\ QueryOK(pipe[w][1])
      /\ pipe[w][1].kind = "owner"
  BY FirstQuery DEF CheckOwner, First, OInv
<1>2. pipe[w][1].kind \notin TxKinds \cup {"broadcast"}  BY <1>1 DEF TxKinds
<1>3. PICK u \in Users, g \in Groups : pipe[w][1].user = u /\ pipe[w][1].group = g
  BY <1>1 DEF QueryOK
<1>4. CASE NoEffect(w)  BY <1>1, <1>2, <1>4, NoEffectRest
<1>5. CASE ~NoEffect(w)
  <2>1. /\ Answered(w, db_async_delete_group(u, g))
        /\ UNCHANGED <<grp, member, msg, code, tx, view>> /\ UNCHANGED hist
    BY <1>1, <1>3, <1>5 DEF CheckOwner, tables, views
  <2>2. PICK b : b = db_async_delete_group(u, g)  OBVIOUS
  <2>3. b \in Seq(Query) /\ \A j \in 1 .. Len(b) : b[j].kind \in TxKinds
    BY <2>2, TransactionSeq
  <2>4. NoNews(b) /\ \A j \in 1 .. Len(b) : b[j].kind # "join_code_update"
    BY <2>3 DEF NoNews, IsNews, TxKinds
  <2>5. HistTypes' /\ UNCHANGED <<audience, byCode>>  BY <2>1, SameHist
  <2>6. UsesCounted'  BY <2>1, <2>5, SameUses
  <2>7. Quiet  BY <2>1, <2>5, SameIsQuiet
  <2>8. QED  BY <2>1, <2>2, <2>3, <2>4, <2>5, <2>6, <2>7, <1>1, <1>2, OutsideAnswer
<1>6. QED  BY <1>4, <1>5

LEMMA DeadlockFailsMsgRest ==
  ASSUME OInv, IInv', OneWorker, NEW w \in Workers, DeadlockFailsMsg(w)
  PROVE  Rest'
BY DEF DeadlockFailsMsg, OneWorker

-----------------------------------------------------------------------------
(* The statements of a transaction                                           *)

LEMMA StatementRest ==
  ASSUME OInv, IInv', OneWorker, NEW w \in Workers, pipe[w] # <<>>,
         pipe[w][1].kind \in Before, NEW t, Statement(w, t),
         ~t.failed /\ pipe[w][1].kind = "begin" => t.members = {},
         ~t.failed /\ pipe[w][1].kind # "begin" =>
           \A p \in member : p[2] = t.group => p[1] \in t.ids
  PROVE  Rest'
<1>1. /\ tx' = [tx EXCEPT ![w] = t] /\ Answered(w, <<>>)
      /\ UNCHANGED <<grp, member, msg, code, view>> /\ UNCHANGED hist
  BY DEF Statement, tables, views
<1>2. tx'[w] = t  BY <1>1 DEF OInv, IInv, TxTypes
<1>3. \A v \in Workers : v = w  BY DEF OneWorker
<1>4. InTx(w)' => Follows(pipe[w][1], pipe'[w][1])
  <2>1. Shape(<<>>) /\ (\A j \in 1 .. Len(<<>>) : QueryOK(<<>>[j]))
    BY NothingMore DEF Shape
  <2>2. QED  BY <2>1, <1>1, NothingMore, AnsweredMoves DEF OInv, IInv
<1>5. IdsSelected'
  <2> SUFFICES ASSUME InTx(w)', ~t.failed
               PROVE  /\ pipe'[w][1].kind = "member_ids" => t.members = {}
                      /\ pipe'[w][1].kind # "member_ids" =>
                           \A p \in member : p[2] = t.group => p[1] \in t.ids
    BY <1>1, <1>2, <1>3 DEF IdsSelected
  <2>1. pipe'[w][1].kind = "member_ids" <=> pipe[w][1].kind = "begin"
    BY <1>4 DEF Follows, Order
  <2>2. QED  BY <2>1
<1>6. HistTypes' /\ UNCHANGED <<audience, byCode>>  BY <1>1, SameHist
<1>7. UsesCounted'  BY <1>1, <1>6, SameUses
<1>8. Quiet  BY <1>1, <1>6, SameIsQuiet
<1>9. CodeRead'  BY <1>1, NothingMore, AnsweredCodeRead
<1>10. pipe'[w] \in Seq(Query) /\ Moves(pipe[w], pipe'[w], 1, <<>>)
  BY <1>1, NothingMore, AnsweredMove DEF OInv, IInv
<1>11. pipe[w][1].kind # "broadcast"  BY DEF Before, TxKinds
<1>12. ViewInv'  BY <1>8, <1>10, <1>11, NothingMore, QuietKeeps
<1>13. QED  BY <1>5, <1>6, <1>7, <1>9, <1>12 DEF Rest

LEMMA FailedRest ==
  ASSUME OInv, IInv', OneWorker, NEW w \in Workers, pipe[w] # <<>>,
         pipe[w][1].kind \in Before, Statement(w, Failed(w))
  PROVE  Rest'
<1>1. Failed(w).failed  BY DEF Failed, NoTx
<1>2. QED  BY <1>1, StatementRest

(* A statement that leaves the selected ids and the group.                   *)
LEMMA LaterRest ==
  ASSUME OInv, IInv', OneWorker, NEW w \in Workers, pipe[w] # <<>>,
         pipe[w][1].kind \in Before \ {"begin", "member_ids"}, ~tx[w].failed,
         NEW t, Statement(w, t), t.ids = tx[w].ids, t.group = tx[w].group
  PROVE  Rest'
<1>1. InTx(w) /\ pipe[w][1].kind \in Before  BY DEF InTx, Before, Inside
<1>2. \A p \in member : p[2] = tx[w].group => p[1] \in tx[w].ids
  BY <1>1 DEF OInv, Rest, IdsSelected
<1>3. QED  BY <1>1, <1>2, StatementRest

LEMMA TxRest ==
  ASSUME OInv, IInv', OneWorker, NEW w \in Workers,
         \/ Begin(w) \/ Skipped(w) \/ SelectMemberIds(w) \/ DelMsgs(w)
         \/ DelMembers(w) \/ DelCodes(w) \/ DelGroup(w)
  PROVE  Rest'
<1>1. /\ pipe[w] # <<>> /\ Head(pipe[w]) = pipe[w][1]
  BY FirstQuery DEF Begin, Skipped, SelectMemberIds, DelMsgs, DelMembers, DelCodes,
       DelGroup, First, OInv
<1>2. tx[w] \in Tx  BY DEF OInv, IInv, TxTypes
<1>3. CASE Begin(w)
  <2>1. pipe[w][1].kind = "begin" /\ pipe[w][1].kind \in Before
    BY <1>1, <1>3 DEF Begin, First, Before, TxKinds
  <2> DEFINE t == [NoTx EXCEPT !.group = Head(pipe[w]).group]
  <2>2. t.members = {} /\ Statement(w, t)  BY <1>3 DEF Begin, NoTx
  <2> HIDE DEF t
  <2>3. QED  BY <2>1, <2>2, <1>1, StatementRest
<1>4. CASE Skipped(w)
  <2>1. pipe[w][1].kind \in Before /\ Statement(w, tx[w]) /\ tx[w].failed
    BY <1>1, <1>4 DEF Skipped, First, Before, TxKinds
  <2>2. QED  BY <2>1, <1>1, StatementRest
<1>5. CASE SelectMemberIds(w)
  <2>1. /\ pipe[w][1].kind = "member_ids" /\ ~tx[w].failed
        /\ pipe[w][1].kind \in Before /\ pipe[w][1].kind \in Inside
    BY <1>1, <1>5 DEF SelectMemberIds, First, Before, Inside, TxKinds
  <2>2. tx[w].members = {}  BY <2>1, <1>1 DEF InTx, OInv, Rest, IdsSelected
  <2>3. PICK g, s : g = tx[w].group /\ s = {u \in Members(g) : <<u, g>> \notin tx[w].members}
    OBVIOUS
  <2> DEFINE t == [tx[w] EXCEPT !.ids = s]
  <2>4. t.group = g /\ t.ids = s  BY <2>3, <1>2 DEF Tx
  <2>5. Statement(w, t)  BY <2>3, <1>5 DEF SelectMemberIds
  <2>6. \A p \in member : p[2] = g => p[1] \in s
    <3>1. \A p \in member : p[1] \in Users /\ p = <<p[1], p[2]>>
      BY DEF OInv, IInv, TableTypes
    <3>2. QED  BY <3>1, <2>2, <2>3 DEF Members
  <2> HIDE DEF t
  <2>7. QED  BY <2>1, <2>4, <2>5, <2>6, <1>1, StatementRest
<1>6. CASE DelMsgs(w)
  <2>1. pipe[w][1].kind \in Before \ {"begin", "member_ids"} /\ ~tx[w].failed
    BY <1>1, <1>6 DEF DelMsgs, First, Before, TxKinds
  <2> DEFINE t == [tx[w] EXCEPT !.msgs = MsgsOf(tx[w].group)]
  <2>2. t.ids = tx[w].ids /\ t.group = tx[w].group  BY <1>2 DEF Tx
  <2>3. Statement(w, t)  BY <1>6 DEF DelMsgs
  <2> HIDE DEF t
  <2>4. QED  BY <2>1, <2>2, <2>3, <1>1, LaterRest
<1>7. CASE DelMembers(w)
  <2>1. pipe[w][1].kind \in Before \ {"begin", "member_ids"} /\ ~tx[w].failed
    BY <1>1, <1>7 DEF DelMembers, First, Before, TxKinds
  <2> DEFINE t == [tx[w] EXCEPT !.members = Members(tx[w].group) \X {tx[w].group}]
  <2>2. t.ids = tx[w].ids /\ t.group = tx[w].group  BY <1>2 DEF Tx
  <2>3. Statement(w, t) \/ Statement(w, Failed(w))  BY <1>7 DEF DelMembers
  <2> HIDE DEF t
  <2>4. QED  BY <2>1, <2>2, <2>3, <1>1, LaterRest, FailedRest
<1>8. CASE DelCodes(w)
  <2>1. pipe[w][1].kind \in Before \ {"begin", "member_ids"} /\ ~tx[w].failed
    BY <1>1, <1>8 DEF DelCodes, First, Before, TxKinds
  <2> DEFINE t == [tx[w] EXCEPT !.codes = CodesOf(tx[w].group)]
  <2>2. t.ids = tx[w].ids /\ t.group = tx[w].group  BY <1>2 DEF Tx
  <2>3. Statement(w, t)  BY <1>8 DEF DelCodes
  <2> HIDE DEF t
  <2>4. QED  BY <2>1, <2>2, <2>3, <1>1, LaterRest
<1>9. CASE DelGroup(w)
  <2>1. pipe[w][1].kind \in Before \ {"begin", "member_ids"} /\ ~tx[w].failed
    BY <1>1, <1>9 DEF DelGroup, First, Before, TxKinds
  <2> DEFINE t == [tx[w] EXCEPT !.dropped = TRUE]
  <2>2. t.ids = tx[w].ids /\ t.group = tx[w].group  BY <1>2 DEF Tx
  <2>3. Statement(w, t) \/ Statement(w, Failed(w))  BY <1>9 DEF DelGroup
  <2> HIDE DEF t
  <2>4. QED  BY <2>1, <2>2, <2>3, <1>1, LaterRest, FailedRest
<1>10. QED  BY <1>3, <1>4, <1>5, <1>6, <1>7, <1>8, <1>9

-----------------------------------------------------------------------------
(* Messages come, are shown and go                                           *)

(* Everything but ViewInv, for these steps.                                  *)
LEMMA AnswerRest ==
  ASSUME OInv, IInv', OneWorker, NEW w \in Workers, pipe[w] # <<>>,
         pipe[w][1].kind \notin Before,
         NEW more \in Seq(Query), \A j \in 1 .. Len(more) : more[j].kind # "join_code_update",
         Answered(w, more), tx' = tx \/ tx' = [tx EXCEPT ![w] = NoTx],
         pipe[w][1].kind = "commit" => tx' = [tx EXCEPT ![w] = NoTx],
         HistTypes', UsesCounted', ViewInv'
  PROVE  Rest'
<1>1. tx'[w] = NoTx
  <2>1. CASE tx' = [tx EXCEPT ![w] = NoTx]  BY <2>1 DEF OInv, IInv, TxTypes
  <2>2. CASE tx' # [tx EXCEPT ![w] = NoTx]
    <3>1. ~InTx(w)  BY <2>2 DEF InTx, Inside, Before
    <3>2. QED  BY <3>1, <2>2 DEF OInv, IInv, TxStages
  <2>3. QED  BY <2>1, <2>2
<1>2. QED  BY <1>1, NoTxSelected, AnsweredCodeRead DEF Rest

(* What is left of the pipeline still goes to the right group.               *)
LEMMA OldNewsMatch ==
  ASSUME OInv, NEW w \in Workers, NEW more \in Seq(Query), pipe'[w] \in Seq(Query),
         Moves(pipe[w], pipe'[w], 1, more),
         NEW i \in 1 .. Len(pipe'[w]), NEW m \in Msgs,
         IsNews(pipe'[w][i], "msg", m) \/ IsNews(pipe'[w][i], "delete_msg", m)
  PROVE  \/ msg[m].life # "none" /\ pipe'[w][i].group = msg[m].group
         \/ \E j \in 1 .. Len(more) : pipe'[w][i] = more[j]
<1>1. pipe[w] \in Seq(Query)  BY DEF OInv, IInv, PipeTypes
<1>2. pipe'[w][i].kind = "broadcast"  BY DEF IsNews
<1>3. \/ i + 1 \in 1 .. Len(pipe[w]) /\ pipe'[w][i] = pipe[w][i + 1]
      \/ \E j \in 1 .. Len(more) : pipe'[w][i] = more[j]
  <2>1. PICK p \in Seq(Query), r \in Seq(Query) : p = pipe[w] /\ r = pipe'[w]  BY <1>1
  <2>2. Moves(p, r, 1, more) /\ i \in 1 .. Len(r) /\ r[i].kind = "broadcast"  BY <1>2, <2>1
  <2>3. \/ i + 1 \in 1 .. Len(p) /\ r[i] = p[i + 1]
        \/ \E j \in 1 .. Len(more) : r[i] = more[j]
    BY <2>2, NewsFrom
  <2>4. QED  BY <2>1, <2>3
<1>4. ASSUME NEW j \in 1 .. Len(pipe[w]), pipe'[w][i] = pipe[w][j]
      PROVE  msg[m].life # "none" /\ pipe'[w][i].group = msg[m].group
  BY <1>4 DEF OInv, Rest, ViewInv, NewsMatch
<1>5. QED  BY <1>3, <1>4

LEMMA SeenAfter ==
  ASSUME OneWorker, NEW w \in Workers,
         \A m \in Msgs : \A u \in audience'[m] : (msg'[m].life = "gone" /\ m \in view'[u]) =>
           grp'[msg'[m].group].life = "live" /\ Pending(pipe'[w], m)
  PROVE  SeenIsPending'
BY DEF OneWorker, SeenIsPending, Pending, IsNews, LiveGroup

LEMMA BroadcastView ==
  ASSUME OInv, OneWorker, NEW w \in Workers, Broadcast(w)
  PROVE  ViewInv'
<1>1. /\ pipe[w] # <<>> /\ Head(pipe[w]) = pipe[w][1] /\ QueryOK(pipe[w][1])
      /\ pipe[w][1].kind = "broadcast" /\ 1 \in 1 .. Len(pipe[w])
  BY FirstQuery DEF Broadcast, First, OInv
<1>2. /\ Answered(w, <<>>) /\ UNCHANGED <<grp, member, msg>> /\ UNCHANGED audience
  BY DEF Broadcast, tables, hist
<1>14. PICK more \in Seq(Query) : more = <<>> /\ \A j \in 1 .. Len(more) : FALSE
  <2>1. <<>> \in Seq(Query) /\ Len(<<>>) = 0  BY NothingMore
  <2>2. \A j \in 1 .. Len(<<>>) : FALSE  BY <2>1
  <2>3. QED  BY <2>1, <2>2
<1>3. pipe[w] \in Seq(Query) /\ pipe'[w] \in Seq(Query) /\ Moves(pipe[w], pipe'[w], 1, more)
  BY <1>1, <1>2, <1>14, AnsweredMove DEF OInv, IInv
<1>4. \A v \in Workers : v = w  BY DEF OneWorker
<1>5. PICK a \in News, g \in Groups :
        pipe[w][1].arg = a /\ pipe[w][1].group = g /\ (a.what = "msg" => a.msg \in Msgs)
  BY <1>1 DEF QueryOK
<1>6. a.what \in {"msg", "delete_msg", "join"} /\ a = [what |-> a.what, msg |-> a.msg]
  BY DEF News
<1>7. \A u \in Users :
        /\ u \notin Members(g) \/ a.what = "join" => view'[u] = view[u]
        /\ u \in Members(g) /\ a.what = "msg" => view'[u] = view[u] \cup {a.msg}
        /\ u \in Members(g) /\ a.what = "delete_msg" => view'[u] = view[u] \ {a.msg}
  <2>1. PICK q : q = Head(pipe[w]) /\ q.group = g /\ q.arg = a  BY <1>1, <1>5
  <2>2. view' = [u \in Users |->
          IF u \notin Members(q.group) THEN view[u]
          ELSE CASE q.arg.what = "msg"        -> view[u] \cup {q.arg.msg}
                 [] q.arg.what = "delete_msg" -> view[u] \ {q.arg.msg}
                 [] q.arg.what = "join"       -> view[u]]
    BY <2>1 DEF Broadcast
  <2>3. \A u \in Users : view'[u] =
          IF u \notin Members(q.group) THEN view[u]
          ELSE CASE q.arg.what = "msg"        -> view[u] \cup {q.arg.msg}
                 [] q.arg.what = "delete_msg" -> view[u] \ {q.arg.msg}
                 [] q.arg.what = "join"       -> view[u]
    BY <2>2
  <2>4. QED  BY <2>1, <2>3, <1>6
<1>8. audience \in [Msgs -> SUBSET Users]  BY DEF OInv, Rest, HistTypes
<1>9. NewsMatch'
  <2> SUFFICES ASSUME NEW i \in 1 .. Len(pipe'[w]), NEW m \in Msgs,
                      IsNews(pipe'[w][i], "msg", m) \/ IsNews(pipe'[w][i], "delete_msg", m)
               PROVE  msg[m].life # "none" /\ pipe'[w][i].group = msg[m].group
    BY <1>2, <1>4 DEF NewsMatch, IsNews
  <2>1. QED  BY <1>3, <1>14, OldNewsMatch
<1>10. AudienceStays'  BY <1>2 DEF OInv, Rest, ViewInv, AudienceStays, LiveGroup
<1>11. NewsFollowed'
  <2> SUFFICES ASSUME NEW m \in Msgs, msg[m].life = "gone", LiveGroup(msg[m].group)
               PROVE  Followed(pipe'[w], m)
    BY <1>2, FollowedAfter DEF LiveGroup
  <2>1. Followed(pipe[w], m)  BY DEF OInv, Rest, ViewInv, NewsFollowed
  <2>2. QED  BY <2>1, <1>3, <1>14, FollowedStays
<1>12. SeenIsPending'
  <2> SUFFICES ASSUME NEW m \in Msgs, NEW u \in audience[m], msg[m].life = "gone", m \in view'[u]
               PROVE  LiveGroup(msg[m].group) /\ Pending(pipe'[w], m)
    BY <1>2, SeenAfter DEF LiveGroup
  <2>1. u \in Users  BY <1>8
  <2>2. CASE m \in view[u]
    <3>1. LiveGroup(msg[m].group) /\ Pending(pipe[w], m)
      BY <2>2 DEF OInv, Rest, ViewInv, SeenIsPending
    <3>2. ~IsNews(pipe[w][1], "delete_msg", m)
      <4> SUFFICES ASSUME IsNews(pipe[w][1], "delete_msg", m) PROVE FALSE  OBVIOUS
      <4>1. g = msg[m].group  BY <1>1, <1>5 DEF OInv, Rest, ViewInv, NewsMatch
      <4>2. <<u, g>> \in member
        BY <4>1, <3>1 DEF OInv, Rest, ViewInv, AudienceStays
      <4>3. a = [what |-> "delete_msg", msg |-> m]  BY <1>5 DEF IsNews
      <4>4. a.what = "delete_msg" /\ a.msg = m  BY <4>3
      <4>5. view'[u] = view[u] \ {m}  BY <2>1, <4>2, <4>4, <1>7 DEF Members
      <4>6. QED  BY <4>5
    <3>3. QED  BY <3>1, <3>2, <1>3, <1>14, PendingStays
  <2>3. CASE m \notin view[u]
    <3>1. u \in Members(g) /\ a.what = "msg" /\ a.msg = m
      BY <2>1, <2>3, <1>6, <1>7
    <3>2. a = [what |-> "msg", msg |-> m]  BY <3>1, <1>6
    <3>3. IsNews(pipe[w][1], "msg", m)  BY <3>2, <1>1, <1>5 DEF IsNews
    <3>4. g = msg[m].group  BY <3>3, <1>1, <1>5 DEF OInv, Rest, ViewInv, NewsMatch
    <3>5. <<u, g>> \in member  BY <3>1 DEF Members
    <3>6. LiveGroup(g)
      <4>1. \A p \in member : LiveGroup(p[2])  BY DEF OInv, IInv, NoOrphans
      <4>2. LiveGroup(<<u, g>>[2])  BY <3>5, <4>1
      <4>3. QED  BY <4>2
    <3>7. Followed(pipe[w], m)  BY <3>4, <3>6 DEF OInv, Rest, ViewInv, NewsFollowed
    <3>8. QED  BY <3>3, <3>4, <3>6, <3>7, <1>3, <1>14, FollowedIsPending
  <2>4. QED  BY <2>2, <2>3
<1>13. QED  BY <1>9, <1>10, <1>11, <1>12 DEF ViewInv

LEMMA BroadcastRest ==
  ASSUME OInv, IInv', OneWorker, NEW w \in Workers, Broadcast(w)
  PROVE  Rest'
<1>1. pipe[w] # <<>> /\ pipe[w][1].kind = "broadcast"
  BY FirstQuery DEF Broadcast, First, OInv
<1>2. Answered(w, <<>>) /\ UNCHANGED <<code, tx>> /\ UNCHANGED hist
  BY DEF Broadcast, tables
<1>3. HistTypes' /\ UNCHANGED <<audience, byCode>>  BY <1>2, SameHist
<1>4. UsesCounted'  BY <1>2, <1>3, SameUses
<1>5. pipe[w][1].kind \notin Before /\ pipe[w][1].kind # "commit"  BY <1>1 DEF Before, TxKinds
<1>6. QED  BY <1>1, <1>2, <1>3, <1>4, <1>5, NothingMore, BroadcastView, AnswerRest

(* The broadcast about a message.                                            *)
SoleQuery(s, q) == s = <<q>> /\ <<q>> \in Seq(Query) /\ Len(<<q>>) = 1 /\ <<q>>[1] = q
                     /\ \A j \in 1 .. Len(<<q>>) : <<q>>[j] = q

LEMMA MsgNews ==
  ASSUME NEW g \in Groups, NEW what \in {"msg", "delete_msg"}, NEW m \in Msgs
  PROVE  \E q \in Query :
           /\ SoleQuery(server_group_broadcast(g, what, m), q)
           /\ IsNews(q, what, m) /\ q.group = g /\ q.kind = "broadcast"
<1> DEFINE n == [what |-> what, msg |-> m]
           q == Q("broadcast", None, g, n)
<1>1. n \in News  BY DEF News
<1>2. server_group_broadcast(g, what, m) = <<q>>  BY DEF server_group_broadcast
<1>3. IsNews(q, what, m) /\ q.group = g /\ q.kind = "broadcast"  BY DEF IsNews, Q
<1> HIDE DEF n
<1>4. q \in Query  BY <1>1 DEF Q, Query, Kinds
<1> HIDE DEF q
<1>5. /\ <<q>> \in Seq(Query) /\ Len(<<q>>) = 1 /\ <<q>>[1] = q
      /\ \A j \in 1 .. Len(<<q>>) : <<q>>[j] = q
  BY <1>4
<1>6. SoleQuery(server_group_broadcast(g, what, m), q)  BY <1>2, <1>5 DEF SoleQuery
<1>7. QED  BY <1>3, <1>4, <1>6

LEMMA InsertMsgRest ==
  ASSUME OInv, IInv', OneWorker, NEW w \in Workers, InsertMsg(w)
  PROVE  Rest'
<1>1. /\ pipe[w] # <<>> /\ Head(pipe[w]) = pipe[w][1] /\ QueryOK(pipe[w][1])
      /\ pipe[w][1].kind = "insert_msg"
  BY FirstQuery DEF InsertMsg, First, OInv
<1>2. /\ pipe[w][1].kind \notin TxKinds \cup {"broadcast"}
      /\ pipe[w][1].kind \notin Before /\ pipe[w][1].kind # "commit"
  BY <1>1 DEF TxKinds, Before
<1>3. PICK u \in Users, g \in Groups : pipe[w][1].user = u /\ pipe[w][1].group = g
  BY <1>1 DEF QueryOK
<1>4. CASE NoEffect(w)  BY <1>1, <1>2, <1>4, NoEffectRest
<1>5. CASE ~NoEffect(w)
  <2>1. PICK n \in Unused(msg) :
          /\ msg' = [msg EXCEPT ![n] = [life |-> "live", user |-> u, group |-> g]]
          /\ audience' = [audience EXCEPT ![n] = Members(g)]
          /\ Answered(w, server_group_broadcast(g, "msg", n))
    BY <1>1, <1>3, <1>5 DEF InsertMsg
  <2>2. /\ <<u, g>> \in member /\ UNCHANGED <<grp, member, code, tx, view>> /\ UNCHANGED byCode
    BY <1>1, <1>3, <1>5 DEF InsertMsg, views
  <2>3. /\ msg \in [Msgs -> [life : Life, user : Users \cup {None}, group : Groups \cup {None}]]
        /\ audience \in [Msgs -> SUBSET Users] /\ n \in Msgs /\ msg[n].life = "none"
    BY <2>1 DEF Unused, OInv, IInv, TableTypes, Rest, HistTypes
  <2>4. /\ msg'[n].life = "live" /\ msg'[n].group = g /\ audience'[n] = Members(g)
        /\ \A m \in Msgs \ {n} : msg'[m] = msg[m] /\ audience'[m] = audience[m]
    BY <2>1, <2>3
  <2>5. Members(g) \subseteq Users  BY DEF Members
  <2>6. HistTypes'  BY <2>1, <2>2, <2>3, <2>5 DEF HistTypes, OInv, Rest
  <2>7. UsesCounted'  BY <2>2, SameUses
  <2>8. PICK q \in Query :
          /\ SoleQuery(server_group_broadcast(g, "msg", n), q)
          /\ IsNews(q, "msg", n) /\ q.group = g /\ q.kind = "broadcast"
    BY <2>3, MsgNews
  <2>9. PICK more \in Seq(Query) : more = <<q>>  BY <2>8 DEF SoleQuery
  <2>10. /\ Answered(w, more) /\ \A j \in 1 .. Len(more) : more[j] = q
    BY <2>1, <2>8, <2>9 DEF SoleQuery
  <2>11. /\ pipe[w] \in Seq(Query) /\ pipe'[w] \in Seq(Query)
         /\ Moves(pipe[w], pipe'[w], 1, more)
    BY <2>10, <1>1, AnsweredMove DEF OInv, IInv
  <2>12. \A v \in Workers : v = w  BY DEF OneWorker
  <2>13. NewsMatch'
    <3> SUFFICES ASSUME NEW i \in 1 .. Len(pipe'[w]), NEW m \in Msgs,
                        IsNews(pipe'[w][i], "msg", m) \/ IsNews(pipe'[w][i], "delete_msg", m)
                 PROVE  msg'[m].life # "none" /\ pipe'[w][i].group = msg'[m].group
      BY <2>12 DEF NewsMatch, IsNews
    <3>1. CASE msg[m].life # "none" /\ pipe'[w][i].group = msg[m].group
      BY <3>1, <2>3, <2>4
    <3>2. CASE \E j \in 1 .. Len(more) : pipe'[w][i] = more[j]
      <4>1. pipe'[w][i] = q  BY <3>2, <2>10
      <4>2. m = n  BY <4>1, <2>3, <2>8, NewsKinds
      <4>3. QED  BY <4>1, <4>2, <2>4, <2>8
    <3>4. \/ msg[m].life # "none" /\ pipe'[w][i].group = msg[m].group
          \/ \E j \in 1 .. Len(more) : pipe'[w][i] = more[j]
      BY <2>11, OldNewsMatch
    <3>3. QED  BY <3>1, <3>2, <3>4
  <2>14. LiveGroup(g)
    <3>1. \A p \in member : LiveGroup(p[2])  BY DEF OInv, IInv, NoOrphans
    <3>2. LiveGroup(<<u, g>>[2])  BY <3>1, <2>2
    <3>3. QED  BY <3>2
  <2>15. AudienceStays'
    <3> SUFFICES ASSUME NEW m \in Msgs, msg'[m].life # "none"
                 PROVE  /\ grp[msg'[m].group].life # "none"
                        /\ LiveGroup(msg'[m].group) =>
                             \A x \in audience'[m] : <<x, msg'[m].group>> \in member
      BY <2>2 DEF AudienceStays, LiveGroup
    <3>1. CASE m = n  BY <3>1, <2>4, <2>14 DEF LiveGroup, Members
    <3>2. CASE m # n  BY <3>2, <2>4 DEF OInv, Rest, ViewInv, AudienceStays
    <3>3. QED  BY <3>1, <3>2
  <2>16. SeenIsPending'
    <3> SUFFICES ASSUME NEW m \in Msgs, NEW x \in audience'[m], msg'[m].life = "gone",
                        m \in view[x]
                 PROVE  LiveGroup(msg'[m].group) /\ Pending(pipe'[w], m)
      BY <2>2, SeenAfter DEF LiveGroup
    <3>1. m # n /\ msg'[m] = msg[m] /\ audience'[m] = audience[m]  BY <2>4
    <3>2. LiveGroup(msg[m].group) /\ Pending(pipe[w], m)
      BY <3>1 DEF OInv, Rest, ViewInv, SeenIsPending
    <3>3. ~IsNews(pipe[w][1], "delete_msg", m)  BY <1>1 DEF IsNews
    <3>4. QED  BY <3>1, <3>2, <3>3, <2>11, PendingStays
  <2>17. NewsFollowed'
    <3> SUFFICES ASSUME NEW m \in Msgs, msg'[m].life = "gone", LiveGroup(msg'[m].group)
                 PROVE  Followed(pipe'[w], m)
      BY <2>2, FollowedAfter DEF LiveGroup
    <3>1. m # n /\ msg'[m] = msg[m]  BY <2>4
    <3>2. Followed(pipe[w], m)  BY <3>1 DEF OInv, Rest, ViewInv, NewsFollowed
    <3>3. ~IsNews(q, "msg", m)  BY <3>1, <2>3, <2>8, NewsKinds
    <3>4. QED  BY <3>2, <3>3, <2>10, <2>11, FollowedStays
  <2>18. ViewInv'  BY <2>13, <2>15, <2>16, <2>17 DEF ViewInv
  <2>19. \A j \in 1 .. Len(more) : more[j].kind # "join_code_update"  BY <2>8, <2>10
  <2>20. QED  BY <2>2, <2>6, <2>7, <2>10, <2>18, <2>19, <1>1, <1>2, AnswerRest
<1>6. QED  BY <1>4, <1>5

LEMMA DeleteMsgRest ==
  ASSUME OInv, IInv', OneWorker, NEW w \in Workers, DeleteMsg(w)
  PROVE  Rest'
<1>1. /\ pipe[w] # <<>> /\ Head(pipe[w]) = pipe[w][1] /\ QueryOK(pipe[w][1])
      /\ pipe[w][1].kind = "delete_msg"
  BY FirstQuery DEF DeleteMsg, First, OInv
<1>2. /\ pipe[w][1].kind \notin TxKinds \cup {"broadcast"}
      /\ pipe[w][1].kind \notin Before /\ pipe[w][1].kind # "commit"
  BY <1>1 DEF TxKinds, Before
<1>3. PICK n \in Msgs : pipe[w][1].arg = n  BY <1>1 DEF QueryOK
<1>4. CASE NoEffect(w)  BY <1>1, <1>2, <1>4, NoEffectRest
<1>5. CASE ~NoEffect(w)
  <2>1. /\ msg[n].life = "live" /\ msg' = [msg EXCEPT ![n].life = "gone"]
        /\ Answered(w, server_group_broadcast(msg[n].group, "delete_msg", n))
        /\ UNCHANGED <<grp, member, code, tx, view>> /\ UNCHANGED hist
    BY <1>1, <1>3, <1>5 DEF DeleteMsg, views
  <2>2. HistTypes' /\ UNCHANGED <<audience, byCode>>  BY <2>1, SameHist
  <2>3. UsesCounted'  BY <2>1, <2>2, SameUses
  <2>4. msg \in [Msgs -> [life : Life, user : Users \cup {None}, group : Groups \cup {None}]]
    BY DEF OInv, IInv, TableTypes
  <2>5. /\ msg'[n].life = "gone" /\ msg'[n].group = msg[n].group
        /\ \A m \in Msgs \ {n} : msg'[m] = msg[m]
    BY <2>1, <2>4
  <2>6. PICK g \in Groups : g = msg[n].group  BY <2>1 DEF OInv, IInv, TableTypes
  <2>7. LiveGroup(g)
    <3>1. /\ <<msg[n].user, g>> \in member /\ \A p \in member : LiveGroup(p[2])
      BY <2>1, <2>6 DEF OInv, IInv, NoOrphans
    <3>2. LiveGroup(<<msg[n].user, g>>[2])  BY <3>1
    <3>3. QED  BY <3>2
  <2>8. PICK q \in Query :
          /\ SoleQuery(server_group_broadcast(g, "delete_msg", n), q)
          /\ IsNews(q, "delete_msg", n) /\ q.group = g /\ q.kind = "broadcast"
    BY MsgNews
  <2>9. PICK more \in Seq(Query) : more = <<q>>  BY <2>8 DEF SoleQuery
  <2>10. /\ Answered(w, more) /\ \A j \in 1 .. Len(more) : more[j] = q
         /\ Len(more) = 1 /\ more[1] = q
    BY <2>1, <2>6, <2>8, <2>9 DEF SoleQuery
  <2>11. /\ pipe[w] \in Seq(Query) /\ pipe'[w] \in Seq(Query)
         /\ Moves(pipe[w], pipe'[w], 1, more)
    BY <2>10, <1>1, AnsweredMove DEF OInv, IInv
  <2>12. \A v \in Workers : v = w  BY DEF OneWorker
  <2>13. \A m \in Msgs : msg'[m].group = msg[m].group /\ (msg'[m].life = "none" <=> msg[m].life = "none")
    BY <2>1, <2>5
  <2>14. NewsMatch'
    <3> SUFFICES ASSUME NEW i \in 1 .. Len(pipe'[w]), NEW m \in Msgs,
                        IsNews(pipe'[w][i], "msg", m) \/ IsNews(pipe'[w][i], "delete_msg", m)
                 PROVE  msg'[m].life # "none" /\ pipe'[w][i].group = msg'[m].group
      BY <2>12 DEF NewsMatch, IsNews
    <3>1. CASE msg[m].life # "none" /\ pipe'[w][i].group = msg[m].group
      BY <3>1, <2>13
    <3>2. CASE \E j \in 1 .. Len(more) : pipe'[w][i] = more[j]
      <4>1. pipe'[w][i] = q  BY <3>2, <2>10
      <4>2. m = n  BY <4>1, <2>8, NewsKinds
      <4>3. QED  BY <4>1, <4>2, <2>5, <2>6, <2>8
    <3>4. \/ msg[m].life # "none" /\ pipe'[w][i].group = msg[m].group
          \/ \E j \in 1 .. Len(more) : pipe'[w][i] = more[j]
      BY <2>11, OldNewsMatch
    <3>3. QED  BY <3>1, <3>2, <3>4
  <2>15. AudienceStays'
    <3> SUFFICES ASSUME NEW m \in Msgs, msg'[m].life # "none"
                 PROVE  /\ grp[msg'[m].group].life # "none"
                        /\ LiveGroup(msg'[m].group) =>
                             \A x \in audience[m] : <<x, msg'[m].group>> \in member
      BY <2>1, <2>2 DEF AudienceStays, LiveGroup
    <3>1. QED  BY <2>13 DEF OInv, Rest, ViewInv, AudienceStays
  <2>16. SeenIsPending'
    <3> SUFFICES ASSUME NEW m \in Msgs, NEW x \in audience[m], msg'[m].life = "gone",
                        m \in view[x]
                 PROVE  LiveGroup(msg'[m].group) /\ Pending(pipe'[w], m)
      BY <2>1, <2>2, SeenAfter DEF LiveGroup
    <3>1. CASE m = n
      <4>1. IsNews(more[1], "delete_msg", m)  BY <3>1, <2>8, <2>10
      <4>2. Pending(pipe'[w], m)  BY <4>1, <2>10, <2>11, LastIsPending
      <4>3. QED  BY <3>1, <4>2, <2>5, <2>6, <2>7
    <3>2. CASE m # n
      <4>1. LiveGroup(msg[m].group) /\ Pending(pipe[w], m)
        BY <3>2, <2>5 DEF OInv, Rest, ViewInv, SeenIsPending
      <4>2. ~IsNews(pipe[w][1], "delete_msg", m)  BY <1>1 DEF IsNews
      <4>3. QED  BY <3>2, <4>1, <4>2, <2>5, <2>11, PendingStays
    <3>3. QED  BY <3>1, <3>2
  <2>17. NewsFollowed'
    <3> SUFFICES ASSUME NEW m \in Msgs, msg'[m].life = "gone", LiveGroup(msg'[m].group)
                 PROVE  Followed(pipe'[w], m)
      BY <2>1, FollowedAfter DEF LiveGroup
    <3>1. CASE m = n
      <4>1. IsNews(more[1], "delete_msg", m)  BY <3>1, <2>8, <2>10
      <4>2. QED  BY <4>1, <2>10, <2>11, LastIsPending
    <3>2. CASE m # n
      <4>1. Followed(pipe[w], m)  BY <3>2, <2>5 DEF OInv, Rest, ViewInv, NewsFollowed
      <4>2. ~IsNews(q, "msg", m)  BY <2>8, NewsKinds
      <4>3. QED  BY <4>1, <4>2, <2>10, <2>11, FollowedStays
    <3>3. QED  BY <3>1, <3>2
  <2>18. ViewInv'  BY <2>14, <2>15, <2>16, <2>17 DEF ViewInv
  <2>19. \A j \in 1 .. Len(more) : more[j].kind # "join_code_update"  BY <2>8, <2>10
  <2>20. QED  BY <2>1, <2>2, <2>3, <2>10, <2>18, <2>19, <1>1, <1>2, AnswerRest
<1>6. QED  BY <1>4, <1>5

(* COMMIT takes the messages of the group out of the views of all members.   *)
LEMMA CommitView ==
  ASSUME OInv, OneWorker, NEW w \in Workers, Commit(w), ~tx[w].failed
  PROVE  ViewInv'
<1>1. /\ pipe[w] # <<>> /\ Head(pipe[w]) = pipe[w][1] /\ pipe[w][1].kind = "commit"
  BY FirstQuery DEF Commit, First, OInv
<1>2. PICK t \in Tx : t = tx[w]  BY DEF OInv, IInv, TxTypes
<1>3. /\ Answered(w, <<>>)
      /\ grp' = [grp EXCEPT ![t.group].life = "gone"]
      /\ member' = member \ t.members
      /\ msg' = [m \in Msgs |-> IF m \in t.msgs THEN [msg[m] EXCEPT !.life = "gone"] ELSE msg[m]]
      /\ view' = [u \in Users |-> IF u \in t.ids
                                  THEN {m \in view[u] : msg[m].group # t.group} ELSE view[u]]
      /\ UNCHANGED audience
  BY <1>2 DEF Commit, hist
<1>4. PICK more \in Seq(Query) : more = <<>> /\ \A j \in 1 .. Len(more) : FALSE
  <2>1. <<>> \in Seq(Query) /\ Len(<<>>) = 0  BY NothingMore
  <2>2. \A j \in 1 .. Len(<<>>) : FALSE  BY <2>1
  <2>3. QED  BY <2>1, <2>2
<1>5. pipe[w] \in Seq(Query) /\ pipe'[w] \in Seq(Query) /\ Moves(pipe[w], pipe'[w], 1, more)
  BY <1>1, <1>3, <1>4, AnsweredMove DEF OInv, IInv
<1>6. \A v \in Workers : v = w  BY DEF OneWorker
<1>7. InTx(w)  BY <1>1 DEF InTx, Inside, TxKinds
<1>8. /\ t.group \in Groups /\ grp[t.group].life # "none"
      /\ \A p \in t.members : p[2] = t.group
      /\ \A m \in t.msgs : m \in Msgs /\ msg[m].life = "live" /\ msg[m].group = t.group
  BY <1>2, <1>7, TxGroup DEF OInv, IInv, RowsHeld, Tx
<1>9. \A p \in member : p[2] = t.group => p[1] \in t.ids
  BY <1>1, <1>2, <1>7 DEF OInv, Rest, IdsSelected
<1>10. audience \in [Msgs -> SUBSET Users]  BY DEF OInv, Rest, HistTypes
<1>11. /\ grp'[t.group].life = "gone"
       /\ \A g \in Groups \ {t.group} : grp'[g] = grp[g]
  BY <1>3, <1>8 DEF OInv, IInv, TableTypes
<1>12. \A m \in Msgs : msg'[m].group = msg[m].group /\ (msg'[m].life = "none" <=> msg[m].life = "none")
  <2>1. msg \in [Msgs -> [life : Life, user : Users \cup {None}, group : Groups \cup {None}]]
    BY DEF OInv, IInv, TableTypes
  <2>2. ASSUME NEW m \in Msgs, m \in t.msgs
        PROVE  /\ msg'[m].group = msg[m].group
               /\ (msg'[m].life = "none" <=> msg[m].life = "none")
    <3>1. msg'[m] = [msg[m] EXCEPT !.life = "gone"]  BY <2>2, <1>3
    <3>2. msg'[m].group = msg[m].group /\ msg'[m].life = "gone"  BY <3>1, <2>1
    <3>3. QED  BY <3>2, <2>2, <1>8
  <2>3. QED  BY <2>2, <1>3
<1>13. \A m \in Msgs : msg[m].group # t.group => msg'[m] = msg[m]  BY <1>3, <1>8
<1>14. \A m \in Msgs : msg[m].life # "none" => msg[m].group \in Groups
  BY DEF OInv, IInv, TableTypes
<1>15. NewsMatch'
  <2> SUFFICES ASSUME NEW i \in 1 .. Len(pipe'[w]), NEW m \in Msgs,
                      IsNews(pipe'[w][i], "msg", m) \/ IsNews(pipe'[w][i], "delete_msg", m)
               PROVE  msg'[m].life # "none" /\ pipe'[w][i].group = msg'[m].group
    BY <1>6 DEF NewsMatch, IsNews
  <2>1. msg[m].life # "none" /\ pipe'[w][i].group = msg[m].group
    BY <1>4, <1>5, OldNewsMatch
  <2>2. QED  BY <2>1, <1>12
<1>16. AudienceStays'
  <2> SUFFICES ASSUME NEW m \in Msgs, msg[m].life # "none"
               PROVE  /\ grp'[msg[m].group].life # "none"
                      /\ grp'[msg[m].group].life = "live" =>
                           \A u \in audience[m] : <<u, msg[m].group>> \in member'
    BY <1>3, <1>12 DEF AudienceStays, LiveGroup
  <2>1. /\ grp[msg[m].group].life # "none"
        /\ LiveGroup(msg[m].group) => \A u \in audience[m] : <<u, msg[m].group>> \in member
    BY DEF OInv, Rest, ViewInv, AudienceStays
  <2>2. CASE msg[m].group = t.group  BY <2>2, <1>11
  <2>3. CASE msg[m].group # t.group
    <3>1. grp'[msg[m].group] = grp[msg[m].group]  BY <2>3, <1>11, <1>14
    <3>2. \A u \in audience[m] : <<u, msg[m].group>> \notin t.members
      <4> SUFFICES ASSUME NEW u \in audience[m], <<u, msg[m].group>> \in t.members PROVE FALSE
        OBVIOUS
      <4>1. <<u, msg[m].group>>[2] = t.group  BY <1>8
      <4>2. QED  BY <4>1, <2>3
    <3>3. QED  BY <2>1, <3>1, <3>2, <1>3 DEF LiveGroup
  <2>4. QED  BY <2>2, <2>3
<1>17. SeenIsPending'
  <2> SUFFICES ASSUME NEW m \in Msgs, NEW u \in audience[m], msg'[m].life = "gone", m \in view'[u]
               PROVE  grp'[msg'[m].group].life = "live" /\ Pending(pipe'[w], m)
    BY <1>3, SeenAfter
  <2>1. /\ u \in Users /\ m \in view[u]
        /\ u \in t.ids => msg[m].group # t.group
    BY <1>3, <1>10
  <2>2. msg[m].group # t.group
    <3> SUFFICES ASSUME msg[m].group = t.group PROVE FALSE  OBVIOUS
    <3>1. msg[m].life # "none"  BY <1>12
    <3>2. ~LiveGroup(t.group)
      <4> SUFFICES ASSUME LiveGroup(t.group) PROVE FALSE  OBVIOUS
      <4>1. <<u, t.group>> \in member  BY <3>1 DEF OInv, Rest, ViewInv, AudienceStays
      <4>2. <<u, t.group>>[1] \in t.ids
        <5>1. <<u, t.group>>[2] = t.group  OBVIOUS
        <5>2. QED  BY <4>1, <5>1, <1>9
      <4>3. QED  BY <4>2, <2>1
    <3>3. msg[m].life # "live"
      <4> SUFFICES ASSUME msg[m].life = "live" PROVE FALSE  OBVIOUS
      <4>1. /\ <<msg[m].user, t.group>> \in member /\ \A p \in member : LiveGroup(p[2])
        BY DEF OInv, IInv, NoOrphans
      <4>2. LiveGroup(<<msg[m].user, t.group>>[2])  BY <4>1
      <4>3. QED  BY <4>2, <3>2
    <3>4. msg[m].life = "gone"
      <4>1. msg[m].life \in Life  BY DEF OInv, IInv, TableTypes
      <4>2. QED  BY <4>1, <3>1, <3>3 DEF Life
    <3>5. LiveGroup(msg[m].group)  BY <3>4, <2>1 DEF OInv, Rest, ViewInv, SeenIsPending
    <3>6. QED  BY <3>2, <3>5
  <2>3. msg'[m] = msg[m] /\ msg[m].group \in Groups  BY <2>2, <1>12, <1>13, <1>14
  <2>4. LiveGroup(msg[m].group) /\ Pending(pipe[w], m)
    BY <2>1, <2>3 DEF OInv, Rest, ViewInv, SeenIsPending
  <2>5. ~IsNews(pipe[w][1], "delete_msg", m)  BY <1>1 DEF IsNews
  <2>6. Pending(pipe'[w], m)  BY <2>4, <2>5, <1>5, PendingStays
  <2>7. QED  BY <2>2, <2>3, <2>4, <2>6, <1>11 DEF LiveGroup
<1>18. NewsFollowed'
  <2> SUFFICES ASSUME NEW m \in Msgs, msg'[m].life = "gone", grp'[msg'[m].group].life = "live"
               PROVE  Followed(pipe'[w], m)
    BY FollowedAfter
  <2>1. msg[m].group # t.group  BY <1>11, <1>12
  <2>2. msg'[m] = msg[m] /\ grp'[msg[m].group] = grp[msg[m].group]
    BY <2>1, <1>11, <1>12, <1>13, <1>14
  <2>3. Followed(pipe[w], m)
    BY <2>2 DEF OInv, Rest, ViewInv, NewsFollowed, LiveGroup
  <2>4. QED  BY <2>3, <1>4, <1>5, FollowedStays
<1>19. QED  BY <1>15, <1>16, <1>17, <1>18 DEF ViewInv

LEMMA CommitRest ==
  ASSUME OInv, IInv', OneWorker, NEW w \in Workers, Commit(w)
  PROVE  Rest'
<1>1. /\ pipe[w] # <<>> /\ pipe[w][1].kind = "commit"
  BY FirstQuery DEF Commit, First, OInv
<1>2. Answered(w, <<>>) /\ tx' = [tx EXCEPT ![w] = NoTx] /\ UNCHANGED hist  BY DEF Commit
<1>3. HistTypes' /\ UNCHANGED <<audience, byCode>>  BY <1>2, SameHist
<1>4. pipe[w][1].kind \notin Before /\ pipe[w][1].kind # "broadcast"  BY <1>1 DEF Before
<1>5. CASE tx[w].failed
  <2>1. UNCHANGED <<grp, member, msg, code, view>>  BY <1>5 DEF Commit, tables, views
  <2>2. UsesCounted'  BY <2>1, <1>3, SameUses
  <2>3. Quiet  BY <2>1, <1>3, SameIsQuiet
  <2>4. pipe'[w] \in Seq(Query) /\ Moves(pipe[w], pipe'[w], 1, <<>>)
    BY <1>1, <1>2, NothingMore, AnsweredMove DEF OInv, IInv
  <2>5. ViewInv'  BY <2>3, <2>4, <1>4, NothingMore, QuietKeeps
  <2>6. QED  BY <2>2, <2>5, <1>1, <1>2, <1>3, <1>4, NothingMore, AnswerRest
<1>6. CASE ~tx[w].failed
  <2>1. ViewInv'  BY <1>6, CommitView
  <2>2. \A c \in Codes : /\ code'[c].uses = code[c].uses /\ code'[c].max = code[c].max
                         /\ \/ code'[c].life = code[c].life
                            \/ code[c].life = "live" /\ code'[c].life = "gone"
    <3>1. code' = [c \in Codes |-> IF c \in tx[w].codes THEN [code[c] EXCEPT !.life = "gone"]
                                   ELSE code[c]]
      BY <1>6 DEF Commit
    <3>2. code \in [Codes -> [life : Life, group : Groups \cup {None}, uses : Nat, max : Int]]
      BY DEF OInv, IInv, TableTypes
    <3>3. \A c \in tx[w].codes : code[c].life = "live"  BY DEF OInv, IInv, RowsHeld
    <3>4. ASSUME NEW c \in Codes
          PROVE  /\ code'[c].uses = code[c].uses /\ code'[c].max = code[c].max
                 /\ \/ code'[c].life = code[c].life
                    \/ code[c].life = "live" /\ code'[c].life = "gone"
      <4>1. CASE c \notin tx[w].codes  BY <4>1, <3>1
      <4>2. CASE c \in tx[w].codes
        <5>1. code'[c] = [code[c] EXCEPT !.life = "gone"]  BY <4>2, <3>1
        <5>2. QED  BY <5>1, <4>2, <3>2, <3>3
      <4>3. QED  BY <4>1, <4>2
    <3>5. QED  BY <3>4
  <2>3. UsesCounted'  BY <2>2, <1>3, GoneUses
  <2>4. QED  BY <2>1, <2>3, <1>1, <1>2, <1>3, <1>4, NothingMore, AnswerRest
<1>7. QED  BY <1>5, <1>6

-----------------------------------------------------------------------------
LEMMA InitRest == ASSUME Init PROVE OInv
<1>1. IInv  BY InitHolds
<1>2. /\ \A w \in Workers : pipe[w] = <<>> /\ Len(pipe[w]) = 0
      /\ \A m \in Msgs : msg[m].life = "none" /\ audience[m] = {}
      /\ audience \in [Msgs -> SUBSET Users] /\ byCode = {}
      /\ \A c \in Codes : code[c].life = "none" /\ code[c].uses = 0
  BY DEF Init
<1>3. HistTypes  BY <1>2, FS_EmptySet DEF HistTypes
<1>4. IdsSelected  BY <1>2 DEF IdsSelected, InTx
<1>5. CodeRead
  <2>1. \A w \in Workers : \A i \in 1 .. Len(pipe[w]) : FALSE  BY <1>2
  <2>2. QED  BY <2>1 DEF CodeRead
<1>6. UsesCounted
  <2>1. \A c \in Codes : Uses(c) = {}  BY <1>2 DEF Uses
  <2>2. Cardinality({}) = 0  BY FS_EmptySet
  <2>3. \A c \in Codes : Cardinality(Uses(c)) = 0  BY <2>1, <2>2
  <2>4. QED  BY <2>3, <1>2 DEF UsesCounted
<1>7. ViewInv
  <2>1. \A w \in Workers : \A i \in 1 .. Len(pipe[w]) : FALSE  BY <1>2
  <2>2. NewsMatch  BY <2>1 DEF NewsMatch
  <2>3. AudienceStays /\ SeenIsPending /\ NewsFollowed
    BY <1>2 DEF AudienceStays, SeenIsPending, NewsFollowed
  <2>4. QED  BY <2>2, <2>3 DEF ViewInv
<1>8. QED  BY <1>1, <1>3, <1>4, <1>5, <1>6, <1>7 DEF OInv, Rest

LEMMA StutterRest == ASSUME OInv, UNCHANGED vars PROVE Rest'
<1>1. /\ UNCHANGED <<grp, member, msg, code, pipe, tx>>
      /\ UNCHANGED <<view, audience, byCode>>
  BY DEF vars
<1>2. HistTypes'  BY <1>1 DEF OInv, Rest, HistTypes
<1>3. IdsSelected'  BY <1>1 DEF OInv, Rest, IdsSelected, InTx
<1>4. CodeRead'  BY <1>1 DEF OInv, Rest, CodeRead
<1>5. UsesCounted'  BY <1>1, SameUses
<1>6. NewsMatch'  BY <1>1 DEF OInv, Rest, ViewInv, NewsMatch, IsNews
<1>7. AudienceStays'  BY <1>1 DEF OInv, Rest, ViewInv, AudienceStays, LiveGroup
<1>8. SeenIsPending'
  BY <1>1 DEF OInv, Rest, ViewInv, SeenIsPending, Pending, IsNews, LiveGroup
<1>9. NewsFollowed'
  BY <1>1 DEF OInv, Rest, ViewInv, NewsFollowed, Followed, IsNews, LiveGroup
<1>10. QED  BY <1>2, <1>3, <1>4, <1>5, <1>6, <1>7, <1>8, <1>9 DEF Rest, ViewInv

LEMMA NextRest == ASSUME OneWorker, OInv, [Next]_vars PROVE OInv'
<1>1. IInv'  BY NextKeeps DEF OInv
<1>2. CASE UNCHANGED vars  BY <1>1, <1>2, StutterRest DEF OInv
<1>3. ASSUME NEW w \in Workers, Request(w) \/ Execute(w) PROVE Rest'
  <2>1. CASE Request(w)  BY <2>1, <1>1, RequestRest
  <2>2. CASE CreateGroup(w) \/ SendGroups(w) \/ SendMsgs(w) \/ Broadcast(w)
    BY <2>2, <1>1, CreateGroupRest, SendGroupsRest, SendMsgsRest, BroadcastRest
  <2>3. CASE JoinPublic(w) \/ JoinCodeReads(w) \/ JoinCodeUpdates(w)
    BY <2>3, <1>1, JoinPublicRest, JoinCodeReadsRest, JoinCodeUpdatesRest
  <2>4. CASE InsertMsg(w) \/ DeleteMsg(w) \/ CreateCode(w) \/ DeleteCode(w)
    BY <2>4, <1>1, InsertMsgRest, DeleteMsgRest, CreateCodeRest, DeleteCodeRest
  <2>5. CASE CheckOwner(w) \/ DeadlockFailsMsg(w) \/ Commit(w)
    BY <2>5, <1>1, CheckOwnerRest, DeadlockFailsMsgRest, CommitRest
  <2>6. CASE \/ Begin(w) \/ Skipped(w) \/ SelectMemberIds(w) \/ DelMsgs(w)
             \/ DelMembers(w) \/ DelCodes(w) \/ DelGroup(w)
    BY <2>6, <1>1, TxRest
  <2>7. QED  BY <2>1, <2>2, <2>3, <2>4, <2>5, <2>6, <1>3 DEF Execute
<1>4. QED  BY <1>1, <1>2, <1>3 DEF Next, OInv

LEMMA OneWorkerInvariant == ASSUME OneWorker PROVE Spec => []OInv
<1>1. Init => OInv  BY InitRest
<1>2. OInv /\ [Next]_vars => OInv'  BY NextRest
<1>3. QED  BY <1>1, <1>2, PTL DEF Spec

(* With one worker, a code with a limit lets no more users in than its       *)
(* max_uses (insert_groupmember_code.sql, delete_groupcode_if_over_max).     *)
THEOREM CodeUsesBoundedHolds == ASSUME OneWorker PROVE Spec => []CodeUsesBounded
<1>1. OInv => CodeUsesBounded
  <2> SUFFICES ASSUME OInv, NEW c \in Codes, code[c].life # "none", code[c].max > 0
               PROVE  Cardinality(Uses(c)) <= code[c].max
    BY DEF CodeUsesBounded, Uses
  <2>1. code[c].life \in Life /\ code[c].uses \in Nat /\ code[c].max \in Int
    BY DEF OInv, IInv, TableTypes
  <2>2. Cardinality(Uses(c)) \in Nat
    BY FS_Subset, FS_CardinalityType DEF OInv, Rest, HistTypes, Uses
  <2>3. Cardinality(Uses(c)) <= code[c].uses /\ code[c].uses <= code[c].max
    BY <2>1 DEF OInv, Rest, UsesCounted, Life
  <2>4. QED  BY <2>1, <2>2, <2>3
<1>2. QED  BY <1>1, OneWorkerInvariant, PTL

(* With one worker, a deleted message that a page of its audience still      *)
(* shows will be removed: the broadcast is queued, behind every broadcast    *)
(* and answer that shows it (server_group_broadcast, server_get_group_msgs). *)
THEOREM DeletedLeavesViewHolds == ASSUME OneWorker PROVE Spec => []DeletedLeavesView
<1>1. OInv => DeletedLeavesView
  <2> SUFFICES ASSUME OInv, NEW m \in Msgs, NEW u \in audience[m],
                      msg[m].life = "gone", m \in view[u]
               PROVE  \E w \in Workers : \E i \in DOMAIN pipe[w] :
                        /\ pipe[w][i].kind = "broadcast" /\ pipe[w][i].group = msg[m].group
                        /\ pipe[w][i].arg = [what |-> "delete_msg", msg |-> m]
    BY DEF DeletedLeavesView, BroadcastQueued
  <2>2. ASSUME NEW w \in Workers
        PROVE  \E i \in DOMAIN pipe[w] :
                 /\ pipe[w][i].kind = "broadcast" /\ pipe[w][i].group = msg[m].group
                 /\ pipe[w][i].arg = [what |-> "delete_msg", msg |-> m]
    <3>1. Pending(pipe[w], m)  BY DEF OInv, Rest, ViewInv, SeenIsPending
    <3>2. pipe[w] \in Seq(Query)  BY DEF OInv, IInv, PipeTypes
    <3>3. DOMAIN pipe[w] = 1 .. Len(pipe[w])  BY <3>2
    <3>4. QED  BY <3>1, <3>3 DEF Pending, IsNews, OInv, Rest, ViewInv, NewsMatch
  <2>3. QED  BY <2>2 DEF OneWorker
<1>2. QED  BY <1>1, OneWorkerInvariant, PTL

-----------------------------------------------------------------------------
(* What is on its way to pages, with any number of workers                   *)

Queued(q)     == \E w \in Workers : \E i \in 1 .. Len(pipe[w]) : pipe[w][i] = q
QueuedNext(q) == \E w \in Workers : \E i \in 1 .. Len(pipe'[w]) : pipe'[w][i] = q

NewsOf(g, m)   == Q("broadcast", None, g, [what |-> "msg", msg |-> m])
GetGroup(u, g) == Q("get_group", u, g, None)

Uncounted(u, g) == \E b \in byCode : b.user = u /\ b.group = g /\ ~b.counted

Audiences == audience \in [Msgs -> SUBSET Users]

(* MessageReachesMembers, with the very query that is queued.                *)
Delivered ==
  \A m \in Msgs : msg[m].life = "live" => \A u \in audience[m] :
    <<u, msg[m].group>> \in member /\ (m \in view[u] \/ Queued(NewsOf(msg[m].group, m)))

(* Only messages that are gone are removed from views.                       *)
RemovesGone ==
  \A q \in Query, m \in Msgs : Queued(q) /\ IsNews(q, "delete_msg", m) => msg[m].life = "gone"

(* MemberIsShownGroup, likewise.                                             *)
ShownOrQueued ==
  \A u \in Users, g \in Groups : <<u, g>> \in member =>
    g \in shown[u] \/ Queued(GetGroup(u, g)) \/ Uncounted(u, g)

Deliv == Audiences /\ Delivered /\ RemovesGone /\ ShownOrQueued

DInv == IInv /\ Deliv

LEMMA QueriesTyped ==
  /\ \A u \in Users, g \in Groups : GetGroup(u, g) \in Query
  /\ \A g \in Groups, m \in Msgs :
       NewsOf(g, m) \in Query /\ NewsOf(g, m).kind = "broadcast" /\ NewsOf(g, m).group = g
         /\ NewsOf(g, m).arg = [what |-> "msg", msg |-> m]
<1>1. \A m \in Msgs : [what |-> "msg", msg |-> m] \in News  BY DEF News
<1>2. QED  BY <1>1 DEF GetGroup, NewsOf, Q, Query, Kinds

(* A step in which at most q1 leaves a queue.                                *)
LEMMA StepDelivers ==
  ASSUME DInv, audience' = audience, NEW q1,
         \A q \in Query : Queued(q) => QueuedNext(q) \/ q = q1,
         \A q \in Query, m \in Msgs :
           QueuedNext(q) /\ IsNews(q, "delete_msg", m) => Queued(q) \/ msg'[m].life = "gone",
         \A m \in Msgs : msg[m].life = "gone" => msg'[m].life = "gone",
         \A m \in Msgs : msg'[m].life = "live" =>
           /\ msg'[m] = msg[m]
           /\ \A u \in audience[m] :
                /\ <<u, msg[m].group>> \in member => <<u, msg[m].group>> \in member'
                /\ m \in view[u] => m \in view'[u]
                /\ q1 = NewsOf(msg[m].group, m) /\ <<u, msg[m].group>> \in member
                     => m \in view'[u],
         \A u \in Users, g \in Groups : <<u, g>> \in member' =>
           \/ g \in shown'[u] \/ QueuedNext(GetGroup(u, g)) \/ Uncounted(u, g)'
           \/ /\ <<u, g>> \in member /\ q1 # GetGroup(u, g)
              /\ g \in shown[u] => g \in shown'[u]
              /\ Uncounted(u, g) => Uncounted(u, g)'
  PROVE  Deliv'
<1>1. \A q : QueuedNext(q) => Queued(q)'  BY DEF Queued, QueuedNext
<1>2. Audiences'  BY DEF DInv, Deliv, Audiences
<1>3. Delivered'
  <2> SUFFICES ASSUME NEW m \in Msgs, msg'[m].life = "live", NEW u \in audience[m]
               PROVE  /\ <<u, msg'[m].group>> \in member'
                      /\ \/ m \in view'[u]
                         \/ \E w \in Workers : \E i \in 1 .. Len(pipe'[w]) :
                              pipe'[w][i] = NewsOf(msg'[m].group, m)
    BY DEF Delivered, Queued, NewsOf, Q
  <2>1. msg'[m] = msg[m]  OBVIOUS
  <2>2. msg[m].group \in Groups  BY <2>1 DEF DInv, IInv, TableTypes
  <2>3. <<u, msg[m].group>> \in member /\ (m \in view[u] \/ Queued(NewsOf(msg[m].group, m)))
    BY <2>1 DEF DInv, Deliv, Delivered
  <2>4. NewsOf(msg[m].group, m) \in Query  BY <2>2, QueriesTyped
  <2>5. m \in view'[u] \/ QueuedNext(NewsOf(msg[m].group, m))  BY <2>3, <2>4
  <2>6. QED  BY <2>1, <2>3, <2>5 DEF QueuedNext
<1>4. RemovesGone'
  <2> SUFFICES ASSUME NEW q \in Query, NEW m \in Msgs, QueuedNext(q), IsNews(q, "delete_msg", m)
               PROVE  msg'[m].life = "gone"
    BY DEF RemovesGone, Queued, QueuedNext, IsNews
  <2>1. QED  BY DEF DInv, Deliv, RemovesGone
<1>5. ShownOrQueued'
  <2> SUFFICES ASSUME NEW u \in Users, NEW g \in Groups, <<u, g>> \in member'
               PROVE  g \in shown'[u] \/ QueuedNext(GetGroup(u, g)) \/ Uncounted(u, g)'
    BY DEF ShownOrQueued, Queued, QueuedNext, GetGroup, Q
  <2>1. <<u, g>> \in member =>
          g \in shown[u] \/ Queued(GetGroup(u, g)) \/ Uncounted(u, g)
    BY DEF DInv, Deliv, ShownOrQueued
  <2>2. GetGroup(u, g) \in Query  BY QueriesTyped
  <2>3. QED  BY <2>1, <2>2
<1>6. QED  BY <1>2, <1>3, <1>4, <1>5 DEF Deliv

LEMMA QueueAfter ==
  ASSUME PipeTypes, NEW w \in Workers, pipe[w] # <<>>, NEW more \in Seq(Query),
         Answered(w, more)
  PROVE  /\ \A q : Queued(q) => QueuedNext(q) \/ q = pipe[w][1]
         /\ \A q : QueuedNext(q) => Queued(q) \/ \E j \in 1 .. Len(more) : q = more[j]
         /\ \A j \in 1 .. Len(more) : QueuedNext(more[j])
<1>1. pipe \in [Workers -> Seq(Query)] /\ pipe[w] \in Seq(Query)  BY DEF PipeTypes
<1>2. pipe'[w] = Tail(pipe[w]) \o more /\ \A v \in Workers : v # w => pipe'[v] = pipe[v]
  BY <1>1 DEF Answered
<1>3. PICK n \in Nat, k \in Nat : Len(pipe[w]) = n /\ Len(more) = k /\ n >= 1
  BY <1>1
<1>4. /\ Len(pipe'[w]) = n - 1 + k
      /\ \A i \in 1 .. n - 1 : pipe'[w][i] = pipe[w][i + 1]
      /\ \A i \in 1 .. k : pipe'[w][n - 1 + i] = more[i]
  <2>1. /\ Len(pipe'[w]) = Len(pipe[w]) - 1 + Len(more)
        /\ \A i \in 1 .. Len(pipe[w]) - 1 : pipe'[w][i] = pipe[w][i + 1]
        /\ \A i \in 1 .. Len(more) : pipe'[w][Len(pipe[w]) - 1 + i] = more[i]
    BY <1>1, <1>2, AnsweredSeq
  <2>2. QED  BY <2>1, <1>3
<1>5. ASSUME NEW q, Queued(q), q # pipe[w][1] PROVE QueuedNext(q)
  <2>0. PICK v \in Workers : \E i \in 1 .. Len(pipe[v]) : pipe[v][i] = q  BY <1>5 DEF Queued
  <2>1. PICK i \in 1 .. Len(pipe[v]) : pipe[v][i] = q  BY <2>0
  <2>2. CASE v # w  BY <2>1, <2>2, <1>2 DEF QueuedNext
  <2>3. CASE v = w
    <3>1. i \in 1 .. n /\ i # 1  BY <2>1, <2>3, <1>3, <1>5
    <3>2. i - 1 \in 1 .. n - 1 /\ i - 1 \in 1 .. n - 1 + k /\ i - 1 + 1 = i  BY <3>1
    <3>3. pipe'[w][i - 1] = q  BY <3>2, <2>1, <2>3, <1>4
    <3>4. QED  BY <3>2, <3>3, <1>4 DEF QueuedNext
  <2>4. QED  BY <2>2, <2>3
<1>6. ASSUME NEW q, QueuedNext(q), ~\E j \in 1 .. Len(more) : q = more[j] PROVE Queued(q)
  <2>0. PICK v \in Workers : \E i \in 1 .. Len(pipe'[v]) : pipe'[v][i] = q
    BY <1>6 DEF QueuedNext
  <2>1. PICK i \in 1 .. Len(pipe'[v]) : pipe'[v][i] = q  BY <2>0
  <2>2. CASE v # w  BY <2>1, <2>2, <1>2 DEF Queued
  <2>3. CASE v = w
    <3>1. i \in 1 .. n - 1 + k  BY <2>1, <2>3, <1>4
    <3>2. CASE i <= n - 1
      <4>1. i \in 1 .. n - 1 /\ i + 1 \in 1 .. n  BY <3>1, <3>2
      <4>2. pipe[w][i + 1] = q  BY <4>1, <2>1, <2>3, <1>4
      <4>3. QED  BY <4>1, <4>2, <1>3 DEF Queued
    <3>3. CASE i > n - 1
      <4>1. i - (n - 1) \in 1 .. k /\ n - 1 + (i - (n - 1)) = i  BY <3>1, <3>3
      <4>2. more[i - (n - 1)] = q  BY <4>1, <2>1, <2>3, <1>4
      <4>3. QED  BY <4>1, <4>2, <1>3, <1>6
    <3>4. QED  BY <3>1, <3>2, <3>3
  <2>4. QED  BY <2>2, <2>3
<1>7. ASSUME NEW j \in 1 .. k PROVE QueuedNext(more[j])
  <2>1. n - 1 + j \in 1 .. n - 1 + k  BY <1>3
  <2>2. QED  BY <2>1, <1>4 DEF QueuedNext
<1>8. QED  BY <1>3, <1>5, <1>6, <1>7

(* The answer to a query that is neither a broadcast nor the one that shows  *)
(* a group; nothing is taken away.                                           *)
LEMMA QuietDelivers ==
  ASSUME DInv, NEW w \in Workers, pipe[w] # <<>>, pipe[w][1].kind \notin {"broadcast", "get_group"},
         NEW more \in Seq(Query), Answered(w, more),
         \A j \in 1 .. Len(more) : \A m \in Msgs : ~IsNews(more[j], "delete_msg", m),
         UNCHANGED <<msg, audience>>, member \subseteq member', byCode \subseteq byCode',
         \A u \in Users : view[u] \subseteq view'[u] /\ shown[u] \subseteq shown'[u],
         \A u \in Users, g \in Groups : <<u, g>> \in member' =>
           \/ <<u, g>> \in member \/ g \in shown'[u] \/ Uncounted(u, g)'
           \/ \E j \in 1 .. Len(more) : more[j] = GetGroup(u, g)
  PROVE  Deliv'
<1>1. /\ \A q : Queued(q) => QueuedNext(q) \/ q = pipe[w][1]
      /\ \A q : QueuedNext(q) => Queued(q) \/ \E j \in 1 .. Len(more) : q = more[j]
      /\ \A j \in 1 .. Len(more) : QueuedNext(more[j])
  BY QueueAfter DEF DInv, IInv
<1>2. PICK q1 : q1 = pipe[w][1]  OBVIOUS
<1>3. \A u \in Users, g \in Groups : q1 # GetGroup(u, g)  BY <1>2 DEF GetGroup, Q
<1>4. \A g \in Groups, m \in Msgs : q1 # NewsOf(g, m)  BY <1>2 DEF NewsOf, Q
<1>5. \A m \in Msgs : audience[m] \subseteq Users  BY DEF DInv, Deliv, Audiences
<1>6. \A m \in Msgs : msg[m].life = "live" => msg[m].group \in Groups
  BY DEF DInv, IInv, TableTypes
<1>7. \A u \in Users, g \in Groups : Uncounted(u, g) => Uncounted(u, g)'  BY DEF Uncounted
<1>8. \A u \in Users, g \in Groups : <<u, g>> \in member' =>
         \/ g \in shown'[u] \/ QueuedNext(GetGroup(u, g)) \/ Uncounted(u, g)'
         \/ /\ <<u, g>> \in member /\ q1 # GetGroup(u, g)
            /\ g \in shown[u] => g \in shown'[u]
            /\ Uncounted(u, g) => Uncounted(u, g)'
  <2> SUFFICES ASSUME NEW u \in Users, NEW g \in Groups, <<u, g>> \in member'
               PROVE  \/ g \in shown'[u] \/ QueuedNext(GetGroup(u, g)) \/ Uncounted(u, g)'
                      \/ <<u, g>> \in member
    BY <1>3, <1>7
  <2>1. QED  BY <1>1
<1>9. \A m \in Msgs : msg'[m].life = "live" =>
        /\ msg'[m] = msg[m]
        /\ \A u \in audience[m] :
             /\ <<u, msg[m].group>> \in member => <<u, msg[m].group>> \in member'
             /\ m \in view[u] => m \in view'[u]
             /\ q1 = NewsOf(msg[m].group, m) /\ <<u, msg[m].group>> \in member
                  => m \in view'[u]
  BY <1>4, <1>5, <1>6
<1>10. \A q \in Query, m \in Msgs :
         QueuedNext(q) /\ IsNews(q, "delete_msg", m) => Queued(q) \/ msg'[m].life = "gone"
  BY <1>1
<1>11. \A q \in Query : Queued(q) => QueuedNext(q) \/ q = q1  BY <1>1, <1>2
<1>12. audience' = audience /\ \A m \in Msgs : msg[m].life = "gone" => msg'[m].life = "gone"
  OBVIOUS
<1>13. QED  BY <1>8, <1>9, <1>10, <1>11, <1>12, StepDelivers

LEMMA EmptyNews ==
  /\ <<>> \in Seq(Query) /\ Len(<<>>) = 0
  /\ \A j \in 1 .. Len(<<>>) : \A m \in Msgs : ~IsNews(<<>>[j], "delete_msg", m)
<1>1. <<>> \in Seq(Query) /\ Len(<<>>) = 0  OBVIOUS
<1>2. \A j \in 1 .. Len(<<>>) : FALSE  BY <1>1
<1>3. QED  BY <1>1, <1>2

(* Nothing but the queue, codes, groups or a transaction changes.            *)
LEMMA SilentDelivers ==
  ASSUME DInv, NEW w \in Workers, pipe[w] # <<>>, pipe[w][1].kind \notin {"broadcast", "get_group"},
         Answered(w, <<>>), UNCHANGED <<member, msg, audience, byCode, view, shown>>
  PROVE  Deliv'
BY EmptyNews, QuietDelivers

LEMMA NoEffectDelivers ==
  ASSUME DInv, NEW w \in Workers, pipe[w] # <<>>, pipe[w][1].kind \notin {"broadcast", "get_group"},
         NoEffect(w)
  PROVE  Deliv'
BY SilentDelivers DEF NoEffect, tables, views, hist

(* The queues of a step that takes nothing from them, or replaces a query    *)
(* that is neither a broadcast nor the one that shows a group; nothing else  *)
(* changes.                                                                  *)
LEMMA QueuesDeliver ==
  ASSUME DInv, UNCHANGED <<member, msg, audience, byCode, view, shown>>,
         NEW q1, q1.kind \notin {"broadcast", "get_group"},
         NEW q2, \A m \in Msgs : ~IsNews(q2, "delete_msg", m),
         \A q \in Query : Queued(q) => QueuedNext(q) \/ q = q1,
         \A q \in Query : QueuedNext(q) => Queued(q) \/ q = q2
  PROVE  Deliv'
<1>1. \A u \in Users, g \in Groups : q1 # GetGroup(u, g)  BY DEF GetGroup, Q
<1>2. \A g \in Groups, m \in Msgs : q1 # NewsOf(g, m)  BY DEF NewsOf, Q
<1>3. \A m \in Msgs : msg[m].life = "live" => msg[m].group \in Groups
  BY DEF DInv, IInv, TableTypes
<1>4. \A u \in Users, g \in Groups : Uncounted(u, g) => Uncounted(u, g)'  BY DEF Uncounted
<1>5. QED  BY <1>1, <1>2, <1>3, <1>4, StepDelivers

LEMMA SendDelivers ==
  ASSUME DInv, NEW w \in Workers, NEW q \in Query, q.kind # "broadcast", Send(w, q)
  PROVE  Deliv'
<1>1. pipe \in [Workers -> Seq(Query)] /\ pipe[w] \in Seq(Query)
  BY DEF DInv, IInv, PipeTypes
<1>2. pipe' = [pipe EXCEPT ![w] = Append(pipe[w], q)] /\ UNCHANGED <<tables, tx, views, hist>>
  BY DEF Send
<1>3. pipe'[w] = Append(pipe[w], q) /\ \A v \in Workers : v # w => pipe'[v] = pipe[v]
  BY <1>1, <1>2
<1>4. PICK n \in Nat : Len(pipe[w]) = n  BY <1>1
<1>5. /\ Len(pipe'[w]) = n + 1
      /\ \A i \in 1 .. n : pipe'[w][i] = pipe[w][i]
      /\ pipe'[w][n + 1] = q
  BY <1>1, <1>3, <1>4, AppendProperties
<1>6. ASSUME NEW r, Queued(r) PROVE QueuedNext(r)
  <2>1. PICK v \in Workers : \E i \in 1 .. Len(pipe[v]) : pipe[v][i] = r  BY <1>6 DEF Queued
  <2>2. CASE v # w  BY <2>1, <2>2, <1>3 DEF QueuedNext
  <2>3. CASE v = w
    <3>1. PICK i \in 1 .. n : pipe[w][i] = r  BY <2>1, <2>3, <1>4
    <3>2. i \in 1 .. n + 1  BY <3>1
    <3>3. QED  BY <3>1, <3>2, <1>5 DEF QueuedNext
  <2>4. QED  BY <2>2, <2>3
<1>7. ASSUME NEW r, QueuedNext(r), r # q PROVE Queued(r)
  <2>1. PICK v \in Workers : \E i \in 1 .. Len(pipe'[v]) : pipe'[v][i] = r
    BY <1>7 DEF QueuedNext
  <2>2. CASE v # w  BY <2>1, <2>2, <1>3 DEF Queued
  <2>3. CASE v = w
    <3>1. PICK i \in 1 .. n + 1 : pipe'[w][i] = r  BY <2>1, <2>3, <1>5
    <3>2. i \in 1 .. n  BY <3>1, <1>5, <1>7
    <3>3. QED  BY <3>1, <3>2, <1>4, <1>5 DEF Queued
  <2>4. QED  BY <2>2, <2>3
<1>8. Q("begin", None, None, None).kind \notin {"broadcast", "get_group"}  BY DEF Q
<1>9. \A m \in Msgs : ~IsNews(q, "delete_msg", m)  BY DEF IsNews
<1>10. UNCHANGED <<member, msg, audience, byCode, view, shown>>
  BY <1>2 DEF tables, views, hist
<1>11. QED  BY <1>6, <1>7, <1>8, <1>9, <1>10, QueuesDeliver

LEMMA RequestDelivers ==
  ASSUME DInv, NEW w \in Workers, Request(w)
  PROVE  Deliv'
<1> USE DEF Q, Query, TxKinds, Kinds
<1>1. PICK u \in Users :
        \/ server_create_group(w, u) \/ server_client_groups(w, u)
        \/ server_get_all_groups(w, u) \/ server_delete_group_msg(w, u)
        \/ server_join_group_code(w, u) \/ server_delete_group_code(w, u)
        \/ \E g \in Groups :
             \/ server_join_group(w, u, g) \/ server_group_msg(w, u, g)
             \/ server_get_group_msgs(w, u, g)
             \/ server_create_group_code(w, u, g) \/ server_delete_group(w, u, g)
  BY DEF Request
<1>2. CASE server_create_group(w, u)
  <2>1. PICK public \in BOOLEAN : Send(w, Q("create", u, None, public))
    BY <1>2 DEF server_create_group
  <2>2. QED  BY <2>1, SendDelivers
<1>3. CASE server_client_groups(w, u) \/ server_get_all_groups(w, u)
  BY <1>3, SendDelivers DEF server_client_groups, server_get_all_groups
<1>4. CASE server_delete_group_msg(w, u)
  <2>1. PICK m \in Msgs : Send(w, Q("delete_msg", u, None, m))
    BY <1>4 DEF server_delete_group_msg
  <2>2. QED  BY <2>1, SendDelivers
<1>5. CASE server_join_group_code(w, u) \/ server_delete_group_code(w, u)
  <2>1. PICK c \in Codes :
          Send(w, Q("join_code", u, None, c)) \/ Send(w, Q("delete_code", u, None, c))
    BY <1>5 DEF server_join_group_code, server_delete_group_code
  <2>2. QED  BY <2>1, SendDelivers
<1>6. ASSUME NEW g \in Groups,
             \/ server_join_group(w, u, g) \/ server_group_msg(w, u, g)
             \/ server_get_group_msgs(w, u, g) \/ server_delete_group(w, u, g)
      PROVE  Deliv'
  BY <1>6, SendDelivers
  DEF server_join_group, server_group_msg, server_get_group_msgs, server_delete_group
<1>7. ASSUME NEW g \in Groups, server_create_group_code(w, u, g) PROVE Deliv'
  <2>1. PICK max \in Int : Send(w, Q("create_code", u, g, max))
    BY <1>7 DEF server_create_group_code
  <2>2. QED  BY <2>1, SendDelivers
<1>8. QED  BY <1>1, <1>2, <1>3, <1>4, <1>5, <1>6, <1>7

(* The owner of a new group is shown it.                                     *)
LEMMA CreateGroupDelivers ==
  ASSUME DInv, NEW w \in Workers, CreateGroup(w)
  PROVE  Deliv'
<1>1. /\ pipe[w] # <<>> /\ Head(pipe[w]) = pipe[w][1] /\ pipe[w][1].kind = "create"
      /\ QueryOK(pipe[w][1])
  BY FirstQuery DEF CreateGroup, First, DInv
<1>2. PICK u \in Users : pipe[w][1].user = u  BY <1>1 DEF QueryOK
<1>3. CASE NoEffect(w)  BY <1>1, <1>3, NoEffectDelivers
<1>4. ASSUME NEW g \in Unused(grp), member' = member \cup {<<u, g>>},
             shown' = [shown EXCEPT ![u] = @ \cup {g}],
             Answered(w, <<>>), UNCHANGED <<msg, view, audience, byCode>>
      PROVE  Deliv'
  <2>1. \A v \in Users : shown[v] \subseteq shown'[v]
    BY <1>4 DEF DInv, IInv, ViewTypes
  <2>2. g \in shown'[u]  BY <1>4 DEF DInv, IInv, ViewTypes
  <2>3. \A v \in Users, h \in Groups :
          <<v, h>> \in member' => <<v, h>> \in member \/ h \in shown'[v]
    BY <2>2, <1>4
  <2>4. member \subseteq member' /\ UNCHANGED <<msg, audience>> /\ byCode \subseteq byCode'
        /\ \A v \in Users : view[v] \subseteq view'[v]
    BY <1>4
  <2>5. QED  BY <2>1, <2>3, <2>4, <1>1, <1>4, EmptyNews, QuietDelivers
<1>5. QED  BY <1>1, <1>2, <1>3, <1>4 DEF CreateGroup, hist

(* A group that has members is there: the query that shows it finds it.      *)
LEMMA SendGroupsDelivers ==
  ASSUME DInv, NEW w \in Workers, SendGroups(w)
  PROVE  Deliv'
<1>1. /\ pipe[w] # <<>> /\ Head(pipe[w]) = pipe[w][1] /\ QueryOK(pipe[w][1])
      /\ pipe[w][1].kind \in {"user_groups", "public_groups", "get_group"}
  BY FirstQuery DEF SendGroups, First, DInv
<1>2. PICK u \in Users : pipe[w][1].user = u  BY <1>1 DEF QueryOK
<1>3. PICK selected :
        /\ shown' = [shown EXCEPT ![pipe[w][1].user] = @ \cup selected]
        /\ selected = CASE pipe[w][1].kind = "user_groups"   -> UserGroups(pipe[w][1].user)
                        [] pipe[w][1].kind = "public_groups" -> PublicGroups(pipe[w][1].user)
                        [] pipe[w][1].kind = "get_group"     ->
                             {g \in {pipe[w][1].group} : LiveGroup(g)}
  BY <1>1 DEF SendGroups
<1>4. Answered(w, <<>>) /\ UNCHANGED <<member, msg, view, audience, byCode>>
  BY DEF SendGroups, tables, hist
<1>5. /\ \A v \in Users : shown[v] \subseteq shown'[v]
      /\ selected \subseteq shown'[u]
  BY <1>2, <1>3 DEF DInv, IInv, ViewTypes
<1>6. CASE pipe[w][1].kind # "get_group"
  <2>1. pipe[w][1].kind \notin {"broadcast", "get_group"}  BY <1>1, <1>6
  <2>2. /\ UNCHANGED <<msg, audience>> /\ member \subseteq member' /\ byCode \subseteq byCode'
        /\ \A v \in Users : view[v] \subseteq view'[v]
        /\ \A v \in Users, h \in Groups : <<v, h>> \in member' => <<v, h>> \in member
    BY <1>4
  <2>3. QED  BY <2>1, <2>2, <1>1, <1>4, <1>5, EmptyNews, QuietDelivers
<1>7. CASE pipe[w][1].kind = "get_group"
  <2>1. /\ \A q : Queued(q) => QueuedNext(q) \/ q = pipe[w][1]
        /\ \A q : QueuedNext(q) => Queued(q) \/ \E j \in 1 .. Len(<<>>) : q = <<>>[j]
    BY <1>1, <1>4, EmptyNews, QueueAfter DEF DInv, IInv
  <2>2. PICK q1 : q1 = pipe[w][1]  OBVIOUS
  <2>3. \A q : QueuedNext(q) => Queued(q)
    <3>1. \A j \in 1 .. Len(<<>>) : FALSE  OBVIOUS
    <3>2. QED  BY <2>1, <3>1
  <2>4. \A g \in Groups, m \in Msgs : q1 # NewsOf(g, m)  BY <2>2, <1>7 DEF NewsOf, Q
  <2>5. \A v \in Users, g \in Groups : <<v, g>> \in member /\ q1 = GetGroup(v, g)
          => g \in shown'[v]
    <3> SUFFICES ASSUME NEW v \in Users, NEW g \in Groups, <<v, g>> \in member,
                        q1 = GetGroup(v, g)
                 PROVE  g \in shown'[v]
      OBVIOUS
    <3>1. v = u /\ pipe[w][1].group = g  BY <2>2, <1>2 DEF GetGroup, Q
    <3>2. LiveGroup(g)  BY DEF DInv, IInv, NoOrphans
    <3>3. g \in selected  BY <3>1, <3>2, <1>3, <1>7
    <3>4. QED  BY <3>1, <3>3, <1>5
  <2>6. \A m \in Msgs : msg[m].life = "live" => msg[m].group \in Groups
    BY DEF DInv, IInv, TableTypes
  <2>7. \A v \in Users, g \in Groups : Uncounted(v, g) => Uncounted(v, g)'
    BY <1>4 DEF Uncounted
  <2>8. \A v \in Users, g \in Groups : <<v, g>> \in member' =>
          \/ g \in shown'[v] \/ QueuedNext(GetGroup(v, g)) \/ Uncounted(v, g)'
          \/ /\ <<v, g>> \in member /\ q1 # GetGroup(v, g)
             /\ g \in shown[v] => g \in shown'[v]
             /\ Uncounted(v, g) => Uncounted(v, g)'
    BY <2>5, <2>7, <1>4, <1>5
  <2>9. \A m \in Msgs : msg'[m].life = "live" =>
          /\ msg'[m] = msg[m]
          /\ \A v \in audience[m] :
               /\ <<v, msg[m].group>> \in member => <<v, msg[m].group>> \in member'
               /\ m \in view[v] => m \in view'[v]
               /\ q1 = NewsOf(msg[m].group, m) /\ <<v, msg[m].group>> \in member
                    => m \in view'[v]
    BY <2>4, <2>6, <1>4
  <2>10. /\ \A q \in Query : Queued(q) => QueuedNext(q) \/ q = q1
         /\ \A q \in Query, m \in Msgs :
              QueuedNext(q) /\ IsNews(q, "delete_msg", m) => Queued(q) \/ msg'[m].life = "gone"
         /\ audience' = audience /\ \A m \in Msgs : msg[m].life = "gone" => msg'[m].life = "gone"
    BY <2>1, <2>2, <2>3, <1>4
  <2>11. QED  BY <2>8, <2>9, <2>10, StepDelivers
<1>8. QED  BY <1>6, <1>7

LEMMA SendMsgsDelivers ==
  ASSUME DInv, NEW w \in Workers, SendMsgs(w)
  PROVE  Deliv'
<1>1. /\ pipe[w] # <<>> /\ Head(pipe[w]) = pipe[w][1] /\ QueryOK(pipe[w][1])
      /\ pipe[w][1].kind = "group_msgs"
  BY FirstQuery DEF SendMsgs, First, DInv
<1>2. /\ view' = [view EXCEPT ![pipe[w][1].user] = @ \cup MsgsOf(pipe[w][1].group)]
      /\ Answered(w, <<>>) /\ UNCHANGED <<member, msg, shown, audience, byCode>>
  BY <1>1 DEF SendMsgs, tables, hist
<1>3. \A u \in Users : view[u] \subseteq view'[u] /\ shown[u] \subseteq shown'[u]
  BY <1>2 DEF DInv, IInv, ViewTypes
<1>4. /\ UNCHANGED <<msg, audience>> /\ member \subseteq member' /\ byCode \subseteq byCode'
      /\ \A v \in Users, h \in Groups : <<v, h>> \in member' => <<v, h>> \in member
  BY <1>2
<1>5. QED  BY <1>1, <1>2, <1>3, <1>4, EmptyNews, QuietDelivers

(* What is removed is gone, and a message that leaves the queue is shown.    *)
LEMMA BroadcastDelivers ==
  ASSUME DInv, NEW w \in Workers, Broadcast(w)
  PROVE  Deliv'
<1> DEFINE q1 == Head(pipe[w])
<1>1. /\ pipe[w] # <<>> /\ q1 = pipe[w][1] /\ QueryOK(q1)
      /\ q1.kind = "broadcast" /\ q1 \in Query /\ 1 \in 1 .. Len(pipe[w])
  BY FirstQuery DEF Broadcast, First, DInv
<1>2. \A u \in Users : view'[u] =
        IF u \notin Members(q1.group) THEN view[u]
        ELSE CASE q1.arg.what = "msg"        -> view[u] \cup {q1.arg.msg}
               [] q1.arg.what = "delete_msg" -> view[u] \ {q1.arg.msg}
               [] q1.arg.what = "join"       -> view[u]
  BY DEF Broadcast
<1> HIDE DEF q1
<1>3. /\ q1.kind = "broadcast" /\ q1.group \in Groups /\ q1.arg \in News /\ Queued(q1)
  BY <1>1 DEF QueryOK, Queued
<1>4. Answered(w, <<>>) /\ UNCHANGED <<member, msg, shown, audience, byCode>>
  BY DEF Broadcast, tables, hist
<1>5. /\ \A q : Queued(q) => QueuedNext(q) \/ q = q1
      /\ \A q : QueuedNext(q) => Queued(q)
  <2>1. /\ \A q : Queued(q) => QueuedNext(q) \/ q = pipe[w][1]
        /\ \A q : QueuedNext(q) => Queued(q) \/ \E j \in 1 .. Len(<<>>) : q = <<>>[j]
    BY <1>1, <1>4, EmptyNews, QueueAfter DEF DInv, IInv
  <2>2. \A j \in 1 .. Len(<<>>) : FALSE  OBVIOUS
  <2>3. QED  BY <2>1, <2>2, <1>1
<1>6. ASSUME NEW m \in Msgs, msg[m].life = "live", NEW u \in audience[m]
      PROVE  /\ m \in view[u] => m \in view'[u]
             /\ q1 = NewsOf(msg[m].group, m) /\ <<u, msg[m].group>> \in member
                  => m \in view'[u]
  <2>1. u \in Users  BY DEF DInv, Deliv, Audiences
  <2>2. q1.arg.what \in {"msg", "delete_msg", "join"}  BY <1>3 DEF News
  <2>3. ASSUME q1.arg.what = "delete_msg" PROVE q1.arg.msg # m
    <3>1. SUFFICES ASSUME q1.arg.msg = m PROVE FALSE  OBVIOUS
    <3>2. q1.arg = [what |-> "delete_msg", msg |-> m]  BY <3>1, <2>3, <1>3 DEF News
    <3>3. msg[m].life = "gone"  BY <3>2, <1>1, <1>3 DEF IsNews, DInv, Deliv, RemovesGone
    <3>4. QED  BY <3>3, <1>6
  <2>4. view'[u] = IF u \notin Members(q1.group) THEN view[u]
                   ELSE CASE q1.arg.what = "msg"        -> view[u] \cup {q1.arg.msg}
                          [] q1.arg.what = "delete_msg" -> view[u] \ {q1.arg.msg}
                          [] q1.arg.what = "join"       -> view[u]
    BY <2>1, <1>2
  <2>5. m \in view[u] => m \in view'[u]  BY <2>2, <2>3, <2>4
  <2>6. ASSUME q1 = NewsOf(msg[m].group, m), <<u, msg[m].group>> \in member
        PROVE  m \in view'[u]
    <3>1. msg[m].group \in Groups  BY <1>6 DEF DInv, IInv, TableTypes
    <3>2. q1.group = msg[m].group /\ q1.arg = [what |-> "msg", msg |-> m]
      BY <2>6, <3>1, QueriesTyped
    <3>3. q1.arg.what = "msg" /\ q1.arg.msg = m  BY <3>2
    <3>4. u \in Members(q1.group)  BY <3>2, <2>1, <2>6 DEF Members
    <3>5. QED  BY <3>3, <3>4, <2>4
  <2>7. QED  BY <2>5, <2>6
<1>7. \A u \in Users, g \in Groups : q1 # GetGroup(u, g)  BY <1>3 DEF GetGroup, Q
<1>8. \A u \in Users, g \in Groups : Uncounted(u, g) => Uncounted(u, g)'
  BY <1>4 DEF Uncounted
<1>9. \A u \in Users, g \in Groups : <<u, g>> \in member' =>
         \/ g \in shown'[u] \/ QueuedNext(GetGroup(u, g)) \/ Uncounted(u, g)'
         \/ /\ <<u, g>> \in member /\ q1 # GetGroup(u, g)
            /\ g \in shown[u] => g \in shown'[u]
            /\ Uncounted(u, g) => Uncounted(u, g)'
  BY <1>4, <1>7, <1>8
<1>10. \A m \in Msgs : msg'[m].life = "live" =>
         /\ msg'[m] = msg[m]
         /\ \A u \in audience[m] :
              /\ <<u, msg[m].group>> \in member => <<u, msg[m].group>> \in member'
              /\ m \in view[u] => m \in view'[u]
              /\ q1 = NewsOf(msg[m].group, m) /\ <<u, msg[m].group>> \in member
                   => m \in view'[u]
  BY <1>4, <1>6
<1>11. /\ audience' = audience
       /\ \A q \in Query : Queued(q) => QueuedNext(q) \/ q = q1
       /\ \A q \in Query, m \in Msgs :
            QueuedNext(q) /\ IsNews(q, "delete_msg", m) => Queued(q) \/ msg'[m].life = "gone"
       /\ \A m \in Msgs : msg[m].life = "gone" => msg'[m].life = "gone"
  BY <1>4, <1>5
<1>12. QED  BY <1>9, <1>10, <1>11, StepDelivers

(* Who joins is going to be sent the group.                                  *)
LEMMA JoinQueued ==
  ASSUME NEW u \in Users, NEW g \in Groups
  PROVE  LET b == on_user_group_join(u, g) IN
         /\ b \in Seq(Query) /\ 1 \in 1 .. Len(b) /\ b[1] = GetGroup(u, g)
         /\ \A j \in 1 .. Len(b) : \A m \in Msgs : ~IsNews(b[j], "delete_msg", m)
<1> DEFINE b == on_user_group_join(u, g)
           q == GetGroup(u, g)
           r == Q("broadcast", None, g, [what |-> "join", msg |-> None])
<1>1. b = <<q>> \o <<r>> /\ b \in Seq(Query) /\ NoNews(b)
  BY JoinNews DEF on_user_group_join, server_group_broadcast, GetGroup
<1> HIDE DEF q, r
<1>2. Len(b) = 2 /\ b[1] = q
  <2>1. /\ <<q>> \in Seq({q, r}) /\ Len(<<q>>) = 1 /\ <<q>>[1] = q
        /\ <<r>> \in Seq({q, r}) /\ Len(<<r>>) = 1 /\ <<r>>[1] = r
    OBVIOUS
  <2>2. QED  BY <2>1, <1>1, ConcatProperties
<1> HIDE DEF b
<1>3. QED  BY <1>1, <1>2 DEF NoNews, b, q

LEMMA JoinPublicDelivers ==
  ASSUME DInv, NEW w \in Workers, JoinPublic(w)
  PROVE  Deliv'
<1>1. /\ pipe[w] # <<>> /\ Head(pipe[w]) = pipe[w][1] /\ QueryOK(pipe[w][1])
      /\ pipe[w][1].kind = "join"
  BY FirstQuery DEF JoinPublic, First, DInv
<1>2. PICK u \in Users, g \in Groups : pipe[w][1].user = u /\ pipe[w][1].group = g
  BY <1>1 DEF QueryOK
<1>3. PICK b \in Seq(Query) :
        /\ b = on_user_group_join(u, g) /\ 1 \in 1 .. Len(b) /\ b[1] = GetGroup(u, g)
        /\ \A j \in 1 .. Len(b) : \A m \in Msgs : ~IsNews(b[j], "delete_msg", m)
  BY JoinQueued
<1>4. CASE NoEffect(w)  BY <1>1, <1>4, NoEffectDelivers
<1>5. CASE /\ member' = member \/ member' = member \cup {<<u, g>>}
           /\ Answered(w, b) /\ UNCHANGED <<msg, views, hist>>
  <2>1. /\ UNCHANGED <<msg, audience>> /\ member \subseteq member' /\ byCode \subseteq byCode'
        /\ \A v \in Users : view[v] \subseteq view'[v] /\ shown[v] \subseteq shown'[v]
    BY <1>5 DEF views, hist
  <2>2. \A v \in Users, h \in Groups : <<v, h>> \in member' =>
          <<v, h>> \in member \/ \E j \in 1 .. Len(b) : b[j] = GetGroup(v, h)
    BY <1>3, <1>5
  <2>3. QED  BY <2>1, <2>2, <1>1, <1>3, <1>5, QuietDelivers
<1>6. QED  BY <1>1, <1>2, <1>3, <1>4, <1>5 DEF JoinPublic, tables

LEMMA JoinCodeReadsDelivers ==
  ASSUME DInv, NEW w \in Workers, JoinCodeReads(w)
  PROVE  Deliv'
<1>1. /\ pipe[w] # <<>> /\ Head(pipe[w]) = pipe[w][1] /\ QueryOK(pipe[w][1])
      /\ pipe[w][1].kind = "join_code" /\ 1 \in 1 .. Len(pipe[w])
  BY FirstQuery DEF JoinCodeReads, First, DInv
<1>2. PICK u \in Users, c \in Codes : pipe[w][1].user = u /\ pipe[w][1].arg = c
  BY <1>1 DEF QueryOK
<1>3. CASE NoEffect(w)  BY <1>1, <1>3, NoEffectDelivers
<1>4. ASSUME NEW q2, q2 = Q("join_code_update", u, code[c].group, c), code[c].life = "live",
             pipe' = [pipe EXCEPT ![w] = [pipe[w] EXCEPT ![1] = q2]],
             UNCHANGED <<tables, tx, views, hist>>
      PROVE  Deliv'
  <2>1. code[c].group \in Groups  BY <1>4 DEF DInv, IInv, TableTypes
  <2>2. q2 \in Query /\ q2.kind = "join_code_update"
    BY <2>1, <1>4 DEF Q, Query, Kinds, TxKinds
  <2>3. pipe \in [Workers -> Seq(Query)] /\ pipe[w] \in Seq(Query)
    BY DEF DInv, IInv, PipeTypes
  <2>4. /\ pipe'[w] = [pipe[w] EXCEPT ![1] = q2]
        /\ \A v \in Workers : v # w => pipe'[v] = pipe[v]
    BY <2>3, <1>4
  <2>5. /\ Len(pipe'[w]) = Len(pipe[w])
        /\ \A j \in 1 .. Len(pipe[w]) : pipe'[w][j] = IF j = 1 THEN q2 ELSE pipe[w][j]
    BY <2>2, <2>3, <2>4, <1>1, ExceptSeq
  <2>6. ASSUME NEW q, Queued(q), q # pipe[w][1] PROVE QueuedNext(q)
    BY <2>4, <2>5, <2>6 DEF Queued, QueuedNext
  <2>7. ASSUME NEW q, QueuedNext(q), q # q2 PROVE Queued(q)
    BY <2>4, <2>5, <2>7 DEF Queued, QueuedNext
  <2>8. PICK q1 : q1 = pipe[w][1]  OBVIOUS
  <2>9. q1.kind \notin {"broadcast", "get_group"}  BY <2>8, <1>1
  <2>10. \A m \in Msgs : ~IsNews(q2, "delete_msg", m)  BY <2>2 DEF IsNews
  <2>11. UNCHANGED <<member, msg, audience, byCode, view, shown>>
    BY <1>4 DEF tables, views, hist
  <2>12. QED  BY <2>6, <2>7, <2>8, <2>9, <2>10, <2>11, QueuesDeliver
<1>5. QED  BY <1>1, <1>2, <1>3, <1>4 DEF JoinCodeReads

(* Whose use is not counted is not sent the group.                           *)
LEMMA JoinCodeUpdatesDelivers ==
  ASSUME DInv, NEW w \in Workers, JoinCodeUpdates(w)
  PROVE  Deliv'
<1>1. /\ pipe[w] # <<>> /\ Head(pipe[w]) = pipe[w][1] /\ QueryOK(pipe[w][1])
      /\ pipe[w][1].kind = "join_code_update"
  BY FirstQuery DEF JoinCodeUpdates, First, DInv
<1>2. PICK u \in Users, g \in Groups, c \in Codes :
        pipe[w][1].user = u /\ pipe[w][1].group = g /\ pipe[w][1].arg = c
  BY <1>1 DEF QueryOK
<1>3. PICK b \in Seq(Query) :
        /\ b = on_user_group_join(u, g) /\ 1 \in 1 .. Len(b) /\ b[1] = GetGroup(u, g)
        /\ \A j \in 1 .. Len(b) : \A m \in Msgs : ~IsNews(b[j], "delete_msg", m)
  BY JoinQueued
<1>4. CASE NoEffect(w)  BY <1>1, <1>4, NoEffectDelivers
<1>5. ASSUME NEW counted \in BOOLEAN, member' = member \cup {<<u, g>>},
             byCode' = byCode \cup
               {[user |-> u, group |-> g, code |-> c, counted |-> counted]},
             Answered(w, IF counted THEN b ELSE <<>>),
             UNCHANGED <<msg, views, audience>>
      PROVE  Deliv'
  <2>1. /\ UNCHANGED <<msg, audience>> /\ member \subseteq member' /\ byCode \subseteq byCode'
        /\ \A v \in Users : view[v] \subseteq view'[v] /\ shown[v] \subseteq shown'[v]
    BY <1>5 DEF views
  <2>2. CASE counted
    <3>1. Answered(w, b)  BY <2>2, <1>5
    <3>2. \A v \in Users, h \in Groups : <<v, h>> \in member' =>
            <<v, h>> \in member \/ \E j \in 1 .. Len(b) : b[j] = GetGroup(v, h)
      BY <1>3, <1>5
    <3>3. QED  BY <2>1, <3>1, <3>2, <1>1, <1>3, QuietDelivers
  <2>3. CASE ~counted
    <3>1. Answered(w, <<>>)  BY <2>3, <1>5
    <3>2. Uncounted(u, g)'
      <4> DEFINE e == [user |-> u, group |-> g, code |-> c, counted |-> counted]
      <4>1. e \in byCode' /\ e.user = u /\ e.group = g /\ ~e.counted  BY <2>3, <1>5
      <4> HIDE DEF e
      <4>2. QED  BY <4>1 DEF Uncounted
    <3>3. \A v \in Users, h \in Groups : <<v, h>> \in member' =>
            <<v, h>> \in member \/ Uncounted(v, h)'
      <4> SUFFICES ASSUME NEW v \in Users, NEW h \in Groups, <<v, h>> \in member',
                          <<v, h>> \notin member
                   PROVE  Uncounted(v, h)'
        OBVIOUS
      <4>1. v = u /\ h = g  BY <1>5
      <4>2. QED  BY <4>1, <3>2 DEF Uncounted
    <3>4. QED  BY <2>1, <3>1, <3>3, <1>1, EmptyNews, QuietDelivers
  <2>4. QED  BY <2>2, <2>3
<1>6. QED
  <2>1. (code[c].life = "live") \in BOOLEAN  OBVIOUS
  <2>2. QED  BY <2>1, <1>1, <1>2, <1>3, <1>4, <1>5 DEF JoinCodeUpdates

LEMMA BroadcastNews ==
  ASSUME NEW g \in Groups, NEW m \in Msgs, NEW what \in {"msg", "delete_msg"}
  PROVE  LET b == server_group_broadcast(g, what, m) IN
         /\ b \in Seq(Query) /\ Len(b) = 1
         /\ b[1] = Q("broadcast", None, g, [what |-> what, msg |-> m])
         /\ \A j \in 1 .. Len(b) : \A n \in Msgs :
              IsNews(b[j], "delete_msg", n) => what = "delete_msg" /\ n = m
<1> DEFINE a == [what |-> what, msg |-> m]
           q == Q("broadcast", None, g, a)
           b == server_group_broadcast(g, what, m)
<1>1. b \in Seq(Query) /\ Len(b) = 1  BY BroadcastSeq
<1>2. b = <<q>>  BY DEF server_group_broadcast
<1>3. q.arg = a /\ a.what = what /\ a.msg = m  BY DEF Q
<1>4. \A n \in Msgs : [what |-> "delete_msg", msg |-> n].what = "delete_msg"
                      /\ [what |-> "delete_msg", msg |-> n].msg = n
  OBVIOUS
<1> HIDE DEF a, q
<1>5. <<q>>[1] = q /\ \A j \in 1 .. 1 : <<q>>[j] = q  OBVIOUS
<1> HIDE DEF b
<1>6. \A j \in 1 .. Len(b) : \A n \in Msgs :
        IsNews(b[j], "delete_msg", n) => what = "delete_msg" /\ n = m
  BY <1>1, <1>2, <1>3, <1>4, <1>5 DEF IsNews
<1>7. QED  BY <1>1, <1>2, <1>5, <1>6 DEF b, q, a

(* The broadcast of a new message is queued, for those who are members.      *)
LEMMA InsertMsgDelivers ==
  ASSUME DInv, NEW w \in Workers, InsertMsg(w)
  PROVE  Deliv'
<1>1. /\ pipe[w] # <<>> /\ Head(pipe[w]) = pipe[w][1] /\ QueryOK(pipe[w][1])
      /\ pipe[w][1].kind = "insert_msg"
  BY FirstQuery DEF InsertMsg, First, DInv
<1>2. PICK u \in Users, g \in Groups : pipe[w][1].user = u /\ pipe[w][1].group = g
  BY <1>1 DEF QueryOK
<1>3. CASE NoEffect(w)  BY <1>1, <1>3, NoEffectDelivers
<1>4. ASSUME NEW m \in Unused(msg),
             msg' = [msg EXCEPT ![m] = [life |-> "live", user |-> u, group |-> g]],
             audience' = [audience EXCEPT ![m] = Members(g)],
             Answered(w, server_group_broadcast(g, "msg", m)),
             UNCHANGED <<member, views, byCode>>
      PROVE  Deliv'
  <2>1. m \in Msgs /\ msg[m].life = "none"  BY <1>4 DEF Unused, DInv, IInv, TableTypes
  <2>2. PICK b \in Seq(Query) :
          /\ b = server_group_broadcast(g, "msg", m) /\ Len(b) = 1 /\ b[1] = NewsOf(g, m)
          /\ \A j \in 1 .. Len(b) : \A n \in Msgs : ~IsNews(b[j], "delete_msg", n)
    BY <2>1, BroadcastNews DEF NewsOf
  <2>3. /\ \A q : Queued(q) => QueuedNext(q) \/ q = pipe[w][1]
        /\ \A q : QueuedNext(q) => Queued(q) \/ \E j \in 1 .. Len(b) : q = b[j]
        /\ \A j \in 1 .. Len(b) : QueuedNext(b[j])
    BY <2>2, <1>1, <1>4, QueueAfter DEF DInv, IInv
  <2>4. /\ msg'[m].life = "live" /\ msg'[m].group = g
        /\ \A n \in Msgs : n # m => msg'[n] = msg[n]
    BY <2>1, <1>4 DEF DInv, IInv, TableTypes
  <2>5. /\ audience \in [Msgs -> SUBSET Users] /\ Members(g) \subseteq Users
        /\ audience'[m] = Members(g) /\ \A n \in Msgs : n # m => audience'[n] = audience[n]
    BY <2>1, <1>4 DEF DInv, Deliv, Audiences, Members
  <2>6. Audiences'  BY <2>5, <2>1, <1>4 DEF Audiences
  <2>7. view' = view /\ shown' = shown /\ member' = member /\ byCode' = byCode
    BY <1>4 DEF views
  <2>8. \A q : QueuedNext(q) => Queued(q)'  BY DEF Queued, QueuedNext
  <2>9. Delivered'
    <3> SUFFICES ASSUME NEW n \in Msgs, msg'[n].life = "live", NEW v \in audience'[n]
                 PROVE  /\ <<v, msg'[n].group>> \in member'
                        /\ \/ n \in view'[v]
                           \/ \E x \in Workers : \E i \in 1 .. Len(pipe'[x]) :
                                pipe'[x][i] = NewsOf(msg'[n].group, n)
      BY DEF Delivered, Queued, NewsOf, Q
    <3>1. CASE n = m
      <4>1. v \in Users /\ <<v, g>> \in member  BY <3>1, <2>5 DEF Members
      <4>2. QueuedNext(NewsOf(g, m))  BY <2>2, <2>3
      <4>3. QED  BY <4>1, <4>2, <3>1, <2>4, <2>7 DEF QueuedNext
    <3>2. CASE n # m
      <4>1. msg'[n] = msg[n] /\ v \in audience[n]  BY <3>2, <2>4, <2>5
      <4>2. msg[n].group \in Groups  BY <4>1 DEF DInv, IInv, TableTypes
      <4>3. <<v, msg[n].group>> \in member /\ (n \in view[v] \/ Queued(NewsOf(msg[n].group, n)))
        BY <4>1 DEF DInv, Deliv, Delivered
      <4>4. NewsOf(msg[n].group, n) # pipe[w][1]  BY <1>1 DEF NewsOf, Q
      <4>5. QED  BY <4>1, <4>3, <4>4, <2>3, <2>7 DEF QueuedNext
    <3>3. QED  BY <3>1, <3>2
  <2>10. RemovesGone'
    <3> SUFFICES ASSUME NEW q \in Query, NEW n \in Msgs, QueuedNext(q),
                        IsNews(q, "delete_msg", n)
                 PROVE  msg'[n].life = "gone"
      BY DEF RemovesGone, Queued, QueuedNext, IsNews
    <3>1. Queued(q)  BY <2>2, <2>3
    <3>2. msg[n].life = "gone"  BY <3>1 DEF DInv, Deliv, RemovesGone
    <3>3. QED  BY <3>2, <2>1, <2>4
  <2>11. ShownOrQueued'
    <3> SUFFICES ASSUME NEW v \in Users, NEW h \in Groups, <<v, h>> \in member'
                 PROVE  h \in shown'[v] \/ QueuedNext(GetGroup(v, h)) \/ Uncounted(v, h)'
      BY DEF ShownOrQueued, Queued, QueuedNext, GetGroup, Q
    <3>1. GetGroup(v, h) # pipe[w][1]  BY <1>1 DEF GetGroup, Q
    <3>2. Uncounted(v, h) => Uncounted(v, h)'  BY <2>7 DEF Uncounted
    <3>3. h \in shown[v] \/ Queued(GetGroup(v, h)) \/ Uncounted(v, h)
      BY <2>7 DEF DInv, Deliv, ShownOrQueued
    <3>4. QED  BY <3>1, <3>2, <3>3, <2>3, <2>7
  <2>12. QED  BY <2>6, <2>9, <2>10, <2>11 DEF Deliv
<1>5. QED  BY <1>1, <1>2, <1>3, <1>4 DEF InsertMsg

LEMMA DeleteMsgDelivers ==
  ASSUME DInv, NEW w \in Workers, DeleteMsg(w)
  PROVE  Deliv'
<1>1. /\ pipe[w] # <<>> /\ Head(pipe[w]) = pipe[w][1] /\ QueryOK(pipe[w][1])
      /\ pipe[w][1].kind = "delete_msg"
  BY FirstQuery DEF DeleteMsg, First, DInv
<1>2. PICK m \in Msgs : pipe[w][1].arg = m  BY <1>1 DEF QueryOK
<1>3. CASE NoEffect(w)  BY <1>1, <1>3, NoEffectDelivers
<1>4. CASE /\ msg[m].life = "live"
           /\ msg' = [msg EXCEPT ![m].life = "gone"]
           /\ Answered(w, server_group_broadcast(msg[m].group, "delete_msg", m))
           /\ UNCHANGED <<member, views, hist>>
  <2>1. msg[m].group \in Groups  BY <1>4 DEF DInv, IInv, TableTypes
  <2>2. PICK b \in Seq(Query) :
          /\ b = server_group_broadcast(msg[m].group, "delete_msg", m)
          /\ \A j \in 1 .. Len(b) : \A n \in Msgs : IsNews(b[j], "delete_msg", n) => n = m
    <3>1. "delete_msg" \in {"msg", "delete_msg"}  OBVIOUS
    <3>2. LET b == server_group_broadcast(msg[m].group, "delete_msg", m) IN
          /\ b \in Seq(Query)
          /\ \A j \in 1 .. Len(b) : \A n \in Msgs :
               IsNews(b[j], "delete_msg", n) => "delete_msg" = "delete_msg" /\ n = m
      BY <2>1, <3>1, BroadcastNews
    <3>3. QED  BY <3>2
  <2>3. /\ \A q : Queued(q) => QueuedNext(q) \/ q = pipe[w][1]
        /\ \A q : QueuedNext(q) => Queued(q) \/ \E j \in 1 .. Len(b) : q = b[j]
    BY <2>2, <1>1, <1>4, QueueAfter DEF DInv, IInv
  <2>4. msg'[m].life = "gone" /\ \A n \in Msgs : n # m => msg'[n] = msg[n]
    BY <1>4 DEF DInv, IInv, TableTypes
  <2>5. UNCHANGED <<member, view, shown, audience, byCode>>  BY <1>4 DEF views, hist
  <2>6. PICK q1 : q1 = pipe[w][1]  OBVIOUS
  <2>7. \A u \in Users, g \in Groups : q1 # GetGroup(u, g)  BY <2>6, <1>1 DEF GetGroup, Q
  <2>8. \A g \in Groups, n \in Msgs : q1 # NewsOf(g, n)  BY <2>6, <1>1 DEF NewsOf, Q
  <2>9. \A u \in Users, g \in Groups : Uncounted(u, g) => Uncounted(u, g)'
    BY <2>5 DEF Uncounted
  <2>10. \A u \in Users, g \in Groups : <<u, g>> \in member' =>
           \/ g \in shown'[u] \/ QueuedNext(GetGroup(u, g)) \/ Uncounted(u, g)'
           \/ /\ <<u, g>> \in member /\ q1 # GetGroup(u, g)
              /\ g \in shown[u] => g \in shown'[u]
              /\ Uncounted(u, g) => Uncounted(u, g)'
    BY <2>5, <2>7, <2>9
  <2>11. \A n \in Msgs : msg[n].life = "live" => msg[n].group \in Groups
    BY DEF DInv, IInv, TableTypes
  <2>12. \A n \in Msgs : msg'[n].life = "live" =>
           /\ msg'[n] = msg[n]
           /\ \A u \in audience[n] :
                /\ <<u, msg[n].group>> \in member => <<u, msg[n].group>> \in member'
                /\ n \in view[u] => n \in view'[u]
                /\ q1 = NewsOf(msg[n].group, n) /\ <<u, msg[n].group>> \in member
                     => n \in view'[u]
    BY <2>4, <2>5, <2>8, <2>11
  <2>13. \A q \in Query, n \in Msgs :
           QueuedNext(q) /\ IsNews(q, "delete_msg", n) => Queued(q) \/ msg'[n].life = "gone"
    BY <2>2, <2>3, <2>4
  <2>14. /\ audience' = audience /\ \A q \in Query : Queued(q) => QueuedNext(q) \/ q = q1
         /\ \A n \in Msgs : msg[n].life = "gone" => msg'[n].life = "gone"
    BY <2>3, <2>4, <2>5, <2>6
  <2>15. QED  BY <2>10, <2>12, <2>13, <2>14, StepDelivers
<1>5. QED  BY <1>1, <1>2, <1>3, <1>4 DEF DeleteMsg

LEMMA CodeDelivers ==
  ASSUME DInv, NEW w \in Workers, CreateCode(w) \/ DeleteCode(w) \/ DeadlockFailsMsg(w)
  PROVE  Deliv'
<1>1. /\ pipe[w] # <<>> /\ Head(pipe[w]).kind \in {"create_code", "delete_code", "insert_msg"}
  BY DEF CreateCode, DeleteCode, DeadlockFailsMsg, MsgWaits, First
<1>2. pipe[w][1].kind \notin {"broadcast", "get_group"}  BY <1>1, FirstQuery DEF DInv
<1>3. CASE NoEffect(w)  BY <1>1, <1>2, <1>3, NoEffectDelivers
<1>4. CASE Answered(w, <<>>) /\ UNCHANGED <<member, msg, views, hist>>
  BY <1>1, <1>2, <1>4, SilentDelivers DEF views, hist
<1>5. QED  BY <1>3, <1>4 DEF CreateCode, DeleteCode, DeadlockFailsMsg

LEMMA CheckOwnerDelivers ==
  ASSUME DInv, NEW w \in Workers, CheckOwner(w)
  PROVE  Deliv'
<1>1. /\ pipe[w] # <<>> /\ Head(pipe[w]) = pipe[w][1] /\ QueryOK(pipe[w][1])
      /\ pipe[w][1].kind = "owner"
  BY FirstQuery DEF CheckOwner, First, DInv
<1>2. PICK u \in Users, g \in Groups : pipe[w][1].user = u /\ pipe[w][1].group = g
  BY <1>1 DEF QueryOK
<1>3. CASE NoEffect(w)  BY <1>1, <1>3, NoEffectDelivers
<1>4. CASE Answered(w, db_async_delete_group(u, g)) /\ UNCHANGED <<tables, tx, views, hist>>
  <2>1. PICK b \in Seq(Query) :
          b = db_async_delete_group(u, g) /\ \A j \in 1 .. Len(b) : b[j].kind \in TxKinds
    BY TransactionSeq
  <2>2. \A j \in 1 .. Len(b) : \A m \in Msgs : ~IsNews(b[j], "delete_msg", m)
    BY <2>1 DEF IsNews, TxKinds
  <2>3. UNCHANGED <<member, msg, audience, byCode, view, shown>>
    BY <1>4 DEF tables, views, hist
  <2>4. Answered(w, b)  BY <2>1, <1>4
  <2>5. QED  BY <2>2, <2>3, <2>4, <1>1, QuietDelivers
<1>5. QED  BY <1>1, <1>2, <1>3, <1>4 DEF CheckOwner

LEMMA StatementDelivers ==
  ASSUME DInv, NEW w \in Workers,
         \/ Begin(w) \/ Skipped(w) \/ SelectMemberIds(w) \/ DelMsgs(w)
         \/ DelMembers(w) \/ DelCodes(w) \/ DelGroup(w)
  PROVE  Deliv'
<1>1. /\ pipe[w] # <<>> /\ Head(pipe[w]).kind \in TxKinds
      /\ \E t : Statement(w, t)
  BY DEF Begin, Skipped, SelectMemberIds, DelMsgs, DelMembers, DelCodes, DelGroup, First, TxKinds
<1>2. pipe[w][1].kind \notin {"broadcast", "get_group"}
  BY <1>1, FirstQuery DEF DInv, TxKinds
<1>3. Answered(w, <<>>) /\ UNCHANGED <<member, msg, audience, byCode, view, shown>>
  BY <1>1 DEF Statement, tables, views, hist
<1>4. QED  BY <1>1, <1>2, <1>3, SilentDelivers

(* COMMIT removes members and messages of its group only, and all of them.   *)
LEMMA CommitDelivers ==
  ASSUME DInv, NEW w \in Workers, Commit(w)
  PROVE  Deliv'
<1>1. /\ pipe[w] # <<>> /\ Head(pipe[w]) = pipe[w][1] /\ pipe[w][1].kind = "commit"
  BY FirstQuery DEF Commit, First, DInv
<1>2. Answered(w, <<>>) /\ UNCHANGED <<audience, byCode>>  BY DEF Commit, hist
<1>3. CASE tx[w].failed
  <2>1. UNCHANGED <<member, msg, view, shown>>  BY <1>3 DEF Commit, tables, views
  <2>2. QED  BY <2>1, <1>1, <1>2, SilentDelivers
<1>4. CASE ~tx[w].failed
  <2>1. PICK t \in Tx : t = tx[w] /\ t.dropped
    <3>1. pipe[w][1].kind \in Inside  BY <1>1 DEF Inside, TxKinds
    <3>2. QED  BY <3>1, <1>1, <1>4, OpenTx DEF DInv
  <2>2. /\ \A p \in t.members : p[2] = t.group
        /\ \A m \in t.msgs : msg[m].life = "live"
    BY <2>1 DEF DInv, IInv, RowsHeld
  <2>3. \A m \in Msgs : msg[m].life = "live" /\ msg[m].group = t.group => m \in t.msgs
    BY <2>1 DEF DInv, IInv, Isolated
  <2>4. /\ member' = member \ t.members
        /\ msg' = [m \in Msgs |-> IF m \in t.msgs THEN [msg[m] EXCEPT !.life = "gone"] ELSE msg[m]]
        /\ view' = [u \in Users |-> IF u \in t.ids
                                    THEN {m \in view[u] : msg[m].group # t.group} ELSE view[u]]
        /\ shown' = shown
    BY <2>1, <1>4 DEF Commit
  <2>5. \A m \in Msgs : /\ m \in t.msgs => msg'[m].life = "gone"
                        /\ m \notin t.msgs => msg'[m] = msg[m]
    <3>1. \A m \in Msgs : msg[m] \in [life : Life, user : Users \cup {None}, group : Groups \cup {None}]
      BY DEF DInv, IInv, TableTypes
    <3>2. ASSUME NEW m \in Msgs, m \in t.msgs PROVE msg'[m].life = "gone"
      <4>1. msg'[m] = [msg[m] EXCEPT !.life = "gone"]  BY <3>2, <2>4
      <4>2. QED  BY <4>1, <3>1
    <3>3. QED  BY <3>2, <2>4
  <2>6. /\ \A q : Queued(q) => QueuedNext(q) \/ q = pipe[w][1]
        /\ \A q : QueuedNext(q) => Queued(q)
    <3>1. /\ \A q : Queued(q) => QueuedNext(q) \/ q = pipe[w][1]
          /\ \A q : QueuedNext(q) => Queued(q) \/ \E j \in 1 .. Len(<<>>) : q = <<>>[j]
      BY <1>1, <1>2, EmptyNews, QueueAfter DEF DInv, IInv
    <3>2. \A j \in 1 .. Len(<<>>) : FALSE  OBVIOUS
    <3>3. QED  BY <3>1, <3>2
  <2>7. PICK q1 : q1 = pipe[w][1]  OBVIOUS
  <2>8. \A u \in Users, g \in Groups : q1 # GetGroup(u, g)  BY <2>7, <1>1 DEF GetGroup, Q
  <2>9. \A g \in Groups, n \in Msgs : q1 # NewsOf(g, n)  BY <2>7, <1>1 DEF NewsOf, Q
  <2>10. \A u \in Users, g \in Groups : <<u, g>> \in member' =>
           \/ g \in shown'[u] \/ QueuedNext(GetGroup(u, g)) \/ Uncounted(u, g)'
           \/ /\ <<u, g>> \in member /\ q1 # GetGroup(u, g)
              /\ g \in shown[u] => g \in shown'[u]
              /\ Uncounted(u, g) => Uncounted(u, g)'
    <3>1. \A u \in Users, g \in Groups : Uncounted(u, g) => Uncounted(u, g)'
      BY <1>2 DEF Uncounted
    <3>2. QED  BY <3>1, <2>4, <2>8
  <2>11. ASSUME NEW n \in Msgs, msg'[n].life = "live", NEW u \in audience[n]
         PROVE  /\ msg'[n] = msg[n]
                /\ <<u, msg[n].group>> \in member => <<u, msg[n].group>> \in member'
                /\ n \in view[u] => n \in view'[u]
                /\ q1 # NewsOf(msg[n].group, n)
    <3>1. n \notin t.msgs /\ msg'[n] = msg[n] /\ msg[n].life = "live" /\ msg[n].group # t.group
      BY <2>3, <2>5, <2>11
    <3>2. msg[n].group \in Groups  BY <3>1 DEF DInv, IInv, TableTypes
    <3>3. <<u, msg[n].group>> \notin t.members  BY <3>1, <2>2
    <3>4. u \in Users  BY DEF DInv, Deliv, Audiences
    <3>5. QED  BY <3>1, <3>2, <3>3, <3>4, <2>4, <2>9
  <2>12. \A n \in Msgs : msg'[n].life = "live" => msg'[n] = msg[n]  BY <2>5
  <2>13. \A n \in Msgs : msg'[n].life = "live" =>
           /\ msg'[n] = msg[n]
           /\ \A u \in audience[n] :
                /\ <<u, msg[n].group>> \in member => <<u, msg[n].group>> \in member'
                /\ n \in view[u] => n \in view'[u]
                /\ q1 = NewsOf(msg[n].group, n) /\ <<u, msg[n].group>> \in member
                     => n \in view'[u]
    BY <2>11, <2>12
  <2>14. /\ audience' = audience /\ \A q \in Query : Queued(q) => QueuedNext(q) \/ q = q1
         /\ \A q \in Query, n \in Msgs :
              QueuedNext(q) /\ IsNews(q, "delete_msg", n) => Queued(q) \/ msg'[n].life = "gone"
         /\ \A n \in Msgs : msg[n].life = "gone" => msg'[n].life = "gone"
    BY <2>5, <2>6, <2>7, <1>2
  <2>15. QED  BY <2>10, <2>13, <2>14, StepDelivers
<1>5. QED  BY <1>3, <1>4

LEMMA InitDelivers == ASSUME Init PROVE Deliv
<1>1. \A w \in Workers : Len(pipe[w]) = 0  BY DEF Init
<1>2. \A q : ~Queued(q)  BY <1>1 DEF Queued
<1>3. member = {} /\ \A m \in Msgs : msg[m].life = "none"  BY DEF Init
<1>4. Audiences  BY DEF Init, Audiences
<1>5. QED  BY <1>2, <1>3, <1>4 DEF Deliv, Delivered, RemovesGone, ShownOrQueued

LEMMA StutterDelivers == ASSUME DInv, UNCHANGED vars PROVE Deliv'
<1> UNCHANGED <<member, msg, pipe, shown, view, audience, byCode>>  BY DEF vars
<1>1. Q("begin", None, None, None).kind \notin {"broadcast", "get_group"}  BY DEF Q
<1>2. \A q : Queued(q) <=> QueuedNext(q)  BY DEF Queued, QueuedNext
<1>3. \A m \in Msgs : ~IsNews(Q("begin", None, None, None), "delete_msg", m)
  BY <1>1 DEF IsNews
<1>4. QED  BY <1>1, <1>2, <1>3, QueuesDeliver

LEMMA DeliveryInvariant == Spec => []DInv
<1>1. Init => DInv  BY InitHolds, InitDelivers DEF DInv
<1>2. DInv /\ [Next]_vars => DInv'
  <2> SUFFICES ASSUME DInv, [Next]_vars PROVE DInv'  OBVIOUS
  <2>1. IInv'  BY NextKeeps DEF DInv
  <2>2. ASSUME NEW w \in Workers, Execute(w) PROVE Deliv'
    BY <2>2, CreateGroupDelivers, SendGroupsDelivers, SendMsgsDelivers, BroadcastDelivers,
       JoinPublicDelivers, JoinCodeReadsDelivers, JoinCodeUpdatesDelivers, InsertMsgDelivers,
       DeleteMsgDelivers, CodeDelivers, CheckOwnerDelivers, StatementDelivers, CommitDelivers
    DEF Execute
  <2>3. Deliv'  BY <2>2, RequestDelivers, StutterDelivers DEF Next
  <2>4. QED  BY <2>1, <2>3 DEF DInv
<1>3. QED  BY <1>1, <1>2, PTL DEF Spec

(* For any number of workers: while a message is there, whoever was a member *)
(* when it was inserted is one, and has it or its broadcast is queued        *)
(* (server_group_broadcast, chat/group.c).                                   *)
THEOREM MessageReachesMembersHolds == Spec => []MessageReachesMembers
<1>1. DInv => MessageReachesMembers
  <2> SUFFICES ASSUME DInv, NEW m \in Msgs, NEW u \in audience[m], msg[m].life = "live"
               PROVE  /\ u \in Members(msg[m].group)
                      /\ \/ m \in view[u]
                         \/ \E w \in Workers : \E i \in DOMAIN pipe[w] :
                              /\ pipe[w][i].kind = "broadcast" /\ pipe[w][i].group = msg[m].group
                              /\ pipe[w][i].arg = [what |-> "msg", msg |-> m]
    BY DEF MessageReachesMembers, BroadcastQueued
  <2>1. u \in Users /\ msg[m].group \in Groups
    BY DEF DInv, Deliv, Audiences, IInv, TableTypes
  <2>2. <<u, msg[m].group>> \in member /\ (m \in view[u] \/ Queued(NewsOf(msg[m].group, m)))
    BY DEF DInv, Deliv, Delivered
  <2>3. \A w \in Workers : DOMAIN pipe[w] = 1 .. Len(pipe[w])  BY DEF DInv, IInv, PipeTypes
  <2>4. QED  BY <2>1, <2>2, <2>3, QueriesTyped DEF Queued, Members
<1>2. QED  BY <1>1, DeliveryInvariant, PTL

(* For any number of workers: a member of a group has been sent the group,   *)
(* or the query that sends it is queued, or has joined with a use of a code  *)
(* that was not counted (on_user_group_join, chat/group.c).                  *)
THEOREM MemberIsShownGroupHolds == Spec => []MemberIsShownGroup
<1>1. DInv => MemberIsShownGroup
  <2> SUFFICES ASSUME DInv, NEW p \in member
               PROVE  \/ p[2] \in shown[p[1]]
                      \/ \E w \in Workers : \E i \in DOMAIN pipe[w] :
                           /\ pipe[w][i].kind = "get_group" /\ pipe[w][i].user = p[1]
                           /\ pipe[w][i].group = p[2]
                      \/ Uncounted(p[1], p[2])
    BY DEF MemberIsShownGroup, Uncounted
  <2>1. PICK u \in Users, g \in Groups : p = <<u, g>>  BY DEF DInv, IInv, TableTypes
  <2>2. g \in shown[u] \/ Queued(GetGroup(u, g)) \/ Uncounted(u, g)
    BY <2>1 DEF DInv, Deliv, ShownOrQueued
  <2>3. \A w \in Workers : DOMAIN pipe[w] = 1 .. Len(pipe[w])  BY DEF DInv, IInv, PipeTypes
  <2>4. GetGroup(u, g).kind = "get_group" /\ GetGroup(u, g).user = u /\ GetGroup(u, g).group = g
    BY DEF GetGroup, Q
  <2>5. QED  BY <2>1, <2>2, <2>3, <2>4 DEF Queued
<1>2. QED  BY <1>1, DeliveryInvariant, PTL
=============================================================================
