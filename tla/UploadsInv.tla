----------------------------- MODULE UploadsInv -----------------------------
(***************************************************************************)
(* What the proofs about Uploads are made of: the inductive invariants and  *)
(* the words they, and the lemmas of UploadsProofs, are stated in.          *)
(*                                                                          *)
(*   Types     the shape of the state,                                      *)
(*   Counts    posted attachments are counted and sent once,                *)
(*   FilesInv  the count covers what is referred to, owed and held,         *)
(*   DiskInv   the last queued write or unlink of a file is the right one,  *)
(*   EqualInv  nothing else is counted.                                     *)
(***************************************************************************)
EXTENDS Uploads

OneWorker == \E w \in Workers : Workers = {w}

-----------------------------------------------------------------------------
(* Types                                                                     *)

Query == [op : Ops, hash : Hash, arg : Tokens \cup Users \cup Msgs \cup {None},
          files : Seq(Hash), ok : BOOLEAN, n : Nat]

(* A query has the parameters its statement and its callback use.            *)
GoodQuery ==
  {c \in Query :
     /\ c.op \in {"insert_file", "update_pfp"} => c.hash \in Hashes
     /\ c.op = "update_pfp" => c.arg \in Users
     /\ c.op = "insert_msg" => c.arg \in Tokens /\ c.files \in [Index -> Hash]
     /\ c.op = "delete_msg" => c.arg \in Msgs}

Chains ==
  {c \in [cmds : Seq(GoodQuery), done : Nat, ran : Nat] :
     c.done <= Len(c.cmds) /\ c.ran < Len(c.cmds)}

Msg == [life : {"none", "live", "gone"}, token : Tokens \cup {None}, files : [Index -> Hash]]

Task == {x \in [step : {"idle", "save", "count", "test"}, token : Tokens \cup {None},
                index : Index, hash : Hash, read : Nat] :
           x.step # "idle" => x.token \in Tokens /\ x.hash \in Hashes}

(* The token of a profile picture has its user.                              *)
GoodToken == {x \in Token : x.type = "pfp" => x.user \in Users}

Types ==
  /\ token \in [Tokens -> GoodToken]
  /\ row \in [Hashes -> Nat] /\ disk \subseteq Hashes
  /\ msg \in [Msgs -> Msg]
  /\ pfp \in [Users -> Hash] /\ cached \in [Users -> Hash]
  /\ pipe \in [Workers -> Seq(Chains)]
  /\ task \in [Workers -> Task]
  /\ posted \in [Tokens -> SUBSET Index] /\ sent \in [Tokens -> Nat]
  /\ group \in BOOLEAN /\ doubt \subseteq Hashes /\ faults \in 0 .. MaxFaults /\ ub \in BOOLEAN

-----------------------------------------------------------------------------
(* Queries and chains                                                        *)

(* The pipeline after a callback, before what the callback sent.             *)
Rest(w) ==
  IF pipe[w][1].ran + 1 = Len(pipe[w][1].cmds) THEN Tail(pipe[w])
  ELSE [pipe[w] EXCEPT ![1] = CalledBack(@)]

-----------------------------------------------------------------------------
(* Counting the attachments of a message                                     *)

(* A token is tok, with the attachments p posted and its message sent s      *)
(* times, while the worker is at x: current lags behind what was posted by   *)
(* the attachment that is not counted yet, and the message was sent exactly  *)
(* when all of them were handled.                                            *)
Sound(t, tok, p, s, x) ==
  /\ tok.life = "none" => p = {} /\ tok.current = 0 /\ x.token # t
  /\ tok.life = "live" =>
       tok.current + (IF x.token = t /\ x.step \in {"save", "count"} THEN 1 ELSE 0) = Cardinality(p)
  /\ s = IF p = Index /\ x.token # t THEN 1 ELSE 0
  /\ x.token = t /\ x.step \in {"count", "test"} => x.read + 1 = Cardinality(p)

Counts ==
  ~ub => \A t \in Tokens, w \in Workers : Sound(t, token[t], posted[t], sent[t], task[w])

(* What the other operations do to a token: it is created, freed or left     *)
(* alone.                                                                    *)
Kept(t) ==
  /\ token'[t].current = token[t].current
  /\ \/ token'[t].life = token[t].life
     \/ token'[t].life = "freed"
     \/ token[t].life = "none" /\ token'[t].life = "live"

-----------------------------------------------------------------------------
(* Counting over families of sets                                            *)

(* Sizes of families of finite sets: how much there is of something in all   *)
(* chains, messages or tokens together.                                      *)
Pairs(G) == {z \in (DOMAIN G) \X UNION {G[k] : k \in DOMAIN G} : z[2] \in G[z[1]]}
Size(G) == Cardinality(Pairs(G))
Without(G, k) == {z \in Pairs(G) : z[1] # k}

IsFamily(G) == IsFiniteSet(DOMAIN G) /\ \A k \in DOMAIN G : IsFiniteSet(G[k])

(* H is G with another set at k.                                             *)
Exchanged(G, H, k) == Size(H) + Cardinality(G[k]) = Size(G) + Cardinality(H[k])

-----------------------------------------------------------------------------
(* What ref_count has to cover                                               *)

Where(f, h) == {i \in DOMAIN f : f[i] = h}

(* The chains that handlers and callbacks send.                              *)
Shape(ch) ==
  LET c == ch.cmds IN
  \/ /\ c[1].op = "insert_file" /\ Len(c) \in {2, 3} /\ c[2].op = "refcount"
     /\ Len(c) = 3 => c[3].op \in {"insert_msg", "update_pfp"}
  \/ c[1].op = "release" /\ \A j \in 1 .. Len(c) : c[j].op \in {"release", "refcount"}
  \/ c[1].op = "delete_msg" /\ Len(c) = 1
  \/ c[1].op = "select_attachs" /\ Len(c) = 2 /\ c[2].op = "delete_msgs"

Ends(ch, op) == Len(ch.cmds) = 3 /\ ch.cmds[3].op = op

(* The references a chain still has to release: the queries that do it, the  *)
(* files of messages it has deleted, and the picture it has put in place of  *)
(* another one.                                                              *)
Owed(ch, h) ==
  IF ch.cmds[1].op = "release"
  THEN {j \in 1 .. Len(ch.cmds) : ch.done < j /\ ch.cmds[j].op = "release" /\ ch.cmds[j].hash = h}
  ELSE IF \/ ch.cmds[1].op = "delete_msg" /\ ch.done = 1 /\ ch.cmds[1].ok
          \/ ch.cmds[1].op = "select_attachs" /\ ch.done = 2 /\ ch.ran = 0
  THEN Where(ch.cmds[1].files, h)
  ELSE IF Ends(ch, "update_pfp") /\ ch.done = 3 /\ ch.cmds[3].ok /\ ch.cmds[3].hash = h
  THEN {3}
  ELSE {}

(* The references its last query will make, and the count its first will add. *)
Due(ch, h) ==
  IF ch.done >= 3 THEN {}
  ELSE IF Ends(ch, "insert_msg") THEN Where(ch.cmds[3].files, h)
  ELSE IF Ends(ch, "update_pfp") /\ ch.cmds[3].hash = h THEN {3}
  ELSE {}

Coming(ch, h) ==
  IF ch.cmds[1].op = "insert_file" /\ ch.done = 0 /\ ch.cmds[1].hash = h THEN {1} ELSE {}

(* The same of a queue, of its first K chains.                               *)
OwedIn(p, h) == [k \in 1 .. Len(p) |-> Owed(p[k], h)]
DueIn(p, h, K) == [k \in 1 .. Len(p) |-> IF k <= K THEN Due(p[k], h) ELSE {}]
ComingIn(p, h, K) == [k \in 1 .. Len(p) |-> IF k <= K THEN Coming(p[k], h) ELSE {}]

(* The count r covers a references and what the queue owes, and goes on to   *)
(* cover them, however far the database gets; at the end of the queue it     *)
(* also covers the g files held for messages that are not complete, but for  *)
(* the c that are not in the queue yet.                                      *)
Covers(p, h, a, r) ==
  \A K \in Nat : a + Size(OwedIn(p, h)) + Size(DueIn(p, h, K)) <= r + Size(ComingIn(p, h, K))

CoversHeld(p, h, a, r, g, c) ==
  a + Size(OwedIn(p, h)) + Size(DueIn(p, h, Len(p))) + g <= r + Size(ComingIn(p, h, Len(p))) + c

(* The sizes after a chain is appended, replaced or removed.                 *)
AppendedSizes(p, q, ch, h) ==
  /\ Size(OwedIn(q, h)) = Size(OwedIn(p, h)) + Cardinality(Owed(ch, h))
  /\ \A K \in Nat :
       IF Len(p) < K
       THEN /\ Size(DueIn(q, h, K)) = Size(DueIn(p, h, K)) + Cardinality(Due(ch, h))
            /\ Size(ComingIn(q, h, K)) = Size(ComingIn(p, h, K)) + Cardinality(Coming(ch, h))
       ELSE /\ Size(DueIn(q, h, K)) = Size(DueIn(p, h, K))
            /\ Size(ComingIn(q, h, K)) = Size(ComingIn(p, h, K))

ReplacedSizes(p, q, k, ch, h) ==
  /\ Size(OwedIn(q, h)) + Cardinality(Owed(p[k], h))
       = Size(OwedIn(p, h)) + Cardinality(Owed(ch, h))
  /\ \A K \in Nat : k <= K =>
       /\ Size(DueIn(q, h, K)) + Cardinality(Due(p[k], h))
            = Size(DueIn(p, h, K)) + Cardinality(Due(ch, h))
       /\ Size(ComingIn(q, h, K)) + Cardinality(Coming(p[k], h))
            = Size(ComingIn(p, h, K)) + Cardinality(Coming(ch, h))

TailedSizes(p, q, h) ==
  /\ Size(OwedIn(p, h)) = Size(OwedIn(q, h)) + Cardinality(Owed(p[1], h))
  /\ \A K \in Nat :
       /\ Size(DueIn(p, h, K + 1)) = Size(DueIn(q, h, K)) + Cardinality(Due(p[1], h))
       /\ Size(ComingIn(p, h, K + 1)) = Size(ComingIn(q, h, K)) + Cardinality(Coming(p[1], h))

-----------------------------------------------------------------------------
(* What a query changes in the demands of its chain                          *)

(* The chain after its next query is executed, with the result cmd.          *)
AnswersTo(ch, cmd, q) ==
  /\ q.done = ch.done + 1 /\ q.ran = ch.ran /\ Len(q.cmds) = Len(ch.cmds)
  /\ q.cmds[ch.done + 1] = cmd
  /\ \A j \in 1 .. Len(ch.cmds) : /\ j # ch.done + 1 => q.cmds[j] = ch.cmds[j]
                                  /\ q.cmds[j].op = ch.cmds[j].op
                                  /\ q.cmds[j].hash = ch.cmds[j].hash
                                  /\ q.cmds[j].arg = ch.cmds[j].arg

SameQuery(c, d) == c.op = d.op /\ c.hash = d.hash /\ c.arg = d.arg

(* Where in its chain a query stands.                                        *)
Place(ch, j) ==
  LET op == ch.cmds[j].op
      first == ch.cmds[1].op
      n == Len(ch.cmds)
  IN
  /\ op = "insert_file" => j = 1 /\ n \in {2, 3}
  /\ op = "refcount" => first = "release" \/ (first = "insert_file" /\ j = 2 /\ n \in {2, 3})
  /\ op = "release" => first = "release"
  /\ op \in {"insert_msg", "update_pfp"} => first = "insert_file" /\ j = 3 /\ n = 3
  /\ op = "delete_msg" => j = 1 /\ n = 1
  /\ op = "select_attachs" => j = 1 /\ n = 2
  /\ op = "delete_msgs" => first = "select_attachs" /\ j = 2 /\ n = 2

(* A chain ch whose next query, op, is about to be executed, and the chain q *)
(* with its result.                                                          *)
Step(ch, op, cmd, q) ==
  /\ ch \in Chains /\ Shape(ch)
  /\ ch.done < Len(ch.cmds) /\ ch.cmds[ch.done + 1].op = op
  /\ AnswersTo(ch, cmd, q)

StepsTo(n, d, ch, op, cmd, q) ==
  /\ n = Len(ch.cmds) /\ d = ch.done /\ d < n /\ d + 1 \in 1 .. n /\ 1 \in 1 .. n
  /\ Place(ch, d + 1) /\ ch.cmds[d + 1].op = op
  /\ Len(q.cmds) = n /\ q.done = d + 1 /\ q.ran = ch.ran
  /\ q.cmds[d + 1] = cmd
  /\ \A j \in 1 .. n : /\ j # d + 1 => q.cmds[j] = ch.cmds[j]
                       /\ q.cmds[j].op = ch.cmds[j].op
                       /\ q.cmds[j].hash = ch.cmds[j].hash
                       /\ q.cmds[j].arg = ch.cmds[j].arg

-----------------------------------------------------------------------------
(* The order of a queue                                                      *)

(* The database is through with the chains before the first it is at, and    *)
(* has not begun with those behind.                                          *)
Sane(p) ==
  \A k \in 1 .. Len(p) :
    /\ Shape(p[k])
    /\ p[k].done < Len(p[k].cmds) => \A j \in 1 .. Len(p) : k < j => p[j].done = 0

-----------------------------------------------------------------------------
(* Profile pictures                                                          *)

(* The picture of u has been changed in the database, and its owner is yet   *)
(* to be told.                                                               *)
Pend(ch, u) ==
  Ends(ch, "update_pfp") /\ ch.done = 3 /\ ch.cmds[3].ok /\ ch.cmds[3].arg = u

(* The picture in the database is the one in memory, or that of the last     *)
(* change that is under way.                                                 *)
Claimed(p, u, new, old) ==
  \/ new = old /\ \A k \in 1 .. Len(p) : ~Pend(p[k], u)
  \/ \E k \in 1 .. Len(p) : /\ Pend(p[k], u) /\ p[k].cmds[3].hash = new
                            /\ \A j \in 1 .. Len(p) : Pend(p[j], u) => j <= k

-----------------------------------------------------------------------------
(* References                                                                *)

(* The references to h: in stored messages, as pictures in memory; and the   *)
(* files held for messages that are not sent yet.                            *)
MsgFiles(ms, h) == [m \in Msgs |-> IF ms[m].life = "live" THEN Where(ms[m].files, h) ELSE {}]
Pictures(c, h) == [u \in Users |-> IF c[u] = h THEN {1} ELSE {}]
HeldFiles(tk, s, h) ==
  [t \in Tokens |-> IF tk[t].life = "live" /\ s[t] = 0 THEN Where(tk[t].files, h) ELSE {}]

(* ms has the messages of ms2 and one more, with the files f.                *)
OneMore(ms, ms2, f, h) ==
  Size(MsgFiles(ms, h)) = Size(MsgFiles(ms2, h)) + Cardinality(Where(f, h))

(* c2 is c with the picture f in the place of old.                           *)
OtherPicture(c, c2, f, old, h) ==
  Size(Pictures(c2, h)) + (IF old = h THEN 1 ELSE 0) = Size(Pictures(c, h)) + (IF f = h THEN 1 ELSE 0)

-----------------------------------------------------------------------------
(* Pictures in the database are covered by those in memory and by those that *)
(* the queue owes.                                                           *)

(* Attachment i of the l-th of n messages is in the list.                    *)
HasRow(T, n, l, i) == \E j \in 1 .. T * n : (j - 1) \div T = l - 1 /\ (j - 1) % T = i - 1

-----------------------------------------------------------------------------
(* The invariant behind RefCountCovers                                       *)

Refs(ms, c, h) == Size(MsgFiles(ms, h)) + Size(Pictures(c, h))

(* 1 while the task's file is in its message and not in the queue yet.       *)
Taken(x, h) == IF x.step \in {"count", "test"} /\ x.hash = h THEN 1 ELSE 0

Paid(p, h, a, r, g, c) == Covers(p, h, a, r) /\ CoversHeld(p, h, a, r, g, c)

(* Selected attachments are those of the messages that are stored.           *)
Stored(files, ms) == \A h \in Hashes : Cardinality(Where(files, h)) = Size(MsgFiles(ms, h))

Selected(p, ms) ==
  \A k \in 1 .. Len(p) :
    p[k].cmds[1].op = "select_attachs" /\ p[k].done = 1 => Stored(p[k].cmds[1].files, ms)

Accounts(p, tk, r, ms, pf, c, s, x) ==
  /\ Sane(p)
  /\ Selected(p, ms)
  /\ \A u \in Users : Claimed(p, u, pf[u], c[u])
  /\ \A h \in Hashes : Paid(p, h, Refs(ms, c, h), r[h], Size(HeldFiles(tk, s, h)), Taken(x, h))

Fresh(tk) == \A t \in Tokens : tk[t].life = "none" => tk[t].files = NoFiles

FilesInv ==
  ~ub => /\ Fresh(token)
         /\ \A w \in Workers : Accounts(pipe[w], token, row, msg, pfp, cached, sent, task[w])

(* What the database has executed, q, of the chain it is at, k.              *)
Executing(p, k, op, cmd, q) ==
  /\ k \in 1 .. Len(p) /\ q \in Chains /\ Step(p[k], op, cmd, q)
  /\ Sane([p EXCEPT ![k] = q])
  /\ \A h : \A j \in 1 .. k - 1 : Due(p[j], h) = {} /\ Coming(p[j], h) = {}
  /\ \A j \in 1 .. Len(p) : k < j => p[j].done = 0
  /\ \A j \in 1 .. Len(p) : j # k => ~(p[j].cmds[1].op = "select_attachs" /\ p[j].done = 1)

-----------------------------------------------------------------------------
(* The database keeps the accounts.                                          *)

(* The count and the references of h before and after the database has       *)
(* executed a query of ch.                                                   *)
Balance(ch, q, h, a, a2, r, r2) ==
  /\ Coming(q, h) = {}
  /\ a2 + Cardinality(Owed(q, h)) + Cardinality(Due(q, h)) + r + Cardinality(Coming(ch, h))
       <= a + Cardinality(Owed(ch, h)) + Cardinality(Due(ch, h)) + r2

-----------------------------------------------------------------------------
(* Handlers keep the accounts.                                               *)

(* What the handler's chain brings covers what it will refer to, and what is *)
(* held afterwards.                                                          *)
Charged(ch, h, g, c, g2) ==
  /\ Owed(ch, h) = {}
  /\ Cardinality(Due(ch, h)) + g2 + c <= Cardinality(Coming(ch, h)) + g

(* No query: what is held does not grow but by the task's own file.          *)
Holds(g, c, g2, c2) == g2 + c <= g + c2

-----------------------------------------------------------------------------
(* Callbacks keep the accounts.                                              *)

LastRuns(p) == p[1].ran + 1 = Len(p[1].cmds)

RestOf(p) == IF LastRuns(p) THEN Tail(p) ELSE [p EXCEPT ![1] = CalledBack(p[1])]

(* The first chain of a queue, answered.                                     *)
Ready(p) == p # <<>> /\ p[1].done = Len(p[1].cmds)

(* The callback's chain ch takes over what its own chain, first, owed.       *)
TakesOver(ch, first, h, a, a2) ==
  /\ Due(ch, h) = {} /\ Coming(ch, h) = {}
  /\ a2 + Cardinality(Owed(ch, h)) <= a + Cardinality(Owed(first, h))

(* The callback of w that runs, of query j of chain ch.                      *)
Calls(w, op, ch, j) ==
  /\ ch = pipe[w][1] /\ j = ch.ran + 1
  /\ ch \in Chains /\ Shape(ch) /\ j \in Nat /\ j \in 1 .. Len(ch.cmds)
  /\ Place(ch, j) /\ ch.cmds[j].op = op
  /\ ch.done = Len(ch.cmds) /\ This(w) = ch.cmds[j]
  /\ LastRuns(pipe[w]) <=> j = Len(ch.cmds)

-----------------------------------------------------------------------------
(* What the queue will do to a file on disk                                  *)

IsFile(c) == c.op \in {"insert_file", "release"}

(* A query that counts is followed by the one that reads the count; the      *)
(* callbacks of a chain wait for all its results, and a query has not failed *)
(* before it is executed.                                                    *)
Tidy(ch) ==
  /\ \A j \in 1 .. Len(ch.cmds) : IsFile(ch.cmds[j]) =>
       /\ j + 1 \in 1 .. Len(ch.cmds) /\ ch.cmds[j + 1].op = "refcount"
       /\ ch.cmds[j + 1].hash = ch.cmds[j].hash
  /\ ch.ran # 0 => ch.done = Len(ch.cmds)
  /\ \A j \in 1 .. Len(ch.cmds) : ch.done < j => ch.cmds[j].ok

Orderly(p) == \A k \in 1 .. Len(p) : Tidy(p[k])

(* The count that goes with query i of a chain: the one that was read behind *)
(* it, or, until then, that of the row, r.                                   *)
Reads(ch, i, r) == IF i + 1 <= ch.done THEN ch.cmds[i + 1].n ELSE r

(* What the callback of query i is going to do to the file h.                *)
Effect(ch, i, h, r) ==
  IF i <= ch.ran \/ ch.done < i \/ ch.cmds[i].hash # h THEN "none"
  ELSE IF ch.cmds[i].op = "insert_file" /\ Reads(ch, i, r) = 1 THEN "write"
  ELSE IF ch.cmds[i].op = "release" /\ ch.cmds[i].ok /\ Reads(ch, i, r) = 0 THEN "unlink"
  ELSE "none"

At(p, k, i, h, r) == IF k \in 1 .. Len(p) THEN Effect(p[k], i, h, r) ELSE "none"

Later(k, i, l, j) == k < l \/ (k = l /\ i < j)

(* Of the effects e and f, either the last one under way is e, or there is   *)
(* no f and things are as e leaves them.                                     *)
Outcome(p, h, r, b, e, f) ==
  \/ b /\ \A l, j \in Nat : At(p, l, j, h, r) # f
  \/ \E k, i \in Nat : /\ At(p, k, i, h, r) = e
                       /\ \A l, j \in Nat : Later(k, i, l, j) => At(p, l, j, h, r) # f

(* The file will be there exactly if it has a row.                           *)
Right(p, h, r, b) ==
  IF r > 0 THEN Outcome(p, h, r, b, "write", "unlink")
  ELSE Outcome(p, h, r, ~b, "unlink", "write")

DiskInv ==
  ~ub => \A w \in Workers :
    /\ Orderly(pipe[w])
    /\ \A h \in Hashes \ doubt : Right(pipe[w], h, row[h], h \in disk)

(* What the query that has just been executed makes of the file h.           *)
NewEffect(op, cmd, h, r) ==
  IF cmd.hash # h THEN "none"
  ELSE IF op = "insert_file" /\ r = 1 THEN "write"
  ELSE IF op = "release" /\ cmd.ok /\ r = 0 THEN "unlink"
  ELSE "none"

(* The count that is read is that of the row.                                *)
ReadsRow(op, cmd, h, r) == op = "refcount" /\ cmd.hash = h => cmd.n = r

(* The effects of a chain before and after one of its queries is executed.   *)
StepEffects(ch, op, cmd, q, h, r, r2) ==
  \A i \in Nat :
    /\ i # ch.done + 1 => Effect(q, i, h, r2) = Effect(ch, i, h, r)
    /\ i = ch.done + 1 => /\ Effect(ch, i, h, r) = "none"
                          /\ Effect(q, i, h, r2) = NewEffect(op, cmd, h, r2)
    /\ ch.done + 1 < i => Effect(q, i, h, r2) = "none"

(* The first effect, x, is applied to things that are as e leaves them or    *)
(* not (b).                                                                  *)
Applied(x, b, e, f) == IF x = e THEN TRUE ELSE IF x = f THEN FALSE ELSE b

(* Query i of the first chain of p comes first, and q is p without it.       *)
FirstGone(p, q, i, h, r) ==
  \A l, j \in Nat :
    /\ At(q, l, j, h, r) = IF l = 1 /\ j = i THEN "none" ELSE At(p, l, j, h, r)
    /\ At(p, l, j, h, r) = "none" \/ (l = 1 /\ j = i) \/ Later(1, i, l, j)

(* q is p without its first chain, whose only effect is that of query i.     *)
Shifted(p, q, h, r) ==
  /\ \A l, j \in Nat : l # 0 => At(q, l, j, h, r) = At(p, l + 1, j, h, r)
  /\ \A j \in Nat : At(q, 0, j, h, r) = "none" /\ At(p, 0, j, h, r) = "none"

OnlyAt(p, i, h, r) == \A j \in Nat : j # i => At(p, 1, j, h, r) = "none"

(* A chain that has just been sent.                                          *)
New(ch) == ch \in Chains /\ ch.done = 0 /\ ch.ran = 0 /\ Tidy(ch)

-----------------------------------------------------------------------------
(* The disk follows the rows.                                                *)

(* The row before and after a query, and what its callback will do.          *)
Decides(op, cmd, h, r, r2) ==
  /\ ReadsRow(op, cmd, h, r)
  /\ \/ NewEffect(op, cmd, h, r2) = "write" /\ r2 > 0
     \/ NewEffect(op, cmd, h, r2) = "unlink" /\ r2 = 0
     \/ NewEffect(op, cmd, h, r2) = "none" /\ (r2 > 0 <=> r > 0)

-----------------------------------------------------------------------------
(* Callbacks write and unlink.                                               *)

(* What the callback does to the file h is what its query had in store.      *)
Does(w, h) ==
  h \in disk' <=> Applied(Effect(pipe[w][1], pipe[w][1].ran + 1, h, row[h]), h \in disk,
                          "write", "unlink")

-----------------------------------------------------------------------------
(* The count is what is referred to, owed and kept                           *)

(* The message of token t is queued.                                         *)
Awaits(ch, t) == Ends(ch, "insert_msg") /\ ch.done < 3 /\ ch.cmds[3].arg = t

(* It is stored, was deleted, or is queued.                                  *)
Underway(p, ms, t) ==
  (\E m \in Msgs : ms[m].token = t) \/ \E k \in 1 .. Len(p) : Awaits(p[k], t)

(* The files posted for the other tokens, whose message may never come.      *)
KeptFiles(p, tk, ms, h) ==
  [t \in Tokens |-> IF Underway(p, ms, t) THEN {} ELSE Where(tk[t].files, h)]

(* CoversHeld as an equation: nothing is counted that is not referred to,    *)
(* owed or kept.                                                             *)
Balanced(p, h, a, r, g, c) ==
  a + Size(OwedIn(p, h)) + Size(DueIn(p, h, Len(p))) + g = r + Size(ComingIn(p, h, Len(p))) + c

(* A token's message is queued in p.                                         *)
Waiting(p, t) == \E k \in 1 .. Len(p) : Awaits(p[k], t)

(* What is kept differs at most for token t.                                 *)
OthersKept(p, tk, ms, q, tk2, ms2, t) ==
  \A v \in Tokens : v # t => /\ tk2[v].files = tk[v].files
                             /\ Underway(q, ms2, v) <=> Underway(p, ms, v)

(* Nothing changes.                                                          *)
AllKept(p, tk, ms, q, tk2, ms2) ==
  \A v \in Tokens : tk2[v].files = tk[v].files /\ (Underway(q, ms2, v) <=> Underway(p, ms, v))

-----------------------------------------------------------------------------
(* Queued messages                                                           *)

(* The message that is queued has the files of its token, was sent, and is   *)
(* not stored.                                                               *)
Sure(ch, tk, ms, s, t) ==
  s[t] # 0 /\ ch.cmds[3].files = tk[t].files /\ \A m \in Msgs : ms[m].token # t

MsgsSent(ms, s) ==
  \A m \in Msgs : /\ \A t \in Tokens : ms[m].token = t => s[t] # 0
                  /\ ms[m].life = "none" => ms[m].token = None

(* Every token has at most one message, queued or stored.                    *)
Backed(p, tk, ms, s) ==
  /\ MsgsSent(ms, s)
  /\ \A k \in 1 .. Len(p), t \in Tokens : Awaits(p[k], t) => Sure(p[k], tk, ms, s, t)
  /\ \A j, k \in 1 .. Len(p), t \in Tokens : Awaits(p[j], t) /\ Awaits(p[k], t) => j = k

(* The queue q has what p has behind its first d chains, or less.            *)
Moved(p, q, d) ==
  \A k \in 1 .. Len(q) : \A t \in Tokens :
    Awaits(q[k], t) => /\ k + d \in 1 .. Len(p) /\ Awaits(p[k + d], t)
                       /\ q[k].cmds[3].files = p[k + d].cmds[3].files

(* What the messages q waits for need is left as it is.                      *)
Spared(q, tk, ms, s, tk2, ms2, s2) ==
  \A t \in Tokens : Waiting(q, t) =>
    /\ tk2[t].files = tk[t].files
    /\ s[t] # 0 => s2[t] # 0
    /\ \A m \in Msgs : ms2[m].token = t => \E l \in Msgs : ms[l].token = t

(* A chain that may be added.                                                *)
Joins(ch, p, tk, ms, s) ==
  \A t \in Tokens : Awaits(ch, t) => Sure(ch, tk, ms, s, t) /\ ~Waiting(p, t)

(* ch waits for no more than old.                                            *)
Follows(ch, old) ==
  \A t \in Tokens : Awaits(ch, t) => Awaits(old, t) /\ ch.cmds[3] = old.cmds[3]

-----------------------------------------------------------------------------
(* An attachment that is in its message was posted, and is not the one the   *)
(* worker is about to save, which was posted too.                            *)

Filled(tk, po, x) ==
  /\ \A t \in Tokens, i \in Index : tk[t].life = "live" /\ tk[t].files[i] # None =>
       i \in po[t] /\ ~(x.step = "save" /\ x.token = t /\ x.index = i)
  /\ x.step = "save" => x.index \in po[x.token]

InBalance(p, tk, r, ms, c, x, D) ==
  \A h \in Hashes \ D :
    Balanced(p, h, Refs(ms, c, h), r[h], Size(KeptFiles(p, tk, ms, h)), Taken(x, h))

(* The invariant behind FilesMatchReferences, next to FilesInv and DiskInv.  *)
EqualInv ==
  ~ub => \A w \in Workers :
    /\ Backed(pipe[w], token, msg, sent)
    /\ Filled(token, posted, task[w])
    /\ InBalance(pipe[w], token, row, msg, cached, task[w], doubt)

(* Messages keep their tokens.                                               *)
SameTokens(ms, ms2) ==
  \A m \in Msgs : ms2[m].token = ms[m].token /\ (ms2[m].life = "none" => ms[m].life = "none")

(* The balance before and after the database has executed a query of ch.     *)
Even(ch, q, h, a, a2, r, r2) ==
  /\ Coming(q, h) = {}
  /\ a2 + Cardinality(Owed(q, h)) + Cardinality(Due(q, h)) + r + Cardinality(Coming(ch, h))
       = a + Cardinality(Owed(ch, h)) + Cardinality(Due(ch, h)) + r2

AllEven(ch, q, ms, ms2, c, r, r2, D) ==
  \A h \in Hashes \ D : Even(ch, q, h, Refs(ms, c, h), Refs(ms2, c, h), r[h], r2[h])

(* A message of token t is stored in the place of none, or it is refused.    *)
StoredOrNot(ms, ms2, t, f) ==
  \/ ms2 = ms
  \/ \E m \in Msgs : /\ ms[m].life = "none"
                     /\ ms2 = [ms EXCEPT ![m] = [life |-> "live", token |-> t, files |-> f]]

-----------------------------------------------------------------------------
(* Handlers keep the balance.                                                *)

(* What is kept changes by the task's own file.                              *)
Keeps(g, c, g2, c2) == g2 + c = g + c2

AllHeld(p, tk, tk2, ms, x, x2) ==
  \A h \in Hashes : Keeps(Size(KeptFiles(p, tk, ms, h)), Taken(x, h),
                          Size(KeptFiles(p, tk2, ms, h)), Taken(x2, h))

SameFiles(tk, tk2) == \A t \in Tokens : tk2[t].files = tk[t].files

(* What a handler's chain brings and asks for, and what is kept then.        *)
Charges(ch, h, g, c, g2, c2) ==
  Cardinality(Owed(ch, h)) + Cardinality(Due(ch, h)) + g2 + c = g + Cardinality(Coming(ch, h)) + c2

AllCharged(ch, p, q, tk, tk2, ms, x, x2) ==
  \A h \in Hashes : Charges(ch, h, Size(KeptFiles(p, tk, ms, h)), Taken(x, h),
                            Size(KeptFiles(q, tk2, ms, h)), Taken(x2, h))

(* A chain without a message.                                                *)
AwaitsNone(ch) == \A t \in Tokens : ~Awaits(ch, t)

(* What such a chain brings is what it asks for and what is taken.           *)
Pays(ch, h, c, c2) ==
  Owed(ch, h) = {} /\ Cardinality(Due(ch, h)) + c = Cardinality(Coming(ch, h)) + c2

-----------------------------------------------------------------------------
(* Callbacks keep the balance.                                               *)

(* What the first chain of p owes when its callback has run.                 *)
Left(p, h) == IF LastRuns(p) THEN {} ELSE Owed(CalledBack(p[1]), h)

(* What the callback sends takes over what its chain owed, or the references *)
(* grow by it.                                                               *)
Hands(p, more, h, a, a2) ==
  IF more = <<>> THEN a2 + Cardinality(Left(p, h)) = a + Cardinality(Owed(p[1], h))
  ELSE /\ a2 + Cardinality(Owed(Chain(more), h)) + Cardinality(Left(p, h))
            = a + Cardinality(Owed(p[1], h))
       /\ Due(Chain(more), h) = {} /\ Coming(Chain(more), h) = {}

AllHand(p, more, ms, c, c2, D) ==
  \A h \in Hashes \ D : Hands(p, more, h, Refs(ms, c, h), Refs(ms, c2, h))

(* A callback that releases nothing.                                         *)
Quiet(w, op) ==
  op # "select_attachs" /\ (op \in {"update_pfp", "delete_msg"} => ~This(w).ok)

-----------------------------------------------------------------------------
(* A crash: the work that is lost was about the files in doubt.              *)

(* Nothing in chain ch is about file h.                                      *)
Spares(ch, h) ==
  \A j \in 1 .. Len(ch.cmds) : /\ ch.cmds[j].hash # h /\ Where(ch.cmds[j].files, h) = {}
                               /\ ch.cmds[j].op = "update_pfp" => cached[ch.cmds[j].arg] # h

Unconcerned(p, h) ==
  \A k \in 1 .. Len(p) : Owed(p[k], h) = {} /\ Due(p[k], h) = {} /\ Coming(p[k], h) = {}

=============================================================================
