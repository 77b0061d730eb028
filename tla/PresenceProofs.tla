--------------------------- MODULE PresenceProofs ---------------------------
(***************************************************************************)
(* Proofs about Presence, for every number of users, connections and groups *)
(* and every length of the pipeline, with one worker.  With two the         *)
(* broadcasts of a user's coming and going are in different pipelines, and  *)
(* either may be the last to arrive.                                        *)
(***************************************************************************)
EXTENDS Presence, TLAPS

OneWorker == \A v, w \in Workers : v = w

Types ==
  /\ life \in [Conns -> {"none", "open", "freed"}]
  /\ dbuser \in [Conns -> Users \cup {None}]
  /\ status \in [Conns -> Status]
  /\ user_ht \in [Users -> Conns \cup {None}]
  /\ members \in [Groups -> SUBSET Users]
  /\ page \in [Conns -> [Users -> Status \cup {"unknown"}]]
  /\ pipe \in [Workers -> Seq(Query)]

(* An open connection is in user_ht under its user, unless its entry was     *)
(* lost; what is in user_ht is open.  A connection that is not open has told *)
(* nobody that its user is online, and its page knows nobody.                *)
Entered ==
  /\ \A c \in Conns : life[c] = "open" =>
       dbuser[c] \in Users /\ (dbuser[c] \notin missed => user_ht[dbuser[c]] = c)
  /\ \A u \in Users : user_ht[u] # None =>
       life[user_ht[u]] = "open" /\ dbuser[user_ht[u]] = u
  /\ \A c \in Conns : life[c] # "open" =>
       status[c] = "offline" /\ \A u \in Users : page[c][u] = "unknown"

USE NoneAssumption, MaxPipeAssumption

-----------------------------------------------------------------------------
(* Queues.  A query that would leave a page with another status of u than s  *)
(* is followed by a broadcast of s.                                          *)
Corrects(q, u, s) == IsAbout(q, u) /\ q.status = s
Misstates(q, u, s) ==
  \/ IsAbout(q, u) /\ q.status # s
  \/ q.kind = "get_user" /\ u \in q.users /\ s # RowStatus
Settled(p, u, s) ==
  \A i \in 1 .. Len(p) : Misstates(p[i], u, s) =>
    \E k \in 1 .. Len(p) : i < k /\ Corrects(p[k], u, s)
Coming(p, u, s) == \E i \in 1 .. Len(p) : Corrects(p[i], u, s)

AllSettled == \A u \in Announced, w \in Workers : Settled(pipe[w], u, TrueStatus(u))
AllCorrected ==
  \A c \in Conns, u \in Announced : Watches(c, u) =>
    page[c][u] = TrueStatus(u) \/ \E w \in Workers : Coming(pipe[w], u, TrueStatus(u))

IInv == Types /\ Entered /\ AllSettled /\ AllCorrected

(* What another query behind them does to these ...                          *)
LEMMA OfAppend ==
  ASSUME NEW p \in Seq(Query), NEW q \in Query, NEW u, NEW s
  PROVE  /\ Settled(p, u, s) /\ ~Misstates(q, u, s) => Settled(Append(p, q), u, s)
         /\ Corrects(q, u, s) => Settled(Append(p, q), u, s)
         /\ Coming(p, u, s) \/ Corrects(q, u, s) => Coming(Append(p, q), u, s)
<1>1. PICK n \in Nat : n = Len(p)  OBVIOUS
<1>2. PICK r : r = Append(p, q)  OBVIOUS
<1>3. /\ Len(r) = n + 1 /\ r[n + 1] = q /\ n + 1 \in 1 .. n + 1
      /\ \A i \in 1 .. n : r[i] = p[i] /\ i \in 1 .. n + 1 /\ i < n + 1
      /\ \A i \in 1 .. n + 1 : i \in 1 .. n \/ i = n + 1
  BY <1>1, <1>2
<1>4. Settled(p, u, s) /\ ~Misstates(q, u, s) => Settled(r, u, s)
  BY <1>1, <1>3 DEF Settled
<1>5. Corrects(q, u, s) => Settled(r, u, s)
  <2>1. Corrects(q, u, s) => ~Misstates(q, u, s)
    BY DEF Corrects, Misstates, IsAbout
  <2>2. QED  BY <1>3, <2>1 DEF Settled
<1>6. Coming(p, u, s) \/ Corrects(q, u, s) => Coming(r, u, s)
  BY <1>1, <1>3 DEF Coming
<1>7. QED  BY <1>2, <1>4, <1>5, <1>6

(* ... and what the answer to the first does.                                *)
LEMMA OfTail ==
  ASSUME NEW p \in Seq(Query), p # <<>>, NEW u, NEW s
  PROVE  /\ Settled(p, u, s) => Settled(Tail(p), u, s)
         /\ Settled(p, u, s) /\ Misstates(Head(p), u, s) => Coming(Tail(p), u, s)
         /\ Coming(p, u, s) /\ ~Corrects(Head(p), u, s) => Coming(Tail(p), u, s)
<1>1. PICK n \in Nat : n = Len(p)  OBVIOUS
<1>2. PICK r : r = Tail(p)  OBVIOUS
<1>3. /\ Len(r) = n - 1 /\ n >= 1 /\ Head(p) = p[1] /\ 1 \in 1 .. n
      /\ \A i \in 1 .. n - 1 : r[i] = p[i + 1] /\ i + 1 \in 1 .. n
      /\ \A i \in 1 .. n : 1 < i => i - 1 \in 1 .. n - 1 /\ r[i - 1] = p[i]
  BY <1>1, <1>2
<1>4. Settled(p, u, s) => Settled(r, u, s)
  <2> SUFFICES ASSUME Settled(p, u, s), NEW i \in 1 .. n - 1, Misstates(r[i], u, s)
               PROVE  \E k \in 1 .. n - 1 : i < k /\ Corrects(r[k], u, s)
    BY <1>3 DEF Settled
  <2>1. PICK k \in 1 .. n : i + 1 < k /\ Corrects(p[k], u, s)
    BY <1>1, <1>3 DEF Settled
  <2>2. k - 1 \in 1 .. n - 1 /\ i < k - 1 /\ r[k - 1] = p[k]  BY <1>3, <2>1
  <2>3. QED  BY <2>1, <2>2
<1>5. Settled(p, u, s) /\ Misstates(Head(p), u, s) => Coming(r, u, s)
  <2> SUFFICES ASSUME Settled(p, u, s), Misstates(p[1], u, s) PROVE Coming(r, u, s)
    BY <1>3
  <2>1. PICK k \in 1 .. n : 1 < k /\ Corrects(p[k], u, s)  BY <1>1, <1>3 DEF Settled
  <2>2. QED  BY <1>3, <2>1 DEF Coming
<1>6. Coming(p, u, s) /\ ~Corrects(Head(p), u, s) => Coming(r, u, s)
  <2> SUFFICES ASSUME Coming(p, u, s), ~Corrects(p[1], u, s) PROVE Coming(r, u, s)
    BY <1>3
  <2>1. PICK k \in 1 .. n : Corrects(p[k], u, s)  BY <1>1 DEF Coming
  <2>2. 1 < k  BY <2>1
  <2>3. QED  BY <1>3, <2>1, <2>2 DEF Coming
<1>7. QED  BY <1>2, <1>4, <1>5, <1>6

LEMMA PushTyped ==
  ASSUME Types, NEW w \in Workers, NEW q \in Query, Push(w, q)
  PROVE  pipe' \in [Workers -> Seq(Query)] /\ pipe'[w] = Append(pipe[w], q)
<1>1. Append(pipe[w], q) \in Seq(Query)  BY DEF Types
<1>2. QED  BY <1>1 DEF Types, Push

LEMMA PopTyped ==
  ASSUME Types, NEW w \in Workers, pipe[w] # <<>>, Pop(w)
  PROVE  /\ pipe' \in [Workers -> Seq(Query)] /\ pipe'[w] = Tail(pipe[w])
         /\ pipe[w] \in Seq(Query) /\ Head(pipe[w]) \in Query
<1>1. pipe[w] \in Seq(Query)  BY DEF Types
<1>2. Tail(pipe[w]) \in Seq(Query) /\ Head(pipe[w]) \in Query  BY <1>1
<1>3. QED  BY <1>1, <1>2 DEF Types, Pop

-----------------------------------------------------------------------------
(* What is true of a user stays true, no page comes to watch, and the worker *)
(* sends at most a query that says nothing false, or one that corrects.      *)
LEMMA SendStep ==
  ASSUME IInv, OneWorker, Types', NEW w \in Workers,
         NEW q \in Query, UNCHANGED pipe \/ Push(w, q),
         \A u \in Announced' :
           \/ Push(w, q) /\ Corrects(q, u, TrueStatus(u)')
           \/ /\ u \in Announced /\ TrueStatus(u)' = TrueStatus(u)
              /\ Push(w, q) => ~Misstates(q, u, TrueStatus(u))
              /\ \A c \in Conns : Watches(c, u)' =>
                   \/ Watches(c, u) /\ page'[c][u] = page[c][u]
                   \/ page'[c][u] = TrueStatus(u)
  PROVE  AllSettled' /\ AllCorrected'
<1>1. ASSUME NEW u \in Announced', Push(w, q), Corrects(q, u, TrueStatus(u)')
      PROVE  Settled(pipe'[w], u, TrueStatus(u)') /\ Coming(pipe'[w], u, TrueStatus(u)')
  <2>1. pipe[w] \in Seq(Query) /\ pipe'[w] = Append(pipe[w], q)
    BY <1>1, PushTyped DEF IInv, Types
  <2>2. QED  BY <1>1, <2>1, OfAppend
<1>2. ASSUME NEW u \in Announced', u \in Announced, TrueStatus(u)' = TrueStatus(u),
             Push(w, q) => ~Misstates(q, u, TrueStatus(u))
      PROVE  /\ Settled(pipe'[w], u, TrueStatus(u)')
             /\ Coming(pipe[w], u, TrueStatus(u)) => Coming(pipe'[w], u, TrueStatus(u)')
  <2>1. pipe[w] \in Seq(Query) /\ Settled(pipe[w], u, TrueStatus(u))
    BY <1>2 DEF IInv, Types, AllSettled
  <2>2. CASE UNCHANGED pipe  BY <1>2, <2>1, <2>2
  <2>3. CASE Push(w, q)
    <3>1. pipe'[w] = Append(pipe[w], q)  BY <2>3, PushTyped DEF IInv
    <3>2. QED  BY <1>2, <2>1, <2>3, <3>1, OfAppend
  <2>4. QED  BY <2>2, <2>3
<1>3. AllSettled'
  <2> SUFFICES ASSUME NEW u \in Announced', NEW v \in Workers
               PROVE  Settled(pipe'[v], u, TrueStatus(u)')
    BY DEF AllSettled
  <2>1. v = w  BY DEF OneWorker
  <2>2. QED  BY <1>1, <1>2, <2>1
<1>4. AllCorrected'
  <2> SUFFICES ASSUME NEW c \in Conns, NEW u \in Announced', Watches(c, u)',
                      page'[c][u] # TrueStatus(u)'
               PROVE  Coming(pipe'[w], u, TrueStatus(u)')
    BY DEF AllCorrected
  <2>1. CASE Push(w, q) /\ Corrects(q, u, TrueStatus(u)')  BY <1>1, <2>1
  <2>2. CASE ~(Push(w, q) /\ Corrects(q, u, TrueStatus(u)'))
    <3>1. /\ u \in Announced /\ TrueStatus(u)' = TrueStatus(u)
          /\ Push(w, q) => ~Misstates(q, u, TrueStatus(u))
          /\ Watches(c, u) /\ page[c][u] # TrueStatus(u)
      BY <2>2
    <3>2. \E v \in Workers : Coming(pipe[v], u, TrueStatus(u))
      BY <3>1 DEF IInv, AllCorrected
    <3>3. Coming(pipe[w], u, TrueStatus(u))  BY <3>2 DEF OneWorker
    <3>4. QED  BY <1>2, <3>1, <3>3
  <2>3. QED  BY <2>1, <2>2
<1>5. QED  BY <1>3, <1>4

(* The first answer: a page it makes wrong is corrected by what follows.     *)
LEMMA AnswerStep ==
  ASSUME IInv, OneWorker, Types', NEW w \in Workers, pipe[w] # <<>>, Pop(w),
         UNCHANGED <<clients, silent, missed>>,
         \A c \in Conns, u \in Announced : Watches(c, u)' =>
           \/ page'[c][u] = TrueStatus(u)
           \/ Misstates(Head(pipe[w]), u, TrueStatus(u))
           \/ /\ Watches(c, u) /\ page'[c][u] = page[c][u]
              /\ ~Corrects(Head(pipe[w]), u, TrueStatus(u))
  PROVE  AllSettled' /\ AllCorrected'
<1>1. pipe[w] \in Seq(Query) /\ pipe'[w] = Tail(pipe[w])  BY PopTyped DEF IInv
<1>2. Announced' = Announced /\ \A u \in Users : TrueStatus(u)' = TrueStatus(u)
  BY DEF clients, Announced, TrueStatus
<1>3. \A u \in Announced : u \in Users  BY DEF Announced
<1>4. \A u \in Announced : Settled(pipe[w], u, TrueStatus(u))  BY DEF IInv, AllSettled
<1>5. AllSettled'
  <2> SUFFICES ASSUME NEW u \in Announced, NEW v \in Workers
               PROVE  Settled(pipe'[v], u, TrueStatus(u))
    BY <1>2, <1>3 DEF AllSettled
  <2>1. v = w  BY DEF OneWorker
  <2>2. QED  BY <1>1, <1>4, <2>1, OfTail
<1>6. AllCorrected'
  <2> SUFFICES ASSUME NEW c \in Conns, NEW u \in Announced, Watches(c, u)',
                      page'[c][u] # TrueStatus(u)
               PROVE  Coming(pipe'[w], u, TrueStatus(u))
    BY <1>2, <1>3 DEF AllCorrected
  <2>1. CASE Misstates(Head(pipe[w]), u, TrueStatus(u))
    BY <1>1, <1>4, <2>1, OfTail
  <2>2. CASE ~Misstates(Head(pipe[w]), u, TrueStatus(u))
    <3>1. /\ Watches(c, u) /\ page[c][u] # TrueStatus(u)
          /\ ~Corrects(Head(pipe[w]), u, TrueStatus(u))
      BY <2>2
    <3>2. \E v \in Workers : Coming(pipe[v], u, TrueStatus(u))
      BY <3>1 DEF IInv, AllCorrected
    <3>3. Coming(pipe[w], u, TrueStatus(u))  BY <3>2 DEF OneWorker
    <3>4. QED  BY <1>1, <3>1, <3>3, OfTail
  <2>3. QED  BY <2>1, <2>2
<1>7. QED  BY <1>5, <1>6

-----------------------------------------------------------------------------
(* The steps                                                                 *)

LEMMA LoginStep ==
  ASSUME IInv, NEW c \in Conns, NEW u \in Users, Login(c, u)
  PROVE  IInv'
<1>1. Types'  BY DEF IInv, Types, Login
<1>2. Entered'  BY DEF IInv, Types, Entered, Login
<1>3. \A v \in Users : TrueStatus(v)' = TrueStatus(v)
  BY DEF IInv, Types, Entered, Login, TrueStatus
<1>4. Announced' = Announced /\ pipe' = pipe /\ page' = page /\ Announced \subseteq Users
  BY DEF Login, Announced
<1>5. AllSettled'  BY <1>3, <1>4 DEF IInv, AllSettled
<1>6. \A d \in Conns, v \in Users : Watches(d, v)' => Watches(d, v)
  BY DEF IInv, Types, Entered, Login, Watches, LoggedIn
<1>7. AllCorrected'
  <2> SUFFICES ASSUME NEW d \in Conns, NEW v \in Announced, Watches(d, v),
                      page[d][v] # TrueStatus(v)
               PROVE  \E w \in Workers : Coming(pipe[w], v, TrueStatus(v))
    BY <1>3, <1>4, <1>6 DEF AllCorrected
  <2>1. QED  BY DEF IInv, AllCorrected
<1>8. QED  BY <1>1, <1>2, <1>5, <1>7 DEF IInv

LEMMA UserInfoStep ==
  ASSUME IInv, OneWorker, NEW w \in Workers, NEW c \in Conns, server_client_user_info(w, c)
  PROVE  IInv'
<1>1. PICK x : x = dbuser[c]  OBVIOUS
<1>2. /\ life[c] = "open" /\ x \in Users /\ (x \notin missed => user_ht[x] = c)
      /\ status' = [status EXCEPT ![c] = "online"] /\ silent' = silent \ {x}
      /\ page' = [page EXCEPT ![c][x] = status[c]] /\ untold' = untold \ {<<c, x>>}
      /\ Push(w, [kind |-> "rtusm", user |-> x, status |-> "online"])
      /\ UNCHANGED <<life, dbuser, user_ht, members, missed>>
  BY <1>1 DEF server_client_user_info, SetStatus, LoggedIn, IInv, Entered
<1>3. PICK q : q = [kind |-> "rtusm", user |-> x, status |-> "online"]  OBVIOUS
<1>4. q \in Query /\ q.kind = "rtusm" /\ q.user = x /\ q.status = "online" /\ Push(w, q)
  BY <1>2, <1>3 DEF Status, Query
<1>5. Types'
  <2>1. pipe' \in [Workers -> Seq(Query)]  BY <1>4, PushTyped DEF IInv
  <2>2. "online" \in Status /\ status[c] \in Status  BY DEF Status, IInv, Types
  <2>3. QED  BY <2>1, <2>2, <1>2 DEF IInv, Types
<1>6. Entered'  BY <1>1, <1>2 DEF IInv, Types, Entered
<1>7. ASSUME NEW u \in Announced', u = x PROVE Corrects(q, u, TrueStatus(u)')
  <2>1. u \notin missed /\ c # None  BY <1>2 DEF Announced
  <2>2. TrueStatus(u)' = "online"  BY <1>2, <1>7, <2>1 DEF TrueStatus, IInv, Types
  <2>3. QED  BY <1>4, <1>7, <2>2 DEF Corrects, IsAbout
<1>8. ASSUME NEW u \in Announced', u # x
      PROVE  /\ u \in Announced /\ TrueStatus(u)' = TrueStatus(u)
             /\ ~Misstates(q, u, TrueStatus(u))
             /\ \A d \in Conns : Watches(d, u)' => Watches(d, u) /\ page'[d][u] = page[d][u]
  <2>1. u \in Announced /\ u \in Users  BY <1>2, <1>8 DEF Announced
  <2>2. TrueStatus(u)' = TrueStatus(u)
    BY <1>1, <1>2, <1>8, <2>1 DEF TrueStatus, IInv, Types, Entered
  <2>3. ~Misstates(q, u, TrueStatus(u))  BY <1>4, <1>8 DEF Misstates, IsAbout
  <2>4. \A d \in Conns : page'[d][u] = page[d][u]  BY <1>2, <1>8, <2>1 DEF IInv, Types
  <2>5. \A d \in Conns : <<d, u>> # <<c, x>>  BY <1>8
  <2>6. \A d \in Conns : Watches(d, u)' => Watches(d, u)
    BY <1>2, <2>4, <2>5 DEF Watches, LoggedIn
  <2>7. QED  BY <2>1, <2>2, <2>3, <2>4, <2>6
<1>9. AllSettled' /\ AllCorrected'  BY <1>4, <1>5, <1>7, <1>8, SendStep
<1>10. QED  BY <1>5, <1>6, <1>9 DEF IInv

LEMMA CloseStep ==
  ASSUME IInv, OneWorker, NEW w \in Workers, NEW c \in Conns, Close(w, c)
  PROVE  IInv'
<1>1. PICK x : x = dbuser[c]  OBVIOUS
<1>2. PICK lost \in SUBSET {v \in Users \ {x} : user_ht[v] # None} :
        /\ user_ht' = [v \in Users |-> IF v \in {x} \cup lost THEN None ELSE user_ht[v]]
        /\ missed' = missed \cup lost
  BY <1>1 DEF Close, ForgetUser
<1>3. PICK q : q = [kind |-> "rtusm", user |-> x, status |-> "offline"]  OBVIOUS
<1>4. /\ life[c] = "open" /\ x \in Users /\ (x \notin missed => user_ht[x] = c)
      /\ life' = [life EXCEPT ![c] = "freed"] /\ dbuser' = [dbuser EXCEPT ![c] = None]
      /\ page' = [page EXCEPT ![c] = NewPage] /\ status' = [status EXCEPT ![c] = "offline"]
      /\ untold' = {p \in untold : p[1] # c} /\ UNCHANGED members
      /\ \/ Push(w, q) /\ UNCHANGED silent
         \/ UNCHANGED pipe /\ silent' = silent \cup {x}
  BY <1>1, <1>3 DEF Close, SetStatus, IInv, Entered
<1>5. q \in Query /\ q.kind = "rtusm" /\ q.user = x /\ q.status = "offline"
  BY <1>3, <1>4 DEF Status, Query
<1>6. Types'
  <2>1. pipe' \in [Workers -> Seq(Query)]  BY <1>4, <1>5, PushTyped DEF IInv, Types
  <2>2. "offline" \in Status /\ NewPage \in [Users -> Status \cup {"unknown"}]
    BY DEF Status, NewPage
  <2>3. QED  BY <2>1, <2>2, <1>2, <1>4 DEF IInv, Types
<1>7. Entered'
  <2>1. \A d \in Conns : life'[d] = "open" => d # c /\ life[d] = "open" /\ dbuser'[d] = dbuser[d]
    BY <1>4 DEF IInv, Types
  <2>2. ASSUME NEW d \in Conns, life'[d] = "open"
        PROVE  dbuser'[d] \in Users /\ (dbuser'[d] \notin missed' => user_ht'[dbuser'[d]] = d)
    <3>1. d # c /\ life[d] = "open" /\ dbuser'[d] = dbuser[d] /\ dbuser[d] \in Users
      BY <2>1, <2>2 DEF IInv, Entered
    <3>2. ASSUME dbuser[d] \notin missed' PROVE user_ht'[dbuser[d]] = d
      <4>1. dbuser[d] \notin missed /\ dbuser[d] \notin lost  BY <1>2, <3>2
      <4>2. user_ht[dbuser[d]] = d  BY <3>1, <4>1 DEF IInv, Entered
      <4>3. dbuser[d] # x  BY <1>4, <3>1, <4>1, <4>2
      <4>4. QED  BY <1>2, <3>1, <4>1, <4>2, <4>3
    <3>3. QED  BY <3>1, <3>2
  <2>3. \A u \in Users : user_ht'[u] # None => user_ht'[u] = user_ht[u] /\ u # x
    BY <1>2
  <2>4. \A u \in Users : user_ht'[u] # None =>
           life'[user_ht'[u]] = "open" /\ dbuser'[user_ht'[u]] = u
    BY <1>1, <1>4, <2>3 DEF IInv, Types, Entered
  <2>5. \A d \in Conns : life'[d] # "open" =>
           status'[d] = "offline" /\ \A u \in Users : page'[d][u] = "unknown"
    BY <1>4 DEF IInv, Types, Entered, NewPage
  <2>6. QED  BY <2>2, <2>4, <2>5 DEF Entered
<1>8. ASSUME NEW u \in Announced', u = x PROVE Push(w, q) /\ Corrects(q, u, TrueStatus(u)')
  <2>1. Push(w, q)  BY <1>4, <1>8 DEF Announced
  <2>2. TrueStatus(u)' = "offline"  BY <1>2, <1>4, <1>8 DEF TrueStatus
  <2>3. QED  BY <1>5, <1>8, <2>1, <2>2 DEF Corrects, IsAbout
<1>9. ASSUME NEW u \in Announced', u # x
      PROVE  /\ u \in Announced /\ TrueStatus(u)' = TrueStatus(u)
             /\ ~Misstates(q, u, TrueStatus(u))
             /\ \A d \in Conns : Watches(d, u)' => Watches(d, u) /\ page'[d][u] = page[d][u]
  <2>1. u \in Announced /\ u \in Users /\ u \notin lost
    BY <1>2, <1>4, <1>9 DEF Announced
  <2>2. user_ht'[u] = user_ht[u] /\ user_ht[u] # c
    BY <1>1, <1>2, <1>9, <2>1, NoneAssumption DEF IInv, Types, Entered
  <2>3. TrueStatus(u)' = TrueStatus(u)
    BY <1>4, <2>1, <2>2 DEF TrueStatus, IInv, Types
  <2>4. ~Misstates(q, u, TrueStatus(u))  BY <1>5, <1>9 DEF Misstates, IsAbout
  <2>5. ASSUME NEW d \in Conns, Watches(d, u)'
        PROVE  Watches(d, u) /\ page'[d][u] = page[d][u]
    <3>1. d # c  BY <1>4, <2>5 DEF Watches, LoggedIn, IInv, Types
    <3>2. life'[d] = life[d] /\ dbuser'[d] = dbuser[d] /\ page'[d] = page[d]
      BY <1>4, <3>1 DEF IInv, Types
    <3>3. <<d, u>> \notin untold  BY <1>4, <2>5, <3>1 DEF Watches
    <3>4. QED  BY <1>2, <2>5, <3>2, <3>3 DEF Watches, LoggedIn
  <2>6. QED  BY <2>1, <2>3, <2>4, <2>5
<1>10. UNCHANGED pipe \/ Push(w, q)  BY <1>4
<1>11. AllSettled' /\ AllCorrected'  BY <1>5, <1>6, <1>8, <1>9, <1>10, SendStep
<1>12. QED  BY <1>6, <1>7, <1>11 DEF IInv

(* Queries that change no status.                                            *)
LEMMA GetUserStep ==
  ASSUME IInv, OneWorker, NEW w \in Workers, NEW c \in Conns, NEW users \in SUBSET Users,
         server_get_user(w, c, users)
  PROVE  IInv'
<1>1. PICK online : online = {u \in users : user_ht[u] # None}  OBVIOUS
<1>2. PICK q : q = [kind |-> "get_user", conn |-> c, users |-> users \ online]  OBVIOUS
<1>3. q \in Query /\ q.kind = "get_user" /\ q.users = users \ online  BY <1>2 DEF Query
<1>4. /\ page' = [page EXCEPT ![c] = [u \in Users |->
                     IF u \in online THEN status[user_ht[u]] ELSE page[c][u]]]
      /\ UNCHANGED pipe \/ Push(w, q)
      /\ untold' = untold \ {<<c, u>> : u \in online}
      /\ UNCHANGED <<clients, members, silent, missed>>
      /\ life[c] = "open"
  BY <1>1, <1>2 DEF server_get_user, IInv, Types, LoggedIn
<1>5. Types'
  <2>1. pipe' \in [Workers -> Seq(Query)]  BY <1>3, <1>4, PushTyped DEF IInv, Types
  <2>2. \A u \in online : status[user_ht[u]] \in Status  BY <1>1 DEF IInv, Types
  <2>3. QED  BY <2>1, <2>2, <1>4 DEF clients, IInv, Types
<1>6. Entered'  BY <1>4 DEF clients, IInv, Types, Entered
<1>7. ASSUME NEW u \in Announced'
      PROVE  /\ u \in Announced /\ TrueStatus(u)' = TrueStatus(u)
             /\ ~Misstates(q, u, TrueStatus(u))
             /\ \A d \in Conns : Watches(d, u)' =>
                  \/ Watches(d, u) /\ page'[d][u] = page[d][u]
                  \/ page'[d][u] = TrueStatus(u)
  <2>1. u \in Announced /\ u \in Users /\ TrueStatus(u)' = TrueStatus(u)
    BY <1>4 DEF clients, Announced, TrueStatus
  <2>2. ~Misstates(q, u, TrueStatus(u))
    BY <1>1, <1>3 DEF Misstates, IsAbout, TrueStatus, RowStatus
  <2>3. ASSUME NEW d \in Conns, Watches(d, u)'
        PROVE  \/ Watches(d, u) /\ page'[d][u] = page[d][u]
               \/ page'[d][u] = TrueStatus(u)
    <3>1. CASE d = c /\ u \in online
      BY <1>1, <1>4, <2>1, <3>1 DEF TrueStatus, IInv, Types
    <3>2. CASE ~(d = c /\ u \in online)
      <4>1. page'[d][u] = page[d][u]  BY <1>4, <2>1, <3>2 DEF IInv, Types
      <4>2. \A v \in online : <<d, u>> # <<c, v>>  BY <3>2
      <4>3. QED  BY <1>4, <2>3, <4>1, <4>2 DEF clients, Watches, LoggedIn
    <3>3. QED  BY <3>1, <3>2
  <2>4. QED  BY <2>1, <2>2, <2>3
<1>8. AllSettled' /\ AllCorrected'  BY <1>3, <1>4, <1>5, <1>7, SendStep
<1>9. QED  BY <1>5, <1>6, <1>8 DEF IInv

LEMMA GroupStep ==
  ASSUME IInv, OneWorker, NEW w \in Workers, NEW c \in Conns, NEW g \in Groups,
         server_join_group(w, c, g) \/ server_delete_group(w, c, g)
  PROVE  IInv'
<1>1. PICK q \in Query : /\ q.kind \in {"join", "delete"} /\ Push(w, q)
  <2>1. dbuser[c] \in Users  BY DEF server_join_group, server_delete_group, LoggedIn, IInv, Entered
  <2>2. [kind |-> "join", user |-> dbuser[c], group |-> g] \in Query  BY <2>1 DEF Query
  <2>3. [kind |-> "delete", group |-> g] \in Query  BY DEF Query
  <2>4. QED  BY <2>2, <2>3 DEF server_join_group, server_delete_group
<1>2. UNCHANGED <<clients, members, page, silent, missed, untold>>
  BY DEF server_join_group, server_delete_group
<1>3. Types'
  <2>1. pipe' \in [Workers -> Seq(Query)]  BY <1>1, PushTyped DEF IInv, Types
  <2>2. QED  BY <2>1, <1>2 DEF clients, IInv, Types
<1>4. Entered'  BY <1>2 DEF clients, IInv, Entered
<1>5. ASSUME NEW u \in Announced'
      PROVE  /\ u \in Announced /\ TrueStatus(u)' = TrueStatus(u)
             /\ ~Misstates(q, u, TrueStatus(u))
             /\ \A d \in Conns : Watches(d, u)' => Watches(d, u) /\ page'[d][u] = page[d][u]
  <2>1. u \in Announced /\ TrueStatus(u)' = TrueStatus(u)
    BY <1>2 DEF clients, Announced, TrueStatus
  <2>2. ~Misstates(q, u, TrueStatus(u))  BY <1>1 DEF Misstates, IsAbout
  <2>3. QED  BY <1>2, <2>1, <2>2 DEF clients, Watches, LoggedIn
<1>6. AllSettled' /\ AllCorrected'  BY <1>1, <1>3, <1>5, SendStep
<1>7. QED  BY <1>3, <1>4, <1>6 DEF IInv

(* A broadcast reaches whoever shares a group and can be found, and passes   *)
(* the others by.                                                            *)
LEMMA BroadcastStep ==
  ASSUME IInv, OneWorker, NEW w \in Workers, do_rtusm_broadcast(w)
  PROVE  IInv'
<1>1. PICK q : q = Head(pipe[w])  OBVIOUS
<1>2. pipe[w] # <<>> /\ q.kind = "rtusm" /\ Pop(w) /\ UNCHANGED <<clients, members, silent, missed>>
  BY <1>1 DEF do_rtusm_broadcast
<1>3. page' = [c \in Conns |->
                 IF c \in Reached(q.user)
                 THEN [page[c] EXCEPT ![q.user] = Shows(c, q.user, q.status)] ELSE page[c]]
  BY <1>1 DEF do_rtusm_broadcast
<1>4. untold' = {p \in untold : p[2] # q.user} \cup PassedBy(q.user)
  BY <1>1 DEF do_rtusm_broadcast
<1>5. q \in Query /\ q.user \in Users /\ q.status \in Status
  <2>1. q \in Query  BY <1>1, <1>2, PopTyped DEF IInv
  <2>2. QED  BY <1>2, <2>1 DEF Query
<1>6. Types'
  <2>1. pipe' \in [Workers -> Seq(Query)]  BY <1>2, PopTyped DEF IInv
  <2>2. QED  BY <2>1, <1>2, <1>3, <1>5 DEF clients, IInv, Types, Shows
<1>7. Entered'
  <2>1. \A c \in Conns, u \in Users : page[c][u] = "unknown" => page'[c][u] = "unknown"
    BY <1>3, <1>5 DEF IInv, Types, Shows
  <2>2. QED  BY <1>2, <2>1 DEF clients, IInv, Entered
<1>8. ASSUME NEW c \in Conns, NEW u \in Announced, Watches(c, u)'
      PROVE  \/ page'[c][u] = TrueStatus(u)
             \/ Misstates(q, u, TrueStatus(u))
             \/ /\ Watches(c, u) /\ page'[c][u] = page[c][u]
                /\ ~Corrects(q, u, TrueStatus(u))
  <2>1. u \in Users  BY DEF Announced
  <2>2. LoggedIn(c) /\ dbuser[c] \notin missed /\ page'[c][u] # "unknown" /\ <<c, u>> \notin untold'
    BY <1>2, <1>8 DEF clients, Watches, LoggedIn
  <2>3. CASE u # q.user
    <3>1. page'[c][u] = page[c][u]  BY <1>3, <1>5, <2>1, <2>3 DEF IInv, Types
    <3>2. <<c, u>> \notin untold  BY <1>4, <2>2, <2>3
    <3>3. QED  BY <2>2, <2>3, <3>1, <3>2 DEF Watches, Corrects, IsAbout
  <2>4. CASE u = q.user
    <3>1. page[c][u] # "unknown"  BY <1>3, <1>5, <2>1, <2>2 DEF IInv, Types, Shows
    <3>2. dbuser[c] \in Friends(u)  BY <1>4, <2>2, <2>4, <3>1 DEF PassedBy
    <3>3. user_ht[dbuser[c]] = c  BY <2>2 DEF IInv, Entered, LoggedIn
    <3>4. c \in Reached(u)  BY <3>2, <3>3, NoneAssumption DEF Reached
    <3>5. page'[c][u] = q.status  BY <1>3, <1>5, <2>4, <3>1, <3>4 DEF IInv, Types, Shows
    <3>6. QED  BY <1>2, <2>4, <3>5 DEF Misstates, IsAbout
  <2>5. QED  BY <2>3, <2>4
<1>9. AllSettled' /\ AllCorrected'  BY <1>1, <1>2, <1>6, <1>8, AnswerStep
<1>10. QED  BY <1>6, <1>7, <1>9 DEF IInv

(* Rows say nothing of a status: a page that is wrong by them is corrected   *)
(* by a broadcast behind the query.                                          *)
LEMMA RowsStep ==
  ASSUME IInv, OneWorker, NEW w \in Workers, do_get_users(w)
  PROVE  IInv'
<1>1. PICK q : q = Head(pipe[w])  OBVIOUS
<1>2. pipe[w] # <<>> /\ q.kind = "get_user" /\ Pop(w) /\ UNCHANGED <<clients, members, silent, missed>>
  BY <1>1 DEF do_get_users
<1>3. page' = IF life[q.conn] # "open" THEN page
              ELSE [page EXCEPT ![q.conn] = [u \in Users |->
                      IF u \in q.users THEN RowStatus ELSE page[q.conn][u]]]
  BY <1>1, <1>2, PopTyped DEF do_get_users, IInv, Types, Query
<1>4. untold' = untold \ ({q.conn} \X q.users)  BY <1>1 DEF do_get_users
<1>5. q \in Query /\ q.conn \in Conns /\ q.users \subseteq Users
  <2>1. q \in Query  BY <1>1, <1>2, PopTyped DEF IInv
  <2>2. QED  BY <1>2, <2>1 DEF Query
<1>6. Types'
  <2>1. pipe' \in [Workers -> Seq(Query)]  BY <1>2, PopTyped DEF IInv
  <2>2. page' \in [Conns -> [Users -> Status \cup {"unknown"}]]
    BY <1>3, <1>5 DEF IInv, Types, RowStatus, Status
  <2>3. QED  BY <2>1, <2>2, <1>2 DEF clients, IInv, Types
<1>7. Entered'
  <2>1. \A c \in Conns, u \in Users : life[c] # "open" => page'[c][u] = page[c][u]
    BY <1>3, <1>5 DEF IInv, Types
  <2>2. QED  BY <1>2, <2>1 DEF clients, IInv, Entered
<1>8. ASSUME NEW c \in Conns, NEW u \in Announced, Watches(c, u)'
      PROVE  \/ page'[c][u] = TrueStatus(u)
             \/ Misstates(q, u, TrueStatus(u))
             \/ /\ Watches(c, u) /\ page'[c][u] = page[c][u]
                /\ ~Corrects(q, u, TrueStatus(u))
  <2>1. u \in Users  BY DEF Announced
  <2>2. ~Corrects(q, u, TrueStatus(u))  BY <1>2 DEF Corrects, IsAbout
  <2>3. LoggedIn(c) /\ dbuser[c] \notin missed /\ page'[c][u] # "unknown" /\ <<c, u>> \notin untold'
    BY <1>2, <1>8 DEF clients, Watches, LoggedIn
  <2>4. CASE c = q.conn /\ u \in q.users
    <3>1. page'[c][u] = RowStatus
      BY <1>3, <1>5, <2>1, <2>3, <2>4 DEF LoggedIn, IInv, Types
    <3>2. QED  BY <1>2, <2>4, <3>1 DEF Misstates
  <2>5. CASE ~(c = q.conn /\ u \in q.users)
    <3>1. page'[c][u] = page[c][u]  BY <1>3, <1>5, <2>1, <2>5 DEF IInv, Types
    <3>2. <<c, u>> \notin untold  BY <1>4, <2>3, <2>5
    <3>3. QED  BY <2>2, <2>3, <3>1, <3>2 DEF Watches
  <2>6. QED  BY <2>4, <2>5
<1>9. AllSettled' /\ AllCorrected'  BY <1>1, <1>2, <1>6, <1>8, AnswerStep
<1>10. QED  BY <1>6, <1>7, <1>9 DEF IInv

LEMMA MembersStep ==
  ASSUME IInv, OneWorker, NEW w \in Workers, MembersChange(w)
  PROVE  IInv'
<1>1. PICK q : q = Head(pipe[w])  OBVIOUS
<1>2. /\ pipe[w] # <<>> /\ q.kind \in {"join", "delete"} /\ Pop(w)
      /\ UNCHANGED <<clients, page, silent, missed, untold>>
  BY <1>1 DEF MembersChange
<1>3. q \in Query  BY <1>1, <1>2, PopTyped DEF IInv
<1>4. Types'
  <2>1. pipe' \in [Workers -> Seq(Query)]  BY <1>2, PopTyped DEF IInv
  <2>2. members' \in [Groups -> SUBSET Users]
    <3>1. q.kind = "join" => q.user \in Users /\ q.group \in Groups  BY <1>3 DEF Query
    <3>2. members \in [Groups -> SUBSET Users]  BY DEF IInv, Types
    <3>3. \/ q.kind = "join" /\ members' = [members EXCEPT ![q.group] = @ \cup {q.user}]
          \/ members' = [members EXCEPT ![q.group] = {}]
      BY <1>1 DEF MembersChange
    <3>4. QED  BY <3>1, <3>2, <3>3
  <2>3. QED  BY <2>1, <2>2, <1>2 DEF clients, IInv, Types
<1>5. Entered'  BY <1>2 DEF clients, IInv, Entered
<1>6. ASSUME NEW c \in Conns, NEW u \in Announced, Watches(c, u)'
      PROVE  /\ Watches(c, u) /\ page'[c][u] = page[c][u]
             /\ ~Corrects(q, u, TrueStatus(u))
  BY <1>2, <1>6 DEF clients, Watches, LoggedIn, Corrects, IsAbout
<1>7. AllSettled' /\ AllCorrected'  BY <1>1, <1>2, <1>4, <1>6, AnswerStep
<1>8. QED  BY <1>4, <1>5, <1>7 DEF IInv

LEMMA InvariantHolds == ASSUME OneWorker PROVE Spec => []IInv
<1>1. Init => IInv
  <2> SUFFICES ASSUME Init PROVE IInv  OBVIOUS
  <2>1. \A w \in Workers : pipe[w] = <<>> /\ Len(pipe[w]) = 0  BY DEF Init
  <2>2. Types  BY DEF Init, Types, Status, NewPage
  <2>3. Entered  BY DEF Init, Entered, NewPage
  <2>4. AllSettled  BY <2>1 DEF AllSettled, Settled
  <2>5. AllCorrected  BY DEF AllCorrected, Watches, LoggedIn, Init
  <2>6. QED  BY <2>2, <2>3, <2>4, <2>5 DEF IInv
<1>2. IInv /\ [Next]_vars => IInv'
  <2> SUFFICES ASSUME IInv, [Next]_vars PROVE IInv'  OBVIOUS
  <2>1. CASE UNCHANGED vars
    <3>1. Types' /\ Entered'  BY <2>1 DEF vars, clients, IInv, Types, Entered
    <3>2. \A u \in Announced : u \in Users  BY DEF Announced
    <3>3. Announced' = Announced /\ pipe' = pipe /\ page' = page
          /\ \A u \in Users : TrueStatus(u)' = TrueStatus(u)
      BY <2>1 DEF vars, clients, Announced, TrueStatus
    <3>4. AllSettled'  BY <3>2, <3>3 DEF IInv, AllSettled
    <3>5. \A c \in Conns, u \in Users : Watches(c, u)' = Watches(c, u)
      BY <2>1 DEF vars, clients, Watches, LoggedIn
    <3>6. AllCorrected'  BY <3>2, <3>3, <3>5 DEF IInv, AllCorrected
    <3>7. QED  BY <3>1, <3>4, <3>6 DEF IInv
  <2>2. CASE Next
    BY <2>2, LoginStep, UserInfoStep, CloseStep, GetUserStep, GroupStep, BroadcastStep,
       RowsStep, MembersStep DEF Next, Result
  <2>3. QED  BY <2>1, <2>2
<1>3. QED  BY <1>1, <1>2, PTL DEF Spec

-----------------------------------------------------------------------------
(* With one worker, the last broadcast on its way about a user says what is  *)
(* true, however often users come and go before their friends are looked up  *)
(* (rtusm_broadcast, se_close_client).                                       *)
THEOREM LastBroadcastIsTrueHolds == ASSUME OneWorker PROVE Spec => []LastBroadcastIsTrue
<1>1. IInv => LastBroadcastIsTrue
  <2> SUFFICES ASSUME IInv, NEW u \in Announced, NEW w \in Workers, NEW i \in 1 .. Len(pipe[w]),
                      IsAbout(pipe[w][i], u), pipe[w][i].status # TrueStatus(u),
                      \A k \in i + 1 .. Len(pipe[w]) : ~IsAbout(pipe[w][k], u)
               PROVE  FALSE
    BY DEF LastBroadcastIsTrue, IInv, Types
  <2>1. Settled(pipe[w], u, TrueStatus(u))  BY DEF IInv, AllSettled
  <2>2. PICK k \in 1 .. Len(pipe[w]) : i < k /\ Corrects(pipe[w][k], u, TrueStatus(u))
    BY <2>1 DEF Settled, Misstates
  <2>3. k \in i + 1 .. Len(pipe[w])  BY <2>2
  <2>4. QED  BY <2>2, <2>3 DEF Corrects
<1>2. QED  BY <1>1, InvariantHolds, PTL

(* With one worker, a page that shows a wrong status has a broadcast of the  *)
(* true one on its way, whoever joins, leaves, comes and goes, outside of    *)
(* the named exceptions (rtusm_broadcast, server_get_user, do_get_users).    *)
THEOREM WrongIsCorrectedHolds == ASSUME OneWorker PROVE Spec => []WrongIsCorrected
<1>1. IInv => WrongIsCorrected
  <2> SUFFICES ASSUME IInv, NEW c \in Conns, NEW u \in Announced, Watches(c, u),
                      page[c][u] # TrueStatus(u)
               PROVE  \E w \in Workers : \E i \in DOMAIN pipe[w] :
                        IsAbout(pipe[w][i], u) /\ pipe[w][i].status = TrueStatus(u)
    BY DEF WrongIsCorrected
  <2>1. PICK w \in Workers : Coming(pipe[w], u, TrueStatus(u))  BY DEF IInv, AllCorrected
  <2>2. DOMAIN pipe[w] = 1 .. Len(pipe[w])  BY DEF IInv, Types
  <2>3. QED  BY <2>1, <2>2 DEF Coming, Corrects
<1>2. QED  BY <1>1, InvariantHolds, PTL
=============================================================================
