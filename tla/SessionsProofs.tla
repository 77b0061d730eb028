--------------------------- MODULE SessionsProofs ---------------------------
(***************************************************************************)
(* Proofs about Sessions, for every number of workers, clients, users and   *)
(* sessions.                                                                *)
(***************************************************************************)
EXTENDS Sessions, TLAPS

(* TypeOK, and what each step of a callback works on.                       *)
TaskTypes(t) ==
  /\ t.step = "set" => t.client \in Clients /\ t.user \in Users
  /\ t.step \in {"cancel", "expire"} => t.session \in SessionIds
  /\ t.step \in {"arm", "free"} => t.client \in Clients
RequestTypes(r) == r.cmd = "session" => r.session \in SessionIds
Types ==
  /\ TypeOK
  /\ pending \in [Workers -> Seq(Request)]
  /\ \A s \in SessionIds : session[s].life # "none" => session[s].user \in Users
  /\ \A s \in session_ht : session[s].life = "live"
  /\ \A w \in Workers : TaskTypes(task[w])
  /\ \A w \in Workers : \A i \in 1 .. Len(pending[w]) : RequestTypes(pending[w][i])

(* c is found for user u, but for the exceptions of LoggedInReachable.       *)
Entered(c, u) == user_ht[u] = c \/ u \in missed
EnteredNext(c, u) == user_ht'[u] = c \/ u \in missed'

(* A client that has logged in is found for its user, until it is freed; and *)
(* an entry is of a client that is open, or that has logged in again.        *)
UserEntered ==
  /\ \A c \in Clients :
       /\ client[c].loggedIn => client[c].dbuser # None
       /\ client[c].life # "freed" /\ client[c].dbuser # None
            => Entered(c, client[c].dbuser)
  /\ \A u \in Users : user_ht[u] # None /\ client[user_ht[u]].dbuser = u
                        => client[user_ht[u]].life # "freed"

(* A session whose id was sent belongs to the user who got it, and as long  *)
(* as a client has it, that client is found for this user.                   *)
SessionEntered ==
  /\ \A s \in issued : session[s].life # "none"
  /\ \A c \in Clients :
       LET s == client[c].session IN
       s # None =>
         /\ session[s].life # "none"
         /\ client[c].life # "freed" /\ s \in issued => Entered(c, session[s].user)

(* Two connections share a session only if its id was sent: then both logged *)
(* in as its user, and only one of them can have the user's entry.           *)
SessionUnshared ==
  \A c, d \in Clients :
    client[c].life # "freed" /\ client[d].life # "freed"
      /\ client[c].session # None /\ client[c].session = client[d].session
      => c = d \/ client[c].session \in issued

(* A client is closed by one worker; a session that is about to be given to  *)
(* a client is the user's, and nobody else's if its id was not sent; a       *)
(* command names a session whose id was sent.                                *)
TasksHold ==
  \A w \in Workers :
    /\ task[w].step \in {"arm", "free"} =>
         /\ client[task[w].client].life # "freed"
         /\ \A v \in Workers : task[v].step \in {"arm", "free"}
                                 /\ task[v].client = task[w].client => v = w
    /\ task[w].step = "set" /\ task[w].session # None =>
         /\ session[task[w].session].life # "none"
         /\ session[task[w].session].user = task[w].user
         /\ \/ task[w].session \in issued
            \/ \A d \in Clients : client[d].session = task[w].session => d = task[w].client
    /\ \A i \in 1 .. Len(pending[w]) :
         LET r == pending[w][i] IN
         r.cmd = "session" => r.session \in issued /\ r.user = session[r.session].user

(* A timer that runs is known to its session; and no connection has that    *)
(* session, but for the one being freed, the one whose login is about to     *)
(* cancel the timer, and those of a user who is not found.                   *)
TimerDetached ==
  \A s \in SessionIds : timer[s] = "armed" =>
    /\ session[s].timerfd /\ session[s].life # "none"
    /\ session[s].user \notin missed =>
         \A c \in Clients :
           client[c].session = s /\ client[c].life # "freed" =>
             \E w \in Workers :
               \/ task[w].step = "free" /\ task[w].client = c
               \/ task[w].step = "cancel" /\ task[w].session = s

IInv ==
  /\ Types /\ UserEntered /\ SessionEntered /\ SessionUnshared /\ TasksHold
  /\ TimerDetached

USE NoneAssumption, MaxPendingAssumption DEF sessions

-----------------------------------------------------------------------------
(* A command is sent to the database.                                       *)
LEMMA EnqueueMoves ==
  ASSUME Types, NEW w \in Workers, NEW r \in Request, RequestTypes(r),
         Len(pending[w]) < MaxPending, Enqueue(w, r)
  PROVE  /\ pending' \in [Workers -> Seq(Request)]
         /\ UNCHANGED <<client, sessions, timer, user_ht, issued, registered, task, missed, ub>>
         /\ \A v \in Workers : Len(pending'[v]) <= MaxPending
         /\ \A v \in Workers : \A i \in 1 .. Len(pending'[v]) :
              \/ v = w /\ pending'[v][i] = r
              \/ i \in 1 .. Len(pending[v]) /\ pending'[v][i] = pending[v][i]
<1>1. pending \in [Workers -> Seq(Request)] /\ pending[w] \in Seq(Request)
  BY DEF Types
<1>2. /\ pending' = [pending EXCEPT ![w] = Append(pending[w], r)]
      /\ UNCHANGED <<client, sessions, timer, user_ht, issued, registered, task, missed, ub>>
  BY DEF Enqueue
<1>3. /\ pending'[w] = Append(pending[w], r) /\ pending'[w] \in Seq(Request)
      /\ Len(pending'[w]) = Len(pending[w]) + 1 /\ Len(pending[w]) \in Nat
      /\ \A i \in 1 .. Len(pending'[w]) :
           pending'[w][i] = r \/ (i \in 1 .. Len(pending[w]) /\ pending'[w][i] = pending[w][i])
  BY <1>1, <1>2
<1>4. \A v \in Workers : v # w => pending'[v] = pending[v]
  BY <1>1, <1>2
<1>5. pending' \in [Workers -> Seq(Request)]
  BY <1>1, <1>2, <1>3
<1>6. \A v \in Workers : Len(pending'[v]) <= MaxPending
  <2>1. \A v \in Workers : Len(pending[v]) <= MaxPending  BY DEF Types, TypeOK
  <2>2. QED  BY <2>1, <1>3, <1>4
<1>7. \A v \in Workers : \A i \in 1 .. Len(pending'[v]) :
        \/ v = w /\ pending'[v][i] = r
        \/ i \in 1 .. Len(pending[v]) /\ pending'[v][i] = pending[v][i]
  BY <1>3, <1>4
<1>8. QED  BY <1>2, <1>5, <1>6, <1>7

(* The oldest command has an answer.                                        *)
LEMMA PopMoves ==
  ASSUME Types, NEW w \in Workers, pending[w] # <<>>, Pop(w)
  PROVE  /\ pending' \in [Workers -> Seq(Request)]
         /\ \A v \in Workers : Len(pending'[v]) <= MaxPending
         /\ \A v \in Workers : \A i \in 1 .. Len(pending'[v]) :
              \E j \in 1 .. Len(pending[v]) : pending'[v][i] = pending[v][j]
<1>1. pending \in [Workers -> Seq(Request)] /\ pending[w] \in Seq(Request)
  BY DEF Types
<1>2. pending' = [pending EXCEPT ![w] = Tail(pending[w])]
  BY DEF Pop
<1>3. /\ pending'[w] = Tail(pending[w]) /\ pending'[w] \in Seq(Request)
      /\ Len(pending'[w]) = Len(pending[w]) - 1 /\ Len(pending[w]) \in Nat
      /\ \A i \in 1 .. Len(pending'[w]) :
           i + 1 \in 1 .. Len(pending[w]) /\ pending'[w][i] = pending[w][i + 1]
  BY <1>1, <1>2
<1>4. \A v \in Workers : v # w => pending'[v] = pending[v]
  BY <1>1, <1>2
<1>5. pending' \in [Workers -> Seq(Request)]
  BY <1>1, <1>2, <1>3
<1>6. \A v \in Workers : Len(pending'[v]) <= MaxPending
  <2>1. \A v \in Workers : Len(pending[v]) <= MaxPending  BY DEF Types, TypeOK
  <2>2. Len(pending'[w]) <= MaxPending
    <3>1. Len(pending[w]) <= MaxPending  BY <2>1
    <3>2. Len(pending'[w]) = Len(pending[w]) - 1 /\ Len(pending[w]) \in Nat  BY <1>3
    <3>3. QED  BY <3>1, <3>2
  <2>3. QED  BY <2>1, <2>2, <1>4
<1>7. \A v \in Workers : \A i \in 1 .. Len(pending'[v]) :
        \E j \in 1 .. Len(pending[v]) : pending'[v][i] = pending[v][j]
  BY <1>3, <1>4
<1>8. QED  BY <1>5, <1>6, <1>7

(* That command is one of those that wait.                                  *)
LEMMA OldestIsPending ==
  ASSUME Types, NEW w \in Workers, pending[w] # <<>>
  PROVE  /\ Request1(w) \in Request /\ RequestTypes(Request1(w))
         /\ 1 \in 1 .. Len(pending[w]) /\ Request1(w) = pending[w][1]
<1>1. pending[w] \in Seq(Request)  BY DEF Types
<1>2. 1 \in 1 .. Len(pending[w]) /\ Request1(w) = pending[w][1] /\ pending[w][1] \in Request
  BY <1>1 DEF Request1
<1>3. QED  BY <1>2 DEF Types

(* The types of a worker's task, when it takes or leaves one.               *)
LEMMA TaskMoves ==
  ASSUME Types, NEW w \in Workers, NEW t \in Task, TaskTypes(t),
         task' = [task EXCEPT ![w] = t]
  PROVE  /\ task' \in [Workers -> Task] /\ task'[w] = t
         /\ \A v \in Workers : v # w => task'[v] = task[v]
         /\ \A v \in Workers : TaskTypes(task'[v])
<1>1. task \in [Workers -> Task]  BY DEF Types, TypeOK
<1>2. /\ task' \in [Workers -> Task] /\ task'[w] = t
      /\ \A v \in Workers : v # w => task'[v] = task[v]
  BY <1>1
<1>3. \A v \in Workers : TaskTypes(task[v])  BY DEF Types
<1>4. QED  BY <1>2, <1>3

(* Types', part by part: a step that leaves the queues or the tasks alone,  *)
(* or changes them in one of the ways above.                                *)
LEMMA TypesKept ==
  ASSUME Types,
         /\ client' \in [Clients -> Client] /\ session' \in [SessionIds -> Session]
         /\ \A s \in SessionIds : session'[s].life # "none" => session'[s].user \in Users
         /\ timer' \in [SessionIds -> {"off", "armed"}]
         /\ user_ht' \in [Users -> Clients \cup {None}]
         /\ session_ht' \subseteq SessionIds /\ stray' \subseteq SessionIds
         /\ missed' \subseteq Users /\ \A s \in session_ht' : session'[s].life = "live"
         /\ issued' \subseteq SessionIds /\ registered' \subseteq Users /\ ub' \in BOOLEAN,
         \/ UNCHANGED pending
         \/ \E w \in Workers : pending[w] # <<>> /\ Pop(w),
         \/ UNCHANGED task
         \/ \E w \in Workers, t \in Task : TaskTypes(t) /\ task' = [task EXCEPT ![w] = t]
  PROVE  Types'
<1>1. /\ pending' \in [Workers -> Seq(Request)]
      /\ \A v \in Workers : Len(pending'[v]) <= MaxPending
      /\ \A v \in Workers : \A i \in 1 .. Len(pending'[v]) : RequestTypes(pending'[v][i])
  <2>1. CASE UNCHANGED pending  BY <2>1 DEF Types, TypeOK
  <2>2. ASSUME NEW w \in Workers, pending[w] # <<>>, Pop(w) PROVE <1>1!:
    BY <2>2, PopMoves DEF Types
  <2>3. QED  BY <2>1, <2>2
<1>2. task' \in [Workers -> Task] /\ \A v \in Workers : TaskTypes(task'[v])
  <2>1. CASE UNCHANGED task  BY <2>1 DEF Types, TypeOK
  <2>2. ASSUME NEW w \in Workers, NEW t \in Task, TaskTypes(t), task' = [task EXCEPT ![w] = t]
        PROVE  <1>2!:
    BY <2>2, TaskMoves
  <2>3. QED  BY <2>1, <2>2
<1>3. QED  BY <1>1, <1>2 DEF Types, TypeOK, TaskTypes, RequestTypes

(* CheckUser refuses, or takes the second half of the login as its task.     *)
LEMMA CheckUserTask ==
  ASSUME NEW w \in Workers, NEW c \in Clients, NEW u \in Users,
         NEW s \in SessionIds \cup {None}, CheckUser(w, c, u, s)
  PROVE  \/ UNCHANGED task
         \/ \E v \in Workers, t \in Task : TaskTypes(t) /\ task' = [task EXCEPT ![v] = t]
<1> DEFINE t == [step |-> "set", client |-> c, user |-> u, session |-> s]
<1>1. t \in Task /\ TaskTypes(t)  BY DEF Task, TaskTypes
<1>2. QED  BY <1>1 DEF CheckUser

(* A session is deleted.                                                     *)
LEMMA DeletedTypes ==
  ASSUME Types, NEW s \in SessionIds, session[s].life = "live", server_del_user_session(s)
  PROVE  /\ session' \in [SessionIds -> Session]
         /\ \A x \in SessionIds : session'[x].life # "none" => session'[x].user \in Users
         /\ session_ht' \subseteq SessionIds /\ stray' \subseteq SessionIds
         /\ \A x \in session_ht' : session'[x].life = "live"
<1>1. session \in [SessionIds -> Session] /\ session_ht \subseteq SessionIds /\ stray \subseteq SessionIds
  BY DEF Types, TypeOK
<1>2. session' = [session EXCEPT ![s].life = "freed"] /\ stray' = stray
  BY DEF server_del_user_session
<1>3. session_ht' \subseteq session_ht \ {s}  BY DEF server_del_user_session
<1>4. session' \in [SessionIds -> Session]  BY <1>1, <1>2 DEF Session
<1>5. \A x \in SessionIds : session'[x].life # "none" => session'[x].user \in Users
  BY <1>1, <1>2 DEF Session, Types
<1>6. \A x \in session_ht' : session'[x].life = "live"
  <2>1. \A x \in session_ht : session[x].life = "live"  BY DEF Types
  <2>2. QED  BY <2>1, <1>1, <1>2, <1>3
<1>7. QED  BY <1>1, <1>2, <1>3, <1>4, <1>5, <1>6

(* The user's entry is deleted, perhaps with others.                         *)
LEMMA ForgottenTypes ==
  ASSUME Types, NEW u \in Users, ForgetUser(u)
  PROVE  user_ht' \in [Users -> Clients \cup {None}] /\ missed' \subseteq Users
<1>1. user_ht \in [Users -> Clients \cup {None}] /\ missed \subseteq Users
  BY DEF Types, TypeOK
<1>2. QED  BY <1>1 DEF ForgetUser

(* Every step keeps the types, with any number of workers.                   *)
LEMMA NextTypes == Types /\ [Next]_vars => Types'
<1> SUFFICES ASSUME Types, [Next]_vars PROVE Types'  OBVIOUS
<1> USE DEF TypeOK
<1>0. /\ client \in [Clients -> Client] /\ session \in [SessionIds -> Session]
      /\ \A s \in SessionIds : session[s].life # "none" => session[s].user \in Users
      /\ \A s \in session_ht : session[s].life = "live"
      /\ timer \in [SessionIds -> {"off", "armed"}]
      /\ user_ht \in [Users -> Clients \cup {None}]
      /\ session_ht \subseteq SessionIds /\ stray \subseteq SessionIds /\ missed \subseteq Users
      /\ issued \subseteq SessionIds /\ registered \subseteq Users /\ ub \in BOOLEAN
      /\ task \in [Workers -> Task]
  BY DEF Types
<1>1. ASSUME NEW c \in Clients, Accept(c) PROVE Types'
  <2>1. client' \in [Clients -> Client]  BY <1>0, <1>1 DEF Accept, Client
  <2>2. QED  BY <2>1, <1>0, <1>1, TypesKept DEF Accept
<1>2. ASSUME NEW w \in Workers, NEW r \in Request, RequestTypes(r),
             Len(pending[w]) < MaxPending, Enqueue(w, r)
      PROVE  Types'
  <2>1. /\ pending' \in [Workers -> Seq(Request)]
        /\ UNCHANGED <<client, sessions, timer, user_ht, issued, registered, task, missed, ub>>
        /\ \A v \in Workers : Len(pending'[v]) <= MaxPending
    BY <1>2, EnqueueMoves
  <2>2. \A v \in Workers : \A i \in 1 .. Len(pending'[v]) : RequestTypes(pending'[v][i])
    <3>1. \A v \in Workers : \A i \in 1 .. Len(pending'[v]) :
            \/ v = w /\ pending'[v][i] = r
            \/ i \in 1 .. Len(pending[v]) /\ pending'[v][i] = pending[v][i]
      BY <1>2, EnqueueMoves
    <3>2. \A v \in Workers : \A i \in 1 .. Len(pending[v]) : RequestTypes(pending[v][i])
      BY DEF Types
    <3>3. QED  BY <3>1, <3>2, <1>2
  <2>3. \A v \in Workers : TaskTypes(task'[v])  BY <2>1 DEF Types
  <2>4. QED  BY <2>1, <2>2, <2>3, <1>0 DEF Types, TaskTypes, RequestTypes
<1>3. ASSUME NEW w \in Workers, NEW c \in Clients, server_client_login(w, c) PROVE Types'
  <2>1. PICK cmd \in {"login", "register"}, u \in Users, do_session \in BOOLEAN :
          Enqueue(w, [cmd |-> cmd, client |-> c, user |-> u,
                      doSession |-> do_session, session |-> None])
    BY <1>3 DEF server_client_login
  <2>2. QED  BY <2>1, <1>2, <1>3 DEF server_client_login, CanRequest, Request, Commands, RequestTypes
<1>4. ASSUME NEW w \in Workers, NEW c \in Clients, server_client_login_session(w, c) PROVE Types'
  <2>1. PICK s \in SessionIds :
          /\ s \in session_ht
          /\ Enqueue(w, [cmd |-> "session", client |-> c, user |-> session[s].user,
                         doSession |-> FALSE, session |-> s])
    BY <1>4 DEF server_client_login_session
  <2>2. session[s].life = "live" /\ session[s].user \in Users  BY <2>1, <1>0
  <2>3. QED
    BY <2>1, <2>2, <1>2, <1>4
    DEF server_client_login_session, CanRequest, Request, Commands, RequestTypes
<1>5. ASSUME NEW w \in Workers, NEW t \in Task, TaskTypes(t), task' = [task EXCEPT ![w] = t],
             UNCHANGED <<client, sessions, timer, user_ht, issued, registered, pending, missed, ub>>
      PROVE  Types'
  BY <1>0, <1>5, TypesKept
<1>6. ASSUME UsesFreed PROVE Types'
  BY <1>0, <1>6, TypesKept DEF UsesFreed
<1>7. ASSUME NEW w \in Workers, NEW c \in Clients, CloseEvent(w, c) PROVE Types'
  <2>1. [Idle EXCEPT !.step = "arm", !.client = c] \in Task
        /\ TaskTypes([Idle EXCEPT !.step = "arm", !.client = c])
    BY DEF Task, Idle, TaskTypes
  <2>2. QED  BY <2>1, <1>5, <1>7 DEF CloseEvent
<1>8. ASSUME NEW w \in Workers, NEW s \in SessionIds, TimerEvent(w, s) PROVE Types'
  <2>1. [Idle EXCEPT !.step = "expire", !.session = s] \in Task
        /\ TaskTypes([Idle EXCEPT !.step = "expire", !.session = s])
    BY DEF Task, Idle, TaskTypes
  <2>2. QED  BY <2>1, <1>5, <1>8 DEF TimerEvent
<1>9. ASSUME NEW w \in Workers, do_client_login(w) PROVE Types'
  <2>1. /\ pending[w] # <<>> /\ Request1(w).client \in Clients /\ Request1(w).user \in Users
    BY <1>9, OldestIsPending DEF do_client_login, Request
  <2>2. CASE Refused(w)
    BY <2>1, <2>2, <1>0, TypesKept DEF Refused
  <2>3. CASE UsesFreed  BY <2>3, <1>6
  <2>4. CASE /\ registered' = registered \cup {Request1(w).user} /\ Pop(w)
             /\ CheckUser(w, Request1(w).client, Request1(w).user, None)
             /\ UNCHANGED <<client, sessions, timer, user_ht, issued, missed, ub>>
    BY <2>1, <2>4, <1>0, CheckUserTask, TypesKept
  <2>5. ASSUME NEW s \in SessionIds,
               registered' = registered \cup {Request1(w).user}, Pop(w),
               session' = [session EXCEPT ![s] =
                 [life |-> "live", user |-> Request1(w).user, timerfd |-> FALSE]],
               client' = [client EXCEPT ![Request1(w).client].session = s],
               session_ht' = session_ht \cup {s}, UNCHANGED stray,
               CheckUser(w, Request1(w).client, Request1(w).user, s),
               UNCHANGED <<timer, user_ht, issued, missed, ub>>
        PROVE  Types'
    <3>1. client' \in [Clients -> Client]  BY <2>1, <2>5, <1>0 DEF Client
    <3>2. session' \in [SessionIds -> Session]  BY <2>1, <2>5, <1>0 DEF Session
    <3>3. \A x \in SessionIds : session'[x].life # "none" => session'[x].user \in Users
      BY <2>1, <2>5, <1>0
    <3>4. \A x \in session_ht' : session'[x].life = "live"  BY <2>5, <1>0
    <3>5. QED  BY <3>1, <3>2, <3>3, <3>4, <2>1, <2>5, <1>0, CheckUserTask, TypesKept
  <2>6. QED  BY <2>2, <2>3, <2>4, <2>5, <1>9 DEF do_client_login
<1>10. ASSUME NEW w \in Workers, do_client_login_session(w) PROVE Types'
  <2>1. /\ pending[w] # <<>> /\ Request1(w).client \in Clients /\ Request1(w).user \in Users
        /\ Request1(w).session \in SessionIds
    BY <1>10, OldestIsPending DEF do_client_login_session, Request, RequestTypes
  <2>2. CASE UsesFreed  BY <2>2, <1>6
  <2>3. CASE /\ Pop(w)
             /\ CheckUser(w, Request1(w).client, Request1(w).user, Request1(w).session)
             /\ UNCHANGED <<sessions, client, timer, user_ht, issued, registered, missed, ub>>
    BY <2>1, <2>3, <1>0, CheckUserTask, TypesKept
  <2>4. CASE /\ Pop(w)
             /\ server_del_user_session(Request1(w).session)
             /\ session[Request1(w).session].life = "live"
             /\ UNCHANGED <<task, client, timer, user_ht, issued, registered, missed, ub>>
    BY <2>1, <2>4, <1>0, DeletedTypes, TypesKept
  <2>5. QED  BY <2>2, <2>3, <2>4, <1>10 DEF do_client_login_session
<1>12. Idle \in Task /\ TaskTypes(Idle)  BY DEF Task, Idle, TaskTypes
<1>11. ASSUME NEW w \in Workers, SetLoggedIn(w) PROVE Types'
  <2> DEFINE t == task[w]
  <2>1. t \in Task /\ t.client \in Clients /\ t.user \in Users
    BY <1>0, <1>11 DEF SetLoggedIn, Types, TaskTypes
  <2>2. CASE UsesFreed  BY <2>2, <1>6
  <2>3. ASSUME NEW sent \in BOOLEAN,
               EnterUser(t.client, t.user, sent),
               client' = [client EXCEPT ![t.client] =
                 [@ EXCEPT !.dbuser = t.user,
                           !.loggedIn = client[t.client].loggedIn \/ sent,
                           !.session = IF sent THEN t.session ELSE client[t.client].session]],
               issued' = IF sent /\ t.session # None THEN issued \cup {t.session} ELSE issued,
               task' = [task EXCEPT ![w] = IF t.session = None THEN Idle
                                           ELSE [t EXCEPT !.step = "cancel"]],
               UNCHANGED <<sessions, timer, registered, pending, ub>>
        PROVE  Types'
    <3>1. t.session \in SessionIds \cup {None}  BY <2>1 DEF Task
    <3>2. client' \in [Clients -> Client]
      <4> DEFINE x == [client[t.client] EXCEPT !.dbuser = t.user,
                         !.loggedIn = client[t.client].loggedIn \/ sent,
                         !.session = IF sent THEN t.session ELSE client[t.client].session]
      <4>1. client[t.client] \in Client  BY <2>1, <1>0
      <4>2. x \in Client  BY <4>1, <3>1, <2>1, <2>3 DEF Client
      <4>3. QED  BY <4>2, <2>1, <2>3, <1>0
    <3>3. user_ht' \in [Users -> Clients \cup {None}] /\ missed' \subseteq Users
      BY <2>1, <2>3, <1>0 DEF EnterUser
    <3>4. issued' \subseteq SessionIds  BY <3>1, <2>3, <1>0
    <3>5. PICK x \in Task : TaskTypes(x) /\ task' = [task EXCEPT ![w] = x]
      <4>1. CASE t.session = None
        BY <4>1, <2>3, <1>12
      <4>2. CASE t.session # None
        <5>1. [t EXCEPT !.step = "cancel"] \in Task /\ TaskTypes([t EXCEPT !.step = "cancel"])
          BY <4>2, <3>1, <2>1 DEF Task, TaskTypes
        <5>2. QED  BY <5>1, <4>2, <2>3
      <4>3. QED  BY <4>1, <4>2
    <3>6. QED  BY <3>2, <3>3, <3>4, <3>5, <2>3, <1>0, TypesKept
  <2>4. QED  BY <2>2, <2>3, <1>11 DEF SetLoggedIn
<1>13. ASSUME NEW s \in SessionIds,
              \/ session' = [session EXCEPT ![s].life = "freed"] /\ session[s].life # "none"
              \/ \E b \in BOOLEAN : session' = [session EXCEPT ![s].timerfd = b]
              \/ UNCHANGED session
       PROVE  /\ session' \in [SessionIds -> Session]
              /\ \A x \in SessionIds : session'[x].life # "none" => session'[x].user \in Users
  BY <1>0, <1>13 DEF Session
<1>14. ASSUME NEW w \in Workers, CancelTimer(w) PROVE Types'
  <2>1. task[w].session \in SessionIds  BY <1>14 DEF CancelTimer, Types, TaskTypes
  <2>2. CASE UsesFreed  BY <2>2, <1>6
  <2>3. CASE /\ \/ timer' = [timer EXCEPT ![task[w].session] = "off"]
                \/ timer' = timer
             /\ stray' = stray \/ stray' = stray \cup {task[w].session}
             /\ session' = [session EXCEPT ![task[w].session].timerfd = FALSE]
             /\ task' = [task EXCEPT ![w] = Idle]
             /\ UNCHANGED <<client, session_ht, user_ht, issued, registered, pending, missed, ub>>
    <3>1. timer' \in [SessionIds -> {"off", "armed"}]  BY <2>1, <2>3, <1>0
    <3>2. \A x \in session_ht' : session'[x].life = "live"
      BY <2>1, <2>3, <1>0 DEF Session
    <3>3. QED  BY <3>1, <3>2, <2>1, <2>3, <1>0, <1>12, <1>13, TypesKept
  <2>4. QED  BY <2>2, <2>3, <1>14 DEF CancelTimer
<1>15. ASSUME NEW w \in Workers, TimerExpires(w) PROVE Types'
  <2>1. task[w].session \in SessionIds  BY <1>15 DEF TimerExpires, Types, TaskTypes
  <2>2. CASE UsesFreed  BY <2>2, <1>6
  <2>3. CASE /\ session[task[w].session].life = "live"
             /\ server_del_user_session(task[w].session)
             /\ timer' = [timer EXCEPT ![task[w].session] = "off"]
             /\ task' = [task EXCEPT ![w] = Idle]
             /\ UNCHANGED <<client, user_ht, issued, registered, pending, missed, ub>>
    BY <2>1, <2>3, <1>0, <1>12, DeletedTypes, TypesKept
  <2>4. QED  BY <2>2, <2>3, <1>15 DEF TimerExpires
<1>20. ASSUME NEW w \in Workers, NEW s \in SessionIds, StrayExpires(w, s) PROVE Types'
  <2>1. CASE UsesFreed  BY <2>1, <1>6
  <2>2. CASE /\ session[s].life = "live" /\ server_del_user_session(s)
             /\ UNCHANGED <<client, timer, user_ht, issued, registered, pending, task, missed, ub>>
    BY <2>2, <1>0, DeletedTypes, TypesKept
  <2>3. QED  BY <2>1, <2>2, <1>20 DEF StrayExpires
<1>16. ASSUME NEW w \in Workers, ArmTimer(w) PROVE Types'
  <2> DEFINE s == client[task[w].client].session
  <2>1. /\ task[w] \in Task /\ task[w].step = "arm" /\ task[w].client \in Clients
        /\ s \in SessionIds \cup {None}
    BY <1>0, <1>16 DEF ArmTimer, Types, TaskTypes, Client
  <2>2. CASE UsesFreed  BY <2>2, <1>6
  <2>3. CASE /\ task' = [task EXCEPT ![w].step = "free"]
             /\ UNCHANGED <<client, user_ht, issued, registered, pending, missed, ub>>
             /\ \/ UNCHANGED <<sessions, timer>>
                \/ /\ s \in SessionIds
                   /\ session' = [session EXCEPT ![s].timerfd = TRUE]
                   /\ timer' = [timer EXCEPT ![s] = "armed"]
                   /\ UNCHANGED <<session_ht, stray>>
                \/ /\ s \in SessionIds /\ session[s].life = "live"
                   /\ server_del_user_session(s)
                   /\ UNCHANGED timer
    <3>1. timer' \in [SessionIds -> {"off", "armed"}]  BY <2>1, <2>3, <1>0
    <3>2. [task[w] EXCEPT !.step = "free"] \in Task
          /\ TaskTypes([task[w] EXCEPT !.step = "free"])
      BY <2>1 DEF Task, TaskTypes
    <3>3. task' = [task EXCEPT ![w] = [task[w] EXCEPT !.step = "free"]]  BY <2>3
    <3>4. /\ session' \in [SessionIds -> Session]
          /\ \A x \in SessionIds : session'[x].life # "none" => session'[x].user \in Users
          /\ session_ht' \subseteq SessionIds /\ stray' \subseteq SessionIds
          /\ \A x \in session_ht' : session'[x].life = "live"
      <4>1. CASE UNCHANGED sessions  BY <4>1, <1>0
      <4>2. CASE /\ s \in SessionIds /\ session' = [session EXCEPT ![s].timerfd = TRUE]
                 /\ UNCHANGED <<session_ht, stray>>
        <5>1. \A x \in session_ht' : session'[x].life = "live"
          BY <4>2, <1>0 DEF Session
        <5>2. QED  BY <4>2, <5>1, <1>0, <1>13
      <4>3. CASE s \in SessionIds /\ session[s].life = "live" /\ server_del_user_session(s)
        BY <4>3, DeletedTypes
      <4>4. QED  BY <4>1, <4>2, <4>3, <2>3
    <3>5. QED  BY <3>1, <3>2, <3>3, <3>4, <2>3, <1>0, TypesKept
  <2>4. QED  BY <2>1, <2>2, <2>3, <1>16 DEF ArmTimer
<1>17. ASSUME NEW w \in Workers, FreeClient(w) PROVE Types'
  <2>1. task[w].client \in Clients /\ client[task[w].client].dbuser \in Users \cup {None}
    BY <1>0, <1>17 DEF FreeClient, Types, TaskTypes, Client
  <2>2. user_ht' \in [Users -> Clients \cup {None}] /\ missed' \subseteq Users
    BY <2>1, <1>0, <1>17, ForgottenTypes DEF FreeClient
  <2>3. client' \in [Clients -> Client]
    BY <2>1, <1>0, <1>17 DEF FreeClient, Client
  <2>4. QED  BY <2>2, <2>3, <1>0, <1>12, <1>17, TypesKept DEF FreeClient
<1>18. CASE UNCHANGED vars  BY <1>18, <1>0, TypesKept DEF vars
<1>19. QED
  BY <1>1, <1>3, <1>4, <1>7, <1>8, <1>9, <1>10, <1>11, <1>14, <1>15, <1>16, <1>17, <1>18,
     <1>20
  DEF Next

(* The state of server_init.                                                 *)
LEMMA InitTypes == Init => Types
<1> SUFFICES ASSUME Init PROVE Types  OBVIOUS
<1>1. Idle \in Task /\ TaskTypes(Idle)  BY DEF Task, Idle, TaskTypes
<1>2. client \in [Clients -> Client] /\ session \in [SessionIds -> Session]
  BY DEF Init, Client, Session
<1>3. /\ pending \in [Workers -> Seq(Request)]
      /\ \A w \in Workers : pending[w] = <<>> /\ Len(pending[w]) = 0
  BY DEF Init
<1>4. session_ht = {} /\ \A s \in SessionIds : session[s].life = "none"  BY DEF Init
<1>5. task \in [Workers -> Task] /\ \A w \in Workers : TaskTypes(task[w])
  BY <1>1 DEF Init
<1>6. \A w \in Workers : pending[w] \in Seq(Request) /\ Len(pending[w]) <= MaxPending
  BY <1>3
<1>7. TypeOK  BY <1>2, <1>5, <1>6 DEF Init, TypeOK
<1>8. QED  BY <1>3, <1>4, <1>5, <1>7 DEF Types

(* The types hold in every reachable state, with any number of workers; no  *)
(* worker has more than MaxPending commands waiting.                        *)
THEOREM TypeCorrect == Spec => []TypeOK
<1>1. Spec => []Types  BY InitTypes, NextTypes, PTL DEF Spec
<1>2. Types => TypeOK  BY DEF Types
<1>3. QED  BY <1>1, <1>2, PTL

-----------------------------------------------------------------------------
(* What the tables promise, one lemma per kind of step.                      *)

Promises == UserEntered /\ SessionEntered /\ SessionUnshared /\ TasksHold /\ TimerDetached

(* A connection is accepted: a new client has neither user nor session.      *)
LEMMA AcceptKeeps ==
  ASSUME IInv, NEW c \in Clients, Accept(c)
  PROVE  Promises'
<1>1. /\ UNCHANGED <<sessions, timer, user_ht, issued, pending, task, missed>>
      /\ \A d \in Clients :
           /\ client'[d].dbuser = client[d].dbuser
           /\ client'[d].loggedIn = client[d].loggedIn
           /\ client'[d].session = client[d].session
           /\ client'[d].life # "freed" <=> client[d].life # "freed"
  BY DEF Accept, IInv, Types, TypeOK, Client
<1>2. UserEntered'
  <2>1. \A u \in Users : user_ht[u] # None => user_ht[u] \in Clients  BY DEF IInv, Types, TypeOK
  <2>2. QED  BY <1>1, <2>1 DEF IInv, UserEntered, Entered
<1>3. SessionEntered'  BY <1>1 DEF IInv, SessionEntered, Entered
<1>4. SessionUnshared'  BY <1>1 DEF IInv, SessionUnshared
<1>5. TasksHold'
  <2>1. \A w \in Workers : /\ task[w].step \in {"arm", "free"} => task[w].client \in Clients
    BY DEF IInv, Types, TaskTypes
  <2>2. TasksHold  BY DEF IInv
  <2>3. QED  BY <1>1, <2>1, <2>2 DEF TasksHold
<1>6. TimerDetached'  BY <1>1 DEF IInv, TimerDetached
<1>7. QED  BY <1>2, <1>3, <1>4, <1>5, <1>6 DEF Promises

(* A command is sent to the database, with the session as looked up.         *)
LEMMA EnqueueKeeps ==
  ASSUME IInv, NEW w \in Workers, NEW r \in Request, RequestTypes(r),
         Len(pending[w]) < MaxPending, Enqueue(w, r),
         r.cmd = "session" => r.session \in issued /\ r.user = session[r.session].user
  PROVE  Promises'
<1>1. /\ UNCHANGED <<client, sessions, timer, user_ht, issued, task, missed>>
      /\ \A v \in Workers : \A i \in 1 .. Len(pending'[v]) :
           \/ v = w /\ pending'[v][i] = r
           \/ i \in 1 .. Len(pending[v]) /\ pending'[v][i] = pending[v][i]
  BY EnqueueMoves DEF IInv
<1>2. UserEntered'  BY <1>1 DEF IInv, UserEntered, Entered
<1>3. SessionEntered'  BY <1>1 DEF IInv, SessionEntered, Entered
<1>4. SessionUnshared'  BY <1>1 DEF IInv, SessionUnshared
<1>5. TasksHold'  BY <1>1 DEF IInv, TasksHold
<1>6. TimerDetached'  BY <1>1 DEF IInv, TimerDetached
<1>7. QED  BY <1>2, <1>3, <1>4, <1>5, <1>6 DEF Promises

(* Freed memory is used: nothing the promises are about has changed.         *)
LEMMA UsesFreedKeeps ==
  ASSUME IInv, UNCHANGED <<client, session, timer, user_ht, issued, pending, task, missed>>
  PROVE  Promises'
<1>1. UserEntered'  BY DEF IInv, UserEntered, Entered
<1>2. SessionEntered'  BY DEF IInv, SessionEntered, Entered
<1>3. SessionUnshared'  BY DEF IInv, SessionUnshared
<1>4. TasksHold'  BY DEF IInv, TasksHold
<1>5. TimerDetached'  BY DEF IInv, TimerDetached
<1>6. QED  BY <1>1, <1>2, <1>3, <1>4, <1>5 DEF Promises

(* The worker takes the event of a closing client or of a timer.             *)
LEMMA TakeEventKeeps ==
  ASSUME IInv, NEW w \in Workers, task[w] = Idle, NEW t \in Task, TaskTypes(t),
         t.step \in {"arm", "expire"},
         t.step = "arm" => client[t.client].life # "freed" /\ ~Closing(t.client),
         task' = [task EXCEPT ![w] = t],
         UNCHANGED <<client, session, timer, user_ht, issued, pending, missed>>
  PROVE  Promises'
<1>1. /\ task'[w] = t /\ task[w].step = "idle"
      /\ \A v \in Workers : v # w => task'[v] = task[v]
  <2>1. task[w].step = "idle"  BY DEF Idle
  <2>2. Types  BY DEF IInv
  <2>3. QED  BY <2>1, <2>2, TaskMoves
<1>2. UserEntered'  BY DEF IInv, UserEntered, Entered
<1>3. SessionEntered'  BY DEF IInv, SessionEntered, Entered
<1>4. SessionUnshared'  BY DEF IInv, SessionUnshared
<1>5. TasksHold'
  <2> SUFFICES ASSUME NEW v \in Workers PROVE TasksHold!(v)'
    BY DEF TasksHold
  <2>1. TasksHold  BY DEF IInv
  <2>2. CASE v = w  BY <2>1, <2>2, <1>1 DEF TasksHold, Closing
  <2>3. CASE v # w
    <3>1. task'[v] = task[v]  BY <2>3, <1>1
    <3>2. ASSUME task[v].step \in {"arm", "free"}, t.step = "arm"
          PROVE  task[v].client # t.client
      BY <3>2 DEF Closing
    <3>3. QED  BY <2>1, <3>1, <3>2, <1>1 DEF TasksHold
  <2>4. QED  BY <2>2, <2>3
<1>6. TimerDetached'
  <2> SUFFICES ASSUME NEW s \in SessionIds, timer[s] = "armed", session[s].user \notin missed,
                      NEW c \in Clients, client[c].session = s, client[c].life # "freed"
               PROVE  \E v \in Workers :
                        \/ task'[v].step = "free" /\ task'[v].client = c
                        \/ task'[v].step = "cancel" /\ task'[v].session = s
    BY DEF IInv, TimerDetached
  <2>1. PICK v \in Workers : \/ task[v].step = "free" /\ task[v].client = c
                             \/ task[v].step = "cancel" /\ task[v].session = s
    BY DEF IInv, TimerDetached
  <2>2. v # w  BY <2>1, <1>1
  <2>3. QED  BY <2>1, <2>2, <1>1
<1>7. QED  BY <1>2, <1>3, <1>4, <1>5, <1>6 DEF Promises

(* The commands left in the queue still name a session that was sent.        *)
LEMMA QueueStillHolds ==
  ASSUME IInv, NEW w \in Workers, pending[w] # <<>>, Pop(w), issued \subseteq issued',
         \A s \in SessionIds : session[s].life # "none" => session'[s].user = session[s].user
  PROVE  \A v \in Workers : \A i \in 1 .. Len(pending'[v]) :
           pending'[v][i].cmd = "session" =>
             /\ pending'[v][i].session \in issued'
             /\ pending'[v][i].user = session'[pending'[v][i].session].user
<1> SUFFICES ASSUME NEW v \in Workers, NEW i \in 1 .. Len(pending'[v]),
                    pending'[v][i].cmd = "session"
             PROVE  /\ pending'[v][i].session \in issued'
                    /\ pending'[v][i].user = session'[pending'[v][i].session].user
  OBVIOUS
<1>1. PICK j \in 1 .. Len(pending[v]) : pending'[v][i] = pending[v][j]
  BY PopMoves DEF IInv
<1>2. /\ pending[v][j].session \in issued
      /\ pending[v][j].user = session[pending[v][j].session].user
  BY <1>1 DEF IInv, TasksHold
<1>3. session[pending[v][j].session].life # "none" /\ pending[v][j].session \in SessionIds
  BY <1>2 DEF IInv, SessionEntered, Types, TypeOK
<1>4. QED  BY <1>1, <1>2, <1>3

(* An answer that only tells the client something.                           *)
LEMMA PopKeeps ==
  ASSUME IInv, NEW w \in Workers, pending[w] # <<>>, Pop(w),
         UNCHANGED <<client, sessions, timer, user_ht, issued, task, missed>>
  PROVE  Promises'
<1>1. UserEntered'  BY DEF IInv, UserEntered, Entered
<1>2. SessionEntered'  BY DEF IInv, SessionEntered, Entered
<1>3. SessionUnshared'  BY DEF IInv, SessionUnshared
<1>4. TasksHold'  BY QueueStillHolds DEF IInv, TasksHold
<1>5. TimerDetached'  BY DEF IInv, TimerDetached
<1>6. QED  BY <1>1, <1>2, <1>3, <1>4, <1>5 DEF Promises

(* The task of a login with a session whose id was sent, or without one.     *)
LEMMA SetTaskKeeps ==
  ASSUME IInv, NEW w \in Workers, task[w] = Idle, pending[w] # <<>>, Pop(w),
         NEW c \in Clients, NEW u \in Users, NEW s \in SessionIds \cup {None},
         task' = [task EXCEPT ![w] =
           [step |-> "set", client |-> c, user |-> u, session |-> s]],
         s # None => session[s].life # "none" /\ session[s].user = u /\ s \in issued,
         UNCHANGED <<client, session, timer, issued, missed>>
  PROVE  TasksHold' /\ TimerDetached'
<1> DEFINE t == [step |-> "set", client |-> c, user |-> u, session |-> s]
<1>1. /\ t.step = "set" /\ t.client = c /\ t.user = u /\ t.session = s
      /\ task'[w] = t /\ task[w].step = "idle"
      /\ \A v \in Workers : v # w => task'[v] = task[v]
  <2>1. t \in Task /\ TaskTypes(t)  BY DEF Task, TaskTypes
  <2>2. task[w].step = "idle"  BY DEF Idle
  <2>3. Types  BY DEF IInv
  <2>4. QED  BY <2>2, <2>3, <2>1, TaskMoves
<1> HIDE DEF t
<1>2. \A v \in Workers : \A i \in 1 .. Len(pending'[v]) :
        pending'[v][i].cmd = "session" =>
          /\ pending'[v][i].session \in issued'
          /\ pending'[v][i].user = session'[pending'[v][i].session].user
  BY QueueStillHolds
<1>3. TasksHold'
  <2>1. TasksHold  BY DEF IInv
  <2>2. TasksHold!(w)'  BY <1>1, <1>2
  <2>3. ASSUME NEW v \in Workers, v # w PROVE TasksHold!(v)'
    <3>1. task'[v] = task[v]  BY <2>3, <1>1
    <3>2. TasksHold!(v)  BY <2>1 DEF TasksHold
    <3>3. QED  BY <3>1, <3>2, <1>1, <1>2
  <2>4. QED  BY <2>2, <2>3 DEF TasksHold
<1>4. TimerDetached'
  <2> SUFFICES ASSUME NEW x \in SessionIds, timer[x] = "armed"
               PROVE  TimerDetached!(x)!2'
    BY DEF TimerDetached
  <2>1. TimerDetached!(x)!2  BY DEF IInv, TimerDetached
  <2>2. QED  BY <2>1, <1>1
<1>5. QED  BY <1>3, <1>4

(* The user is looked up in user_ht, for a login without a new session.      *)
LEMMA CheckUserKeeps ==
  ASSUME IInv, NEW w \in Workers, task[w] = Idle, pending[w] # <<>>, Pop(w),
         NEW c \in Clients, NEW u \in Users, NEW s \in SessionIds \cup {None},
         CheckUser(w, c, u, s), s # None => s \in issued /\ session[s].user = u,
         UNCHANGED <<client, sessions, timer, user_ht, issued, missed>>
  PROVE  Promises'
<1>1. CASE UNCHANGED task  BY <1>1, PopKeeps
<1>2. CASE task' = [task EXCEPT ![w] =
             [step |-> "set", client |-> c, user |-> u, session |-> s]]
  <2>1. UserEntered'  BY DEF IInv, UserEntered, Entered
  <2>2. SessionEntered'  BY DEF IInv, SessionEntered, Entered
  <2>3. SessionUnshared'  BY DEF IInv, SessionUnshared
  <2>4. s # None => session[s].life # "none"  BY DEF IInv, SessionEntered
  <2>5. TasksHold' /\ TimerDetached'
    <3>1. s # None => session'[s].life # "none" /\ session'[s].user = u /\ s \in issued'
      BY <2>4
    <3>2. \A x \in SessionIds : session[x].life # "none" => session'[x].user = session[x].user
      OBVIOUS
    <3>3. QED  BY <1>2, <3>1, SetTaskKeeps
  <2>6. QED  BY <2>1, <2>2, <2>3, <2>5 DEF Promises
<1>3. QED  BY <1>1, <1>2 DEF CheckUser

(* The same for a login that makes a session first and gives it to the       *)
(* client.                                                                   *)
LEMMA NewSessionKeeps ==
  ASSUME IInv, NEW w \in Workers, task[w] = Idle, pending[w] # <<>>, Pop(w),
         NEW c \in Clients, NEW u \in Users, NEW s \in SessionIds, CheckUser(w, c, u, s),
         session[s].life = "none",
         session' = [session EXCEPT ![s] = [life |-> "live", user |-> u, timerfd |-> FALSE]],
         client' = [client EXCEPT ![c].session = s],
         UNCHANGED <<timer, user_ht, issued, missed>>
  PROVE  Promises'
<1>1. /\ s \notin issued /\ timer[s] # "armed"
      /\ \A d \in Clients : client[d].session # s
      /\ \A v \in Workers : task[v].step = "set" => task[v].session # s
  BY DEF IInv, SessionEntered, TimerDetached, TasksHold
<1>2. /\ client'[c].session = s
      /\ \A d \in Clients :
           /\ client'[d].dbuser = client[d].dbuser /\ client'[d].life = client[d].life
           /\ client'[d].loggedIn = client[d].loggedIn
           /\ d # c => client'[d].session = client[d].session
  BY DEF IInv, Types, TypeOK, Client
<1>3. /\ session'[s].life = "live" /\ session'[s].user = u
      /\ \A x \in SessionIds : x # s => session'[x] = session[x]
  BY DEF IInv, Types, TypeOK
<1>4. /\ \A d \in Clients : client[d].session \in SessionIds \cup {None}
      /\ \A x \in Users : user_ht[x] \in Clients \cup {None}
      /\ issued \subseteq SessionIds
      /\ \A v \in Workers : task[v].session \in SessionIds \cup {None}
      /\ \A v \in Workers : task[v].step \in {"arm", "free"} => task[v].client \in Clients
  BY DEF IInv, Types, TypeOK, Client, Task, TaskTypes
<1>5. UserEntered'  BY <1>2, <1>4 DEF IInv, UserEntered, Entered
<1>6. SessionEntered'  BY <1>1, <1>2, <1>3, <1>4 DEF IInv, SessionEntered, Entered
<1>7. SessionUnshared'  BY <1>1, <1>2 DEF IInv, SessionUnshared
<1>8. \A v \in Workers : \A i \in 1 .. Len(pending'[v]) :
        pending'[v][i].cmd = "session" =>
          /\ pending'[v][i].session \in issued'
          /\ pending'[v][i].user = session'[pending'[v][i].session].user
  BY <1>3, QueueStillHolds
<1>9. \A v \in Workers :
        task[v].step \in {"arm", "free"} => client'[task[v].client].life # "freed"
  BY <1>2, <1>4 DEF IInv, TasksHold
<1>10. ASSUME NEW v \in Workers, task[v].step = "set", task[v].session # None
       PROVE  /\ session'[task[v].session].life # "none"
              /\ session'[task[v].session].user = task[v].user
              /\ \/ task[v].session \in issued'
                 \/ \A d \in Clients : client'[d].session = task[v].session => d = task[v].client
  <2>1. task[v].session \in SessionIds /\ task[v].session # s  BY <1>1, <1>4, <1>10
  <2>2. session'[task[v].session] = session[task[v].session]  BY <2>1, <1>3
  <2>3. /\ session[task[v].session].life # "none"
        /\ session[task[v].session].user = task[v].user
        /\ \/ task[v].session \in issued
           \/ \A d \in Clients : client[d].session = task[v].session => d = task[v].client
    BY <1>10 DEF IInv, TasksHold
  <2>4. \A d \in Clients : client'[d].session = task[v].session => client[d].session = task[v].session
    BY <2>1, <1>2
  <2>5. QED  BY <2>2, <2>3, <2>4
<1>11. ASSUME NEW x \in SessionIds, timer'[x] = "armed"
       PROVE  /\ timer[x] = "armed" /\ session'[x] = session[x]
              /\ \A d \in Clients : client'[d].session = x => client[d].session = x
  BY <1>11, <1>1, <1>2, <1>3
<1>12. CASE UNCHANGED task
  <2>1. TasksHold'  BY <1>8, <1>9, <1>10, <1>12 DEF IInv, TasksHold
  <2>2. TimerDetached'  BY <1>2, <1>11, <1>12 DEF IInv, TimerDetached
  <2>3. QED  BY <2>1, <2>2, <1>5, <1>6, <1>7 DEF Promises
<1>13. CASE task' = [task EXCEPT ![w] =
              [step |-> "set", client |-> c, user |-> u, session |-> s]]
  <2> DEFINE t == [step |-> "set", client |-> c, user |-> u, session |-> s]
  <2>1. /\ t.step = "set" /\ t.client = c /\ t.user = u /\ t.session = s
        /\ task'[w] = t /\ task[w].step = "idle"
        /\ \A v \in Workers : v # w => task'[v] = task[v]
    <3>1. t \in Task /\ TaskTypes(t)  BY DEF Task, TaskTypes
    <3>2. task[w].step = "idle"  BY DEF Idle
    <3>3. Types  BY DEF IInv
    <3>4. QED  BY <3>2, <3>3, <3>1, <1>13, TaskMoves
  <2> HIDE DEF t
  <2>2. TasksHold'
    <3>1. \A d \in Clients : client'[d].session = s => d = c  BY <1>1, <1>2
    <3>2. TasksHold!(w)'  BY <2>1, <3>1, <1>3, <1>8
    <3>3. ASSUME NEW v \in Workers, v # w PROVE TasksHold!(v)'
      <4>1. task'[v] = task[v]  BY <3>3, <2>1
      <4>2. \A x \in Workers : task[v].step \in {"arm", "free"}
              /\ task[x].step \in {"arm", "free"} /\ task[x].client = task[v].client => x = v
        BY DEF IInv, TasksHold
      <4>3. QED  BY <4>1, <4>2, <2>1, <1>8, <1>9, <1>10
    <3>4. QED  BY <3>2, <3>3 DEF TasksHold
  <2>3. TimerDetached'
    <3> SUFFICES ASSUME NEW x \in SessionIds, timer'[x] = "armed"
                 PROVE  TimerDetached!(x)!2'
      BY DEF TimerDetached
    <3>1. TimerDetached!(x)!2  BY <1>11 DEF IInv, TimerDetached
    <3>2. QED  BY <3>1, <1>2, <1>11, <2>1
  <2>4. QED  BY <2>2, <2>3, <1>5, <1>6, <1>7 DEF Promises
<1>14. QED  BY <1>12, <1>13 DEF CheckUser

(* A session is freed; whose it is, and its timer, stay as they were.        *)
LEMMA DeletedKeeps ==
  ASSUME IInv, NEW s \in SessionIds, session[s].life = "live", server_del_user_session(s)
  PROVE  \A x \in SessionIds :
           /\ session'[x].user = session[x].user /\ session'[x].timerfd = session[x].timerfd
           /\ session'[x].life = "none" <=> session[x].life = "none"
  BY DEF IInv, Types, TypeOK, Session, server_del_user_session

(* Steps that change sessions, but neither whose they are nor who has them.  *)
LEMMA SessionsChange ==
  ASSUME IInv, UNCHANGED <<client, user_ht, issued, missed>>,
         \A x \in SessionIds :
           /\ session'[x].user = session[x].user
           /\ session'[x].life = "none" <=> session[x].life = "none"
  PROVE  UserEntered' /\ SessionEntered' /\ SessionUnshared'
<1>1. /\ \A c \in Clients : client[c].session \in SessionIds \cup {None}
      /\ issued \subseteq SessionIds
  BY DEF IInv, Types, TypeOK, Client
<1>2. UserEntered'  BY DEF IInv, UserEntered, Entered
<1>3. SessionEntered'
  <2>1. SessionEntered  BY DEF IInv
  <2>2. \A x \in issued : session'[x].life # "none"  BY <2>1, <1>1 DEF SessionEntered
  <2>3. ASSUME NEW c \in Clients, client[c].session # None
        PROVE  /\ session'[client[c].session].life # "none"
               /\ session'[client[c].session].user = session[client[c].session].user
    BY <2>1, <2>3, <1>1 DEF SessionEntered
  <2>4. QED  BY <2>1, <2>2, <2>3 DEF SessionEntered, Entered
<1>4. SessionUnshared'  BY DEF IInv, SessionUnshared
<1>5. QED  BY <1>2, <1>3, <1>4

(* The tasks and commands, when besides the sessions one task changes.       *)
LEMMA TasksChange ==
  ASSUME IInv, issued \subseteq issued', NEW w \in Workers,
         \A v \in Workers : v # w => task'[v] = task[v],
         \A x \in SessionIds :
           /\ session'[x].user = session[x].user
           /\ session'[x].life = "none" <=> session[x].life = "none",
         \/ task'[w] = task[w]
         \/ task'[w].step \in {"idle", "cancel"}
         \/ task'[w].step = "free" /\ task[w].step = "arm" /\ task'[w].client = task[w].client,
         \A v \in Workers : v # w /\ task[v].step \in {"arm", "free"}
           => client'[task[v].client].life # "freed",
         task'[w].step \in {"arm", "free"} => client'[task[w].client].life # "freed",
         \A c \in Clients : client'[c].session = client[c].session
                              \/ client'[c].session = None \/ client'[c].session \in issued',
         UNCHANGED pending
  PROVE  TasksHold'
<1>1. /\ \A v \in Workers : task[v].session \in SessionIds \cup {None}
      /\ issued \subseteq SessionIds
  BY DEF IInv, Types, TypeOK, Task
<1>2. TasksHold  BY DEF IInv
<1>3. ASSUME NEW v \in Workers
      PROVE  \A i \in 1 .. Len(pending'[v]) :
        pending'[v][i].cmd = "session" =>
          /\ pending'[v][i].session \in issued'
          /\ pending'[v][i].user = session'[pending'[v][i].session].user
  <2>1. \A i \in 1 .. Len(pending[v]) :
          pending[v][i].cmd = "session" =>
            /\ pending[v][i].session \in issued
            /\ pending[v][i].user = session[pending[v][i].session].user
    BY <1>2 DEF TasksHold
  <2>2. QED  BY <2>1, <1>1
<1>4. ASSUME NEW v \in Workers, task'[v].step = "set", task'[v].session # None
      PROVE  /\ session'[task'[v].session].life # "none"
             /\ session'[task'[v].session].user = task'[v].user
             /\ \/ task'[v].session \in issued'
                \/ \A d \in Clients : client'[d].session = task'[v].session => d = task'[v].client
  <2>1. task'[v] = task[v]  BY <1>4
  <2>2. task[v].session \in SessionIds  BY <1>1, <1>4, <2>1
  <2>3. /\ session[task[v].session].life # "none"
        /\ session[task[v].session].user = task[v].user
        /\ \/ task[v].session \in issued
           \/ \A d \in Clients : client[d].session = task[v].session => d = task[v].client
    BY <1>2, <1>4, <2>1 DEF TasksHold
  <2>4. QED  BY <2>1, <2>2, <2>3, <1>4
<1>5. ASSUME NEW v \in Workers, task'[v].step \in {"arm", "free"}
      PROVE  /\ client'[task'[v].client].life # "freed"
             /\ \A x \in Workers : task'[x].step \in {"arm", "free"}
                                     /\ task'[x].client = task'[v].client => x = v
  <2>1. \A x \in Workers : task'[x].step \in {"arm", "free"} =>
          task[x].step \in {"arm", "free"} /\ task'[x].client = task[x].client
    OBVIOUS
  <2>2. \A x \in Workers : task[v].step \in {"arm", "free"} /\ task[x].step \in {"arm", "free"}
                                     /\ task[x].client = task[v].client => x = v
    BY <1>2 DEF TasksHold
  <2>3. client'[task'[v].client].life # "freed"  BY <1>5, <2>1
  <2>4. QED  BY <1>5, <2>1, <2>2, <2>3
<1>6. QED  BY <1>3, <1>4, <1>5 DEF TasksHold

(* A session is deleted although its timer may run (the user could not be    *)
(* read, or a timer nobody could cancel has fired).                          *)
LEMMA SessionLostKeeps ==
  ASSUME IInv, NEW s \in SessionIds, session[s].life = "live",
         server_del_user_session(s),
         \/ UNCHANGED pending
         \/ \E w \in Workers : pending[w] # <<>> /\ Pop(w),
         UNCHANGED <<client, timer, user_ht, issued, task, missed>>
  PROVE  Promises'
<1>1. \A x \in SessionIds :
        /\ session'[x].user = session[x].user /\ session'[x].timerfd = session[x].timerfd
        /\ session'[x].life = "none" <=> session[x].life = "none"
  BY DeletedKeeps
<1>2. UserEntered' /\ SessionEntered' /\ SessionUnshared'  BY <1>1, SessionsChange
<1>3. TasksHold'
  <2>1. /\ \A v \in Workers : task[v].session \in SessionIds \cup {None}
        /\ issued \subseteq SessionIds
    BY DEF IInv, Types, TypeOK, Task
  <2>2. TasksHold  BY DEF IInv
  <2>3. ASSUME NEW v \in Workers
        PROVE  \A i \in 1 .. Len(pending'[v]) :
          pending'[v][i].cmd = "session" =>
            /\ pending'[v][i].session \in issued'
            /\ pending'[v][i].user = session'[pending'[v][i].session].user
    <3>1. CASE UNCHANGED pending  BY <3>1, <2>1, <2>2, <1>1 DEF TasksHold
    <3>2. CASE ~UNCHANGED pending
      <4>1. PICK w \in Workers : pending[w] # <<>> /\ Pop(w)  BY <3>2
      <4>2. \A x \in SessionIds : session[x].life # "none" => session'[x].user = session[x].user
        BY <1>1
      <4>3. \A x \in Workers : \A i \in 1 .. Len(pending'[x]) :
              pending'[x][i].cmd = "session" =>
                /\ pending'[x][i].session \in issued'
                /\ pending'[x][i].user = session'[pending'[x][i].session].user
        BY <4>1, <4>2, QueueStillHolds
      <4>4. QED  BY <4>3
    <3>3. QED  BY <3>1, <3>2
  <2>4. QED  BY <2>1, <2>2, <2>3, <1>1 DEF TasksHold
<1>4. TimerDetached'  BY <1>1 DEF IInv, TimerDetached
<1>5. QED  BY <1>2, <1>3, <1>4 DEF Promises

(* A timer fires: session and timer are gone.                                *)
LEMMA TimerExpiresKeeps ==
  ASSUME IInv, NEW w \in Workers, task[w].step = "expire",
         NEW s \in SessionIds, session[s].life = "live", server_del_user_session(s),
         timer' = [timer EXCEPT ![s] = "off"],
         task' = [task EXCEPT ![w] = Idle],
         UNCHANGED <<client, user_ht, issued, pending, missed>>
  PROVE  Promises'
<1>1. \A x \in SessionIds :
        /\ session'[x].user = session[x].user /\ session'[x].timerfd = session[x].timerfd
        /\ session'[x].life = "none" <=> session[x].life = "none"
  BY DeletedKeeps
<1>2. /\ task'[w].step = "idle" /\ task'[w] = Idle
      /\ \A v \in Workers : v # w => task'[v] = task[v]
  BY DEF Idle, IInv, Types, TypeOK
<1>3. /\ timer'[s] # "armed"
      /\ \A x \in SessionIds : x # s => timer'[x] = timer[x]
  BY DEF IInv, Types, TypeOK
<1>4. UserEntered' /\ SessionEntered' /\ SessionUnshared'  BY <1>1, SessionsChange
<1>5. TasksHold'
  <2>1. \A v \in Workers : task[v].step \in {"arm", "free"} => client[task[v].client].life # "freed"
    BY DEF IInv, TasksHold
  <2>2. QED  BY <1>1, <1>2, <2>1, TasksChange
<1>6. TimerDetached'
  <2> SUFFICES ASSUME NEW x \in SessionIds, timer'[x] = "armed" PROVE TimerDetached!(x)!2'
    BY DEF TimerDetached
  <2>1. timer[x] = "armed" /\ TimerDetached!(x)!2  BY <1>3 DEF IInv, TimerDetached
  <2>2. QED  BY <2>1, <1>1, <1>2
<1>7. QED  BY <1>4, <1>5, <1>6 DEF Promises

(* The login's last step deletes the timer of the session.                   *)
LEMMA CancelTimerKeeps ==
  ASSUME IInv, NEW w \in Workers, task[w].step = "cancel",
         NEW s \in SessionIds, s = task[w].session,
         IF session[s].timerfd THEN timer' = [timer EXCEPT ![s] = "off"] ELSE UNCHANGED timer,
         session' = [session EXCEPT ![s].timerfd = FALSE],
         task' = [task EXCEPT ![w] = Idle],
         UNCHANGED <<client, user_ht, issued, pending, missed>>
  PROVE  Promises'
<1>1. /\ \A x \in SessionIds : x # s => session'[x] = session[x]
      /\ session'[s] = [session[s] EXCEPT !.timerfd = FALSE]
  BY DEF IInv, Types, TypeOK
<1>2. \A x \in SessionIds : session'[x].user = session[x].user /\ session'[x].life = session[x].life
  BY <1>1 DEF IInv, Types, TypeOK, Session
<1>3. /\ task'[w].step = "idle" /\ task'[w] = Idle
      /\ \A v \in Workers : v # w => task'[v] = task[v]
  BY DEF Idle, IInv, Types, TypeOK
<1>4. /\ timer'[s] # "armed"
      /\ \A x \in SessionIds : x # s => timer'[x] = timer[x]
  BY DEF IInv, Types, TypeOK, TimerDetached
<1>5. UserEntered' /\ SessionEntered' /\ SessionUnshared'  BY <1>2, SessionsChange
<1>6. TasksHold'
  <2>1. \A v \in Workers : task[v].step \in {"arm", "free"} => client[task[v].client].life # "freed"
    BY DEF IInv, TasksHold
  <2>2. QED  BY <1>2, <1>3, <2>1, TasksChange
<1>7. TimerDetached'
  <2> SUFFICES ASSUME NEW x \in SessionIds, timer'[x] = "armed" PROVE TimerDetached!(x)!2'
    BY DEF TimerDetached
  <2>1. x # s /\ timer[x] = "armed" /\ TimerDetached!(x)!2  BY <1>4 DEF IInv, TimerDetached
  <2>2. QED  BY <2>1, <1>1, <1>3
<1>8. QED  BY <1>5, <1>6, <1>7 DEF Promises

(* Entering a user takes nobody's entry.                                     *)
LEMMA EnterMoves ==
  ASSUME IInv, NEW c \in Clients, NEW u \in Users, NEW sent \in BOOLEAN, EnterUser(c, u, sent)
  PROVE  /\ EnteredNext(c, u) /\ missed \subseteq missed'
         /\ \A d \in Clients, x \in Users : Entered(d, x) => EnteredNext(d, x)
         /\ \A x \in Users : user_ht'[x] = user_ht[x] \/ (x = u /\ user_ht'[x] = c)
<1>1. user_ht \in [Users -> Clients \cup {None}]  BY DEF IInv, Types, TypeOK
<1>2. QED  BY <1>1 DEF EnterUser, Entered, EnteredNext

(* Two connections that have one session: their user is not found for both.  *)
LEMMA SharedIsMissed ==
  ASSUME IInv, NEW c \in Clients, NEW d \in Clients, c # d,
         client[c].life # "freed", client[d].life # "freed",
         client[c].session # None, client[c].session = client[d].session
  PROVE  session[client[c].session].user \in missed
  BY DEF IInv, SessionUnshared, SessionEntered, Entered, EnteredNext

(* The client is entered in user_ht, gets its session and is told.           *)
LEMMA SetLoggedInKeeps ==
  ASSUME IInv, NEW w \in Workers, task[w].step = "set",
         client[task[w].client].life # "freed",
         NEW sent \in BOOLEAN, EnterUser(task[w].client, task[w].user, sent),
         client' = [client EXCEPT ![task[w].client] =
           [@ EXCEPT !.dbuser = task[w].user,
                     !.loggedIn = client[task[w].client].loggedIn \/ sent,
                     !.session = IF sent THEN task[w].session
                                 ELSE client[task[w].client].session]],
         issued' = IF sent /\ task[w].session # None THEN issued \cup {task[w].session}
                   ELSE issued,
         task' = [task EXCEPT ![w] = IF task[w].session = None THEN Idle
                                     ELSE [task[w] EXCEPT !.step = "cancel"]],
         UNCHANGED <<session, timer, pending>>
  PROVE  Promises'
<1>1. PICK c \in Clients, u \in Users, s \in SessionIds \cup {None} :
        task[w].client = c /\ task[w].user = u /\ task[w].session = s
  BY DEF IInv, Types, TypeOK, TaskTypes, Task
<1>2. s # None => /\ session[s].life # "none" /\ session[s].user = u
                  /\ s \in issued \/ \A d \in Clients : client[d].session = s => d = c
  BY <1>1 DEF IInv, TasksHold
<1>3. /\ EnteredNext(c, u) /\ missed \subseteq missed'
      /\ \A d \in Clients, x \in Users : Entered(d, x) => EnteredNext(d, x)
      /\ \A x \in Users : user_ht'[x] = user_ht[x] \/ (x = u /\ user_ht'[x] = c)
  BY <1>1, EnterMoves
<1>4. /\ client'[c].life = client[c].life /\ client'[c].dbuser = u
      /\ client'[c].session = IF sent THEN s ELSE client[c].session
      /\ \A d \in Clients : d # c => client'[d] = client[d]
  BY <1>1 DEF IInv, Types, TypeOK, Client
<1>5. /\ issued \subseteq issued' /\ \A x \in issued' : x \in issued \/ (sent /\ x = s /\ s # None)
      /\ sent /\ s # None => s \in issued'
  BY <1>1
<1>6. /\ task'[w].step \in {"idle", "cancel"}
      /\ s # None => task'[w].step = "cancel" /\ task'[w].session = s
      /\ \A v \in Workers : v # w => task'[v] = task[v]
  <2>1. CASE s = None
    BY <2>1, <1>1 DEF Idle, IInv, Types, TypeOK
  <2>2. CASE s # None
    <3>1. task'[w] = [task[w] EXCEPT !.step = "cancel"] /\ task[w] \in Task
      BY <2>2, <1>1 DEF IInv, Types, TypeOK
    <3>2. \A v \in Workers : v # w => task'[v] = task[v]  BY DEF IInv, Types, TypeOK
    <3>3. QED  BY <3>1, <3>2, <1>1 DEF Task
  <2>3. QED  BY <2>1, <2>2
<1>7. /\ \A d \in Clients : client[d].session \in SessionIds \cup {None}
      /\ \A d \in Clients : client[d].dbuser \in Users \cup {None}
      /\ \A x \in Users : user_ht[x] \in Clients \cup {None}
      /\ \A x \in SessionIds : session[x].life # "none" => session[x].user \in Users
      /\ issued \subseteq SessionIds
  BY DEF IInv, Types, TypeOK, Client
<1>8. UserEntered'
  <2>1. UserEntered  BY DEF IInv
  <2>2. ASSUME NEW d \in Clients
        PROVE  /\ client'[d].loggedIn => client'[d].dbuser # None
               /\ client'[d].life # "freed" /\ client'[d].dbuser # None
                    => EnteredNext(d, client'[d].dbuser)
    <3>1. CASE d = c  BY <3>1, <1>3, <1>4 DEF Entered, EnteredNext
    <3>2. CASE d # c
      <4>1. client'[d] = client[d]  BY <3>2, <1>4
      <4>2. client[d].dbuser # None => client[d].dbuser \in Users  BY <1>7
      <4>3. QED  BY <4>1, <4>2, <2>1, <1>3 DEF UserEntered, Entered, EnteredNext
    <3>3. QED  BY <3>1, <3>2
  <2>3. ASSUME NEW x \in Users, user_ht'[x] # None, client'[user_ht'[x]].dbuser = x
        PROVE  client'[user_ht'[x]].life # "freed"
    <3>1. CASE user_ht'[x] = c  BY <3>1, <1>1, <1>4
    <3>2. CASE user_ht'[x] # c
      <4>1. user_ht'[x] = user_ht[x] /\ user_ht[x] \in Clients  BY <3>2, <2>3, <1>3, <1>7
      <4>2. QED  BY <4>1, <3>2, <2>3, <2>1, <1>4 DEF UserEntered
    <3>3. QED  BY <3>1, <3>2
  <2>4. QED  BY <2>2, <2>3 DEF UserEntered, Entered, EnteredNext
<1>9. SessionEntered'
  <2>1. SessionEntered  BY DEF IInv
  <2>2. \A x \in issued' : session'[x].life # "none"
    BY <2>1, <1>2, <1>5 DEF SessionEntered
  <2>3. ASSUME NEW d \in Clients, NEW x \in SessionIds, client'[d].session = x
        PROVE  /\ session[x].life # "none"
               /\ client'[d].life # "freed" /\ x \in issued' => EnteredNext(d, session[x].user)
    <3>1. CASE d = c /\ sent
      <4>1. x = s /\ x # None  BY <3>1, <2>3, <1>4
      <4>2. QED  BY <4>1, <3>1, <1>2, <1>3
    <3>2. CASE ~(d = c /\ sent)
      <4>1. client[d].session = x /\ client'[d].life = client[d].life /\ x # None
        BY <3>2, <2>3, <1>4
      <4>2. session[x].life # "none" /\ session[x].user \in Users
        BY <4>1, <2>1, <1>7 DEF SessionEntered
      <4>3. ASSUME client[d].life # "freed", x \in issued' PROVE x \in issued
        BY <4>1, <4>3, <3>2, <1>2, <1>5
      <4>4. client[d].life # "freed" /\ x \in issued' => Entered(d, session[x].user)
        BY <4>1, <4>3, <2>1 DEF SessionEntered
      <4>5. QED  BY <4>1, <4>2, <4>4, <1>3
    <3>3. QED  BY <3>1, <3>2
  <2>4. \A d \in Clients : client'[d].session \in SessionIds \cup {None}  BY <1>4, <1>7
  <2>5. QED  BY <2>2, <2>3, <2>4 DEF SessionEntered, Entered, EnteredNext
<1>10. SessionUnshared'
  <2> SUFFICES ASSUME NEW d \in Clients, NEW e \in Clients, d # e,
                      client'[d].life # "freed", client'[e].life # "freed",
                      client'[d].session # None, client'[d].session = client'[e].session
               PROVE  client'[d].session \in issued'
    BY DEF SessionUnshared
  <2>1. CASE sent /\ (d = c \/ e = c)  BY <2>1, <1>4, <1>5
  <2>2. CASE ~(sent /\ (d = c \/ e = c))
    <3>1. /\ client'[d].session = client[d].session /\ client'[d].life = client[d].life
          /\ client'[e].session = client[e].session /\ client'[e].life = client[e].life
      BY <2>2, <1>4
    <3>2. client[d].session \in issued  BY <3>1 DEF IInv, SessionUnshared
    <3>3. QED  BY <3>1, <3>2, <1>5
  <2>3. QED  BY <2>1, <2>2
<1>11. TasksHold'
  <2>1. \A v \in Workers : task[v].step \in {"arm", "free"} =>
          task[v].client \in Clients /\ client[task[v].client].life # "freed"
    BY DEF IInv, TasksHold, Types, TaskTypes
  <2>2. \A v \in Workers : task[v].step \in {"arm", "free"} => client'[task[v].client].life # "freed"
    BY <2>1, <1>4
  <2>3. \A d \in Clients : client'[d].session = client[d].session
                              \/ client'[d].session = None \/ client'[d].session \in issued'
    BY <1>4, <1>5
  <2>4. QED  BY <2>2, <2>3, <1>5, <1>6, TasksChange
<1>12. TimerDetached'
  <2> SUFFICES ASSUME NEW x \in SessionIds, timer[x] = "armed"
               PROVE  TimerDetached!(x)!2'
    BY DEF TimerDetached
  <2>1. TimerDetached!(x)!2  BY DEF IInv, TimerDetached
  <2>2. ASSUME session[x].user \notin missed', NEW d \in Clients,
               client'[d].session = x, client'[d].life # "freed"
        PROVE  \E v \in Workers :
                 \/ task'[v].step = "free" /\ task'[v].client = d
                 \/ task'[v].step = "cancel" /\ task'[v].session = x
    <3>1. CASE d = c /\ sent  BY <3>1, <2>2, <1>4, <1>6
    <3>2. CASE ~(d = c /\ sent)
      <4>1. client[d].session = x /\ client[d].life # "freed"  BY <3>2, <2>2, <1>4
      <4>2. session[x].user \notin missed  BY <2>2, <1>3
      <4>3. PICK v \in Workers : \/ task[v].step = "free" /\ task[v].client = d
                                 \/ task[v].step = "cancel" /\ task[v].session = x
        BY <4>1, <4>2, <2>1
      <4>4. v # w  BY <4>3
      <4>5. QED  BY <4>3, <4>4, <1>6
    <3>3. QED  BY <3>1, <3>2
  <2>3. QED  BY <2>1, <2>2
<1>13. QED  BY <1>8, <1>9, <1>10, <1>11, <1>12 DEF Promises

(* A closing client's session gets a timer, or is deleted for want of one.   *)
LEMMA ArmTimerKeeps ==
  ASSUME IInv, NEW w \in Workers, task[w].step = "arm",
         NEW s, s = client[task[w].client].session,
         task' = [task EXCEPT ![w].step = "free"],
         \/ UNCHANGED <<session, timer>>
         \/ /\ s \in SessionIds /\ session[s].life = "live"
            /\ session' = [session EXCEPT ![s].timerfd = TRUE]
            /\ timer' = [timer EXCEPT ![s] = "armed"]
         \/ /\ s \in SessionIds /\ session[s].life = "live"
            /\ server_del_user_session(s)
            /\ UNCHANGED timer,
         UNCHANGED <<client, user_ht, issued, pending, missed>>
  PROVE  Promises'
<1>1. PICK c \in Clients : task[w].client = c /\ client[c].life # "freed"
  BY DEF IInv, Types, TaskTypes, TasksHold
<1>2. /\ task'[w].step = "free" /\ task'[w].client = c
      /\ \A v \in Workers : v # w => task'[v] = task[v]
  BY <1>1 DEF IInv, Types, TypeOK, Task
<1>3. \A x \in SessionIds :
        /\ session'[x].user = session[x].user
        /\ session'[x].life = "none" <=> session[x].life = "none"
        /\ session[x].timerfd => session'[x].timerfd
  <2>1. session \in [SessionIds -> Session]  BY DEF IInv, Types, TypeOK
  <2>2. CASE session' = session  BY <2>2
  <2>3. CASE s \in SessionIds /\ session' = [session EXCEPT ![s].timerfd = TRUE]
    <3>1. \A x \in SessionIds : x # s => session'[x] = session[x]  BY <2>1, <2>3
    <3>2. session'[s] = [session[s] EXCEPT !.timerfd = TRUE] /\ session[s] \in Session  BY <2>1, <2>3
    <3>3. /\ session'[s].user = session[s].user /\ session'[s].life = session[s].life
          /\ session'[s].timerfd
      BY <3>2 DEF Session
    <3>4. QED  BY <3>1, <3>3
  <2>4. CASE /\ s \in SessionIds /\ session[s].life = "live" /\ server_del_user_session(s)
    BY <2>4, DeletedKeeps
  <2>5. QED  BY <2>2, <2>3, <2>4
<1>4. \A x \in SessionIds : timer'[x] = "armed" =>
        \/ timer[x] = "armed"
        \/ x = s /\ session'[x].timerfd /\ session[x].life = "live"
  <2>1. session \in [SessionIds -> Session] /\ timer \in [SessionIds -> {"off", "armed"}]
    BY DEF IInv, Types, TypeOK
  <2>2. CASE timer' = timer  BY <2>2
  <2>3. CASE /\ s \in SessionIds /\ session[s].life = "live"
             /\ session' = [session EXCEPT ![s].timerfd = TRUE]
             /\ timer' = [timer EXCEPT ![s] = "armed"]
    BY <2>1, <2>3 DEF Session
  <2>4. QED  BY <2>2, <2>3
<1>5. UserEntered' /\ SessionEntered' /\ SessionUnshared'  BY <1>3, SessionsChange
<1>6. TasksHold'
  <2>1. \A v \in Workers : task[v].step \in {"arm", "free"} => client[task[v].client].life # "freed"
    BY DEF IInv, TasksHold
  <2>2. QED  BY <1>1, <1>2, <1>3, <2>1, TasksChange
<1>7. TimerDetached'
  <2> SUFFICES ASSUME NEW x \in SessionIds, timer'[x] = "armed" PROVE TimerDetached!(x)!2'
    BY DEF TimerDetached
  <2>1. CASE timer[x] = "armed"
    <3>1. TimerDetached!(x)!2  BY <2>1 DEF IInv, TimerDetached
    <3>2. ASSUME session[x].user \notin missed, NEW d \in Clients,
                 client[d].session = x, client[d].life # "freed"
          PROVE  \E v \in Workers :
                   \/ task'[v].step = "free" /\ task'[v].client = d
                   \/ task'[v].step = "cancel" /\ task'[v].session = x
      <4>1. PICK v \in Workers : \/ task[v].step = "free" /\ task[v].client = d
                                 \/ task[v].step = "cancel" /\ task[v].session = x
        BY <3>1, <3>2
      <4>2. v # w  BY <4>1
      <4>3. QED  BY <4>1, <4>2, <1>2
    <3>3. QED  BY <3>1, <3>2, <1>3
  <2>2. CASE x = s /\ session'[x].timerfd /\ session[x].life = "live"
    <3>1. ASSUME session[x].user \notin missed, NEW d \in Clients,
                 client[d].session = x, client[d].life # "freed"
          PROVE  d = c
      BY <3>1, <2>2, <1>1, SharedIsMissed
    <3>2. QED  BY <3>1, <2>2, <1>2, <1>3
  <2>3. QED  BY <2>1, <2>2, <1>4
<1>8. QED  BY <1>5, <1>6, <1>7 DEF Promises

(* What deleting u's entry leaves of the others: they are found, or missed.  *)
LEMMA ForgetMoves ==
  ASSUME IInv, NEW c \in Clients, NEW u \in Users, Entered(c, u), ForgetUser(u)
  PROVE  /\ missed \subseteq missed'
         /\ \A d \in Clients, x \in Users : d # c /\ Entered(d, x) => EnteredNext(d, x)
         /\ \A x \in Users : user_ht'[x] = None \/ (user_ht'[x] = user_ht[x] /\ x # u)
<1>1. user_ht \in [Users -> Clients \cup {None}]  BY DEF IInv, Types, TypeOK
<1>2. CASE user_ht[u] = None
  BY <1>1, <1>2 DEF ForgetUser, Entered, EnteredNext
<1>3. ASSUME user_ht[u] # None, NEW cut \in SUBSET {v \in Users \ {u} : user_ht[v] # None},
             user_ht' = [v \in Users |-> IF v \in cut \cup {u} THEN None ELSE user_ht[v]],
             missed' = missed \cup cut
      PROVE  /\ missed \subseteq missed'
             /\ \A d \in Clients, x \in Users : d # c /\ Entered(d, x) => EnteredNext(d, x)
             /\ \A x \in Users : user_ht'[x] = None \/ (user_ht'[x] = user_ht[x] /\ x # u)
  <2>1. \A x \in Users : user_ht'[x] = IF x \in cut \cup {u} THEN None ELSE user_ht[x]
    BY <1>3
  <2>2. QED  BY <1>1, <1>3, <2>1 DEF Entered, EnteredNext
<1>4. QED  BY <1>2, <1>3 DEF ForgetUser

(* The client is freed, and user_ht loses its entry, and perhaps others.     *)
LEMMA FreeClientKeeps ==
  ASSUME IInv, NEW w \in Workers, FreeClient(w)
  PROVE  Promises'
<1>1. PICK c \in Clients : task[w].client = c /\ client[c].life # "freed"
  BY DEF FreeClient, IInv, Types, TaskTypes, TasksHold
<1>2. /\ task'[w].step = "idle" /\ task'[w] = Idle
      /\ \A v \in Workers : v # w => task'[v] = task[v]
  BY DEF FreeClient, Idle, IInv, Types, TypeOK
<1>3. /\ client'[c].life = "freed" /\ client'[c].loggedIn = client[c].loggedIn
      /\ client'[c].dbuser = client[c].dbuser /\ client'[c].session = client[c].session
      /\ \A d \in Clients : d # c => client'[d] = client[d]
      /\ UNCHANGED <<session, timer, issued, pending>>
  BY <1>1 DEF FreeClient, IInv, Types, TypeOK, Client
<1>4. /\ \A d \in Clients : client[d].dbuser \in Users \cup {None}
      /\ \A d \in Clients : client[d].session \in SessionIds \cup {None}
      /\ \A x \in SessionIds : session[x].life # "none" => session[x].user \in Users
      /\ user_ht \in [Users -> Clients \cup {None}]
  BY DEF IInv, Types, TypeOK, Client
<1>5. /\ missed \subseteq missed'
      /\ \A d \in Clients, x \in Users : d # c /\ Entered(d, x) => EnteredNext(d, x)
      /\ \A x \in Users : user_ht'[x] = None
                            \/ (user_ht'[x] = user_ht[x] /\ x # client[c].dbuser)
  <2>1. CASE client[c].dbuser = None
    <3>1. UNCHANGED <<user_ht, missed>>  BY <2>1, <1>1 DEF FreeClient
    <3>2. QED  BY <3>1, <2>1 DEF Entered, EnteredNext
  <2>2. CASE client[c].dbuser # None
    <3>1. Entered(c, client[c].dbuser) /\ client[c].dbuser \in Users
      BY <2>2, <1>1, <1>4 DEF IInv, UserEntered
    <3>2. ForgetUser(client[c].dbuser)  BY <2>2, <1>1 DEF FreeClient
    <3>3. QED  BY <3>1, <3>2, ForgetMoves
  <2>3. QED  BY <2>1, <2>2
<1>6. UserEntered'
  <2>1. UserEntered  BY DEF IInv
  <2>2. ASSUME NEW d \in Clients
        PROVE  /\ client'[d].loggedIn => client'[d].dbuser # None
               /\ client'[d].life # "freed" /\ client'[d].dbuser # None
                    => EnteredNext(d, client'[d].dbuser)
    <3>1. CASE d = c  BY <3>1, <2>1, <1>3 DEF UserEntered
    <3>2. CASE d # c
      <4>1. client'[d] = client[d]  BY <3>2, <1>3
      <4>2. client[d].dbuser # None => client[d].dbuser \in Users  BY <1>4
      <4>3. client[d].loggedIn => client[d].dbuser # None  BY <2>1 DEF UserEntered
      <4>4. client[d].life # "freed" /\ client[d].dbuser # None => EnteredNext(d, client[d].dbuser)
        BY <3>2, <4>2, <2>1, <1>5 DEF UserEntered
      <4>5. QED  BY <4>1, <4>3, <4>4 DEF Entered, EnteredNext
    <3>3. QED  BY <3>1, <3>2
  <2>3. ASSUME NEW x \in Users, user_ht'[x] # None, client'[user_ht'[x]].dbuser = x
        PROVE  client'[user_ht'[x]].life # "freed"
    <3>1. user_ht'[x] = user_ht[x] /\ x # client[c].dbuser /\ user_ht[x] \in Clients
      BY <2>3, <1>4, <1>5
    <3>2. user_ht[x] # c  BY <3>1, <2>3, <1>3
    <3>3. QED  BY <3>1, <3>2, <2>3, <2>1, <1>3 DEF UserEntered
  <2>4. QED  BY <2>2, <2>3 DEF UserEntered, Entered, EnteredNext
<1>7. SessionEntered'
  <2>1. SessionEntered  BY DEF IInv
  <2>2. ASSUME NEW d \in Clients, NEW x \in SessionIds, client'[d].session = x
        PROVE  /\ session[x].life # "none"
               /\ client'[d].life # "freed" /\ x \in issued => EnteredNext(d, session[x].user)
    <3>1. client[d].session = x /\ x # None  BY <2>2, <1>3
    <3>2. session[x].life # "none" /\ session[x].user \in Users
      BY <3>1, <2>1, <1>4 DEF SessionEntered
    <3>3. ASSUME client'[d].life # "freed", x \in issued PROVE EnteredNext(d, session[x].user)
      <4>1. d # c /\ client[d].life # "freed"  BY <3>3, <1>3
      <4>2. Entered(d, session[x].user)  BY <4>1, <3>1, <3>3, <2>1 DEF SessionEntered
      <4>3. QED  BY <4>1, <4>2, <3>2, <1>5
    <3>4. QED  BY <3>2, <3>3
  <2>3. \A d \in Clients : client'[d].session \in SessionIds \cup {None}  BY <1>3, <1>4
  <2>4. \A x \in issued : session[x].life # "none"  BY <2>1 DEF SessionEntered
  <2>5. QED  BY <2>2, <2>3, <2>4, <1>3 DEF SessionEntered, Entered, EnteredNext
<1>8. SessionUnshared'  BY <1>3 DEF IInv, SessionUnshared
<1>9. TasksHold'
  <2>1. \A v \in Workers : task[v].step \in {"arm", "free"} =>
          /\ task[v].client \in Clients /\ client[task[v].client].life # "freed"
          /\ v # w => task[v].client # c
    BY <1>1 DEF IInv, TasksHold, Types, TaskTypes, FreeClient
  <2>2. \A v \in Workers : v # w /\ task[v].step \in {"arm", "free"}
          => client'[task[v].client].life # "freed"
    BY <2>1, <1>3
  <2>3. \A d \in Clients : client'[d].session = client[d].session  BY <1>3
  <2>4. QED  BY <2>2, <2>3, <1>2, <1>3, TasksChange
<1>10. TimerDetached'
  <2> SUFFICES ASSUME NEW x \in SessionIds, timer[x] = "armed" PROVE TimerDetached!(x)!2'
    BY <1>3 DEF TimerDetached
  <2>1. TimerDetached!(x)!2  BY DEF IInv, TimerDetached
  <2>2. ASSUME session[x].user \notin missed', NEW d \in Clients,
               client'[d].session = x, client'[d].life # "freed"
        PROVE  \E v \in Workers :
                 \/ task'[v].step = "free" /\ task'[v].client = d
                 \/ task'[v].step = "cancel" /\ task'[v].session = x
    <3>1. d # c /\ client[d].session = x /\ client[d].life # "freed"  BY <2>2, <1>3
    <3>2. PICK v \in Workers : \/ task[v].step = "free" /\ task[v].client = d
                               \/ task[v].step = "cancel" /\ task[v].session = x
      BY <3>1, <2>1, <2>2, <1>5
    <3>3. v # w  BY <3>1, <3>2, <1>1 DEF FreeClient
    <3>4. QED  BY <3>2, <3>3, <1>2
  <2>3. QED  BY <2>1, <2>2, <1>3
<1>11. QED  BY <1>6, <1>7, <1>8, <1>9, <1>10 DEF Promises

(* Every step keeps what the tables promise.                                 *)
LEMMA NextPromises ==
  ASSUME IInv, [Next]_vars
  PROVE  Promises'
<1>0. Types  BY DEF IInv
<1>1. ASSUME NEW c \in Clients, Accept(c) PROVE Promises'
  BY <1>1, AcceptKeeps
<1>2. ASSUME UsesFreed PROVE Promises'
  BY <1>2, UsesFreedKeeps DEF UsesFreed
<1>3. ASSUME NEW w \in Workers, NEW c \in Clients, server_client_login(w, c) PROVE Promises'
  <2>1. PICK cmd \in {"login", "register"}, u \in Users, do_session \in BOOLEAN :
          Enqueue(w, [cmd |-> cmd, client |-> c, user |-> u,
                      doSession |-> do_session, session |-> None])
    BY <1>3 DEF server_client_login
  <2>2. QED
    BY <2>1, <1>3, EnqueueKeeps
    DEF server_client_login, CanRequest, Request, Commands, RequestTypes
<1>4. ASSUME NEW w \in Workers, NEW c \in Clients, server_client_login_session(w, c)
      PROVE  Promises'
  <2>1. PICK s \in SessionIds :
          /\ s \in issued /\ s \in session_ht
          /\ Enqueue(w, [cmd |-> "session", client |-> c, user |-> session[s].user,
                         doSession |-> FALSE, session |-> s])
    BY <1>4 DEF server_client_login_session
  <2>2. session[s].life = "live" /\ session[s].user \in Users  BY <2>1, <1>0 DEF Types
  <2>3. QED
    BY <2>1, <2>2, <1>4, EnqueueKeeps
    DEF server_client_login_session, CanRequest, Request, Commands, RequestTypes
<1>5. ASSUME NEW w \in Workers, NEW c \in Clients, CloseEvent(w, c) PROVE Promises'
  <2> DEFINE t == [Idle EXCEPT !.step = "arm", !.client = c]
  <2>1. t \in Task /\ TaskTypes(t) /\ t.step = "arm" /\ t.client = c
    BY DEF Task, Idle, TaskTypes
  <2>2. QED  BY <2>1, <1>5, TakeEventKeeps DEF CloseEvent, Free
<1>6. ASSUME NEW w \in Workers, NEW s \in SessionIds, TimerEvent(w, s) PROVE Promises'
  <2> DEFINE t == [Idle EXCEPT !.step = "expire", !.session = s]
  <2>1. t \in Task /\ TaskTypes(t) /\ t.step = "expire"
    BY DEF Task, Idle, TaskTypes
  <2>2. QED  BY <2>1, <1>6, TakeEventKeeps DEF TimerEvent, Free
<1>7. ASSUME NEW w \in Workers, do_client_login(w) PROVE Promises'
  <2>1. PICK c \in Clients, u \in Users : Request1(w).client = c /\ Request1(w).user = u
    BY <1>0, <1>7, OldestIsPending DEF do_client_login, Request
  <2>2. task[w] = Idle /\ pending[w] # <<>>  BY <1>7 DEF do_client_login, Free
  <2>3. CASE Refused(w)  BY <2>2, <2>3, PopKeeps DEF Refused
  <2>4. CASE UsesFreed  BY <2>4, <1>2
  <2>5. CASE /\ Pop(w) /\ CheckUser(w, c, u, None)
             /\ UNCHANGED <<client, sessions, timer, user_ht, issued, missed>>
    BY <2>2, <2>5, CheckUserKeeps
  <2>6. ASSUME NEW s \in SessionIds, session[s].life = "none", Pop(w),
               session' = [session EXCEPT ![s] =
                 [life |-> "live", user |-> u, timerfd |-> FALSE]],
               client' = [client EXCEPT ![c].session = s],
               CheckUser(w, c, u, s), UNCHANGED <<timer, user_ht, issued, missed>>
        PROVE  Promises'
    BY <2>2, <2>6, NewSessionKeeps
  <2>7. QED  BY <2>1, <2>3, <2>4, <2>5, <2>6, <1>7 DEF do_client_login
<1>8. ASSUME NEW w \in Workers, do_client_login_session(w) PROVE Promises'
  <2>1. PICK c \in Clients, u \in Users, s \in SessionIds :
          /\ Request1(w).client = c /\ Request1(w).user = u /\ Request1(w).session = s
          /\ s \in issued /\ session[s].user = u
    <3>1. task[w] = Idle /\ pending[w] # <<>> /\ Request1(w).cmd = "session"
      BY <1>8 DEF do_client_login_session, Free
    <3>2. /\ Request1(w) \in Request /\ RequestTypes(Request1(w))
          /\ 1 \in 1 .. Len(pending[w]) /\ Request1(w) = pending[w][1]
      BY <3>1, <1>0, OldestIsPending
    <3>3. /\ Request1(w).session \in issued
          /\ Request1(w).user = session[Request1(w).session].user
      BY <3>1, <3>2 DEF IInv, TasksHold
    <3>4. QED  BY <3>1, <3>2, <3>3 DEF Request, RequestTypes
  <2>2. task[w] = Idle /\ pending[w] # <<>>  BY <1>8 DEF do_client_login_session, Free
  <2>3. CASE UsesFreed  BY <2>3, <1>2
  <2>4. CASE /\ Pop(w) /\ CheckUser(w, c, u, s)
             /\ UNCHANGED <<sessions, client, timer, user_ht, issued, missed>>
    BY <2>1, <2>2, <2>4, CheckUserKeeps
  <2>5. CASE /\ Pop(w) /\ session[s].life = "live"
             /\ server_del_user_session(s)
             /\ UNCHANGED <<task, client, timer, user_ht, issued, missed>>
    BY <2>2, <2>5, SessionLostKeeps
  <2>6. QED  BY <2>1, <2>3, <2>4, <2>5, <1>8 DEF do_client_login_session
<1>9. ASSUME NEW w \in Workers, SetLoggedIn(w) PROVE Promises'
  <2>1. CASE UsesFreed  BY <2>1, <1>2
  <2>2. CASE ~UsesFreed  BY <2>2, <1>9, SetLoggedInKeeps DEF SetLoggedIn
  <2>3. QED  BY <2>1, <2>2
<1>10. ASSUME NEW w \in Workers, CancelTimer(w) PROVE Promises'
  <2>1. PICK s \in SessionIds : task[w].session = s
    BY <1>0, <1>10 DEF CancelTimer, Types, TaskTypes
  <2>2. CASE UsesFreed  BY <2>2, <1>2
  <2>3. CASE ~UsesFreed  BY <2>1, <2>3, <1>10, CancelTimerKeeps DEF CancelTimer
  <2>4. QED  BY <2>2, <2>3
<1>11. ASSUME NEW w \in Workers, TimerExpires(w) PROVE Promises'
  <2>1. PICK s \in SessionIds : task[w].session = s
    BY <1>0, <1>11 DEF TimerExpires, Types, TaskTypes
  <2>2. CASE UsesFreed  BY <2>2, <1>2
  <2>3. CASE ~UsesFreed  BY <2>1, <2>3, <1>11, TimerExpiresKeeps DEF TimerExpires
  <2>4. QED  BY <2>2, <2>3
<1>12. ASSUME NEW w \in Workers, ArmTimer(w) PROVE Promises'
  <2>1. PICK s \in SessionIds \cup {None} : client[task[w].client].session = s
    BY <1>0, <1>12 DEF ArmTimer, Types, TypeOK, TaskTypes, Client
  <2>2. CASE UsesFreed  BY <2>2, <1>2
  <2>3. CASE ~UsesFreed  BY <2>1, <2>3, <1>12, ArmTimerKeeps DEF ArmTimer
  <2>4. QED  BY <2>2, <2>3
<1>16. ASSUME NEW w \in Workers, NEW s \in SessionIds, StrayExpires(w, s) PROVE Promises'
  <2>1. CASE UsesFreed  BY <2>1, <1>2
  <2>2. CASE ~UsesFreed  BY <2>2, <1>16, SessionLostKeeps DEF StrayExpires
  <2>3. QED  BY <2>1, <2>2
<1>13. ASSUME NEW w \in Workers, FreeClient(w) PROVE Promises'
  BY <1>13, FreeClientKeeps
<1>14. CASE UNCHANGED vars  BY <1>14, UsesFreedKeeps DEF vars
<1>15. QED
  BY <1>1, <1>3, <1>4, <1>5, <1>6, <1>7, <1>8, <1>9, <1>10, <1>11, <1>12, <1>13, <1>14,
     <1>16
  DEF Next

LEMMA InitPromises == Init => Promises
  BY DEF Init, Idle, Promises, UserEntered, SessionEntered, SessionUnshared,
         TasksHold, TimerDetached, Entered, EnteredNext

LEMMA InvariantHolds == Spec => []IInv
<1>1. Init => IInv  BY InitTypes, InitPromises DEF IInv, Promises
<1>2. IInv /\ [Next]_vars => IInv'
  <2> SUFFICES ASSUME IInv, [Next]_vars PROVE IInv'  OBVIOUS
  <2>1. Types'  BY NextTypes DEF IInv
  <2>2. Promises'  BY NextPromises
  <2>3. QED  BY <2>1, <2>2 DEF IInv, Promises
<1>3. QED  BY <1>1, <1>2, PTL DEF Spec

-----------------------------------------------------------------------------
(* Broadcasts reach whoever is logged in, with any number of workers: only a *)
(* refused insertion and the deletion of another user's entry leave a client *)
(* that is logged in without its entry in user_ht.                           *)
THEOREM LoggedInReachableHolds == Spec => []LoggedInReachable
<1>1. IInv => LoggedInReachable
  BY DEF IInv, UserEntered, LoggedInReachable, Open, Entered, EnteredNext
<1>2. QED  BY <1>1, InvariantHolds, PTL

(* With any number of workers, user_ht keeps a freed client only if it had   *)
(* logged in again as somebody else.                                         *)
THEOREM NoEntryOutlivesClientHolds == Spec => []NoEntryOutlivesClient
<1>1. IInv => NoEntryOutlivesClient
  BY DEF IInv, UserEntered, NoEntryOutlivesClient
<1>2. QED  BY <1>1, InvariantHolds, PTL

(* With any number of workers no timer that its session knows runs while a   *)
(* logged-in connection has the session, so it does not expire under its     *)
(* user, unless that user is one of those who are not found (missed).        *)
THEOREM NoTimerWhileConnectedHolds == Spec => []NoTimerWhileConnected
<1>1. IInv => NoTimerWhileConnected
  <2> SUFFICES ASSUME IInv, NEW c \in Clients, Open(c), ~Closing(c),
                      client[c].session # None, session[client[c].session].user \notin missed,
                      \A w \in Workers : task[w].step # "cancel"
               PROVE  timer[client[c].session] = "off"
    BY DEF NoTimerWhileConnected
  <2>1. client[c].session \in SessionIds  BY DEF IInv, Types, TypeOK, Client
  <2>2. timer[client[c].session] # "armed"
    BY <2>1 DEF IInv, TimerDetached, Open, Closing
  <2>3. timer[client[c].session] \in {"off", "armed"}
    BY <2>1 DEF IInv, Types, TypeOK
  <2>4. QED  BY <2>2, <2>3
<1>2. QED  BY <1>1, InvariantHolds, PTL
=============================================================================
