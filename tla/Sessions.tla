------------------------------ MODULE Sessions ------------------------------
(***************************************************************************)
(* Who is logged in: clients, the table of logged-in users (user_ht), the    *)
(* sessions (session_ht) and the 30-minute timer that runs while a session   *)
(* has no connection.                                                        *)
(*   chat/user_login.c    login, register and session commands,              *)
(*   chat/user_session.c  the sessions,                                      *)
(*   server_client.c      server_free_client,                                *)
(*   server_timer.c       the session timer.                                 *)
(*                                                                           *)
(* A command is sent to the database by the worker that read it and answered *)
(* later by a callback of the same worker, in order (module Pipeline).  The  *)
(* steps of a callback, of an expiring timer and of a closing client are     *)
(* split where they look at shared state again, so that several workers      *)
(* interleave there.  Reading or writing a client, session or timer that has *)
(* been freed is undefined behaviour: it sets ub, after which the model      *)
(* takes no step and nothing is claimed.                                     *)
(*                                                                           *)
(* A deletion from a hash table may take other entries along (HashTable,     *)
(* LossyMap).                                                                *)
(***************************************************************************)
EXTENDS Naturals, Sequences, FiniteSets

CONSTANTS Workers, Clients, Users, SessionIds,
          None,        \* NULL
          MaxPending   \* bound: commands waiting for the database, per worker

ASSUME NoneAssumption ==
  None \notin Workers \cup Clients \cup Users \cup SessionIds
ASSUME MaxPendingAssumption == MaxPending \in Nat

VARIABLES
  client,     \* client_t: life, dbuser, CLIENT_STATE_LOGGED_IN, session
  session,    \* session_t: life, user_id, timerfd # 0
  timer,      \* the timer event of each session: "off" or "armed"
  user_ht,    \* user id -> the client logged in as that user
  session_ht, \* the sessions that are found by their id
  stray,      \* sessions with a timer that event_ht has lost
  issued,     \* session ids that were sent to a client (they are random)
  registered, \* user rows in the database
  pending,    \* per worker: commands whose result has not been handled
  task,       \* per worker: the step it is in the middle of
  missed,     \* history: users who logged in and whose entry in user_ht was
              \* refused, or lost to the deletion of another user's
  ub          \* memory that had been freed was used

sessions == <<session, session_ht, stray>>
vars == <<client, sessions, timer, user_ht, issued, registered, pending, task, missed, ub>>

Client  == [life : {"none", "open", "freed"}, dbuser : Users \cup {None},
            loggedIn : BOOLEAN, session : SessionIds \cup {None}]
Session == [life : {"none", "live", "freed"}, user : Users \cup {None},
            timerfd : BOOLEAN]

Commands == {"login", "register", "session"}

(* What a worker's pipeline remembers of a command (dbcmd_ctx_t.param).      *)
Request == [cmd : Commands, client : Clients, user : Users,
            doSession : BOOLEAN, session : SessionIds \cup {None}]

Idle == [step |-> "idle", client |-> None, user |-> None, session |-> None]
Task == [step : {"idle", "set", "cancel", "expire", "arm", "free"},
         client : Clients \cup {None}, user : Users \cup {None},
         session : SessionIds \cup {None}]

Init ==
  /\ client = [c \in Clients |-> [life |-> "none", dbuser |-> None,
                                  loggedIn |-> FALSE, session |-> None]]
  /\ session = [s \in SessionIds |-> [life |-> "none", user |-> None,
                                      timerfd |-> FALSE]]
  /\ timer = [s \in SessionIds |-> "off"]
  /\ user_ht = [u \in Users |-> None]
  /\ issued = {} /\ registered = {}
  /\ pending = [w \in Workers |-> <<>>]
  /\ session_ht = {} /\ stray = {}
  /\ task = [w \in Workers |-> Idle]
  /\ missed = {} /\ ub = FALSE

(* The worker is in its epoll loop, between two events or results.           *)
Free(w) == ~ub /\ task[w] = Idle

(* Some worker is closing c (its event is EPOLLONESHOT, so at most one is).  *)
Closing(c) == \E w \in Workers : task[w].step \in {"arm", "free"} /\ task[w].client = c

UsesFreed == ub' = TRUE /\ UNCHANGED <<client, sessions, timer, user_ht, issued, registered,
                                       pending, task, missed>>

(* server_ght_del: the entries behind the deleted one in its bucket go too.   *)
ForgetUser(u) ==
  IF user_ht[u] = None THEN UNCHANGED <<user_ht, missed>>
  ELSE \E cut \in SUBSET {v \in Users \ {u} : user_ht[v] # None} :
         /\ user_ht' = [v \in Users |-> IF v \in cut \cup {u} THEN None ELSE user_ht[v]]
         /\ missed' = missed \cup cut

(* server_del_user_session: the session is freed, found or not.               *)
server_del_user_session(s) ==
  /\ session' = [session EXCEPT ![s].life = "freed"]
  /\ IF s \in session_ht THEN session_ht' \in SUBSET (session_ht \ {s})
     ELSE UNCHANGED session_ht
  /\ UNCHANGED stray

-----------------------------------------------------------------------------
(* server_accept_client; the WebSocket upgrade gives the permission to log   *)
(* in.                                                                       *)
Accept(c) ==
  /\ ~ub
  /\ client[c].life = "none"
  /\ client' = [client EXCEPT ![c].life = "open"]
  /\ UNCHANGED <<sessions, timer, user_ht, issued, registered, pending, task, missed, ub>>

CanRequest(w, c) ==
  /\ Free(w)
  /\ client[c].life = "open" /\ ~Closing(c)
  /\ Len(pending[w]) < MaxPending

(* Mutant: the query is sent twice.                                          *)
EnqueueTwice(w, request) ==
  /\ pending' = [pending EXCEPT ![w] = @ \o <<request, request>>]
  /\ UNCHANGED <<client, sessions, timer, user_ht, issued, registered, task, missed, ub>>

Enqueue(w, request) ==
  /\ pending' = [pending EXCEPT ![w] = Append(@, request)]
  /\ UNCHANGED <<client, sessions, timer, user_ht, issued, registered, task, missed, ub>>

(* server_client_login and server_client_register: nothing says the client   *)
(* must not be logged in already (the commands need CLIENT_STATE_WEBSOCKET). *)
server_client_login(w, c) ==
  /\ CanRequest(w, c)
  /\ \E cmd \in {"login", "register"}, u \in Users, do_session \in BOOLEAN :
        Enqueue(w, [cmd |-> cmd, client |-> c, user |-> u,
                    doSession |-> do_session, session |-> None])

(* server_client_login_session: the session is looked up before the query,   *)
(* and the pointer is kept in the command; otherwise "Invalid session ID or  *)
(* session expired".  A client only knows ids that were sent to a client.    *)
server_client_login_session(w, c) ==
  /\ CanRequest(w, c)
  /\ \E s \in SessionIds :
        /\ s \in issued \cap session_ht
        /\ Enqueue(w, [cmd |-> "session", client |-> c, user |-> session[s].user,
                       doSession |-> FALSE, session |-> s])

-----------------------------------------------------------------------------
(* The callbacks                                                             *)

Request1(w) == Head(pending[w])
Pop(w) == pending' = [pending EXCEPT ![w] = Tail(@)]

(* Wrong name or password, user name taken: the client is told.              *)
Refused(w) ==
  /\ Pop(w)
  /\ UNCHANGED <<client, sessions, timer, user_ht, issued, registered, task, missed, ub>>

(* First half of server_set_client_logged_in: the user must not be in        *)
(* user_ht; the answer is used later.                                        *)
CheckUser(w, c, u, s) ==
  IF user_ht[u] # None
  THEN UNCHANGED task
  ELSE task' = [task EXCEPT ![w] = [step |-> "set", client |-> c, user |-> u, session |-> s]]

(* do_client_login, do_client_register: with do_session a session is made,   *)
(* and given to the client, before it is known whether it may log in.        *)
do_client_login(w) ==
  /\ Free(w) /\ pending[w] # <<>>
  /\ LET r == Request1(w) IN
     /\ r.cmd \in {"login", "register"}
     /\ \/ Refused(w)
        \/ /\ client[r.client].life # "freed"
           /\ (r.user \in registered) <=> (r.cmd = "login")
           /\ registered' = registered \cup {r.user}
           /\ Pop(w)
           /\ \/ /\ ~r.doSession
                 /\ CheckUser(w, r.client, r.user, None)
                 /\ UNCHANGED <<client, sessions>>
              \/ /\ r.doSession
                 /\ \E s \in SessionIds :
                      /\ session[s].life = "none"
                      /\ session' = [session EXCEPT ![s] =
                           [life |-> "live", user |-> r.user, timerfd |-> FALSE]]
                      /\ session_ht' = session_ht \cup {s} /\ UNCHANGED stray
                      /\ client' = [client EXCEPT ![r.client].session = s]
                      /\ CheckUser(w, r.client, r.user, s)
           /\ UNCHANGED <<timer, user_ht, issued, missed, ub>>
        \/ client[r.client].life = "freed" /\ UsesFreed

(* do_client_login_session; if the user cannot be read the session is        *)
(* deleted, its timer is not.                                                *)
do_client_login_session(w) ==
  /\ Free(w) /\ pending[w] # <<>>
  /\ LET r == Request1(w) IN
     /\ r.cmd = "session"
     /\ \/ /\ client[r.client].life # "freed" /\ session[r.session].life = "live"
           /\ Pop(w)
           /\ \/ /\ CheckUser(w, r.client, r.user, r.session)
                 /\ UNCHANGED sessions
              \/ /\ server_del_user_session(r.session)
                 /\ UNCHANGED task
           /\ UNCHANGED <<client, timer, user_ht, issued, registered, missed, ub>>
        \/ /\ client[r.client].life = "freed" \/ session[r.session].life = "freed"
           /\ UsesFreed

(* Mutant: the user is entered only if the answer could be sent.             *)
EnterIfSent(c, u, sent) ==
  IF sent /\ user_ht[u] = None
  THEN user_ht' = [user_ht EXCEPT ![u] = c] /\ UNCHANGED missed
  ELSE UNCHANGED <<user_ht, missed>>

(* server_ght_insert refuses a user that is there; its result is ignored.    *)
EnterUser(c, u, sent) ==
  IF user_ht[u] = None
  THEN user_ht' = [user_ht EXCEPT ![u] = c] /\ UNCHANGED missed
  ELSE /\ missed' = IF user_ht[u] = c THEN missed ELSE missed \cup {u}
       /\ UNCHANGED user_ht

(* Second half of server_set_client_logged_in; state and session are set     *)
(* only if the answer could be sent.                                         *)
SetLoggedIn(w) ==
  /\ ~ub /\ task[w].step = "set"
  /\ LET t == task[w] IN
     \/ /\ client[t.client].life # "freed"
        /\ \E sent \in BOOLEAN :
             /\ EnterUser(t.client, t.user, sent)
             /\ client' = [client EXCEPT ![t.client] =
                  [@ EXCEPT !.dbuser = t.user,
                            !.loggedIn = client[t.client].loggedIn \/ sent,
                            !.session = IF sent THEN t.session ELSE client[t.client].session]]
             /\ issued' = IF sent /\ t.session # None THEN issued \cup {t.session}
                          ELSE issued
        /\ task' = [task EXCEPT ![w] = IF t.session = None THEN Idle
                                       ELSE [t EXCEPT !.step = "cancel"]]
        /\ UNCHANGED <<sessions, timer, registered, pending, ub>>
     \/ client[t.client].life = "freed" /\ UsesFreed

(* Mutant: the session forgets its timer, which keeps running.               *)
CancelForgetsTimer(w) ==
  /\ ~ub /\ task[w].step = "cancel"
  /\ LET s == task[w].session IN
     \/ /\ session[s].life # "freed"
        /\ session' = [session EXCEPT ![s].timerfd = FALSE]
        /\ task' = [task EXCEPT ![w] = Idle]
        /\ UNCHANGED <<client, session_ht, stray, timer, user_ht, issued, registered, pending,
                       missed, ub>>
     \/ session[s].life = "freed" /\ UsesFreed

(* The session has a connection again: its timer event is deleted, if        *)
(* event_ht still has it.  Otherwise the timer runs on, unknown to anybody.  *)
CancelTimer(w) ==
  /\ ~ub /\ task[w].step = "cancel"
  /\ LET s == task[w].session IN
     \/ /\ session[s].life # "freed"
        /\ IF session[s].timerfd
           THEN /\ timer' = [timer EXCEPT ![s] = "off"]
                /\ stray' \in {stray, stray \cup {s}}
           ELSE UNCHANGED <<timer, stray>>
        /\ session' = [session EXCEPT ![s].timerfd = FALSE]
        /\ task' = [task EXCEPT ![w] = Idle]
        /\ UNCHANGED <<client, session_ht, user_ht, issued, registered, pending, missed, ub>>
     \/ session[s].life = "freed" /\ UsesFreed

-----------------------------------------------------------------------------
(* The session timer                                                         *)

(* A worker gets the timer's (one-shot) event.                               *)
TimerEvent(w, s) ==
  /\ Free(w)
  /\ timer[s] = "armed"
  /\ \A v \in Workers : ~(task[v].step = "expire" /\ task[v].session = s)
  /\ task' = [task EXCEPT ![w] = [Idle EXCEPT !.step = "expire", !.session = s]]
  /\ UNCHANGED <<client, sessions, timer, user_ht, issued, registered, pending, missed, ub>>

(* timer_user_session deletes the session, se_timer_close the timer.         *)
TimerExpires(w) ==
  /\ ~ub /\ task[w].step = "expire"
  /\ LET s == task[w].session IN
     \/ /\ timer[s] = "armed" /\ session[s].life = "live"
        /\ server_del_user_session(s)
        /\ timer' = [timer EXCEPT ![s] = "off"]
        /\ task' = [task EXCEPT ![w] = Idle]
        /\ UNCHANGED <<client, user_ht, issued, registered, pending, missed, ub>>
     \/ /\ timer[s] = "off" \/ session[s].life = "freed"
        /\ UsesFreed

(* So does a timer that could not be cancelled; nobody can delete its event  *)
(* any more.  A session may have several of them.                            *)
StrayExpires(w, s) ==
  /\ Free(w)
  /\ s \in stray
  /\ \/ /\ session[s].life = "live"
        /\ server_del_user_session(s)
        /\ UNCHANGED <<client, timer, user_ht, issued, registered, pending, task, missed, ub>>
     \/ session[s].life = "freed" /\ UsesFreed

-----------------------------------------------------------------------------
(* se_close_client, server_free_client                                       *)

CloseEvent(w, c) ==
  /\ Free(w)
  /\ client[c].life = "open" /\ ~Closing(c)
  /\ task' = [task EXCEPT ![w] = [Idle EXCEPT !.step = "arm", !.client = c]]
  /\ UNCHANGED <<client, sessions, timer, user_ht, issued, registered, pending, missed, ub>>

(* The session that loses its connection gets a timer, unless it has one.    *)
(* If the timer cannot be set up, server_close_timer deletes the session.    *)
ArmTimer(w) ==
  /\ ~ub /\ task[w].step = "arm"
  /\ LET s == client[task[w].client].session
         Continue == /\ task' = [task EXCEPT ![w].step = "free"]
                     /\ UNCHANGED <<client, user_ht, issued, registered, pending, missed, ub>>
     IN
     \/ /\ s = None
        /\ Continue /\ UNCHANGED <<sessions, timer>>
     \/ /\ s # None
        /\ session[s].life = "live" /\ session[s].timerfd
        /\ Continue /\ UNCHANGED <<sessions, timer>>
     \/ /\ s # None
        /\ session[s].life = "live" /\ ~session[s].timerfd
        /\ \/ /\ session' = [session EXCEPT ![s].timerfd = TRUE]
              /\ timer' = [timer EXCEPT ![s] = "armed"]
              /\ UNCHANGED <<session_ht, stray>>
           \/ /\ server_del_user_session(s)
              /\ UNCHANGED timer
        /\ Continue
     \/ /\ s # None
        /\ session[s].life = "freed"
        /\ UsesFreed

(* Mutant: user_ht keeps the user of a client that closes.                   *)
FreeKeepsUser(w) ==
  /\ ~ub /\ task[w].step = "free"
  /\ client' = [client EXCEPT ![task[w].client].life = "freed"]
  /\ task' = [task EXCEPT ![w] = Idle]
  /\ UNCHANGED <<sessions, timer, user_ht, issued, registered, pending, missed, ub>>

(* user_ht loses the entry of the user the client last logged in as.         *)
FreeClient(w) ==
  /\ ~ub /\ task[w].step = "free"
  /\ LET c == task[w].client
         u == client[c].dbuser
     IN /\ IF u = None THEN UNCHANGED <<user_ht, missed>> ELSE ForgetUser(u)
        /\ client' = [client EXCEPT ![c].life = "freed"]
  /\ task' = [task EXCEPT ![w] = Idle]
  /\ UNCHANGED <<sessions, timer, issued, registered, pending, ub>>

Next ==
  \/ \E c \in Clients : Accept(c)
  \/ \E w \in Workers :
       \/ \E c \in Clients :
            \/ server_client_login(w, c)
            \/ server_client_login_session(w, c)
            \/ CloseEvent(w, c)
       \/ do_client_login(w) \/ do_client_login_session(w)
       \/ SetLoggedIn(w) \/ CancelTimer(w)
       \/ \E s \in SessionIds : TimerEvent(w, s) \/ StrayExpires(w, s)
       \/ TimerExpires(w) \/ ArmTimer(w) \/ FreeClient(w)

Spec == Init /\ [][Next]_vars

-----------------------------------------------------------------------------
(* Properties                                                                *)

TypeOK ==
  /\ client \in [Clients -> Client]
  /\ session \in [SessionIds -> Session]
  /\ timer \in [SessionIds -> {"off", "armed"}]
  /\ user_ht \in [Users -> Clients \cup {None}]
  /\ session_ht \subseteq SessionIds /\ stray \subseteq SessionIds
  /\ issued \subseteq SessionIds /\ registered \subseteq Users
  /\ \A w \in Workers : pending[w] \in Seq(Request) /\ Len(pending[w]) <= MaxPending
  /\ task \in [Workers -> Task]
  /\ missed \subseteq Users
  /\ ub \in BOOLEAN

Open(c) == client[c].life = "open"

(* Broadcasts look clients up by user id: a connection that is logged in is  *)
(* the one user_ht has for its user, until it is closed.  There are two      *)
(* exceptions, and no other: the entry of that user was refused, because     *)
(* workers handled two logins at once, or lost when that of another user was *)
(* deleted.                                                                  *)
LoggedInReachable ==
  \A c \in Clients :
    (Open(c) /\ client[c].loggedIn /\ client[c].dbuser \notin missed)
      => user_ht[client[c].dbuser] = c

(* user_ht does not keep a client that has been freed, but for clients that  *)
(* had logged in again, as somebody else: their first entry stays.           *)
NoEntryOutlivesClient ==
  \A u \in Users :
    LET c == user_ht[u] IN
    (c # None /\ client[c].dbuser = u) => client[c].life # "freed"

(* A session does not expire under a user who is connected: while a logged-  *)
(* in connection has it (and no worker is still cancelling its timer) no     *)
(* timer of it is running, unless the timer's event could not be found       *)
(* (stray) or its user could not be (missed, see LoggedInReachable).         *)
NoTimerWhileConnected ==
  \A c \in Clients :
    LET s == client[c].session IN
    (~ub /\ Open(c) /\ ~Closing(c) /\ client[c].loggedIn /\ s # None
         /\ session[s].user \notin missed
         /\ \A w \in Workers : task[w].step # "cancel")
      => timer[s] = "off"
=============================================================================
