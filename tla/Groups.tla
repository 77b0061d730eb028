------------------------------- MODULE Groups -------------------------------
(***************************************************************************)
(* Groups, messages and invite codes:                                        *)
(*   chat/group.c      the commands of a client and their callbacks,         *)
(*   chat/db_group.c   the queries and what their results are taken for,     *)
(*   the SQL files    the statements, the constraints and the triggers.     *)
(*                                                                           *)
(* Every worker has its own connection to the database.  Its pipeline is the *)
(* queue that module Pipeline implements: queries run and are answered in    *)
(* the order in which they were sent, and a query that a callback sends goes *)
(* to the end.  Queries of different workers interleave.  One step executes  *)
(* the first query of a pipeline and its callback; the statement that joins  *)
(* by code is two steps, because it locks the code's row only after it has   *)
(* read it.                                                                  *)
(*                                                                           *)
(* PostgreSQL is external (READ COMMITTED): a statement sees what is         *)
(* committed when it starts, waits for rows that an open transaction has     *)
(* deleted, and a transaction with a failed statement does nothing.  All     *)
(* users are connected; how they come and go is in module Sessions.  Whether *)
(* a query is answered at all is said in module Pipeline: here it may stay   *)
(* in its queue for ever.                                                    *)
(***************************************************************************)
EXTENDS Integers, Sequences, FiniteSets

CONSTANTS Workers, Users, Groups, Msgs, Codes, None,
          MaxUses,  \* the values of max_uses that clients send
          MaxPipe   \* bound: a client's command waits while so many queries are queued

ASSUME MaxUsesAssumption == MaxUses \subseteq Int
ASSUME MaxPipeAssumption == MaxPipe \in Nat
ASSUME NoneAssumption == None \notin Users \cup Groups \cup Msgs \cup Codes

VARIABLES
  grp,      \* table Groups: life, owner_id, public
  member,   \* table GroupMembers: pairs <<user, group>>
  msg,      \* table Messages: life, user_id, group_id
  code,     \* table GroupCodes: life, group_id, uses, max_uses
  pipe,     \* per worker: the queries sent and not yet executed
  tx,       \* per worker: its open transaction (deletion of a group)
  shown,    \* per client: the groups it was sent
  view,     \* per client: the messages it was sent and not told to remove
  told,     \* per client: the groups it was told are deleted
  audience, \* history: who was a member when a message was inserted
  byCode    \* history: memberships gained with a code, and whether the use counted

vars   == <<grp, member, msg, code, pipe, tx, shown, view, told, audience, byCode>>
tables == <<grp, member, msg, code>>
views  == <<shown, view, told>>
hist   == <<audience, byCode>>

(* A query in a pipeline: what it does, for whom, and what else it needs.   *)
Q(kind, u, g, arg) == [kind |-> kind, user |-> u, group |-> g, arg |-> arg]

(* The transaction of a worker: the group it deletes, the member ids it has  *)
(* selected, and the rows it has deleted so far.                             *)
NoTx == [group |-> None, failed |-> FALSE, ids |-> {}, msgs |-> {}, members |-> {},
         codes |-> {}, dropped |-> FALSE]

Init ==
  /\ grp = [g \in Groups |-> [life |-> "none", owner |-> None, public |-> FALSE]]
  /\ member = {}
  /\ msg = [m \in Msgs |-> [life |-> "none", user |-> None, group |-> None]]
  /\ code = [c \in Codes |-> [life |-> "none", group |-> None, uses |-> 0, max |-> 0]]
  /\ pipe = [w \in Workers |-> <<>>]
  /\ tx = [w \in Workers |-> NoTx]
  /\ shown = [u \in Users |-> {}] /\ view = [u \in Users |-> {}]
  /\ told = [u \in Users |-> {}]
  /\ audience = [m \in Msgs |-> {}] /\ byCode = {}

(* Ids that a table has not handed out; with none left an insertion fails.   *)
Unused(table) == {id \in DOMAIN table : table[id].life = "none"}

LiveGroup(g) == grp[g].life = "live"
Members(g)   == {u \in Users : <<u, g>> \in member}
MsgsOf(g)    == {m \in Msgs : msg[m].life = "live" /\ msg[m].group = g}
CodesOf(g)   == {c \in Codes : code[c].life = "live" /\ code[c].group = g}

-----------------------------------------------------------------------------
(* The commands: what a handler sends to the database                        *)

Send(w, q) ==
  /\ Len(pipe[w]) < MaxPipe
  /\ pipe' = [pipe EXCEPT ![w] = Append(@, q)]
  /\ UNCHANGED <<tables, tx, views, hist>>

server_create_group(w, u) ==
  \E public \in BOOLEAN : Send(w, Q("create", u, None, public))

server_client_groups(w, u) == Send(w, Q("user_groups", u, None, None))

server_get_all_groups(w, u) == Send(w, Q("public_groups", u, None, None))

server_join_group(w, u, g) == Send(w, Q("join", u, g, None))

(* A message without attachments.                                            *)
server_group_msg(w, u, g) == Send(w, Q("insert_msg", u, g, None))

server_get_group_msgs(w, u, g) == Send(w, Q("group_msgs", u, g, None))

server_delete_group_msg(w, u) == \E m \in Msgs : Send(w, Q("delete_msg", u, None, m))

server_create_group_code(w, u, g) ==
  \E max \in MaxUses : Send(w, Q("create_code", u, g, IF max = 0 THEN 1 ELSE max))

server_join_group_code(w, u) == \E c \in Codes : Send(w, Q("join_code", u, None, c))

server_delete_group_code(w, u) == \E c \in Codes : Send(w, Q("delete_code", u, None, c))

server_delete_group(w, u, g) == Send(w, Q("owner", u, g, None))

Request(w) ==
  \E u \in Users :
    \/ server_create_group(w, u) \/ server_client_groups(w, u)
    \/ server_get_all_groups(w, u) \/ server_delete_group_msg(w, u)
    \/ server_join_group_code(w, u) \/ server_delete_group_code(w, u)
    \/ \E g \in Groups :
         \/ server_join_group(w, u, g) \/ server_group_msg(w, u, g)
         \/ server_get_group_msgs(w, u, g)
         \/ server_create_group_code(w, u, g) \/ server_delete_group(w, u, g)

-----------------------------------------------------------------------------
(* The queries                                                               *)

First(w, kind) == pipe[w] # <<>> /\ Head(pipe[w]).kind = kind

(* The first query is answered; its callback has sent more.                  *)
Answered(w, more) == pipe' = [pipe EXCEPT ![w] = Tail(@) \o more]

(* The client is told of an error, or of nothing.                            *)
NoEffect(w) == Answered(w, <<>>) /\ UNCHANGED <<tables, tx, views, hist>>

(* Mutants: members and codes do not refer to Groups; messages do not refer  *)
(* to GroupMembers.                                                          *)
NoGroupKey(w, g)  == FALSE
NoMemberKey(w, p) == FALSE

(* Rows that the transaction of another worker has deleted and not committed. *)
HeldGroup(w, g)  == \E v \in Workers \ {w} : tx[v].dropped /\ tx[v].group = g
HeldMember(w, p) == \E v \in Workers \ {w} : p \in tx[v].members
HeldMsg(w, m)    == \E v \in Workers \ {w} : m \in tx[v].msgs
HeldCode(w, c)   == \E v \in Workers \ {w} : c \in tx[v].codes

(* insert_group.sql; a trigger makes the owner a member.  The new group is   *)
(* sent to its owner.                                                        *)
CreateGroup(w) ==
  /\ First(w, "create")
  /\ LET q == Head(pipe[w]) IN
     \/ /\ Unused(grp) = {}
        /\ NoEffect(w)
     \/ /\ \E g \in Unused(grp) :
             /\ grp' = [grp EXCEPT ![g] = [life |-> "live", owner |-> q.user, public |-> q.arg]]
             /\ member' = member \cup {<<q.user, g>>}
             /\ shown' = [shown EXCEPT ![q.user] = @ \cup {g}]
        /\ Answered(w, <<>>)
        /\ UNCHANGED <<msg, code, tx, view, told, hist>>

(* select_user_groups.sql                                                    *)
UserGroups(u) == {g \in Groups : LiveGroup(g) /\ <<u, g>> \in member}

(* select_public_group.sql: the public groups the user is not in.            *)
PublicGroups(u) == {g \in Groups : LiveGroup(g) /\ grp[g].public /\ <<u, g>> \notin member}

(* Groups are sent to the client: its own, the public ones, or the one it    *)
(* has joined, which is looked up by its id alone.                           *)
SendGroups(w) ==
  /\ \E kind \in {"user_groups", "public_groups", "get_group"} : First(w, kind)
  /\ LET q == Head(pipe[w])
         selected == CASE q.kind = "user_groups"   -> UserGroups(q.user)
                       [] q.kind = "public_groups" -> PublicGroups(q.user)
                       [] q.kind = "get_group"     -> {g \in {q.group} : LiveGroup(g)}
     IN shown' = [shown EXCEPT ![q.user] = @ \cup selected]
  /\ Answered(w, <<>>)
  /\ UNCHANGED <<tables, tx, view, told, hist>>

(* select_group_msgs_json.sql: the messages of a group are sent.  Limit and  *)
(* offset are left out: a client asks for all of them.                       *)
SendMsgs(w) ==
  /\ First(w, "group_msgs")
  /\ LET q == Head(pipe[w]) IN
     view' = [view EXCEPT ![q.user] = @ \cup MsgsOf(q.group)]
  /\ Answered(w, <<>>)
  /\ UNCHANGED <<tables, tx, shown, told, hist>>

(* server_group_broadcast: the members are selected, then each is sent to.   *)
Broadcast(w) ==
  /\ First(w, "broadcast")
  /\ LET q == Head(pipe[w]) IN
     view' = [u \in Users |->
       IF u \notin Members(q.group) THEN view[u]
       ELSE CASE q.arg.what = "msg"        -> view[u] \cup {q.arg.msg}
              [] q.arg.what = "delete_msg" -> view[u] \ {q.arg.msg}
              [] q.arg.what = "join"       -> view[u]]
  /\ Answered(w, <<>>)
  /\ UNCHANGED <<tables, tx, shown, told, hist>>

(* Mutants: nobody is told of a deleted message; of a new message.           *)
DeletionNotBroadcast(g, what, m) ==
  IF what = "delete_msg" THEN <<>>
  ELSE <<Q("broadcast", None, g, [what |-> what, msg |-> m])>>
MessageNotBroadcast(g, what, m) ==
  IF what = "msg" THEN <<>>
  ELSE <<Q("broadcast", None, g, [what |-> what, msg |-> m])>>

server_group_broadcast(g, what, m) ==
  <<Q("broadcast", None, g, [what |-> what, msg |-> m])>>

(* Mutants: user and group are swapped; the group is not sent to the client. *)
JoinSwapsArguments(u, g) ==
  <<Q("get_group", g, u, None)>> \o server_group_broadcast(g, "join", None)

JoinNotShown(u, g) == server_group_broadcast(g, "join", None)

on_user_group_join(u, g) ==
  <<Q("get_group", u, g, None)>> \o server_group_broadcast(g, "join", None)

(* join_pub_group.sql inserts nothing if the group is not there or not       *)
(* public, and that counts as success.                                       *)
JoinPublic(w) ==
  /\ First(w, "join")
  /\ LET q == Head(pipe[w])
         p == <<q.user, q.group>>
     IN
     \/ /\ LiveGroup(q.group) /\ grp[q.group].public
        /\ p \in member
        /\ NoEffect(w)
     \/ /\ LiveGroup(q.group) /\ grp[q.group].public
        /\ p \notin member /\ ~HeldGroup(w, q.group)
        /\ member' = member \cup {p}
        /\ Answered(w, on_user_group_join(q.user, q.group))
        /\ UNCHANGED <<grp, msg, code, tx, views, hist>>
     \/ /\ ~(LiveGroup(q.group) /\ grp[q.group].public)
        /\ Answered(w, on_user_group_join(q.user, q.group))
        /\ UNCHANGED <<tables, tx, views, hist>>

(* insert_groupmember_code.sql reads the code.  Without one the group_id to  *)
(* insert is null and the statement fails.                                   *)
JoinCodeReads(w) ==
  /\ First(w, "join_code")
  /\ LET q == Head(pipe[w]) IN
     \/ /\ code[q.arg].life = "live"
        /\ pipe' = [pipe EXCEPT ![w] = [@ EXCEPT ![1] =
                      Q("join_code_update", q.user, code[q.arg].group, q.arg)]]
        /\ UNCHANGED <<tables, tx, views, hist>>
     \/ /\ code[q.arg].life # "live"
        /\ NoEffect(w)

(* Mutant: a code is deleted one use too late.                               *)
UsedUpLate(c, uses) == code[c].max # -1 /\ uses > code[c].max

UsedUp(c, uses) == code[c].max # -1 /\ uses >= code[c].max

(* delete_groupcode_if_over_max: when a use of c is counted, every code that *)
(* is used up is deleted.                                                    *)
UsesAfter(c, k) == IF k = c THEN code[k].uses + 1 ELSE code[k].uses
Exhausted(c) == {k \in Codes : code[k].life = "live" /\ UsedUp(k, UsesAfter(c, k))}

CountUse(c) ==
  [k \in Codes |-> [life  |-> IF k \in Exhausted(c) THEN "gone" ELSE code[k].life,
                    group |-> code[k].group, uses |-> UsesAfter(c, k), max |-> code[k].max]]

(* Then it counts the use, if the code is still there, and inserts the       *)
(* member in any case.  Without a counted use no row is returned: "Failed to *)
(* join group".                                                              *)
JoinCodeUpdates(w) ==
  /\ First(w, "join_code_update")
  /\ LET q == Head(pipe[w])
         c == q.arg
         p == <<q.user, q.group>>
         counted == code[c].life = "live"
     IN
     /\ ~HeldCode(w, c) /\ ~HeldGroup(w, q.group)
     /\ \/ /\ p \in member \/ ~LiveGroup(q.group)
           /\ NoEffect(w)
        \/ /\ p \notin member /\ LiveGroup(q.group)
           /\ counted => \A k \in Exhausted(c) : ~HeldCode(w, k)
           /\ member' = member \cup {p}
           /\ code' = IF counted THEN CountUse(c) ELSE code
           /\ byCode' = byCode \cup
                {[user |-> q.user, group |-> q.group, code |-> c, counted |-> counted]}
           /\ Answered(w, IF counted THEN on_user_group_join(q.user, q.group) ELSE <<>>)
           /\ UNCHANGED <<grp, msg, tx, views, audience>>

(* insert_msg.sql: author and group must be a row of GroupMembers.           *)
InsertMsg(w) ==
  /\ First(w, "insert_msg")
  /\ LET q == Head(pipe[w])
         p == <<q.user, q.group>>
     IN
     \/ /\ p \notin member \/ Unused(msg) = {}
        /\ NoEffect(w)
     \/ /\ p \in member /\ ~HeldMember(w, p)
        /\ \E m \in Unused(msg) :
             /\ msg' = [msg EXCEPT ![m] = [life |-> "live", user |-> q.user, group |-> q.group]]
             /\ audience' = [audience EXCEPT ![m] = Members(q.group)]
             /\ Answered(w, server_group_broadcast(q.group, "msg", m))
        /\ UNCHANGED <<grp, member, code, tx, views, byCode>>

(* delete_msg.sql: the author or the owner of the group.                     *)
DeleteMsg(w) ==
  /\ First(w, "delete_msg")
  /\ LET q == Head(pipe[w])
         m == q.arg
         g == msg[m].group
         allowed == /\ msg[m].life = "live"
                    /\ msg[m].user = q.user \/ grp[g].owner = q.user
     IN
     \/ /\ ~allowed
        /\ NoEffect(w)
     \/ /\ allowed /\ ~HeldMsg(w, m)
        /\ msg' = [msg EXCEPT ![m].life = "gone"]
        /\ Answered(w, server_group_broadcast(g, "delete_msg", m))
        /\ UNCHANGED <<grp, member, code, tx, views, hist>>

(* create_group_code.sql: only a member makes a code.                        *)
CreateCode(w) ==
  /\ First(w, "create_code")
  /\ LET q == Head(pipe[w]) IN
     \/ /\ q.user \notin Members(q.group) \/ Unused(code) = {}
        /\ NoEffect(w)
     \/ /\ q.user \in Members(q.group) /\ ~HeldGroup(w, q.group)
        /\ \E c \in Unused(code) :
             code' = [code EXCEPT ![c] = [life |-> "live", group |-> q.group,
                                          uses |-> 0, max |-> q.arg]]
        /\ Answered(w, <<>>)
        /\ UNCHANGED <<grp, member, msg, tx, views, hist>>

(* delete_group_code.sql: only a member deletes a code.                      *)
DeleteCode(w) ==
  /\ First(w, "delete_code")
  /\ LET q == Head(pipe[w])
         c == q.arg
         allowed == code[c].life = "live" /\ q.user \in Members(code[c].group)
     IN
     \/ /\ ~allowed
        /\ NoEffect(w)
     \/ /\ allowed /\ ~HeldCode(w, c)
        /\ code' = [code EXCEPT ![c].life = "gone"]
        /\ Answered(w, <<>>)
        /\ UNCHANGED <<grp, member, msg, tx, views, hist>>

-----------------------------------------------------------------------------
(* The deletion of a group                                                   *)

(* db_async_delete_group: all of it is sent at once.                         *)
db_async_delete_group(u, g) ==
  LET kinds == <<"begin", "member_ids", "del_msgs", "del_members", "del_codes",
                 "del_group", "commit">>
  IN [i \in 1 .. Len(kinds) |-> Q(kinds[i], u, g, None)]

(* Mutant: any member may delete the group.                                  *)
CheckMember(w) ==
  /\ First(w, "owner")
  /\ LET q == Head(pipe[w]) IN
     \/ /\ <<q.user, q.group>> \in member
        /\ Answered(w, db_async_delete_group(q.user, q.group))
        /\ UNCHANGED <<tables, tx, views, hist>>
     \/ /\ <<q.user, q.group>> \notin member
        /\ NoEffect(w)

(* get_group_owner: the transaction is sent if the owner asked for it.       *)
CheckOwner(w) ==
  /\ First(w, "owner")
  /\ LET q == Head(pipe[w]) IN
     \/ /\ LiveGroup(q.group) /\ grp[q.group].owner = q.user
        /\ Answered(w, db_async_delete_group(q.user, q.group))
        /\ UNCHANGED <<tables, tx, views, hist>>
     \/ /\ ~(LiveGroup(q.group) /\ grp[q.group].owner = q.user)
        /\ NoEffect(w)

(* Executes a statement of the transaction: t is what it makes of it.        *)
Statement(w, t) ==
  /\ tx' = [tx EXCEPT ![w] = t]
  /\ Answered(w, <<>>)
  /\ UNCHANGED <<tables, views, hist>>

(* The first error undoes the statements before it and fails those after it. *)
Failed(w) == [NoTx EXCEPT !.group = tx[w].group, !.failed = TRUE]

Begin(w) ==
  /\ First(w, "begin")
  /\ Statement(w, [NoTx EXCEPT !.group = Head(pipe[w]).group])

(* A statement after the one that failed.                                    *)
Skipped(w) ==
  /\ tx[w].failed
  /\ \E kind \in {"member_ids", "del_msgs", "del_members", "del_codes", "del_group"} :
       First(w, kind)
  /\ Statement(w, tx[w])

SelectMemberIds(w) ==
  /\ First(w, "member_ids") /\ ~tx[w].failed
  /\ LET t == tx[w] IN
     Statement(w, [t EXCEPT !.ids = {u \in Members(t.group) : <<u, t.group>> \notin t.members}])

DelMsgs(w) ==
  /\ First(w, "del_msgs") /\ ~tx[w].failed
  /\ \A m \in MsgsOf(tx[w].group) : ~HeldMsg(w, m)
  /\ Statement(w, [tx[w] EXCEPT !.msgs = MsgsOf(tx[w].group)])

(* A member whose message was not deleted cannot be deleted.                 *)
DelMembers(w) ==
  /\ First(w, "del_members") /\ ~tx[w].failed
  /\ LET g == tx[w].group
         rows == Members(g) \X {g}
     IN
     /\ \A p \in rows : ~HeldMember(w, p)
     /\ Statement(w, IF MsgsOf(g) \subseteq tx[w].msgs
                     THEN [tx[w] EXCEPT !.members = rows] ELSE Failed(w))

DelCodes(w) ==
  /\ First(w, "del_codes") /\ ~tx[w].failed
  /\ \A c \in CodesOf(tx[w].group) : ~HeldCode(w, c)
  /\ Statement(w, [tx[w] EXCEPT !.codes = CodesOf(tx[w].group)])

(* A message being inserted has a lock on the group and waits for the row of *)
(* its author, which the transaction has deleted.                            *)
MsgWaits(w, v) ==
  LET q == Head(pipe[v]) IN
  First(v, "insert_msg") /\ q.group = tx[w].group /\ <<q.user, q.group>> \in tx[w].members

(* A group that a row refers to cannot be deleted.  It is a deadlock if a    *)
(* message waits for the transaction; PostgreSQL ends it by failing either.  *)
DelGroup(w) ==
  /\ First(w, "del_group") /\ ~tx[w].failed
  /\ LET g == tx[w].group
         unreferenced == /\ Members(g) \X {g} \subseteq tx[w].members
                         /\ MsgsOf(g) \subseteq tx[w].msgs
                         /\ CodesOf(g) \subseteq tx[w].codes
     IN
     /\ ~HeldGroup(w, g)
     /\ \/ /\ \A v \in Workers \ {w} : ~MsgWaits(w, v)
           /\ Statement(w, IF unreferenced THEN [tx[w] EXCEPT !.dropped = TRUE] ELSE Failed(w))
        \/ /\ \E v \in Workers \ {w} : MsgWaits(w, v)
           /\ Statement(w, Failed(w))

(* The message's insertion is the one that fails.                            *)
DeadlockFailsMsg(v) ==
  /\ \E w \in Workers \ {v} :
       First(w, "del_group") /\ ~tx[w].failed /\ MsgWaits(w, v)
  /\ NoEffect(v)

(* COMMIT, and delete_group_result: the selected members are told.           *)
Commit(w) ==
  /\ First(w, "commit")
  /\ tx' = [tx EXCEPT ![w] = NoTx]
  /\ Answered(w, <<>>)
  /\ LET t == tx[w] IN
     \/ /\ t.failed
        /\ UNCHANGED <<tables, views>>
     \/ /\ ~t.failed
        /\ grp' = [grp EXCEPT ![t.group].life = "gone"]
        /\ member' = member \ t.members
        /\ msg' = [m \in Msgs |-> IF m \in t.msgs THEN [msg[m] EXCEPT !.life = "gone"] ELSE msg[m]]
        /\ code' = [c \in Codes |-> IF c \in t.codes THEN [code[c] EXCEPT !.life = "gone"]
                                    ELSE code[c]]
        /\ told' = [u \in Users |-> IF u \in t.ids THEN told[u] \cup {t.group} ELSE told[u]]
        /\ view' = [u \in Users |-> IF u \in t.ids
                                    THEN {m \in view[u] : msg[m].group # t.group} ELSE view[u]]
        /\ UNCHANGED shown
  /\ UNCHANGED hist

-----------------------------------------------------------------------------
Execute(w) ==
  \/ CreateGroup(w) \/ SendGroups(w) \/ SendMsgs(w) \/ Broadcast(w)
  \/ JoinPublic(w) \/ JoinCodeReads(w) \/ JoinCodeUpdates(w)
  \/ InsertMsg(w) \/ DeleteMsg(w) \/ CreateCode(w) \/ DeleteCode(w)
  \/ CheckOwner(w) \/ Begin(w) \/ Skipped(w) \/ SelectMemberIds(w) \/ DelMsgs(w)
  \/ DelMembers(w) \/ DelCodes(w) \/ DelGroup(w) \/ DeadlockFailsMsg(w) \/ Commit(w)

Next == \E w \in Workers : Request(w) \/ Execute(w)

Spec == Init /\ [][Next]_vars

-----------------------------------------------------------------------------
(* Properties                                                                *)

Life == {"none", "live", "gone"}

TypeOK ==
  /\ grp \in [Groups -> [life : Life, owner : Users \cup {None}, public : BOOLEAN]]
  /\ member \subseteq Users \X Groups
  /\ msg \in [Msgs -> [life : Life, user : Users \cup {None}, group : Groups \cup {None}]]
  /\ code \in [Codes -> [life : Life, group : Groups \cup {None}, uses : Nat, max : Int]]
  /\ \A w \in Workers : \A i \in DOMAIN pipe[w] :
       /\ pipe[w][i].user \in Users \cup {None}
       /\ pipe[w][i].group \in Groups \cup {None}
  /\ \A w \in Workers : tx[w].ids \subseteq Users /\ tx[w].members \subseteq member
  /\ \A u \in Users : shown[u] \subseteq Groups /\ view[u] \subseteq Msgs

(* Whatever other workers insert while a group is being deleted, a deletion  *)
(* takes all rows of the group or none: members, messages and codes belong   *)
(* to a group that is there, a message's author is a member, and an owner is *)
(* a member of the group.                                                    *)
NoOrphans ==
  /\ \A p \in member : LiveGroup(p[2])
  /\ \A m \in Msgs : msg[m].life = "live" => <<msg[m].user, msg[m].group>> \in member
  /\ \A c \in Codes : code[c].life = "live" => LiveGroup(code[c].group)
  /\ \A g \in Groups : LiveGroup(g) => <<grp[g].owner, g>> \in member

(* A transaction that got as far as deleting the group's row holds every row *)
(* that refers to it until it commits.                                       *)
DeletionIsolated ==
  \A w \in Workers : tx[w].dropped =>
    LET g == tx[w].group IN
    /\ Members(g) \X {g} \subseteq tx[w].members
    /\ MsgsOf(g) \subseteq tx[w].msgs
    /\ CodesOf(g) \subseteq tx[w].codes

(* The owner is asked for one query before the transaction; still, a group   *)
(* goes away only on behalf of its owner, and a message only on behalf of    *)
(* its author or of the owner of its group.                                  *)
DeletedByRight ==
  [][/\ \A g \in Groups : (LiveGroup(g) /\ grp'[g].life = "gone") =>
          \E w \in Workers : pipe'[w] # pipe[w] /\ Head(pipe[w]).user = grp[g].owner
     /\ \A m \in Msgs : (msg[m].life = "live" /\ msg'[m].life = "gone") =>
          \E w \in Workers : pipe'[w] # pipe[w] /\
            Head(pipe[w]).user \in {msg[m].user, grp[msg[m].group].owner}]_vars

(* A code with a limit lets no more users in than its max_uses.              *)
CodeUsesBounded ==
  \A c \in Codes : (code[c].life # "none" /\ code[c].max > 0) =>
    Cardinality({b \in byCode : b.code = c}) <= code[c].max

BroadcastQueued(what, m, g) ==
  \E w \in Workers : \E i \in DOMAIN pipe[w] :
    /\ pipe[w][i].kind = "broadcast" /\ pipe[w][i].group = g
    /\ pipe[w][i].arg = [what |-> what, msg |-> m]

(* A message that was deleted does not stay in the view of anybody who was a *)
(* member when it was written, however the answers to get_group_msgs mix     *)
(* with broadcasts: while a client still shows it, the broadcast that        *)
(* removes it is on its way.                                                 *)
DeletedLeavesView ==
  \A m \in Msgs : \A u \in audience[m] :
    (msg[m].life = "gone" /\ m \in view[u]) => BroadcastQueued("delete_msg", m, msg[m].group)

(* Whoever was a member when a message was inserted has it or is going to be *)
(* sent it: the broadcast is queued, and will find the user among the        *)
(* members, whatever transactions and deletions come between the insertion   *)
(* and the selection of the members, unless they delete the message.         *)
MessageReachesMembers ==
  \A m \in Msgs : \A u \in audience[m] :
    msg[m].life = "live" =>
      /\ u \in Members(msg[m].group)
      /\ m \in view[u] \/ BroadcastQueued("msg", m, msg[m].group)

(* Whoever is a member of a group has been sent the group, or the query that *)
(* sends it is queued behind the one that joined.  Excepted are members who  *)
(* joined by a code that another use had removed after it was read: they are *)
(* told "Failed to join group" (on_user_group_join,                          *)
(* insert_groupmember_code.sql).                                             *)
MemberIsShownGroup ==
  \A p \in member :
    \/ p[2] \in shown[p[1]]
    \/ \E w \in Workers : \E i \in DOMAIN pipe[w] :
         pipe[w][i].kind = "get_group" /\ pipe[w][i].user = p[1] /\ pipe[w][i].group = p[2]
    \/ \E b \in byCode : b.user = p[1] /\ b.group = p[2] /\ ~b.counted
=============================================================================
