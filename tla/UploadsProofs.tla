--------------------------- MODULE UploadsProofs ---------------------------
(***************************************************************************)
(* Proofs about Uploads, for every number of users, tokens, files and       *)
(* messages, every number of attachments and every length of the pipeline.  *)
(* The types hold for any number of workers; that ref_count covers the      *)
(* references, and that a file's row, its references and the disk agree in  *)
(* the end, needs one worker: with two the count of the attachments, which  *)
(* no lock protects, can lose one, and the picture one worker remembers is  *)
(* released by the other. The invariants are those of UploadsInv.           *)
(***************************************************************************)
EXTENDS UploadsInv, TLAPS, FiniteSetTheorems, SequenceTheorems

-----------------------------------------------------------------------------
(* Types                                                                     *)

LEMMA IndexFacts == 1 \in Index /\ NoFiles \in [Index -> Hash]
BY TotalAssumption DEF Index, NoFiles, Hash

LEMMA FilesAreSeq == \A f \in [Index -> Hash] : f \in Seq(Hash) /\ Len(f) = Total
<1> TAKE f \in [Index -> Hash]
<1>1. DOMAIN f = 1 .. Total  BY DEF Index
<1>2. QED  BY <1>1, TotalAssumption, LenProperties, IsASeq DEF Index

LEMMA TypesImply == Types => TypeOK
<1> SUFFICES ASSUME Types PROVE TypeOK  OBVIOUS
<1>1. ASSUME NEW w \in Workers, NEW k \in DOMAIN pipe[w]
      PROVE  LET ch == pipe[w][k] IN
             /\ ch.done \in 0 .. Len(ch.cmds) /\ ch.ran \in 0 .. Len(ch.cmds) - 1
             /\ \A i \in DOMAIN ch.cmds : ch.cmds[i].op \in Ops /\ ch.cmds[i].hash \in Hash
  <2>1. PICK ch : ch = pipe[w][k]  OBVIOUS
  <2>2. ch \in Chains  BY <1>1, <2>1 DEF Types
  <2>3. ch.cmds \in Seq(GoodQuery) /\ ch.done \in Nat /\ ch.ran \in Nat
        /\ ch.done <= Len(ch.cmds) /\ ch.ran < Len(ch.cmds)
    BY <2>2 DEF Chains
  <2>4. PICK n \in Nat : n = Len(ch.cmds)  BY <2>3, LenProperties
  <2>5. ch.done \in 0 .. n /\ ch.ran \in 0 .. n - 1  BY <2>3, <2>4
  <2>6. \A i \in DOMAIN ch.cmds : ch.cmds[i] \in GoodQuery  BY <2>3, ElementOfSeq, LenProperties
  <2>7. QED  BY <2>1, <2>4, <2>5, <2>6 DEF GoodQuery, Query
<1>2. QED  BY <1>1 DEF Types, TypeOK, Msg, GoodToken

-----------------------------------------------------------------------------
(* Queries and chains                                                        *)

LEMMA CmdTypes ==
  ASSUME NEW op \in Ops, NEW h \in Hash, NEW arg \in Tokens \cup Users \cup Msgs \cup {None},
         NEW files \in [Index -> Hash],
         op \in {"insert_file", "update_pfp"} => h \in Hashes,
         op = "update_pfp" => arg \in Users,
         op = "insert_msg" => arg \in Tokens,
         op = "delete_msg" => arg \in Msgs
  PROVE  Cmd(op, h, arg, files) \in GoodQuery /\ Cmd(op, h, arg, files).op = op
BY FilesAreSeq DEF Cmd, GoodQuery, Query

LEMMA SaveTypes ==
  ASSUME NEW h \in Hashes
  PROVE  /\ server_save_file_img(h) \in Seq(GoodQuery)
         /\ Len(server_save_file_img(h)) = 2
         /\ server_save_file_img(h) # <<>>
<1>1. h \in Hash /\ "insert_file" \in Ops /\ "refcount" \in Ops  BY DEF Hash, Ops
<1>2. Cmd("refcount", h, None, NoFiles) \in GoodQuery  BY <1>1, IndexFacts, CmdTypes
<1>3. QED  BY <1>1, <1>2, IndexFacts, CmdTypes DEF server_save_file_img

LEMMA DeleteTypes ==
  ASSUME NEW h \in Hash
  PROVE  /\ server_delete_file(h) \in Seq(GoodQuery)
         /\ Len(server_delete_file(h)) = 2
         /\ server_delete_file(h)[1] \in GoodQuery
         /\ server_delete_file(h)[2] \in GoodQuery
<1>1. "release" \in Ops /\ "refcount" \in Ops  BY DEF Ops
<1>2. Cmd("refcount", h, None, NoFiles) \in GoodQuery  BY <1>1, IndexFacts, CmdTypes
<1>3. QED  BY <1>1, <1>2, IndexFacts, CmdTypes DEF server_delete_file

LEMMA DeleteAllTypes ==
  ASSUME NEW files \in Seq(Hash)
  PROVE  /\ server_delete_attachments_json(files) \in Seq(GoodQuery)
         /\ Len(server_delete_attachments_json(files)) = 2 * Len(files)
<1>1. PICK n \in Nat : n = Len(files)  BY LenProperties
<1>2. \A j \in 1 .. 2 * n : (j + 1) \div 2 \in 1 .. n /\ 2 - (j % 2) \in {1, 2}  OBVIOUS
<1>3. \A j \in 1 .. 2 * n : server_delete_file(files[(j + 1) \div 2])[2 - (j % 2)] \in GoodQuery
  BY <1>1, <1>2, DeleteTypes, ElementOfSeq
<1>4. PICK s : s = server_delete_attachments_json(files)  OBVIOUS
<1>5. 2 * n \in Nat  OBVIOUS
<1>6. s \in Seq(GoodQuery) /\ Len(s) = 2 * n
  BY <1>1, <1>3, <1>4, <1>5, IsASeq, LenProperties DEF server_delete_attachments_json
<1>7. QED  BY <1>1, <1>4, <1>6

LEMMA ChainTypes ==
  ASSUME NEW cmds \in Seq(GoodQuery), cmds # <<>>
  PROVE  Chain(cmds) \in Chains
<1>1. Len(cmds) \in Nat /\ Len(cmds) # 0  BY LenProperties, EmptySeq
<1>2. PICK n \in Nat : n = Len(cmds)  BY <1>1
<1>3. QED  BY <1>1, <1>2 DEF Chain, Chains

LEMMA QueueTypes ==
  ASSUME Types, NEW w \in Workers, NEW cmds \in Seq(GoodQuery), cmds # <<>>, Queue(w, cmds)
  PROVE  pipe' \in [Workers -> Seq(Chains)]
BY ChainTypes DEF Queue, Types

(* A chain of a queue, and the command it is at.                             *)
LEMMA ChainFacts ==
  ASSUME Types, NEW w \in Workers, NEW k \in DOMAIN pipe[w]
  PROVE  /\ pipe[w][k] \in Chains
         /\ pipe[w][k].cmds \in Seq(GoodQuery)
         /\ pipe[w][k].done \in Nat /\ pipe[w][k].ran \in Nat
         /\ Len(pipe[w][k].cmds) \in Nat
         /\ \A i \in 1 .. Len(pipe[w][k].cmds) : pipe[w][k].cmds[i] \in GoodQuery
         /\ pipe[w][k].done <= Len(pipe[w][k].cmds)
         /\ pipe[w][k].ran < Len(pipe[w][k].cmds)
<1>1. pipe[w][k] \in Chains  BY DEF Types
<1>2. QED  BY <1>1, ElementOfSeq, LenProperties DEF Chains

LEMMA ExecutedTypes ==
  ASSUME Types, NEW w \in Workers, NEW k \in DOMAIN pipe[w], NEW op, Executes(w, k, op)
  PROVE  /\ Executed(w, k) \in GoodQuery /\ Executed(w, k).op = op
         /\ pipe[w][k].done + 1 \in 1 .. Len(pipe[w][k].cmds)
<1>1. PICK n : n = Len(pipe[w][k].cmds)  OBVIOUS
<1>2. PICK d : d = pipe[w][k].done  OBVIOUS
<1>3. d + 1 \in 1 .. n  BY <1>1, <1>2, ChainFacts DEF Executes, Current
<1>4. QED  BY <1>1, <1>2, <1>3, ChainFacts DEF Executed, Executes

LEMMA AnsweredTypes ==
  ASSUME NEW ch \in Chains, NEW cmd \in GoodQuery, ch.done < Len(ch.cmds)
  PROVE  /\ Answered(ch, cmd) \in Chains
         /\ Answered(ch, cmd).done = ch.done + 1 /\ Answered(ch, cmd).ran = ch.ran
         /\ Answered(ch, cmd).cmds = [ch.cmds EXCEPT ![ch.done + 1] = cmd]
         /\ Len(Answered(ch, cmd).cmds) = Len(ch.cmds)
<1>1. PICK n \in Nat : n = Len(ch.cmds)  BY LenProperties DEF Chains
<1>2. PICK d \in Nat : d = ch.done  BY DEF Chains
<1>3. d + 1 <= n /\ d + 1 \in 1 .. n /\ d + 1 \in Nat  BY <1>1, <1>2
<1>4. ch.cmds \in Seq(GoodQuery) /\ ch.ran \in Nat /\ ch.ran < n  BY <1>1 DEF Chains
<1>5. Answered(ch, cmd) = [cmds |-> [ch.cmds EXCEPT ![d + 1] = cmd], done |-> d + 1, ran |-> ch.ran]
  BY <1>2 DEF Answered
<1>6. QED  BY <1>1, <1>2, <1>3, <1>4, <1>5, ExceptSeq DEF Chains

LEMMA ResultTypes ==
  ASSUME Types, NEW w \in Workers, NEW k \in DOMAIN pipe[w], NEW op, Executes(w, k, op),
         NEW cmd \in GoodQuery, Result(w, k, cmd)
  PROVE  pipe' \in [Workers -> Seq(Chains)]
<1>1. Answered(pipe[w][k], cmd) \in Chains  BY AnsweredTypes, ChainFacts DEF Executes, Current
<1>2. [pipe[w] EXCEPT ![k] = Answered(pipe[w][k], cmd)] \in Seq(Chains)  BY <1>1, ExceptSeq DEF Types
<1>3. QED  BY <1>2 DEF Types, Result

LEMMA FirstChain ==
  ASSUME Types, NEW w \in Workers, pipe[w] # <<>>
  PROVE  1 \in DOMAIN pipe[w] /\ pipe[w][1] \in Chains
<1>1. pipe[w] \in Seq(Chains)  BY DEF Types
<1>2. Len(pipe[w]) \in Nat /\ Len(pipe[w]) # 0 /\ DOMAIN pipe[w] = 1 .. Len(pipe[w])
  BY <1>1, LenProperties, EmptySeq
<1>3. QED  BY <1>1, <1>2, ElementOfSeq

LEMMA ThisTypes ==
  ASSUME Types, NEW w \in Workers, NEW op, Running(w, op)
  PROVE  This(w) \in GoodQuery /\ This(w).op = op
<1>1. 1 \in DOMAIN pipe[w]  BY FirstChain DEF Running
<1>2. PICK n : n = Len(pipe[w][1].cmds)  OBVIOUS
<1>3. PICK d : d = pipe[w][1].ran  OBVIOUS
<1>4. d + 1 \in 1 .. n  BY <1>1, <1>2, <1>3, ChainFacts
<1>5. QED  BY <1>1, <1>2, <1>3, <1>4, ChainFacts DEF This, Running

LEMMA RestTypes ==
  ASSUME Types, NEW w \in Workers, pipe[w] # <<>>
  PROVE  Rest(w) \in Seq(Chains)
<1>1. 1 \in DOMAIN pipe[w] /\ pipe[w][1] \in Chains  BY FirstChain
<1>2. pipe[w] \in Seq(Chains)  BY DEF Types
<1>3. CASE pipe[w][1].ran + 1 = Len(pipe[w][1].cmds)
  BY <1>2, <1>3, HeadTailProperties DEF Rest
<1>4. CASE pipe[w][1].ran + 1 # Len(pipe[w][1].cmds)
  <2>1. PICK n : n = Len(pipe[w][1].cmds)  OBVIOUS
  <2>2. PICK r : r = pipe[w][1].ran  OBVIOUS
  <2>3. n \in Nat /\ r \in Nat /\ r < n /\ r + 1 # n  BY <1>1, <1>4, <2>1, <2>2, ChainFacts
  <2>4. r + 1 < n /\ r + 1 \in Nat  BY <2>3
  <2>5. CalledBack(pipe[w][1]) \in Chains  BY <1>1, <2>1, <2>2, <2>4 DEF Chains, CalledBack
  <2>6. Rest(w) = [pipe[w] EXCEPT ![1] = CalledBack(pipe[w][1])]  BY <1>4 DEF Rest
  <2>7. 1 \in 1 .. Len(pipe[w])  BY <1>1, <1>2, LenProperties
  <2>8. QED  BY <1>2, <2>5, <2>6, <2>7, ExceptSeq
<1>5. QED  BY <1>3, <1>4

LEMMA RanTypes ==
  ASSUME Types, NEW w \in Workers, pipe[w] # <<>>, NEW more \in Seq(GoodQuery), Ran(w, more)
  PROVE  /\ pipe' \in [Workers -> Seq(Chains)]
         /\ pipe' = [pipe EXCEPT ![w] = IF more = <<>> THEN Rest(w)
                                        ELSE Append(Rest(w), Chain(more))]
<1>1. Rest(w) \in Seq(Chains)  BY RestTypes
<1>2. more # <<>> => Append(Rest(w), Chain(more)) \in Seq(Chains)  BY <1>1, ChainTypes
<1>3. QED  BY <1>1, <1>2 DEF Types, Ran, Rest

-----------------------------------------------------------------------------
(* The handlers keep the types.                                              *)

LEMMA IdleTypes == Idle \in Task /\ Idle.step = "idle" /\ Idle.token = None
BY IndexFacts DEF Idle, Task, Hash

LEMMA TokenTypes ==
  ASSUME Types, NEW w \in Workers, NEW t \in Tokens,
         server_new_upload_token(w, t) \/ timer_ut(w, t)
  PROVE  Types'
<1>1. token[t] \in GoodToken  BY DEF Types
<1>2. \A u \in Users : [token[t] EXCEPT !.life = "live", !.type = "pfp", !.user = u] \in GoodToken
  BY <1>1 DEF GoodToken, Token
<1>3. [token[t] EXCEPT !.life = "live"] \in GoodToken /\ [token[t] EXCEPT !.life = "freed"] \in GoodToken
  BY <1>1 DEF GoodToken, Token
<1>4. token' \in [Tokens -> GoodToken]
  BY <1>2, <1>3 DEF server_new_upload_token, timer_ut, Types
<1>5. QED  BY <1>4 DEF server_new_upload_token, timer_ut, Types, db, hist, fault

LEMMA PostAttachTypes ==
  ASSUME Types, NEW w \in Workers, NEW t \in Tokens, NEW i \in Index, NEW h \in Hashes,
         PostAttach(w, t, i, h)
  PROVE  Types'
<1>1. task' \in [Workers -> Task]  BY IdleTypes DEF PostAttach, Types, Idle, Task, Hash
<1>2. QED  BY <1>1 DEF PostAttach, Types, db, hist, fault

LEMMA UsesFreedTypes == Types /\ UsesFreed => Types'
BY DEF UsesFreed, Types, db, hist, fault

LEMMA TaskFacts ==
  ASSUME Types, NEW w \in Workers, task[w].step # "idle"
  PROVE  /\ task[w] \in Task /\ task[w].token \in Tokens /\ task[w].hash \in Hashes
         /\ task[w].index \in Index /\ task[w].read \in Nat
         /\ token[task[w].token] \in GoodToken
BY DEF Types, Task

LEMMA SaveAttachTypes ==
  ASSUME Types, NEW w \in Workers, SaveAttach(w)
  PROVE  Types'
<1>1. PICK t : t = task[w].token  OBVIOUS
<1>2. t \in Tokens /\ token[t] \in GoodToken /\ task[w] \in Task /\ task[w].hash \in Hash
      /\ task[w].index \in Index /\ task[w].token \in Tokens /\ task[w].hash \in Hashes
  BY <1>1, TaskFacts DEF SaveAttach, Hash
<1>3. CASE UsesFreed  BY <1>3, UsesFreedTypes
<1>4. CASE ~UsesFreed
  <2>1. PICK fs : fs = [token[t].files EXCEPT ![task[w].index] = task[w].hash]  OBVIOUS
  <2>2. [token[t] EXCEPT !.files = fs] \in GoodToken  BY <1>2, <2>1 DEF GoodToken, Token
  <2>3. token' \in [Tokens -> GoodToken]  BY <1>1, <1>2, <1>4, <2>1, <2>2 DEF Types, SaveAttach
  <2>4. [task[w] EXCEPT !.step = "count", !.read = token[t].current] \in Task
    BY <1>2 DEF Task, GoodToken, Token
  <2>5. QED  BY <1>1, <1>4, <2>3, <2>4 DEF SaveAttach, Types, db, hist, fault
<1>5. QED  BY <1>3, <1>4

LEMMA CountAttachTypes ==
  ASSUME Types, NEW w \in Workers, CountAttach(w)
  PROVE  Types'
<1>1. PICK t : t = task[w].token  OBVIOUS
<1>2. t \in Tokens /\ token[t] \in GoodToken /\ task[w] \in Task /\ task[w].read + 1 \in Nat
      /\ task[w].token \in Tokens /\ task[w].hash \in Hashes
  BY <1>1, TaskFacts DEF CountAttach
<1>3. CASE UsesFreed  BY <1>3, UsesFreedTypes
<1>4. CASE ~UsesFreed
  <2>1. [token[t] EXCEPT !.current = task[w].read + 1] \in GoodToken  BY <1>2 DEF GoodToken, Token
  <2>2. token' \in [Tokens -> GoodToken]  BY <1>1, <1>2, <1>4, <2>1 DEF CountAttach, Types
  <2>3. [task[w] EXCEPT !.step = "test"] \in Task  BY <1>2 DEF Task
  <2>4. task' \in [Workers -> Task]  BY <1>4, <2>3 DEF CountAttach, Types
  <2>5. QED  BY <1>4, <2>2, <2>4 DEF CountAttach, Types, db, hist, fault
<1>5. QED  BY <1>3, <1>4

(* The chain of a posted attachment, and of the last one.                    *)
LEMMA TestCmds ==
  ASSUME Types, NEW w \in Workers, task[w].step = "test"
  PROVE  LET save == server_save_file_img(task[w].hash)
             t == task[w].token
             all == Append(save, Cmd("insert_msg", None, t, token[t].files))
         IN /\ save \in Seq(GoodQuery) /\ save # <<>>
            /\ all \in Seq(GoodQuery) /\ all # <<>>
<1>1. PICK t : t = task[w].token  OBVIOUS
<1>2. t \in Tokens /\ token[t].files \in [Index -> Hash] /\ task[w].hash \in Hashes
  BY <1>1, TaskFacts DEF GoodToken, Token
<1>3. PICK save : save = server_save_file_img(task[w].hash)  OBVIOUS
<1>4. save \in Seq(GoodQuery) /\ Len(save) = 2  BY <1>2, <1>3, SaveTypes
<1>5. Cmd("insert_msg", None, t, token[t].files) \in GoodQuery
  BY <1>2, CmdTypes DEF Ops, Hash
<1>6. PICK all : all = Append(save, Cmd("insert_msg", None, t, token[t].files))  OBVIOUS
<1>7. all \in Seq(GoodQuery) /\ all # <<>>  BY <1>4, <1>5, <1>6, AppendProperties
<1>8. QED  BY <1>1, <1>2, <1>3, <1>4, <1>6, <1>7, SaveTypes

LEMMA TestAttachTypes ==
  ASSUME Types, NEW w \in Workers, TestAttach(w)
  PROVE  Types'
<1>1. CASE UsesFreed  BY <1>1, UsesFreedTypes
<1>2. CASE ~UsesFreed
  <2>1. PICK t : t = task[w].token  OBVIOUS
  <2>2. task[w].step = "test" /\ t \in Tokens  BY <2>1, TaskFacts DEF TestAttach
  <2>3. PICK save : save = server_save_file_img(task[w].hash)  OBVIOUS
  <2>4. PICK all : all = Append(save, Cmd("insert_msg", None, t, token[t].files))  OBVIOUS
  <2>5. save \in Seq(GoodQuery) /\ save # <<>> /\ all \in Seq(GoodQuery) /\ all # <<>>
    BY <2>1, <2>2, <2>3, <2>4, TestCmds
  <2>6. /\ \/ Queue(w, all) /\ sent' = [sent EXCEPT ![t] = @ + 1]
           \/ Queue(w, save) /\ UNCHANGED sent
        /\ task' = [task EXCEPT ![w] = Idle]
        /\ UNCHANGED <<token, db, disk, cached, posted, fault, ub>>
    BY <1>2, <2>1, <2>3, <2>4 DEF TestAttach
  <2>7. pipe' \in [Workers -> Seq(Chains)]  BY <2>5, <2>6, QueueTypes
  <2>8. sent' \in [Tokens -> Nat]  BY <2>2, <2>6 DEF Types
  <2>9. task' \in [Workers -> Task]  BY <2>6, IdleTypes DEF Types
  <2>10. QED  BY <2>6, <2>7, <2>8, <2>9 DEF Types, db, fault
<1>3. QED  BY <1>1, <1>2

LEMMA PostPfpTypes ==
  ASSUME Types, NEW w \in Workers, NEW t \in Tokens, NEW h \in Hashes, PostPfp(w, t, h)
  PROVE  Types'
<1>1. token[t] \in GoodToken  BY DEF Types
<1>2. token' \in [Tokens -> GoodToken]  BY <1>1 DEF PostPfp, Types, GoodToken, Token
<1>3. Cmd("update_pfp", h, token[t].user, NoFiles) \in GoodQuery
  BY <1>1, IndexFacts, CmdTypes DEF Ops, Hash, PostPfp, GoodToken
<1>4. PICK cmds : cmds = Append(server_save_file_img(h),
                                Cmd("update_pfp", h, token[t].user, NoFiles))
  OBVIOUS
<1>5. cmds \in Seq(GoodQuery)  BY <1>3, <1>4, SaveTypes, AppendProperties
<1>6. cmds # <<>>  BY <1>3, <1>4, SaveTypes, AppendProperties
<1>7. pipe' \in [Workers -> Seq(Chains)]  BY <1>4, <1>5, <1>6, QueueTypes DEF Types, PostPfp
<1>8. QED  BY <1>2, <1>7 DEF PostPfp, Types, db, hist, fault

LEMMA AskTypes ==
  ASSUME Types, NEW w \in Workers,
         (\E m \in Msgs : server_delete_group_msg(w, m)) \/ db_async_delete_group(w)
  PROVE  Types'
<1>1. pipe' \in [Workers -> Seq(Chains)]
  <2>1. ASSUME NEW m \in Msgs, server_delete_group_msg(w, m)
        PROVE  pipe' \in [Workers -> Seq(Chains)]
    <3>1. Cmd("delete_msg", None, m, NoFiles) \in GoodQuery
      BY IndexFacts, CmdTypes DEF Ops, Hash
    <3>2. PICK cmds : cmds = <<Cmd("delete_msg", None, m, NoFiles)>>  OBVIOUS
    <3>3. cmds \in Seq(GoodQuery) /\ cmds # <<>>  BY <3>1, <3>2
    <3>4. QED  BY <2>1, <3>2, <3>3, QueueTypes DEF server_delete_group_msg
  <2>2. ASSUME db_async_delete_group(w)
        PROVE  pipe' \in [Workers -> Seq(Chains)]
    <3>1. Cmd("select_attachs", None, None, NoFiles) \in GoodQuery
      BY IndexFacts, CmdTypes DEF Ops, Hash
    <3>2. Cmd("delete_msgs", None, None, NoFiles) \in GoodQuery
      BY IndexFacts, CmdTypes DEF Ops, Hash
    <3>3. PICK cmds : cmds = <<Cmd("select_attachs", None, None, NoFiles),
                               Cmd("delete_msgs", None, None, NoFiles)>>
      OBVIOUS
    <3>4. cmds \in Seq(GoodQuery) /\ cmds # <<>>  BY <3>1, <3>2, <3>3
    <3>5. QED  BY <2>2, <3>3, <3>4, QueueTypes DEF db_async_delete_group
  <2>3. QED  BY <2>1, <2>2
<1>2. QED  BY <1>1 DEF server_delete_group_msg, db_async_delete_group, Types, db, hist, fault

-----------------------------------------------------------------------------
(* The database keeps the types.                                             *)

LEMMA CountTypes ==
  ASSUME Types, NEW w \in Workers,
         db_async_insert_userfile(w) \/ db_async_userfile_refcount(w) \/ db_async_delete_userfile(w)
  PROVE  Types'
<1>1. CASE db_async_insert_userfile(w)
  <2>1. PICK k \in DOMAIN pipe[w] :
          /\ Executes(w, k, "insert_file")
          /\ row' = [row EXCEPT ![Executed(w, k).hash] = @ + 1]
          /\ Result(w, k, Executed(w, k))
    BY <1>1 DEF db_async_insert_userfile
  <2>2. Executed(w, k) \in GoodQuery /\ Executed(w, k).op = "insert_file"
    BY <2>1, ExecutedTypes
  <2>3. row' \in [Hashes -> Nat]  BY <2>1, <2>2 DEF GoodQuery, Types
  <2>4. QED  BY <1>1, <2>1, <2>2, <2>3, ResultTypes DEF db_async_insert_userfile, Types, hist, fault
<1>2. CASE db_async_userfile_refcount(w)
  <2>1. PICK k \in DOMAIN pipe[w] :
          /\ Executes(w, k, "refcount")
          /\ LET c == Executed(w, k) IN
             Result(w, k, [c EXCEPT !.n = IF c.hash = None THEN 0 ELSE row[c.hash]])
    BY <1>2 DEF db_async_userfile_refcount
  <2>2. PICK c : c = Executed(w, k)  OBVIOUS
  <2>3. c \in GoodQuery /\ c.op = "refcount"  BY <2>1, <2>2, ExecutedTypes
  <2>4. PICK n : n = IF c.hash = None THEN 0 ELSE row[c.hash]  OBVIOUS
  <2>5. n \in Nat  BY <2>3, <2>4 DEF Types, GoodQuery, Query, Hash
  <2>6. pipe' \in [Workers -> Seq(Chains)]
    BY <2>1, <2>2, <2>3, <2>4, <2>5, ResultTypes DEF GoodQuery, Query
  <2>7. QED  BY <1>2, <2>6 DEF db_async_userfile_refcount, Types, db, hist, fault
<1>3. CASE db_async_delete_userfile(w)
  <2>1. PICK k \in DOMAIN pipe[w] :
          /\ Executes(w, k, "release")
          /\ LET c == Executed(w, k) IN
             /\ row' = Released(c.hash)
             /\ Result(w, k, [c EXCEPT !.ok = ~CannotRelease(c.hash)])
    BY <1>3 DEF db_async_delete_userfile
  <2>2. PICK c : c = Executed(w, k)  OBVIOUS
  <2>3. c \in GoodQuery /\ c.op = "release"  BY <2>1, <2>2, ExecutedTypes
  <2>4. PICK b \in BOOLEAN : b = ~CannotRelease(c.hash)  OBVIOUS
  <2>5. pipe' \in [Workers -> Seq(Chains)]
    BY <2>1, <2>2, <2>3, <2>4, ResultTypes DEF GoodQuery, Query
  <2>6. \A h \in Hashes : row[h] # 0 => row[h] - 1 \in Nat  BY DEF Types
  <2>7. row' \in [Hashes -> Nat]
    BY <2>1, <2>2, <2>3, <2>6 DEF Released, Types, GoodQuery, Query, Hash
  <2>8. QED  BY <1>3, <2>5, <2>7 DEF db_async_delete_userfile, Types, hist, fault
<1>4. QED  BY <1>1, <1>2, <1>3

LEMMA InsertMsgTypes ==
  ASSUME Types, NEW w \in Workers, db_async_insert_group_msg(w)
  PROVE  Types'
<1>1. PICK k \in DOMAIN pipe[w] :
        /\ Executes(w, k, "insert_msg")
        /\ LET c == Executed(w, k) IN
           \/ /\ \E m \in Msgs :
                   msg' = [msg EXCEPT ![m] = [life |-> "live", token |-> c.arg, files |-> c.files]]
              /\ Result(w, k, c)
           \/ /\ Result(w, k, [c EXCEPT !.ok = FALSE])
              /\ UNCHANGED msg
  BY DEF db_async_insert_group_msg
<1>2. PICK c : c = Executed(w, k)  OBVIOUS
<1>3. c \in GoodQuery /\ c.op = "insert_msg"  BY <1>1, <1>2, ExecutedTypes
<1>4. pipe' \in [Workers -> Seq(Chains)]  BY <1>1, <1>2, <1>3, ResultTypes DEF GoodQuery, Query
<1>5. [life |-> "live", token |-> c.arg, files |-> c.files] \in Msg  BY <1>3 DEF Msg, GoodQuery
<1>6. QED  BY <1>1, <1>2, <1>4, <1>5 DEF db_async_insert_group_msg, Types, hist, fault

LEMMA UpdateUserTypes ==
  ASSUME Types, NEW w \in Workers, db_async_update_user(w)
  PROVE  Types'
<1>1. PICK k \in DOMAIN pipe[w] :
        /\ Executes(w, k, "update_pfp")
        /\ LET c == Executed(w, k) IN
           /\ pfp' = IF row[c.hash] = 0 THEN pfp ELSE [pfp EXCEPT ![c.arg] = c.hash]
           /\ Result(w, k, [c EXCEPT !.ok = row[c.hash] > 0])
  BY DEF db_async_update_user
<1>2. PICK c : c = Executed(w, k)  OBVIOUS
<1>3. c \in GoodQuery /\ c.op = "update_pfp"  BY <1>1, <1>2, ExecutedTypes
<1>4. c.arg \in Users /\ c.hash \in Hash /\ row[c.hash] \in Nat
  BY <1>3 DEF GoodQuery, Hash, Types
<1>5. PICK b : b = (row[c.hash] > 0)  OBVIOUS
<1>. b \in BOOLEAN  BY <1>4, <1>5
<1>6. pipe' \in [Workers -> Seq(Chains)]  BY <1>1, <1>2, <1>3, <1>5, ResultTypes DEF GoodQuery, Query
<1>7. QED  BY <1>1, <1>2, <1>4, <1>6 DEF db_async_update_user, Types, hist, fault

LEMMA DeleteMsgTypes ==
  ASSUME Types, NEW w \in Workers, db_async_delete_msg(w)
  PROVE  Types'
<1>1. PICK k \in DOMAIN pipe[w] :
        /\ Executes(w, k, "delete_msg")
        /\ LET c == Executed(w, k) IN
           \/ /\ msg' = [msg EXCEPT ![c.arg] = [@ EXCEPT !.life = "gone"]]
              /\ Result(w, k, [c EXCEPT !.files = msg[c.arg].files])
           \/ /\ Result(w, k, [c EXCEPT !.ok = FALSE])
              /\ UNCHANGED msg
  BY DEF db_async_delete_msg
<1>2. PICK c : c = Executed(w, k)  OBVIOUS
<1>3. c \in GoodQuery /\ c.op = "delete_msg"  BY <1>1, <1>2, ExecutedTypes
<1>4. msg[c.arg] \in Msg /\ msg[c.arg].files \in [Index -> Hash]  BY <1>3 DEF Types, Msg, GoodQuery
<1>5. [c EXCEPT !.ok = FALSE] \in GoodQuery /\ [c EXCEPT !.files = msg[c.arg].files] \in GoodQuery
  BY <1>3, <1>4, FilesAreSeq DEF GoodQuery, Query
<1>6. [msg[c.arg] EXCEPT !.life = "gone"] \in Msg  BY <1>4 DEF Msg
<1>7. msg' \in [Msgs -> Msg]  BY <1>1, <1>2, <1>6 DEF Types
<1>8. QED  BY <1>1, <1>2, <1>5, <1>7, ResultTypes DEF db_async_delete_msg, Types, hist, fault

LEMMA LiveMsgsFinite == IsFiniteSet(LiveMsgs) /\ Cardinality(LiveMsgs) \in Nat
BY FS_CardinalityType, MsgsAssumption, FS_Subset DEF LiveMsgs

LEMMA AttachmentsTypes ==
  ASSUME Types, NEW ms \in SetToSeqs(LiveMsgs)
  PROVE  Attachments(ms) \in Seq(Hash)
<1>1. PICK n \in Nat : n = Cardinality(LiveMsgs)  BY LiveMsgsFinite
<1>2. ms \in [1 .. n -> LiveMsgs]  BY <1>1 DEF SetToSeqs
<1>3. Len(ms) = n  BY <1>2, LenProperties
<1>4. Total \in Nat \ {0}  BY TotalAssumption
<1>5. \A j \in 1 .. Total * n :
        ((j - 1) \div Total) + 1 \in 1 .. n /\ ((j - 1) % Total) + 1 \in 1 .. Total
  BY <1>4
<1>6. \A j \in 1 .. Total * n :
        msg[ms[((j - 1) \div Total) + 1]].files[((j - 1) % Total) + 1] \in Hash
  <2> TAKE j \in 1 .. Total * n
  <2>1. PICK a \in 1 .. n : a = ((j - 1) \div Total) + 1  BY <1>5
  <2>2. PICK b \in 1 .. Total : b = ((j - 1) % Total) + 1  BY <1>5
  <2>3. msg[ms[a]].files \in [1 .. Total -> Hash]  BY <1>2 DEF Types, Msg, Index, LiveMsgs
  <2>4. QED  BY <2>1, <2>2, <2>3
<1>7. PICK s : s = Attachments(ms)  OBVIOUS
<1>8. Total * n \in Nat  BY <1>4
<1>9. QED  BY <1>3, <1>6, <1>7, <1>8, IsASeq DEF Attachments

LEMMA SelectAttachsTypes ==
  ASSUME Types, NEW w \in Workers, SelectAttachs(w)
  PROVE  Types'
<1>1. PICK k \in DOMAIN pipe[w] :
        /\ Executes(w, k, "select_attachs")
        /\ \E ms \in SetToSeqs(LiveMsgs) :
             Result(w, k, [Executed(w, k) EXCEPT !.files = Attachments(ms)])
  BY DEF SelectAttachs
<1>2. PICK ms \in SetToSeqs(LiveMsgs) :
        Result(w, k, [Executed(w, k) EXCEPT !.files = Attachments(ms)])
  BY <1>1
<1>3. PICK c : c = Executed(w, k)  OBVIOUS
<1>4. c \in GoodQuery /\ c.op = "select_attachs"  BY <1>1, <1>3, ExecutedTypes
<1>5. PICK fs : fs = Attachments(ms)  OBVIOUS
<1>6. fs \in Seq(Hash)  BY <1>5, AttachmentsTypes
<1>7. [c EXCEPT !.files = fs] \in GoodQuery  BY <1>4, <1>6 DEF GoodQuery, Query
<1>8. QED  BY <1>1, <1>2, <1>3, <1>5, <1>7, ResultTypes DEF SelectAttachs, Types, db, hist, fault

LEMMA DeleteMsgsTypes ==
  ASSUME Types, NEW w \in Workers, DeleteMsgs(w)
  PROVE  Types'
<1>1. PICK k \in DOMAIN pipe[w] :
        Executes(w, k, "delete_msgs") /\ Result(w, k, Executed(w, k))
  BY DEF DeleteMsgs
<1>2. pipe' \in [Workers -> Seq(Chains)]  BY <1>1, ResultTypes, ExecutedTypes
<1>3. ASSUME NEW m \in Msgs
      PROVE  [msg[m] EXCEPT !.life = IF msg[m].life = "live" THEN "gone" ELSE msg[m].life] \in Msg
  <2>1. msg[m] \in Msg  BY DEF Types
  <2>2. PICK x : x = IF msg[m].life = "live" THEN "gone" ELSE msg[m].life  OBVIOUS
  <2>3. x \in {"none", "live", "gone"}  BY <2>1, <2>2 DEF Msg
  <2>4. [msg[m] EXCEPT !.life = x] \in Msg  BY <2>1, <2>3 DEF Msg
  <2>5. QED  BY <2>2, <2>4
<1>4. msg' \in [Msgs -> Msg]  BY <1>3 DEF DeleteMsgs
<1>5. QED  BY <1>2, <1>4 DEF DeleteMsgs, Types, hist, fault

-----------------------------------------------------------------------------
(* The callbacks keep the types.                                             *)

LEMMA EmptyTypes == <<>> \in Seq(GoodQuery)
BY EmptySeq

LEMMA FileCallbackTypes ==
  ASSUME Types, NEW w \in Workers,
         do_save_file_img(w) \/ do_delete_file(w) \/ DiskFails(w) \/ NoCallback(w)
  PROVE  Types'
<1>1. pipe' \in [Workers -> Seq(Chains)]
  BY EmptyTypes, RanTypes DEF do_save_file_img, do_delete_file, DiskFails, NoCallback, Running
<1>2. Running(w, "insert_file") => This(w).hash \in Hashes
  BY ThisTypes DEF GoodQuery
<1>3. Running(w, "release") => This(w).hash \in Hashes \cup {None}
  BY ThisTypes DEF GoodQuery, Query, Hash
<1>4. CASE do_save_file_img(w)
  BY <1>1, <1>2, <1>4 DEF do_save_file_img, Types, db, hist, fault
<1>5. CASE do_delete_file(w)
  BY <1>1, <1>5 DEF do_delete_file, Types, db, hist, fault
<1>6. CASE DiskFails(w)
  BY <1>1, <1>2, <1>3, <1>6, MaxFaultsAssumption DEF DiskFails, Types, db, hist
<1>7. CASE NoCallback(w)
  BY <1>1, <1>7 DEF NoCallback, Types, db, hist, fault
<1>8. QED  BY <1>4, <1>5, <1>6, <1>7

LEMMA InsertAfterTypes ==
  ASSUME Types, NEW w \in Workers, do_insert_msg_after(w)
  PROVE  Types'
<1>1. CASE UsesFreed  BY <1>1, UsesFreedTypes
<1>2. CASE ~UsesFreed
  <2>1. PICK t : t = This(w).arg  OBVIOUS
  <2>2. Running(w, "insert_msg") /\ pipe[w] # <<>>  BY DEF do_insert_msg_after, Running
  <2>3. token' = [token EXCEPT ![t] = [@ EXCEPT !.life = "freed"]] /\ Ran(w, <<>>)
    BY <1>2, <2>1 DEF do_insert_msg_after
  <2>4. token[t] \in GoodToken  BY <2>1, <2>2, ThisTypes DEF Types, GoodQuery
  <2>5. token' \in [Tokens -> GoodToken]  BY <2>3, <2>4 DEF Types, GoodToken, Token
  <2>6. QED
    BY <1>2, <2>2, <2>3, <2>5, EmptyTypes, RanTypes DEF do_insert_msg_after, Types, db, hist, fault
<1>3. QED  BY <1>1, <1>2

LEMMA PfpResultTypes ==
  ASSUME Types, NEW w \in Workers, OwnerTold(w)
  PROVE  Types'
<1>1. Running(w, "update_pfp") /\ pipe[w] # <<>>  BY DEF OwnerTold, Running
<1>2. This(w).arg \in Users /\ This(w).hash \in Hash
  BY <1>1, ThisTypes DEF GoodQuery, Hash
<1>3. PICK u \in Users : u = This(w).arg  BY <1>2
<1>4. server_delete_file(cached[u]) \in Seq(GoodQuery)  BY DeleteTypes DEF Types
<1>5. pipe' \in [Workers -> Seq(Chains)]
  BY <1>1, <1>3, <1>4, EmptyTypes, RanTypes DEF OwnerTold
<1>6. QED  BY <1>2, <1>3, <1>5 DEF OwnerTold, Types, db, hist, fault

LEMMA DeleteResultTypes ==
  ASSUME Types, NEW w \in Workers, delete_msg_result(w) \/ delete_group_result(w)
  PROVE  Types'
<1>1. PICK op : Running(w, op) /\ pipe[w] # <<>>
  BY DEF delete_msg_result, delete_group_result, Running
<1>2. server_delete_attachments_json(This(w).files) \in Seq(GoodQuery)
  BY <1>1, DeleteAllTypes, ThisTypes DEF GoodQuery, Query
<1>3. pipe' \in [Workers -> Seq(Chains)]
  BY <1>1, <1>2, EmptyTypes, RanTypes DEF delete_msg_result, delete_group_result
<1>4. QED  BY <1>3 DEF delete_msg_result, delete_group_result, Types, db, hist, fault

LEMMA CrashTypes == Types /\ Crash => Types'
<1> SUFFICES ASSUME Types, Crash PROVE Types'  OBVIOUS
<1>1. ASSUME NEW t \in Tokens
      PROVE  [token[t] EXCEPT !.life = IF token[t].life = "live" THEN "freed"
                                       ELSE token[t].life] \in GoodToken
  <2>1. token[t] \in GoodToken  BY DEF Types
  <2>2. PICK x : x = IF token[t].life = "live" THEN "freed" ELSE token[t].life  OBVIOUS
  <2>3. x \in {"none", "live", "freed"}  BY <2>1, <2>2 DEF GoodToken, Token
  <2>4. [token[t] EXCEPT !.life = x] \in GoodToken  BY <2>1, <2>3 DEF GoodToken, Token
  <2>5. QED  BY <2>2, <2>4
<1>2. posted' \in [Tokens -> SUBSET Index]  BY DEF Crash, Types
<1>3. pipe' \in [Workers -> Seq(Chains)]  BY EmptySeq DEF Crash
<1>4. task' \in [Workers -> Task]  BY IdleTypes DEF Crash
<1>5. doubt' \subseteq Hashes  BY DEF Crash, Interrupted, Types
<1>6. faults' \in 0 .. MaxFaults  BY MaxFaultsAssumption DEF Crash, Types
<1>7. QED  BY <1>1, <1>2, <1>3, <1>4, <1>5, <1>6 DEF Crash, Types, db

LEMMA InitTypes == Init => Types
<1> SUFFICES ASSUME Init PROVE Types  OBVIOUS
<1>1. token \in [Tokens -> GoodToken]  BY IndexFacts DEF Init, GoodToken, Token
<1>2. msg \in [Msgs -> Msg]  BY IndexFacts DEF Init, Msg
<1>3. pipe \in [Workers -> Seq(Chains)] /\ task \in [Workers -> Task]
  BY IdleTypes, EmptySeq DEF Init
<1>4. faults \in 0 .. MaxFaults  BY MaxFaultsAssumption DEF Init
<1>5. QED  BY <1>1, <1>2, <1>3, <1>4 DEF Init, Types, Hash

LEMMA NextTypes == Types /\ [Next]_vars => Types'
<1> SUFFICES ASSUME Types, [Next]_vars PROVE Types'  OBVIOUS
<1>1. CASE Crash  BY <1>1, CrashTypes
<1>2. CASE UNCHANGED vars  BY <1>2 DEF vars, Types
<1>3. ASSUME NEW w \in Workers, NEW t \in Tokens,
             \/ server_new_upload_token(w, t) \/ timer_ut(w, t)
             \/ \E h \in Hashes : PostPfp(w, t, h) \/ \E i \in Index : PostAttach(w, t, i, h)
      PROVE  Types'
  BY <1>3, TokenTypes, PostPfpTypes, PostAttachTypes
<1>4. ASSUME NEW w \in Workers, SaveAttach(w) \/ CountAttach(w) \/ TestAttach(w)
      PROVE  Types'
  BY <1>4, SaveAttachTypes, CountAttachTypes, TestAttachTypes
<1>5. ASSUME NEW w \in Workers,
             (\E m \in Msgs : server_delete_group_msg(w, m)) \/ db_async_delete_group(w)
      PROVE  Types'
  BY <1>5, AskTypes
<1>6. ASSUME NEW w \in Workers,
             \/ db_async_insert_userfile(w) \/ db_async_userfile_refcount(w)
             \/ db_async_delete_userfile(w) \/ db_async_insert_group_msg(w)
             \/ db_async_update_user(w) \/ db_async_delete_msg(w)
             \/ SelectAttachs(w) \/ DeleteMsgs(w)
      PROVE  Types'
  BY <1>6, CountTypes, InsertMsgTypes, UpdateUserTypes, DeleteMsgTypes, SelectAttachsTypes,
     DeleteMsgsTypes
<1>7. ASSUME NEW w \in Workers,
             \/ do_save_file_img(w) \/ do_delete_file(w) \/ NoCallback(w) \/ DiskFails(w)
             \/ do_insert_msg_after(w) \/ update_pfp_result(w)
             \/ delete_msg_result(w) \/ delete_group_result(w)
      PROVE  Types'
  BY <1>7, FileCallbackTypes, InsertAfterTypes, PfpResultTypes, DeleteResultTypes, UsesFreedTypes
  DEF update_pfp_result, OwnerGone
<1>8. QED  BY <1>1, <1>2, <1>3, <1>4, <1>5, <1>6, <1>7 DEF Next

(* Every query in a pipeline is one of the statements, with the hash, token, *)
(* user or message it is about, and the state of tokens, files and messages  *)
(* has its types (db_pipeline.c, user_upload.c, user_file.c), for any number *)
(* of workers.                                                               *)
THEOREM TypeCorrect == Spec => []TypeOK
<1>1. Spec => []Types  BY InitTypes, NextTypes, PTL DEF Spec
<1>2. QED  BY <1>1, TypesImply, PTL

-----------------------------------------------------------------------------
(* Counting the attachments of a message, with one worker                    *)

LEMMA IndexCount ==
  /\ IsFiniteSet(Index) /\ Cardinality(Index) = Total
  /\ \A p \in SUBSET Index :
       /\ IsFiniteSet(p) /\ Cardinality(p) \in Nat
       /\ Cardinality(p) >= Total <=> p = Index
       /\ \A i \in Index \ p : Cardinality(p \cup {i}) = Cardinality(p) + 1 /\ p # Index
<1>1. IsFiniteSet(Index) /\ Cardinality(Index) = Total  BY TotalAssumption, FS_Interval DEF Index
<1>2. ASSUME NEW p \in SUBSET Index
      PROVE  /\ IsFiniteSet(p) /\ Cardinality(p) \in Nat
             /\ Cardinality(p) >= Total <=> p = Index
             /\ \A i \in Index \ p : Cardinality(p \cup {i}) = Cardinality(p) + 1 /\ p # Index
  BY <1>1, FS_Subset, FS_CardinalityType, TotalAssumption, FS_AddElement
<1>3. QED  BY <1>1, <1>2

LEMMA KeptCounts ==
  ASSUME Types, Counts, UNCHANGED <<task, posted, sent, ub>>, \A t \in Tokens : Kept(t)
  PROVE  Counts'
<1>1. SUFFICES ASSUME ~ub, NEW t \in Tokens, NEW w \in Workers
               PROVE  Sound(t, token'[t], posted[t], sent[t], task[w])
  BY DEF Counts
<1>2. Sound(t, token[t], posted[t], sent[t], task[w])  BY <1>1 DEF Counts
<1>3. Kept(t)  OBVIOUS
<1>4. CASE token'[t].life = "live" /\ token[t].life = "none"
  BY <1>2, <1>3, <1>4, FS_EmptySet DEF Sound, Kept
<1>5. CASE ~(token'[t].life = "live" /\ token[t].life = "none")
  BY <1>2, <1>3, <1>5 DEF Sound, Kept
<1>6. QED  BY <1>4, <1>5

LEMMA TokensKept ==
  ASSUME Types, NEW w \in Workers, NEW t \in Tokens,
         server_new_upload_token(w, t) \/ timer_ut(w, t) \/ \E h \in Hashes : PostPfp(w, t, h)
  PROVE  \A v \in Tokens : Kept(v)
<1>1. token[t] \in GoodToken /\ token \in [Tokens -> GoodToken]  BY DEF Types
<1>2. CASE token' = [token EXCEPT ![t] = [@ EXCEPT !.life = "live"]] /\ token[t].life = "none"
  BY <1>1, <1>2 DEF Kept, GoodToken, Token
<1>3. CASE token' = [token EXCEPT ![t] = [@ EXCEPT !.life = "freed"]]
  BY <1>1, <1>3 DEF Kept, GoodToken, Token
<1>4. ASSUME NEW u \in Users, token[t].life = "none",
             token' = [token EXCEPT ![t] = [@ EXCEPT !.life = "live", !.type = "pfp", !.user = u]]
      PROVE  \A v \in Tokens : Kept(v)
  BY <1>1, <1>4 DEF Kept, GoodToken, Token
<1>5. QED  BY <1>2, <1>3, <1>4 DEF server_new_upload_token, timer_ut, PostPfp

LEMMA PostAttachCounts ==
  ASSUME Types, Counts, OneWorker, NEW w \in Workers, NEW t \in Tokens, NEW i \in Index,
         NEW h \in Hashes, PostAttach(w, t, i, h)
  PROVE  Counts'
<1>1. SUFFICES ASSUME ~ub, NEW v \in Tokens
               PROVE  Sound(v, token[v], posted'[v], sent[v], task'[w])
  BY DEF Counts, PostAttach, OneWorker
<1>2. Sound(v, token[v], posted[v], sent[v], task[w])  BY <1>1 DEF Counts
<1>3. task[w].token = None /\ None # v /\ task[w].token # v
  BY IdleTypes, NoneAssumption DEF PostAttach, Free
<1>4. task'[w].token = t /\ task'[w].step = "save"  BY DEF PostAttach, Idle, Types
<1>5. CASE v = t
  BY <1>2, <1>3, <1>4, <1>5, IndexCount DEF PostAttach, Types, GoodToken, Token, Sound
<1>6. CASE v # t  BY <1>2, <1>3, <1>4, <1>6 DEF PostAttach, Types, Sound
<1>7. QED  BY <1>5, <1>6

LEMMA UsesFreedCounts == UsesFreed => Counts'
BY DEF UsesFreed, Counts

LEMMA SaveAttachCounts ==
  ASSUME Types, Counts, OneWorker, NEW w \in Workers, SaveAttach(w)
  PROVE  Counts'
<1>1. CASE UsesFreed  BY <1>1, UsesFreedCounts
<1>2. CASE ~UsesFreed
  <2>1. PICK t : t = task[w].token  OBVIOUS
  <2>2. t \in Tokens /\ token[t] \in GoodToken /\ task[w] \in Task /\ task[w].step = "save"
    BY <2>1, TaskFacts DEF SaveAttach
  <2>3. PICK fs : fs = [token[t].files EXCEPT ![task[w].index] = task[w].hash]  OBVIOUS
  <2>4. /\ token[t].life = "live"
        /\ token' = [token EXCEPT ![t] = [token[t] EXCEPT !.files = fs]]
        /\ task' = [task EXCEPT ![w] = [@ EXCEPT !.step = "count", !.read = token[t].current]]
        /\ UNCHANGED <<posted, sent, ub>>
    BY <1>2, <2>1, <2>3 DEF SaveAttach, hist
  <2>5. \A v \in Tokens : token'[v].current = token[v].current /\ token'[v].life = token[v].life
    BY <2>2, <2>4 DEF Types, GoodToken, Token
  <2>6. SUFFICES ASSUME ~ub, NEW v \in Tokens
                 PROVE  Sound(v, token'[v], posted[v], sent[v], task'[w])
    BY <2>4 DEF Counts, OneWorker
  <2>7. Sound(v, token[v], posted[v], sent[v], task[w])  BY <2>6 DEF Counts
  <2>8. v = t => token[t].current + 1 = Cardinality(posted[t])
    BY <2>1, <2>2, <2>4, <2>7 DEF Sound
  <2>9. QED  BY <2>1, <2>2, <2>4, <2>5, <2>7, <2>8 DEF Sound, Types, Task
<1>3. QED  BY <1>1, <1>2

LEMMA CountAttachCounts ==
  ASSUME Types, Counts, OneWorker, NEW w \in Workers, CountAttach(w)
  PROVE  Counts'
<1>1. CASE UsesFreed  BY <1>1, UsesFreedCounts
<1>2. CASE ~UsesFreed
  <2>1. PICK t : t = task[w].token  OBVIOUS
  <2>2. t \in Tokens /\ token[t] \in GoodToken /\ task[w] \in Task /\ task[w].step = "count"
        /\ task[w].read \in Nat
    BY <2>1, TaskFacts DEF CountAttach
  <2>3. /\ token[t].life = "live"
        /\ token' = [token EXCEPT ![t] = [@ EXCEPT !.current = task[w].read + 1]]
        /\ task' = [task EXCEPT ![w] = [@ EXCEPT !.step = "test"]]
        /\ UNCHANGED <<posted, sent, ub>>
    BY <1>2, <2>1 DEF CountAttach, hist
  <2>4. task'[w].step = "test" /\ task'[w].read = task[w].read /\ task'[w].token = t
    BY <2>1, <2>2, <2>3 DEF Types, Task
  <2>5. token'[t].current = task[w].read + 1 /\ token'[t].life = "live"
        /\ \A v \in Tokens : v # t => token'[v] = token[v]
    BY <2>2, <2>3 DEF Types, GoodToken, Token
  <2>6. SUFFICES ASSUME ~ub, NEW v \in Tokens
                 PROVE  Sound(v, token'[v], posted[v], sent[v], task'[w])
    BY <2>3 DEF Counts, OneWorker
  <2>7. Sound(v, token[v], posted[v], sent[v], task[w])  BY <2>6 DEF Counts
  <2>8. CASE v = t  BY <2>1, <2>2, <2>4, <2>5, <2>7, <2>8 DEF Sound
  <2>9. CASE v # t  BY <2>1, <2>4, <2>5, <2>7, <2>9 DEF Sound
  <2>10. QED  BY <2>8, <2>9
<1>3. QED  BY <1>1, <1>2

LEMMA TestAttachCounts ==
  ASSUME Types, Counts, OneWorker, NEW w \in Workers, TestAttach(w)
  PROVE  Counts'
<1>1. CASE UsesFreed  BY <1>1, UsesFreedCounts
<1>2. CASE ~UsesFreed
  <2>1. PICK t : t = task[w].token  OBVIOUS
  <2>2. t \in Tokens /\ token[t] \in GoodToken /\ task[w] \in Task /\ task[w].step = "test"
        /\ task[w].read \in Nat
    BY <2>1, TaskFacts DEF TestAttach
  <2>3. ~ub /\ token[t].life = "live"  BY <1>2, <2>1 DEF TestAttach
  <2>4. PICK current \in {task[w].read + 1, token[t].current} :
          sent' = IF AllReceived(current) THEN [sent EXCEPT ![t] = @ + 1] ELSE sent
    BY <1>2, <2>1 DEF TestAttach
  <2>5. task' = [task EXCEPT ![w] = Idle] /\ UNCHANGED <<token, posted, ub>>
    BY <1>2 DEF TestAttach
  <2>6. Sound(t, token[t], posted[t], sent[t], task[w])  BY <2>2, <2>3 DEF Counts
  <2>7. current = Cardinality(posted[t]) /\ sent[t] = 0
    BY <2>1, <2>2, <2>3, <2>4, <2>6 DEF GoodToken, Token, Sound
  <2>8. AllReceived(current) <=> posted[t] = Index  BY <2>2, <2>7, IndexCount DEF AllReceived, Types
  <2>9. sent'[t] = (IF posted[t] = Index THEN 1 ELSE 0)
         /\ \A v \in Tokens : v # t => sent'[v] = sent[v]
    BY <2>2, <2>4, <2>7, <2>8 DEF Types
  <2>10. task'[w].token \notin Tokens /\ task'[w].step = "idle"
    BY <2>5, IdleTypes, NoneAssumption DEF Types
  <2>11. SUFFICES ASSUME NEW v \in Tokens
                  PROVE  Sound(v, token[v], posted[v], sent'[v], task'[w])
    BY <2>5 DEF Counts, OneWorker
  <2>12. CASE v = t
    <3>1. token[t].current = Cardinality(posted[t])
      BY <2>1, <2>2, <2>3, <2>6 DEF GoodToken, Token, Sound
    <3>2. QED  BY <2>2, <2>3, <2>9, <2>10, <2>12, <3>1 DEF Sound, GoodToken, Token
  <2>13. CASE v # t  BY <2>1, <2>3, <2>9, <2>10, <2>13 DEF Sound, Counts
  <2>14. QED  BY <2>12, <2>13
<1>3. QED  BY <1>1, <1>2

LEMMA CrashCounts ==
  ASSUME Types, Counts, OneWorker, Crash
  PROVE  Counts'
<1>1. SUFFICES ASSUME NEW v \in Tokens, NEW w \in Workers
               PROVE  Sound(v, token'[v], posted'[v], sent[v], task'[w])
  BY DEF Counts, Crash
<1>2. posted'[v] = IF task[w].token = v THEN {} ELSE posted[v]
  BY DEF Crash, OneWorker
<1>3. task'[w].token # v /\ task'[w].step = "idle"  BY IdleTypes, NoneAssumption DEF Crash
<1>4. token'[v].life # "live" /\ token'[v].current = token[v].current
      /\ (token'[v].life = "none" => token[v].life = "none")
  BY DEF Types, Crash, GoodToken, Token
<1>5. {} # Index  BY IndexFacts
<1>6. QED  BY <1>2, <1>3, <1>4, <1>5 DEF Sound, Counts, Crash

LEMMA InsertAfterCounts ==
  ASSUME Types, Counts, NEW w \in Workers, do_insert_msg_after(w)
  PROVE  Counts'
<1>1. CASE UsesFreed  BY <1>1, UsesFreedCounts
<1>2. CASE ~UsesFreed
  <2>1. PICK t : t = This(w).arg  OBVIOUS
  <2>2. t \in Tokens  BY <2>1, ThisTypes DEF GoodQuery, do_insert_msg_after
  <2>3. token' = [token EXCEPT ![t] = [@ EXCEPT !.life = "freed"]]
        /\ UNCHANGED <<task, posted, sent, ub>>
    BY <1>2, <2>1 DEF do_insert_msg_after, hist
  <2>4. QED  BY <2>2, <2>3, KeptCounts DEF Kept, Types, GoodToken, Token
<1>3. QED  BY <1>1, <1>2

LEMMA OthersCounts ==
  ASSUME Types, Counts, UNCHANGED <<token, task, posted, sent, ub>>
  PROVE  Counts'
BY DEF Counts

LEMMA NextCounts == OneWorker /\ Types /\ Counts /\ [Next]_vars => Counts'
<1> SUFFICES ASSUME OneWorker, Types, Counts, [Next]_vars PROVE Counts'  OBVIOUS
<1>1. CASE Crash  BY <1>1, CrashCounts
<1>2. CASE UNCHANGED vars  BY <1>2, OthersCounts DEF vars
<1>3. ASSUME NEW w \in Workers, NEW t \in Tokens,
             \/ server_new_upload_token(w, t) \/ timer_ut(w, t)
             \/ \E h \in Hashes : PostPfp(w, t, h)
      PROVE  Counts'
  BY <1>3, TokensKept, KeptCounts DEF server_new_upload_token, timer_ut, PostPfp, hist
<1>4. ASSUME NEW w \in Workers, NEW t \in Tokens, NEW h \in Hashes, NEW i \in Index,
             PostAttach(w, t, i, h)
      PROVE  Counts'
  BY <1>4, PostAttachCounts
<1>5. ASSUME NEW w \in Workers, SaveAttach(w) \/ CountAttach(w) \/ TestAttach(w)
      PROVE  Counts'
  BY <1>5, SaveAttachCounts, CountAttachCounts, TestAttachCounts
<1>6. ASSUME NEW w \in Workers,
             (\E m \in Msgs : server_delete_group_msg(w, m)) \/ db_async_delete_group(w)
      PROVE  Counts'
  BY <1>6, OthersCounts DEF server_delete_group_msg, db_async_delete_group, hist
<1>7. ASSUME NEW w \in Workers,
             \/ db_async_insert_userfile(w) \/ db_async_userfile_refcount(w)
             \/ db_async_delete_userfile(w) \/ db_async_insert_group_msg(w)
             \/ db_async_update_user(w) \/ db_async_delete_msg(w)
             \/ SelectAttachs(w) \/ DeleteMsgs(w)
      PROVE  Counts'
  <2>1. UNCHANGED <<token, task, posted, sent, ub>>
    BY <1>7 DEF db_async_insert_userfile, db_async_userfile_refcount, db_async_delete_userfile,
                db_async_insert_group_msg, db_async_update_user, db_async_delete_msg,
                SelectAttachs, DeleteMsgs, hist
  <2>2. QED  BY <2>1, OthersCounts
<1>8. ASSUME NEW w \in Workers,
             \/ do_save_file_img(w) \/ do_delete_file(w) \/ NoCallback(w) \/ DiskFails(w)
             \/ OwnerTold(w) \/ delete_msg_result(w) \/ delete_group_result(w)
      PROVE  Counts'
  <2>1. UNCHANGED <<token, task, posted, sent, ub>>
    BY <1>8 DEF do_save_file_img, do_delete_file, NoCallback, DiskFails, OwnerTold,
                delete_msg_result, delete_group_result, hist
  <2>2. QED  BY <2>1, OthersCounts
<1>9. ASSUME NEW w \in Workers, do_insert_msg_after(w) \/ OwnerGone(w)
      PROVE  Counts'
  BY <1>9, InsertAfterCounts, UsesFreedCounts DEF OwnerGone
<1>10. QED
  BY <1>1, <1>2, <1>3, <1>4, <1>5, <1>6, <1>7, <1>8, <1>9 DEF Next, update_pfp_result

LEMMA InitCounts == Init => Counts
<1> SUFFICES ASSUME Init, NEW t \in Tokens, NEW w \in Workers
             PROVE  Sound(t, token[t], posted[t], sent[t], task[w])
  BY DEF Counts
<1>1. task[w].token # t  BY IdleTypes, NoneAssumption DEF Init
<1>2. {} # Index  BY IndexFacts
<1>3. QED  BY <1>1, <1>2 DEF Sound, Init

-----------------------------------------------------------------------------
(* Counting over families of sets                                            *)

LEMMA InPairs ==
  ASSUME NEW G
  PROVE  /\ \A z \in Pairs(G) : z = <<z[1], z[2]>> /\ z[1] \in DOMAIN G /\ z[2] \in G[z[1]]
         /\ \A k \in DOMAIN G : \A x \in G[k] : <<k, x>> \in Pairs(G)
<1>1. ASSUME NEW k \in DOMAIN G, NEW x \in G[k]
      PROVE  <<k, x>> \in Pairs(G)
  BY DEF Pairs
<1>2. QED  BY <1>1 DEF Pairs

LEMMA PairsFinite ==
  ASSUME NEW G, IsFamily(G)
  PROVE  IsFiniteSet(Pairs(G)) /\ Size(G) \in Nat
<1>1. PICK D : D = DOMAIN G  OBVIOUS
<1>2. PICK S : S = {G[k] : k \in D}  OBVIOUS
<1>3. IsFiniteSet(S)
  <2>1. PICK f : f = [k \in D |-> G[k]]  OBVIOUS
  <2>2. f \in Surjection(D, S)  BY <1>2, <2>1 DEF Surjection
  <2>3. QED  BY <1>1, <2>2, FS_Surjection DEF IsFamily
<1>4. IsFiniteSet(UNION S)  BY <1>1, <1>2, <1>3, FS_UNION DEF IsFamily
<1>5. Pairs(G) \in SUBSET (D \X UNION S)  BY <1>1, <1>2 DEF Pairs
<1>6. IsFiniteSet(Pairs(G))  BY <1>1, <1>4, <1>5, FS_Subset, FS_Product DEF IsFamily
<1>7. QED  BY <1>6, FS_CardinalityType DEF Size

LEMMA SliceSize ==
  ASSUME NEW k, NEW T, IsFiniteSet(T)
  PROVE  IsFiniteSet({k} \X T) /\ Cardinality({k} \X T) = Cardinality(T)
<1>1. IsFiniteSet({k}) /\ Cardinality({k}) = 1  BY FS_Singleton
<1>2. Cardinality(T) \in Nat  BY FS_CardinalityType
<1>3. QED  BY <1>1, <1>2, FS_Product

LEMMA SizeSplit ==
  ASSUME NEW G, IsFamily(G), NEW k \in DOMAIN G
  PROVE  /\ IsFiniteSet(Without(G, k)) /\ Cardinality(Without(G, k)) \in Nat
         /\ Cardinality(G[k]) \in Nat
         /\ Size(G) = Cardinality(Without(G, k)) + Cardinality(G[k])
<1>1. PICK S : S = {k} \X G[k]  OBVIOUS
<1>2. IsFiniteSet(S) /\ Cardinality(S) = Cardinality(G[k]) /\ Cardinality(G[k]) \in Nat
  BY <1>1, SliceSize, FS_CardinalityType DEF IsFamily
<1>3. IsFiniteSet(Without(G, k)) /\ Cardinality(Without(G, k)) \in Nat
  BY PairsFinite, FS_Subset, FS_CardinalityType DEF Without
<1>4. Pairs(G) = Without(G, k) \cup S
  <2>1. ASSUME NEW z \in Pairs(G) PROVE z \in Without(G, k) \cup S  BY <1>1, InPairs DEF Without
  <2>2. ASSUME NEW z \in S PROVE z \in Pairs(G)  BY <1>1, InPairs
  <2>3. QED  BY <2>1, <2>2 DEF Without
<1>5. Without(G, k) \cap S = {}  BY <1>1 DEF Without
<1>6. Cardinality(Without(G, k) \cup S)
        = Cardinality(Without(G, k)) + Cardinality(S) - Cardinality(Without(G, k) \cap S)
  BY <1>2, <1>3, FS_Union
<1>7. Cardinality({}) = 0  BY FS_EmptySet
<1>8. QED  BY <1>2, <1>3, <1>4, <1>5, <1>6, <1>7 DEF Size

LEMMA SizeChange ==
  ASSUME NEW G, NEW H, IsFamily(G), IsFamily(H), DOMAIN G = DOMAIN H,
         NEW k \in DOMAIN G, \A j \in DOMAIN G : j # k => G[j] = H[j]
  PROVE  Exchanged(G, H, k)
<1>1. Without(G, k) = Without(H, k)
  <2>1. ASSUME NEW z \in Without(G, k) PROVE z \in Without(H, k)  BY InPairs DEF Without
  <2>2. ASSUME NEW z \in Without(H, k) PROVE z \in Without(G, k)  BY InPairs DEF Without
  <2>3. QED  BY <2>1, <2>2
<1>2. PICK n \in Nat : n = Cardinality(Without(G, k))  BY SizeSplit
<1>3. PICK a \in Nat : a = Cardinality(G[k])  BY SizeSplit
<1>4. PICK b \in Nat : b = Cardinality(H[k])  BY SizeSplit
<1>5. QED  BY <1>1, <1>2, <1>3, <1>4, SizeSplit DEF Exchanged

LEMMA SizeMono ==
  ASSUME NEW G, NEW H, IsFamily(H), DOMAIN G = DOMAIN H, \A k \in DOMAIN G : G[k] \subseteq H[k]
  PROVE  IsFamily(G) /\ Size(G) <= Size(H)
<1>1. Pairs(G) \in SUBSET Pairs(H)
  <2>1. ASSUME NEW z \in Pairs(G) PROVE z \in Pairs(H)  BY InPairs
  <2>2. QED  BY <2>1
<1>2. QED  BY <1>1, PairsFinite, FS_Subset DEF Size, IsFamily

LEMMA SizeEmpty ==
  ASSUME NEW G, \A k \in DOMAIN G : G[k] = {}
  PROVE  Size(G) = 0
BY FS_EmptySet, InPairs DEF Size

(* The family of a sequence that grows at its end, or loses its head.        *)
LEMMA SizeAppend ==
  ASSUME NEW n \in Nat, NEW G, NEW H, IsFamily(G), IsFamily(H),
         DOMAIN G = 1 .. n, DOMAIN H = 1 .. n + 1, \A k \in 1 .. n : H[k] = G[k]
  PROVE  Size(H) = Size(G) + Cardinality(H[n + 1])
<1>1. /\ n + 1 \in DOMAIN H /\ n + 1 \notin DOMAIN G
      /\ \A k \in DOMAIN H : k # n + 1 => k \in DOMAIN G
      /\ \A k \in DOMAIN G : k \in DOMAIN H
  OBVIOUS
<1>2. PICK m : m = n + 1  OBVIOUS
<1>3. Without(H, m) = Pairs(G)
  <2>1. ASSUME NEW z \in Without(H, m) PROVE z \in Pairs(G)
    <3>1. z = <<z[1], z[2]>> /\ z[1] \in DOMAIN H /\ z[2] \in H[z[1]] /\ z[1] # m
      BY InPairs DEF Without
    <3>2. z[1] \in DOMAIN G /\ z[2] \in G[z[1]]  BY <1>1, <1>2, <3>1
    <3>3. QED  BY <3>1, <3>2, InPairs
  <2>2. ASSUME NEW z \in Pairs(G) PROVE z \in Without(H, m)  BY <1>1, <1>2, InPairs DEF Without
  <2>3. QED  BY <2>1, <2>2
<1>4. QED  BY <1>1, <1>2, <1>3, SizeSplit DEF Size

LEMMA SizeTail ==
  ASSUME NEW n \in Nat, NEW G, NEW H, IsFamily(G), IsFamily(H),
         DOMAIN G = 1 .. n + 1, DOMAIN H = 1 .. n, \A k \in 1 .. n : H[k] = G[k + 1]
  PROVE  Size(G) = Size(H) + Cardinality(G[1])
<1>1. /\ 1 \in DOMAIN G
      /\ \A k \in DOMAIN H : k + 1 \in DOMAIN G /\ k + 1 # 1
      /\ \A k \in DOMAIN G : k # 1 => k - 1 \in DOMAIN H /\ (k - 1) + 1 = k
      /\ \A j, k \in DOMAIN H : j + 1 = k + 1 => j = k
  OBVIOUS
<1>2. PICK f : f = [z \in Pairs(H) |-> <<z[1] + 1, z[2]>>]  OBVIOUS
<1>3. ASSUME NEW z \in Pairs(H) PROVE f[z] \in Without(G, 1)  BY <1>1, <1>2, InPairs DEF Without
<1>4. ASSUME NEW y \in Pairs(H), NEW z \in Pairs(H), f[y] = f[z] PROVE y = z
  <2>1. y = <<y[1], y[2]>> /\ z = <<z[1], z[2]>> /\ y[1] \in DOMAIN H /\ z[1] \in DOMAIN H
    BY InPairs
  <2>2. y[1] + 1 = z[1] + 1 /\ y[2] = z[2]  BY <1>2, <1>4
  <2>3. QED  BY <1>1, <2>1, <2>2
<1>5. ASSUME NEW y \in Without(G, 1) PROVE \E z \in Pairs(H) : f[z] = y
  <2>1. y = <<y[1], y[2]>> /\ y[1] \in DOMAIN G /\ y[2] \in G[y[1]] /\ y[1] # 1
    BY InPairs DEF Without
  <2>2. y[1] - 1 \in DOMAIN H /\ (y[1] - 1) + 1 = y[1]  BY <1>1, <2>1
  <2>3. PICK z : z = <<y[1] - 1, y[2]>>  OBVIOUS
  <2>4. y[2] \in H[y[1] - 1]  BY <2>1, <2>2
  <2>5. z \in Pairs(H)  BY <2>2, <2>3, <2>4, InPairs
  <2>6. f[z] = <<(y[1] - 1) + 1, y[2]>>  BY <1>2, <2>3, <2>5
  <2>7. QED  BY <2>1, <2>2, <2>5, <2>6
<1>6. f \in Bijection(Pairs(H), Without(G, 1))
  BY <1>2, <1>3, <1>4, <1>5 DEF Bijection, Injection, Surjection, IsInjective
<1>7. QED  BY <1>1, <1>6, SizeSplit, PairsFinite, FS_Bijection DEF ExistsBijection, Size

-----------------------------------------------------------------------------
(* What ref_count has to cover                                               *)

LEMMA WhereFinite ==
  ASSUME NEW f \in Seq(Hash), NEW h
  PROVE  IsFiniteSet(Where(f, h)) /\ Cardinality(Where(f, h)) \in Nat
<1>1. PICK n \in Nat : n = Len(f)  BY LenProperties
<1>2. IsFiniteSet(1 .. n)  BY FS_Interval
<1>3. Where(f, h) \in SUBSET (1 .. n)  BY <1>1, LenProperties DEF Where
<1>4. QED  BY <1>2, <1>3, FS_Subset, FS_CardinalityType

LEMMA ChainFinite ==
  ASSUME NEW ch \in Chains, NEW h
  PROVE  /\ IsFiniteSet(Owed(ch, h)) /\ Cardinality(Owed(ch, h)) \in Nat
         /\ IsFiniteSet(Due(ch, h)) /\ Cardinality(Due(ch, h)) \in Nat
         /\ IsFiniteSet(Coming(ch, h)) /\ Cardinality(Coming(ch, h)) \in Nat
<1>1. PICK n \in Nat : n = Len(ch.cmds)  BY LenProperties DEF Chains
<1>2. ch.cmds \in Seq(GoodQuery) /\ 1 \in 1 .. n /\ (n = 3 => 3 \in 1 .. n)
  <2>1. ch.cmds \in Seq(GoodQuery)  BY DEF Chains
  <2>2. ch.ran \in Nat /\ ch.ran < n  BY <1>1 DEF Chains
  <2>3. QED  BY <2>1, <2>2
<1>3. \A j \in 1 .. n : ch.cmds[j].files \in Seq(Hash)
  BY <1>1, <1>2, ElementOfSeq DEF GoodQuery, Query
<1>4. IsFiniteSet({}) /\ IsFiniteSet({1}) /\ IsFiniteSet({3})  BY FS_EmptySet, FS_Singleton
<1>5. IsFiniteSet(Owed(ch, h))
  <2>1. {j \in 1 .. n : ch.done < j /\ ch.cmds[j].op = "release" /\ ch.cmds[j].hash = h}
          \in SUBSET (1 .. n)
    OBVIOUS
  <2>2. IsFiniteSet(1 .. n)  BY FS_Interval
  <2>3. IsFiniteSet({j \in 1 .. n : ch.done < j /\ ch.cmds[j].op = "release" /\ ch.cmds[j].hash = h})
    BY <2>1, <2>2, FS_Subset
  <2>4. IsFiniteSet(Where(ch.cmds[1].files, h))  BY <1>2, <1>3, WhereFinite
  <2>5. QED  BY <1>1, <1>4, <2>3, <2>4 DEF Owed
<1>6. IsFiniteSet(Due(ch, h))  BY <1>1, <1>2, <1>3, <1>4, WhereFinite DEF Due, Ends
<1>7. QED  BY <1>4, <1>5, <1>6, FS_CardinalityType DEF Coming

LEMMA QueueFamilies ==
  ASSUME NEW p \in Seq(Chains), NEW h, NEW K \in Nat
  PROVE  /\ IsFamily(OwedIn(p, h)) /\ Size(OwedIn(p, h)) \in Nat
         /\ IsFamily(DueIn(p, h, K)) /\ Size(DueIn(p, h, K)) \in Nat
         /\ IsFamily(ComingIn(p, h, K)) /\ Size(ComingIn(p, h, K)) \in Nat
<1>1. PICK n \in Nat : n = Len(p)  BY LenProperties
<1>2. IsFiniteSet(1 .. n) /\ IsFiniteSet({})  BY FS_Interval, FS_EmptySet
<1>3. \A k \in 1 .. n : IsFiniteSet(Owed(p[k], h)) /\ IsFiniteSet(Due(p[k], h))
                        /\ IsFiniteSet(Coming(p[k], h))
  BY <1>1, ChainFinite, ElementOfSeq
<1>4. IsFamily(OwedIn(p, h)) /\ IsFamily(DueIn(p, h, K)) /\ IsFamily(ComingIn(p, h, K))
  BY <1>1, <1>2, <1>3 DEF IsFamily, OwedIn, DueIn, ComingIn
<1>5. QED  BY <1>4, PairsFinite

LEMMA AppendSizes ==
  ASSUME NEW p \in Seq(Chains), NEW ch \in Chains, NEW h, NEW q, q = Append(p, ch)
  PROVE  AppendedSizes(p, q, ch, h)
<1>1. PICK n \in Nat : n = Len(p)  BY LenProperties
<1>2. q \in Seq(Chains) /\ Len(q) = n + 1 /\ q[n + 1] = ch /\ \A k \in 1 .. n : q[k] = p[k]
  BY <1>1, AppendProperties
<1>3. n + 1 \in 1 .. n + 1 /\ \A k \in 1 .. n : k \in 1 .. n + 1  OBVIOUS
<1>4. Size(OwedIn(q, h)) = Size(OwedIn(p, h)) + Cardinality(Owed(ch, h))
  <2>1. PICK G : G = OwedIn(p, h)  OBVIOUS
  <2>2. PICK H : H = OwedIn(q, h)  OBVIOUS
  <2>3. IsFamily(G) /\ IsFamily(H)  BY <1>2, <2>1, <2>2, QueueFamilies
  <2>4. DOMAIN G = 1 .. n /\ DOMAIN H = 1 .. n + 1 /\ H[n + 1] = Owed(ch, h)
    BY <1>1, <1>2, <1>3, <2>1, <2>2 DEF OwedIn
  <2>5. \A k \in 1 .. n : H[k] = G[k]  BY <1>1, <1>2, <1>3, <2>1, <2>2 DEF OwedIn
  <2>6. QED  BY <2>1, <2>2, <2>3, <2>4, <2>5, SizeAppend
<1>5. ASSUME NEW K \in Nat
      PROVE  IF n < K
             THEN /\ Size(DueIn(q, h, K)) = Size(DueIn(p, h, K)) + Cardinality(Due(ch, h))
                  /\ Size(ComingIn(q, h, K)) = Size(ComingIn(p, h, K)) + Cardinality(Coming(ch, h))
             ELSE /\ Size(DueIn(q, h, K)) = Size(DueIn(p, h, K))
                  /\ Size(ComingIn(q, h, K)) = Size(ComingIn(p, h, K))
  <2>1. PICK G : G = DueIn(p, h, K)  OBVIOUS
  <2>2. PICK H : H = DueIn(q, h, K)  OBVIOUS
  <2>3. IsFamily(G) /\ IsFamily(H) /\ Size(G) \in Nat  BY <1>2, <2>1, <2>2, QueueFamilies
  <2>4. /\ DOMAIN G = 1 .. n /\ DOMAIN H = 1 .. n + 1
        /\ H[n + 1] = IF n + 1 <= K THEN Due(ch, h) ELSE {}
        /\ \A k \in 1 .. n : H[k] = G[k]
    BY <1>1, <1>2, <1>3, <2>1, <2>2 DEF DueIn
  <2>5. Size(H) = Size(G) + Cardinality(H[n + 1])  BY <2>3, <2>4, SizeAppend
  <2>6. PICK A : A = ComingIn(p, h, K)  OBVIOUS
  <2>7. PICK B : B = ComingIn(q, h, K)  OBVIOUS
  <2>8. IsFamily(A) /\ IsFamily(B) /\ Size(A) \in Nat  BY <1>2, <2>6, <2>7, QueueFamilies
  <2>9. /\ DOMAIN A = 1 .. n /\ DOMAIN B = 1 .. n + 1
        /\ B[n + 1] = IF n + 1 <= K THEN Coming(ch, h) ELSE {}
        /\ \A k \in 1 .. n : B[k] = A[k]
    BY <1>1, <1>2, <1>3, <2>6, <2>7 DEF ComingIn
  <2>10. Size(B) = Size(A) + Cardinality(B[n + 1])  BY <2>8, <2>9, SizeAppend
  <2>11. CASE n < K
    <3>1. n + 1 <= K  BY <2>11
    <3>2. QED  BY <2>1, <2>2, <2>4, <2>5, <2>6, <2>7, <2>9, <2>10, <2>11, <3>1
  <2>12. CASE ~(n < K)
    <3>1. ~(n + 1 <= K)  BY <2>12
    <3>2. Size(H) = Size(G) + 0 /\ Size(B) = Size(A) + 0
      BY <2>4, <2>5, <2>9, <2>10, <3>1, FS_EmptySet
    <3>3. QED  BY <2>1, <2>2, <2>3, <2>6, <2>7, <2>8, <2>12, <3>2
  <2>13. QED  BY <2>11, <2>12
<1>6. QED  BY <1>1, <1>4, <1>5 DEF AppendedSizes

LEMMA ReplaceSizes ==
  ASSUME NEW p \in Seq(Chains), NEW k \in 1 .. Len(p), NEW ch \in Chains, NEW h,
         NEW q, q = [p EXCEPT ![k] = ch]
  PROVE  ReplacedSizes(p, q, k, ch, h)
<1>1. PICK n \in Nat : n = Len(p)  BY LenProperties
<1>2. q \in Seq(Chains) /\ Len(q) = n /\ q[k] = ch /\ \A j \in 1 .. n : j # k => q[j] = p[j]
  BY <1>1, ExceptSeq
<1>3. k \in 1 .. n /\ k \in Nat  BY <1>1
<1>4. Size(OwedIn(q, h)) + Cardinality(Owed(p[k], h)) = Size(OwedIn(p, h)) + Cardinality(Owed(ch, h))
  <2>1. PICK G : G = OwedIn(p, h)  OBVIOUS
  <2>2. PICK H : H = OwedIn(q, h)  OBVIOUS
  <2>3. IsFamily(G) /\ IsFamily(H)  BY <1>2, <2>1, <2>2, QueueFamilies
  <2>4. DOMAIN G = 1 .. n /\ DOMAIN H = 1 .. n /\ G[k] = Owed(p[k], h) /\ H[k] = Owed(ch, h)
        /\ \A j \in 1 .. n : j # k => G[j] = H[j]
    BY <1>1, <1>2, <1>3, <2>1, <2>2 DEF OwedIn
  <2>5. Size(H) + Cardinality(G[k]) = Size(G) + Cardinality(H[k])
    BY <1>3, <2>3, <2>4, SizeChange DEF Exchanged
  <2>6. QED  BY <2>1, <2>2, <2>4, <2>5
<1>5. ASSUME NEW K \in Nat, k <= K
      PROVE  /\ Size(DueIn(q, h, K)) + Cardinality(Due(p[k], h))
                  = Size(DueIn(p, h, K)) + Cardinality(Due(ch, h))
             /\ Size(ComingIn(q, h, K)) + Cardinality(Coming(p[k], h))
                  = Size(ComingIn(p, h, K)) + Cardinality(Coming(ch, h))
  <2>1. PICK G : G = DueIn(p, h, K)  OBVIOUS
  <2>2. PICK H : H = DueIn(q, h, K)  OBVIOUS
  <2>3. IsFamily(G) /\ IsFamily(H)  BY <1>2, <2>1, <2>2, QueueFamilies
  <2>4. DOMAIN G = 1 .. n /\ DOMAIN H = 1 .. n /\ G[k] = Due(p[k], h) /\ H[k] = Due(ch, h)
        /\ \A j \in 1 .. n : j # k => G[j] = H[j]
    BY <1>1, <1>2, <1>3, <1>5, <2>1, <2>2 DEF DueIn
  <2>5. Size(H) + Cardinality(G[k]) = Size(G) + Cardinality(H[k])
    BY <1>3, <2>3, <2>4, SizeChange DEF Exchanged
  <2>6. PICK A : A = ComingIn(p, h, K)  OBVIOUS
  <2>7. PICK B : B = ComingIn(q, h, K)  OBVIOUS
  <2>8. IsFamily(A) /\ IsFamily(B)  BY <1>2, <2>6, <2>7, QueueFamilies
  <2>9. DOMAIN A = 1 .. n /\ DOMAIN B = 1 .. n /\ A[k] = Coming(p[k], h) /\ B[k] = Coming(ch, h)
        /\ \A j \in 1 .. n : j # k => A[j] = B[j]
    BY <1>1, <1>2, <1>3, <1>5, <2>6, <2>7 DEF ComingIn
  <2>10. Size(B) + Cardinality(A[k]) = Size(A) + Cardinality(B[k])
    BY <1>3, <2>8, <2>9, SizeChange DEF Exchanged
  <2>11. QED  BY <2>1, <2>2, <2>4, <2>5, <2>6, <2>7, <2>9, <2>10
<1>6. QED  BY <1>4, <1>5 DEF ReplacedSizes

LEMMA TailSizes ==
  ASSUME NEW p \in Seq(Chains), p # <<>>, NEW h, NEW q, q = Tail(p)
  PROVE  TailedSizes(p, q, h)
<1>1. PICK n \in Nat : n = Len(q)
  BY HeadTailProperties, LenProperties
<1>2. q \in Seq(Chains) /\ Len(p) = n + 1 /\ \A k \in 1 .. n : q[k] = p[k + 1]
  BY <1>1, HeadTailProperties, LenProperties
<1>3. 1 \in 1 .. n + 1 /\ \A k \in 1 .. n : k + 1 \in 1 .. n + 1  OBVIOUS
<1>4. Size(OwedIn(p, h)) = Size(OwedIn(q, h)) + Cardinality(Owed(p[1], h))
  <2>1. PICK G : G = OwedIn(p, h)  OBVIOUS
  <2>2. PICK H : H = OwedIn(q, h)  OBVIOUS
  <2>3. IsFamily(G) /\ IsFamily(H)  BY <1>2, <2>1, <2>2, QueueFamilies
  <2>4. DOMAIN G = 1 .. n + 1 /\ DOMAIN H = 1 .. n /\ G[1] = Owed(p[1], h)
        /\ \A k \in 1 .. n : H[k] = G[k + 1]
    BY <1>1, <1>2, <1>3, <2>1, <2>2 DEF OwedIn
  <2>5. QED  BY <2>1, <2>2, <2>3, <2>4, SizeTail
<1>5. ASSUME NEW K \in Nat
      PROVE  /\ Size(DueIn(p, h, K + 1)) = Size(DueIn(q, h, K)) + Cardinality(Due(p[1], h))
             /\ Size(ComingIn(p, h, K + 1)) = Size(ComingIn(q, h, K)) + Cardinality(Coming(p[1], h))
  <2>1. 1 <= K + 1 /\ K + 1 \in Nat /\ \A k \in 1 .. n : (k + 1 <= K + 1 <=> k <= K)  OBVIOUS
  <2>2. PICK G : G = DueIn(p, h, K + 1)  OBVIOUS
  <2>3. PICK H : H = DueIn(q, h, K)  OBVIOUS
  <2>4. IsFamily(G) /\ IsFamily(H)  BY <1>2, <2>1, <2>2, <2>3, QueueFamilies
  <2>5. DOMAIN G = 1 .. n + 1 /\ DOMAIN H = 1 .. n /\ G[1] = Due(p[1], h)
        /\ \A k \in 1 .. n : H[k] = G[k + 1]
    BY <1>1, <1>2, <1>3, <2>1, <2>2, <2>3 DEF DueIn
  <2>6. PICK A : A = ComingIn(p, h, K + 1)  OBVIOUS
  <2>7. PICK B : B = ComingIn(q, h, K)  OBVIOUS
  <2>8. IsFamily(A) /\ IsFamily(B)  BY <1>2, <2>1, <2>6, <2>7, QueueFamilies
  <2>9. DOMAIN A = 1 .. n + 1 /\ DOMAIN B = 1 .. n /\ A[1] = Coming(p[1], h)
        /\ \A k \in 1 .. n : B[k] = A[k + 1]
    BY <1>1, <1>2, <1>3, <2>1, <2>6, <2>7 DEF ComingIn
  <2>10. Size(G) = Size(H) + Cardinality(G[1])  BY <2>4, <2>5, SizeTail
  <2>11. Size(A) = Size(B) + Cardinality(A[1])  BY <2>8, <2>9, SizeTail
  <2>12. QED  BY <2>2, <2>3, <2>5, <2>6, <2>7, <2>9, <2>10, <2>11
<1>6. QED  BY <1>4, <1>5 DEF TailedSizes

LEMMA BeyondEnd ==
  ASSUME NEW p \in Seq(Chains), NEW h, NEW K \in Nat, Len(p) <= K
  PROVE  DueIn(p, h, K) = DueIn(p, h, Len(p)) /\ ComingIn(p, h, K) = ComingIn(p, h, Len(p))
<1>1. PICK n \in Nat : n = Len(p)  BY LenProperties
<1>2. QED  BY <1>1 DEF DueIn, ComingIn

(* A new chain that counts its own files up, for g - g2 files that were held. *)
LEMMA AppendNew ==
  ASSUME NEW p \in Seq(Chains), NEW ch \in Chains, NEW h,
         NEW a \in Nat, NEW r \in Nat, NEW g \in Nat, NEW c \in Nat, NEW g2 \in Nat,
         Covers(p, h, a, r), CoversHeld(p, h, a, r, g, c), Owed(ch, h) = {},
         Cardinality(Due(ch, h)) + g2 + c <= Cardinality(Coming(ch, h)) + g
  PROVE  /\ Covers(Append(p, ch), h, a, r)
         /\ CoversHeld(Append(p, ch), h, a, r, g2, 0)
<1>1. PICK n \in Nat : n = Len(p)  BY LenProperties
<1>2. PICK q : q = Append(p, ch)  OBVIOUS
<1>sz. AppendedSizes(p, q, ch, h)  BY <1>2, AppendSizes
<1>3. PICK o \in Nat : o = Size(OwedIn(p, h))  BY QueueFamilies
<1>4. Size(OwedIn(q, h)) = o  BY <1>sz, <1>2, <1>3, FS_EmptySet DEF AppendedSizes
<1>5. PICK d \in Nat : d = Cardinality(Due(ch, h))  BY ChainFinite
<1>6. PICK e \in Nat : e = Cardinality(Coming(ch, h))  BY ChainFinite
<1>7. PICK D \in Nat : D = Size(DueIn(p, h, n))  BY QueueFamilies
<1>8. PICK C \in Nat : C = Size(ComingIn(p, h, n))  BY QueueFamilies
<1>9. a + o + D + g <= r + C + c /\ d + g2 + c <= e + g
  BY <1>1, <1>3, <1>5, <1>6, <1>7, <1>8 DEF CoversHeld
<1>10. ASSUME NEW K \in Nat
       PROVE  a + o + Size(DueIn(q, h, K)) <= r + Size(ComingIn(q, h, K))
  <2>1. CASE n < K
    <3>1. Size(DueIn(p, h, K)) = D /\ Size(ComingIn(p, h, K)) = C
      BY <1>1, <1>7, <1>8, <2>1, BeyondEnd
    <3>2. Size(DueIn(q, h, K)) = D + d /\ Size(ComingIn(q, h, K)) = C + e
      BY <1>1, <1>2, <1>5, <1>6, <2>1, <3>1, <1>sz DEF AppendedSizes
    <3>3. QED  BY <1>9, <3>2
  <2>2. CASE ~(n < K)  BY <1>sz, <1>1, <1>2, <1>3, <2>2, QueueFamilies DEF AppendedSizes, Covers
  <2>3. QED  BY <2>1, <2>2
<1>11. CoversHeld(q, h, a, r, g2, 0)
  <2>1. PICK K \in Nat : K = n + 1 /\ n < K /\ n <= K  OBVIOUS
  <2>2. Size(DueIn(p, h, K)) = D /\ Size(ComingIn(p, h, K)) = C
    BY <1>1, <1>7, <1>8, <2>1, BeyondEnd
  <2>3. Size(DueIn(q, h, n + 1)) = D + d /\ Size(ComingIn(q, h, n + 1)) = C + e
    BY <1>sz, <1>1, <1>2, <1>5, <1>6, <2>1, <2>2 DEF AppendedSizes
  <2>4. a + o + (D + d) + g2 <= r + (C + e) + 0  BY <1>9
  <2>5. QED  BY <1>1, <1>2, <1>4, <2>3, <2>4, AppendProperties DEF CoversHeld
<1>12. QED  BY <1>2, <1>4, <1>10, <1>11 DEF Covers

(* A new chain that releases what was counted among the a references.        *)
LEMMA AppendOwed ==
  ASSUME NEW p \in Seq(Chains), NEW ch \in Chains, NEW h,
         NEW a \in Nat, NEW a2 \in Nat, NEW r \in Nat, NEW g \in Nat, NEW c \in Nat,
         Covers(p, h, a, r), CoversHeld(p, h, a, r, g, c),
         Due(ch, h) = {}, Coming(ch, h) = {}, a2 + Cardinality(Owed(ch, h)) <= a
  PROVE  /\ Covers(Append(p, ch), h, a2, r)
         /\ CoversHeld(Append(p, ch), h, a2, r, g, c)
<1>1. PICK n \in Nat : n = Len(p)  BY LenProperties
<1>2. PICK q : q = Append(p, ch)  OBVIOUS
<1>sz. AppendedSizes(p, q, ch, h)  BY <1>2, AppendSizes
<1>3. PICK o \in Nat : o = Size(OwedIn(p, h))  BY QueueFamilies
<1>4. PICK x \in Nat : x = Cardinality(Owed(ch, h))  BY ChainFinite
<1>5. Size(OwedIn(q, h)) = o + x  BY <1>2, <1>3, <1>4, <1>sz DEF AppendedSizes
<1>6. ASSUME NEW K \in Nat
      PROVE  Size(DueIn(q, h, K)) = Size(DueIn(p, h, K))
             /\ Size(ComingIn(q, h, K)) = Size(ComingIn(p, h, K))
  BY <1>sz, <1>2, QueueFamilies, FS_EmptySet DEF AppendedSizes
<1>7. a2 + x <= a  BY <1>4
<1>8. Covers(q, h, a2, r)
  <2>1. SUFFICES ASSUME NEW K \in Nat
                 PROVE  a2 + (o + x) + Size(DueIn(q, h, K)) <= r + Size(ComingIn(q, h, K))
    BY <1>5 DEF Covers
  <2>2. PICK D \in Nat : D = Size(DueIn(p, h, K))  BY QueueFamilies
  <2>3. PICK C \in Nat : C = Size(ComingIn(p, h, K))  BY QueueFamilies
  <2>4. a + o + D <= r + C  BY <1>3, <2>2, <2>3 DEF Covers
  <2>5. a2 + (o + x) + D <= r + C  BY <1>7, <2>4
  <2>6. QED  BY <1>6, <2>2, <2>3, <2>5
<1>9. CoversHeld(q, h, a2, r, g, c)
  <2>1. PICK D \in Nat : D = Size(DueIn(p, h, n))  BY QueueFamilies
  <2>2. PICK C \in Nat : C = Size(ComingIn(p, h, n))  BY QueueFamilies
  <2>3. a + o + D + g <= r + C + c  BY <1>1, <1>3, <2>1, <2>2 DEF CoversHeld
  <2>4. a2 + (o + x) + D + g <= r + C + c  BY <1>7, <2>3
  <2>5. n <= n + 1 /\ n + 1 \in Nat  OBVIOUS
  <2>6. Size(DueIn(q, h, n + 1)) = D /\ Size(ComingIn(q, h, n + 1)) = C
    BY <1>1, <1>6, <2>1, <2>2, <2>5, BeyondEnd
  <2>7. QED  BY <1>1, <1>2, <1>5, <2>4, <2>6, AppendProperties DEF CoversHeld
<1>10. QED  BY <1>2, <1>8, <1>9

(* A query of the first chain that is not executed is executed: what it no   *)
(* longer adds or asks for, it has added or got.                             *)
LEMMA ResultCovers ==
  ASSUME NEW p \in Seq(Chains), NEW k \in 1 .. Len(p), NEW ch \in Chains, NEW h,
         NEW a \in Nat, NEW a2 \in Nat, NEW r \in Nat, NEW r2 \in Nat, NEW g \in Nat, NEW c \in Nat,
         Covers(p, h, a, r), CoversHeld(p, h, a, r, g, c),
         \A j \in 1 .. k - 1 : Due(p[j], h) = {} /\ Coming(p[j], h) = {},
         Coming(ch, h) = {},
         a2 + Cardinality(Owed(ch, h)) + Cardinality(Due(ch, h)) + r + Cardinality(Coming(p[k], h))
           <= a + Cardinality(Owed(p[k], h)) + Cardinality(Due(p[k], h)) + r2
  PROVE  /\ Covers([p EXCEPT ![k] = ch], h, a2, r2)
         /\ CoversHeld([p EXCEPT ![k] = ch], h, a2, r2, g, c)
<1>1. PICK n \in Nat : n = Len(p)  BY LenProperties
<1>2. PICK q : q = [p EXCEPT ![k] = ch]  OBVIOUS
<1>sz. ReplacedSizes(p, q, k, ch, h)  BY <1>2, ReplaceSizes
<1>3. q \in Seq(Chains) /\ Len(q) = n /\ q[k] = ch /\ \A j \in 1 .. n : j # k => q[j] = p[j]
  BY <1>1, <1>2, ExceptSeq
<1>4. k \in 1 .. n /\ k \in Nat /\ p[k] \in Chains  BY <1>1, ElementOfSeq
<1>5. PICK o \in Nat : o = Size(OwedIn(p, h))  BY QueueFamilies
<1>6. PICK o2 \in Nat : o2 = Size(OwedIn(q, h))  BY <1>3, QueueFamilies
<1>7. PICK x \in Nat : x = Cardinality(Owed(p[k], h))  BY <1>4, ChainFinite
<1>8. PICK x2 \in Nat : x2 = Cardinality(Owed(ch, h))  BY ChainFinite
<1>9. PICK d \in Nat : d = Cardinality(Due(p[k], h))  BY <1>4, ChainFinite
<1>10. PICK d2 \in Nat : d2 = Cardinality(Due(ch, h))  BY ChainFinite
<1>11. PICK e \in Nat : e = Cardinality(Coming(p[k], h))  BY <1>4, ChainFinite
<1>12. Cardinality(Coming(ch, h)) = 0  BY FS_EmptySet
<1>13. o2 + x = o + x2  BY <1>2, <1>5, <1>6, <1>7, <1>8, <1>sz DEF ReplacedSizes
<1>14. a2 + x2 + d2 + r + e <= a + x + d + r2
  BY <1>7, <1>8, <1>9, <1>10, <1>11
<1>15. ASSUME NEW K \in Nat, k <= K
       PROVE  /\ Size(DueIn(q, h, K)) \in Nat /\ Size(ComingIn(q, h, K)) \in Nat
              /\ Size(DueIn(q, h, K)) + d = Size(DueIn(p, h, K)) + d2
              /\ Size(ComingIn(q, h, K)) + e = Size(ComingIn(p, h, K))
  <2>1. Size(DueIn(q, h, K)) \in Nat /\ Size(ComingIn(q, h, K)) \in Nat
        /\ Size(ComingIn(p, h, K)) \in Nat
    BY <1>3, QueueFamilies
  <2>2. Size(DueIn(q, h, K)) + d = Size(DueIn(p, h, K)) + d2
    BY <1>2, <1>9, <1>10, <1>15, <1>sz DEF ReplacedSizes
  <2>3. Size(ComingIn(q, h, K)) + e = Size(ComingIn(p, h, K)) + 0
    BY <1>2, <1>11, <1>12, <1>15, <1>sz DEF ReplacedSizes
  <2>4. QED  BY <2>1, <2>2, <2>3
<1>16. ASSUME NEW K \in Nat, k <= K
       PROVE  a2 + o2 + Size(DueIn(q, h, K)) <= r2 + Size(ComingIn(q, h, K))
  <2>1. PICK D \in Nat : D = Size(DueIn(p, h, K))  BY QueueFamilies
  <2>2. PICK C \in Nat : C = Size(ComingIn(p, h, K))  BY QueueFamilies
  <2>3. PICK D2 \in Nat : D2 = Size(DueIn(q, h, K))  BY <1>15, <1>16
  <2>4. PICK C2 \in Nat : C2 = Size(ComingIn(q, h, K))  BY <1>15, <1>16
  <2>5. D2 + d = D + d2 /\ C2 + e = C  BY <1>15, <1>16, <2>1, <2>2, <2>3, <2>4
  <2>6. a + o + D <= r + C  BY <1>5, <2>1, <2>2 DEF Covers
  <2>7. a2 + o2 + D2 <= r2 + C2  BY <1>13, <1>14, <2>5, <2>6
  <2>8. QED  BY <2>3, <2>4, <2>7
<1>17. ASSUME NEW K \in Nat, ~(k <= K)
       PROVE  a2 + o2 + Size(DueIn(q, h, K)) <= r2 + Size(ComingIn(q, h, K))
  <2>1. \A j \in 1 .. n : j <= K => j \in 1 .. k - 1 /\ j # k  BY <1>4, <1>17
  <2>2. \A j \in 1 .. n : j <= K => Due(q[j], h) = {} /\ Coming(q[j], h) = {}
    BY <1>3, <2>1
  <2>3. Size(DueIn(q, h, K)) = 0 /\ Size(ComingIn(q, h, K)) = 0
    <3>1. \A j \in DOMAIN DueIn(q, h, K) : DueIn(q, h, K)[j] = {}  BY <1>3, <2>2 DEF DueIn
    <3>2. \A j \in DOMAIN ComingIn(q, h, K) : ComingIn(q, h, K)[j] = {}
      BY <1>3, <2>2 DEF ComingIn
    <3>3. QED  BY <3>1, <3>2, SizeEmpty
  <2>4. \A j \in 1 .. n : j <= k => Coming(q[j], h) = {}
    <3>1. \A j \in 1 .. n : j <= k => j \in 1 .. k - 1 \/ j = k  BY <1>4
    <3>2. QED  BY <1>3, <3>1
  <2>5. Size(ComingIn(q, h, k)) = 0
    <3>1. \A j \in DOMAIN ComingIn(q, h, k) : ComingIn(q, h, k)[j] = {}
      BY <1>3, <2>4 DEF ComingIn
    <3>2. QED  BY <3>1, SizeEmpty
  <2>6. PICK D2 \in Nat : D2 = Size(DueIn(q, h, k))  BY <1>4, <1>15
  <2>7. a2 + o2 + D2 <= r2 + 0  BY <1>4, <1>16, <2>5, <2>6
  <2>8. a2 + o2 + 0 <= r2 + 0  BY <2>7
  <2>9. QED  BY <2>3, <2>8
<1>18. Covers(q, h, a2, r2)  BY <1>6, <1>16, <1>17 DEF Covers
<1>19. CoversHeld(q, h, a2, r2, g, c)
  <2>0. k <= n  BY <1>4
  <2>1. PICK D \in Nat : D = Size(DueIn(p, h, n))  BY QueueFamilies
  <2>2. PICK C \in Nat : C = Size(ComingIn(p, h, n))  BY QueueFamilies
  <2>3. PICK D2 \in Nat : D2 = Size(DueIn(q, h, n))  BY <1>15, <2>0
  <2>4. PICK C2 \in Nat : C2 = Size(ComingIn(q, h, n))  BY <1>15, <2>0
  <2>5. D2 + d = D + d2 /\ C2 + e = C  BY <1>15, <2>0, <2>1, <2>2, <2>3, <2>4
  <2>6. a + o + D + g <= r + C + c  BY <1>1, <1>5, <2>1, <2>2 DEF CoversHeld
  <2>7. a2 + o2 + D2 + g <= r2 + C2 + c  BY <1>13, <1>14, <2>5, <2>6
  <2>8. QED  BY <1>3, <1>6, <2>3, <2>4, <2>7 DEF CoversHeld
<1>20. QED  BY <1>2, <1>18, <1>19

(* A callback of the first chain has run; what the chain no longer owes is   *)
(* counted among the references until it is owed again.                      *)
LEMMA RunCovers ==
  ASSUME NEW p \in Seq(Chains), NEW k \in 1 .. Len(p), NEW ch \in Chains, NEW h,
         NEW a \in Nat, NEW a2 \in Nat, NEW r \in Nat, NEW g \in Nat, NEW c \in Nat,
         Covers(p, h, a, r), CoversHeld(p, h, a, r, g, c),
         Due(ch, h) = Due(p[k], h), Coming(ch, h) = Coming(p[k], h),
         a2 + Cardinality(Owed(ch, h)) <= a + Cardinality(Owed(p[k], h))
  PROVE  /\ Covers([p EXCEPT ![k] = ch], h, a2, r)
         /\ CoversHeld([p EXCEPT ![k] = ch], h, a2, r, g, c)
<1>1. PICK n \in Nat : n = Len(p)  BY LenProperties
<1>2. PICK q : q = [p EXCEPT ![k] = ch]  OBVIOUS
<1>sz. ReplacedSizes(p, q, k, ch, h)  BY <1>2, ReplaceSizes
<1>3. q \in Seq(Chains) /\ Len(q) = n /\ q[k] = ch /\ \A j \in 1 .. n : j # k => q[j] = p[j]
  BY <1>1, <1>2, ExceptSeq
<1>4. PICK o \in Nat : o = Size(OwedIn(p, h))  BY QueueFamilies
<1>5. PICK o2 \in Nat : o2 = Size(OwedIn(q, h))  BY <1>3, QueueFamilies
<1>6. PICK x \in Nat : x = Cardinality(Owed(p[k], h))  BY <1>1, ChainFinite, ElementOfSeq
<1>7. PICK x2 \in Nat : x2 = Cardinality(Owed(ch, h))  BY ChainFinite
<1>8. o2 + x = o + x2  BY <1>2, <1>4, <1>5, <1>6, <1>7, <1>sz DEF ReplacedSizes
<1>9. a2 + o2 <= a + o  BY <1>6, <1>7, <1>8
<1>10. ASSUME NEW K \in Nat
       PROVE  DueIn(q, h, K) = DueIn(p, h, K) /\ ComingIn(q, h, K) = ComingIn(p, h, K)
  BY <1>1, <1>3 DEF DueIn, ComingIn
<1>11. Covers(q, h, a2, r)
  <2>1. SUFFICES ASSUME NEW K \in Nat
                 PROVE  a2 + o2 + Size(DueIn(p, h, K)) <= r + Size(ComingIn(p, h, K))
    BY <1>5, <1>10 DEF Covers
  <2>2. PICK D \in Nat : D = Size(DueIn(p, h, K))  BY QueueFamilies
  <2>3. PICK C \in Nat : C = Size(ComingIn(p, h, K))  BY QueueFamilies
  <2>4. a + o + D <= r + C  BY <1>4, <2>2, <2>3 DEF Covers
  <2>5. a2 + o2 + D <= r + C  BY <1>9, <2>4
  <2>6. QED  BY <2>2, <2>3, <2>5
<1>12. CoversHeld(q, h, a2, r, g, c)
  <2>1. PICK D \in Nat : D = Size(DueIn(p, h, n))  BY QueueFamilies
  <2>2. PICK C \in Nat : C = Size(ComingIn(p, h, n))  BY QueueFamilies
  <2>3. a + o + D + g <= r + C + c  BY <1>1, <1>4, <2>1, <2>2 DEF CoversHeld
  <2>4. a2 + o2 + D + g <= r + C + c  BY <1>9, <2>3
  <2>5. QED  BY <1>3, <1>5, <1>10, <2>1, <2>2, <2>4 DEF CoversHeld
<1>13. QED  BY <1>2, <1>11, <1>12

LEMMA TailCovers ==
  ASSUME NEW p \in Seq(Chains), p # <<>>, NEW h,
         NEW a \in Nat, NEW a2 \in Nat, NEW r \in Nat, NEW g \in Nat, NEW c \in Nat,
         Covers(p, h, a, r), CoversHeld(p, h, a, r, g, c),
         Due(p[1], h) = {}, Coming(p[1], h) = {}, a2 <= a + Cardinality(Owed(p[1], h))
  PROVE  /\ Covers(Tail(p), h, a2, r)
         /\ CoversHeld(Tail(p), h, a2, r, g, c)
<1>1. PICK q : q = Tail(p)  OBVIOUS
<1>sz. TailedSizes(p, q, h)  BY <1>1, TailSizes
<1>2. PICK n \in Nat : n = Len(q)  BY <1>1, HeadTailProperties, LenProperties
<1>3. q \in Seq(Chains) /\ Len(p) = n + 1 /\ p[1] \in Chains
  BY <1>1, <1>2, HeadTailProperties, LenProperties, ElementOfSeq
<1>4. PICK o \in Nat : o = Size(OwedIn(p, h))  BY QueueFamilies
<1>5. PICK o2 \in Nat : o2 = Size(OwedIn(q, h))  BY <1>3, QueueFamilies
<1>6. PICK x \in Nat : x = Cardinality(Owed(p[1], h))  BY <1>3, ChainFinite
<1>7. o = o2 + x /\ a2 <= a + x  BY <1>1, <1>4, <1>5, <1>6, <1>sz DEF TailedSizes
<1>8. ASSUME NEW K \in Nat
      PROVE  Size(DueIn(p, h, K + 1)) = Size(DueIn(q, h, K))
             /\ Size(ComingIn(p, h, K + 1)) = Size(ComingIn(q, h, K))
  <2>1. PICK D \in Nat : D = Size(DueIn(q, h, K))  BY <1>3, QueueFamilies
  <2>2. PICK C \in Nat : C = Size(ComingIn(q, h, K))  BY <1>3, QueueFamilies
  <2>3. Cardinality(Due(p[1], h)) = 0 /\ Cardinality(Coming(p[1], h)) = 0  BY FS_EmptySet
  <2>4. Size(DueIn(p, h, K + 1)) = D + 0 /\ Size(ComingIn(p, h, K + 1)) = C + 0
    BY <1>1, <2>1, <2>2, <2>3, <1>sz DEF TailedSizes
  <2>5. QED  BY <2>1, <2>2, <2>4
<1>9. Covers(q, h, a2, r)
  <2>1. SUFFICES ASSUME NEW K \in Nat
                 PROVE  a2 + o2 + Size(DueIn(q, h, K)) <= r + Size(ComingIn(q, h, K))
    BY <1>5 DEF Covers
  <2>2. PICK D \in Nat : D = Size(DueIn(q, h, K))  BY <1>3, QueueFamilies
  <2>3. PICK C \in Nat : C = Size(ComingIn(q, h, K))  BY <1>3, QueueFamilies
  <2>4. a + o + D <= r + C  BY <1>4, <1>8, <2>2, <2>3 DEF Covers
  <2>5. QED  BY <1>7, <2>2, <2>3, <2>4
<1>10. CoversHeld(q, h, a2, r, g, c)
  <2>1. PICK D \in Nat : D = Size(DueIn(q, h, n))  BY <1>3, QueueFamilies
  <2>2. PICK C \in Nat : C = Size(ComingIn(q, h, n))  BY <1>3, QueueFamilies
  <2>3. a + o + D + g <= r + C + c  BY <1>3, <1>4, <1>8, <2>1, <2>2 DEF CoversHeld
  <2>4. a2 + o2 + D + g <= r + C + c  BY <1>7, <2>3
  <2>5. QED  BY <1>2, <1>5, <2>1, <2>2, <2>4 DEF CoversHeld
<1>11. QED  BY <1>1, <1>9, <1>10

-----------------------------------------------------------------------------
(* What a query changes in the demands of its chain                          *)

LEMMA InChain ==
  ASSUME NEW ch \in Chains
  PROVE  /\ ch.cmds \in Seq(GoodQuery) /\ Len(ch.cmds) \in Nat /\ 1 <= Len(ch.cmds)
         /\ ch.done \in Nat /\ ch.done <= Len(ch.cmds) /\ ch.ran \in Nat /\ ch.ran < Len(ch.cmds)
         /\ \A j \in 1 .. Len(ch.cmds) : ch.cmds[j] \in GoodQuery
<1>1. ch.cmds \in Seq(GoodQuery) /\ ch.done \in Nat /\ ch.ran \in Nat
      /\ ch.done <= Len(ch.cmds) /\ ch.ran < Len(ch.cmds)
  BY DEF Chains
<1>2. PICK n \in Nat : n = Len(ch.cmds)  BY <1>1, LenProperties
<1>3. QED  BY <1>1, <1>2, ElementOfSeq

LEMMA DoneChain ==
  ASSUME NEW ch \in Chains, ch.done = Len(ch.cmds), NEW h
  PROVE  Due(ch, h) = {} /\ Coming(ch, h) = {}
<1>1. PICK n \in Nat : n = Len(ch.cmds)  BY InChain
<1>2. 1 <= n /\ ch.done = n  BY <1>1, InChain
<1>3. QED  BY <1>1, <1>2 DEF Due, Coming, Ends

LEMMA AnsweredFacts ==
  ASSUME NEW ch \in Chains, NEW cmd \in GoodQuery, ch.done < Len(ch.cmds),
         SameQuery(cmd, ch.cmds[ch.done + 1])
  PROVE  AnswersTo(ch, cmd, Answered(ch, cmd)) /\ Answered(ch, cmd) \in Chains
<1>1. PICK n \in Nat : n = Len(ch.cmds)  BY InChain
<1>2. PICK d \in Nat : d = ch.done  BY InChain
<1>3. PICK q : q = Answered(ch, cmd)  OBVIOUS
<1>4. q \in Chains /\ q.done = d + 1 /\ q.ran = ch.ran /\ Len(q.cmds) = n
      /\ q.cmds = [ch.cmds EXCEPT ![d + 1] = cmd]
  BY <1>1, <1>2, <1>3, AnsweredTypes
<1>5. q.cmds[d + 1] = cmd /\ \A j \in 1 .. n : j # d + 1 => q.cmds[j] = ch.cmds[j]
  BY <1>1, <1>2, <1>4, ExceptSeq, InChain
<1>6. QED  BY <1>1, <1>2, <1>3, <1>4, <1>5 DEF AnswersTo, SameQuery

LEMMA AnsweredShape ==
  ASSUME NEW ch \in Chains, NEW cmd, NEW q, AnswersTo(ch, cmd, q), Shape(ch)
  PROVE  Shape(q)
<1>1. PICK n \in Nat : n = Len(ch.cmds)  BY InChain
<1>2. 1 <= n  BY <1>1, InChain
<1>3. 1 \in 1 .. n /\ (n = 2 => 2 \in 1 .. n) /\ (n = 3 => 2 \in 1 .. n /\ 3 \in 1 .. n)
  BY <1>2
<1>4. QED  BY <1>1, <1>3 DEF Shape, AnswersTo

LEMMA Places ==
  ASSUME NEW ch \in Chains, Shape(ch), NEW j \in 1 .. Len(ch.cmds)
  PROVE  Place(ch, j)
<1>1. PICK n \in Nat : n = Len(ch.cmds)  BY InChain
<1>2. j \in 1 .. n  BY <1>1
<1>3. CASE ch.cmds[1].op = "insert_file"  BY <1>1, <1>2, <1>3 DEF Shape, Place
<1>4. CASE ch.cmds[1].op = "release"  BY <1>1, <1>2, <1>4 DEF Shape, Place
<1>5. CASE ch.cmds[1].op = "delete_msg"  BY <1>1, <1>2, <1>5 DEF Shape, Place
<1>6. CASE ch.cmds[1].op = "select_attachs"  BY <1>1, <1>2, <1>6 DEF Shape, Place
<1>7. QED  BY <1>3, <1>4, <1>5, <1>6 DEF Shape

LEMMA StepFacts ==
  ASSUME NEW ch, NEW op, NEW cmd, NEW q, Step(ch, op, cmd, q)
  PROVE  \E n \in Nat, d \in Nat : StepsTo(n, d, ch, op, cmd, q)
<1>1. ch \in Chains  BY DEF Step
<1>2. PICK n \in Nat : n = Len(ch.cmds)  BY <1>1, InChain
<1>3. PICK d \in Nat : d = ch.done  BY <1>1, InChain
<1>4. d < n  BY <1>2, <1>3 DEF Step
<1>5. d + 1 \in 1 .. n /\ 1 \in 1 .. n  BY <1>4
<1>6. StepsTo(n, d, ch, op, cmd, q)  BY <1>2, <1>3, <1>4, <1>5, Places DEF Step, AnswersTo, StepsTo
<1>7. QED  BY <1>6

LEMMA InsertFileDemand ==
  ASSUME NEW ch, NEW cmd, NEW q, Step(ch, "insert_file", cmd, q), NEW h
  PROVE  /\ Owed(q, h) = {} /\ Owed(ch, h) = {} /\ Due(q, h) = Due(ch, h) /\ Coming(q, h) = {}
         /\ Coming(ch, h) = IF ch.cmds[ch.done + 1].hash = h THEN {1} ELSE {}
<1>1. PICK n \in Nat, d \in Nat : StepsTo(n, d, ch, "insert_file", cmd, q)  BY StepFacts
<1>2. d + 1 = 1 /\ n \in {2, 3}  BY <1>1 DEF Place, StepsTo
<1>3. /\ Len(ch.cmds) = n /\ ch.done = 0 /\ ch.cmds[1].op = "insert_file"
      /\ Len(q.cmds) = n /\ q.done = 1 /\ q.cmds[1].op = "insert_file"
      /\ n = 3 => q.cmds[3] = ch.cmds[3]
  BY <1>1, <1>2 DEF StepsTo
<1>4. Due(q, h) = Due(ch, h)  BY <1>3 DEF Due, Ends
<1>5. Coming(q, h) = {} /\ Coming(ch, h) = IF ch.cmds[ch.done + 1].hash = h THEN {1} ELSE {}
  BY <1>3 DEF Coming
<1>6. QED  BY <1>3, <1>4, <1>5 DEF Owed, Ends

LEMMA ReleaseDemand ==
  ASSUME NEW ch, NEW op \in {"release", "refcount"}, NEW cmd, NEW q, Step(ch, op, cmd, q), NEW h,
         ch.cmds[1].op = "release"
  PROVE  /\ Due(q, h) = {} /\ Due(ch, h) = {} /\ Coming(q, h) = {} /\ Coming(ch, h) = {}
         /\ Owed(q, h) = Owed(ch, h) \ {ch.done + 1}
         /\ ch.done + 1 \in Owed(ch, h) <=> op = "release" /\ ch.cmds[ch.done + 1].hash = h
<1>1. PICK n \in Nat, d \in Nat : StepsTo(n, d, ch, op, cmd, q)  BY StepFacts
<1>2. /\ Len(ch.cmds) = n /\ ch.done = d /\ Len(q.cmds) = n /\ q.done = d + 1
      /\ q.cmds[1].op = "release" /\ d + 1 \in 1 .. n /\ ch.cmds[d + 1].op = op
      /\ \A j \in 1 .. n : q.cmds[j].op = ch.cmds[j].op /\ q.cmds[j].hash = ch.cmds[j].hash
  BY <1>1 DEF StepsTo
<1>3. n = 3 => 3 \in 1 .. n  OBVIOUS
<1>4. Due(q, h) = {} /\ Due(ch, h) = {}  BY <1>2, <1>3 DEF Due, Ends, Step, Shape
<1>5. Owed(ch, h) = {j \in 1 .. n : d < j /\ ch.cmds[j].op = "release" /\ ch.cmds[j].hash = h}
  BY <1>2 DEF Owed
<1>6. \A j \in 1 .. n : d + 1 < j <=> d < j /\ j # d + 1  OBVIOUS
<1>7. Owed(q, h) = Owed(ch, h) \ {d + 1}  BY <1>2, <1>5, <1>6 DEF Owed
<1>8. d + 1 \in Owed(ch, h) <=> op = "release" /\ ch.cmds[d + 1].hash = h
  BY <1>2, <1>5
<1>9. QED  BY <1>2, <1>4, <1>7, <1>8 DEF Coming

LEMMA RefcountDemand ==
  ASSUME NEW ch, NEW cmd, NEW q, Step(ch, "refcount", cmd, q), NEW h
  PROVE  Owed(q, h) = Owed(ch, h) /\ Due(q, h) = Due(ch, h) /\ Coming(q, h) = {} /\ Coming(ch, h) = {}
<1>1. PICK n \in Nat, d \in Nat : StepsTo(n, d, ch, "refcount", cmd, q)  BY StepFacts
<1>2. CASE ch.cmds[1].op = "release"  BY <1>2, ReleaseDemand
<1>3. CASE ch.cmds[1].op # "release"
  <2>1. ch.cmds[1].op = "insert_file" /\ d + 1 = 2 /\ n \in {2, 3}
    BY <1>1, <1>3 DEF Place, StepsTo
  <2>2. /\ Len(ch.cmds) = n /\ ch.done = 1
        /\ Len(q.cmds) = n /\ q.done = 2 /\ q.cmds[1].op = "insert_file"
        /\ n = 3 => q.cmds[3] = ch.cmds[3]
    BY <1>1, <2>1 DEF StepsTo
  <2>3. Due(q, h) = Due(ch, h)  BY <2>2 DEF Due, Ends
  <2>4. Coming(q, h) = {} /\ Coming(ch, h) = {}  BY <2>2 DEF Coming
  <2>5. QED  BY <2>1, <2>2, <2>3, <2>4 DEF Owed, Ends
<1>4. QED  BY <1>2, <1>3

LEMMA InsertMsgDemand ==
  ASSUME NEW ch, NEW cmd, NEW q, Step(ch, "insert_msg", cmd, q), NEW h
  PROVE  /\ Owed(q, h) = {} /\ Owed(ch, h) = {} /\ Coming(q, h) = {} /\ Coming(ch, h) = {}
         /\ Due(q, h) = {} /\ Due(ch, h) = Where(ch.cmds[ch.done + 1].files, h)
<1>1. PICK n \in Nat, d \in Nat : StepsTo(n, d, ch, "insert_msg", cmd, q)  BY StepFacts
<1>2. ch.cmds[1].op = "insert_file" /\ d + 1 = 3 /\ n = 3  BY <1>1 DEF Place, StepsTo
<1>3. /\ Len(ch.cmds) = 3 /\ ch.done = 2 /\ ch.cmds[3].op = "insert_msg"
      /\ Len(q.cmds) = 3 /\ q.done = 3 /\ q.cmds[1].op = "insert_file"
      /\ q.cmds[3].op = "insert_msg" /\ ch.cmds[ch.done + 1] = ch.cmds[3]
  BY <1>1, <1>2 DEF StepsTo
<1>4. Due(q, h) = {} /\ Due(ch, h) = Where(ch.cmds[3].files, h)  BY <1>3 DEF Due, Ends
<1>5. Coming(q, h) = {} /\ Coming(ch, h) = {}  BY <1>3 DEF Coming
<1>6. QED  BY <1>2, <1>3, <1>4, <1>5 DEF Owed, Ends

LEMMA UpdatePfpDemand ==
  ASSUME NEW ch, NEW cmd, NEW q, Step(ch, "update_pfp", cmd, q), NEW h
  PROVE  /\ Owed(ch, h) = {} /\ Coming(q, h) = {} /\ Coming(ch, h) = {}
         /\ Due(q, h) = {} /\ Due(ch, h) = (IF cmd.hash = h THEN {3} ELSE {})
         /\ Owed(q, h) = IF cmd.ok /\ cmd.hash = h THEN {3} ELSE {}
<1>1. PICK n \in Nat, d \in Nat : StepsTo(n, d, ch, "update_pfp", cmd, q)  BY StepFacts
<1>2. ch.cmds[1].op = "insert_file" /\ d + 1 = 3 /\ n = 3  BY <1>1 DEF Place, StepsTo
<1>3. /\ Len(ch.cmds) = 3 /\ ch.done = 2 /\ ch.cmds[3].op = "update_pfp"
      /\ Len(q.cmds) = 3 /\ q.done = 3 /\ q.cmds[1].op = "insert_file"
      /\ q.cmds[3].op = "update_pfp" /\ q.cmds[3] = cmd /\ ch.cmds[3].hash = cmd.hash
  BY <1>1, <1>2 DEF StepsTo
<1>4. Due(q, h) = {} /\ Due(ch, h) = (IF cmd.hash = h THEN {3} ELSE {})  BY <1>3 DEF Due, Ends
<1>5. Coming(q, h) = {} /\ Coming(ch, h) = {}  BY <1>3 DEF Coming
<1>6. QED  BY <1>2, <1>3, <1>4, <1>5 DEF Owed, Ends

LEMMA DeleteMsgDemand ==
  ASSUME NEW ch, NEW cmd, NEW q, Step(ch, "delete_msg", cmd, q), NEW h
  PROVE  /\ Owed(ch, h) = {} /\ Coming(q, h) = {} /\ Coming(ch, h) = {}
         /\ Due(q, h) = {} /\ Due(ch, h) = {}
         /\ Owed(q, h) = IF cmd.ok THEN Where(cmd.files, h) ELSE {}
<1>1. PICK n \in Nat, d \in Nat : StepsTo(n, d, ch, "delete_msg", cmd, q)  BY StepFacts
<1>2. d + 1 = 1 /\ n = 1  BY <1>1 DEF Place, StepsTo
<1>3. /\ Len(ch.cmds) = 1 /\ ch.done = 0 /\ ch.cmds[1].op = "delete_msg"
      /\ Len(q.cmds) = 1 /\ q.done = 1 /\ q.cmds[1].op = "delete_msg" /\ q.cmds[1] = cmd
  BY <1>1, <1>2 DEF StepsTo
<1>4. Due(q, h) = {} /\ Due(ch, h) = {}  BY <1>3 DEF Due, Ends
<1>5. Coming(q, h) = {} /\ Coming(ch, h) = {}  BY <1>3 DEF Coming
<1>6. QED  BY <1>3, <1>4, <1>5 DEF Owed, Ends

LEMMA SelectDemand ==
  ASSUME NEW ch, NEW op \in {"select_attachs", "delete_msgs"}, NEW cmd, NEW q,
         Step(ch, op, cmd, q), NEW h
  PROVE  /\ Owed(ch, h) = {} /\ Coming(q, h) = {} /\ Coming(ch, h) = {}
         /\ Due(q, h) = {} /\ Due(ch, h) = {}
         /\ op = "select_attachs" => Owed(q, h) = {} /\ q.done = 1 /\ q.cmds[1] = cmd
         /\ op = "delete_msgs" => /\ ch.cmds[1].op = "select_attachs" /\ ch.done = 1
                                  /\ Owed(q, h) \subseteq Where(ch.cmds[1].files, h)
<1>1. PICK n \in Nat, d \in Nat : StepsTo(n, d, ch, op, cmd, q)  BY StepFacts
<1>2. n = 2 /\ ch.cmds[1].op = "select_attachs"
      /\ (op = "select_attachs" => d + 1 = 1) /\ (op = "delete_msgs" => d + 1 = 2)
  BY <1>1 DEF Place, StepsTo
<1>3. /\ Len(ch.cmds) = 2 /\ Len(q.cmds) = 2 /\ q.cmds[1].op = "select_attachs"
      /\ op = "select_attachs" => ch.done = 0 /\ q.done = 1 /\ q.cmds[1] = cmd
      /\ op = "delete_msgs" => ch.done = 1 /\ q.done = 2 /\ q.cmds[1] = ch.cmds[1]
  BY <1>1, <1>2 DEF StepsTo
<1>4. Due(q, h) = {} /\ Due(ch, h) = {}  BY <1>3 DEF Due, Ends
<1>5. Coming(q, h) = {} /\ Coming(ch, h) = {}  BY <1>2, <1>3 DEF Coming
<1>6. QED  BY <1>2, <1>3, <1>4, <1>5 DEF Owed, Ends

LEMMA SelectNone ==
  ASSUME NEW ch, NEW op, op \in {"select_attachs", "delete_msgs"}, NEW cmd, NEW q,
         Step(ch, op, cmd, q), NEW h
  PROVE  /\ Owed(ch, h) = {} /\ Coming(q, h) = {} /\ Coming(ch, h) = {}
         /\ Due(q, h) = {} /\ Due(ch, h) = {}
BY SelectDemand

-----------------------------------------------------------------------------
(* The chains that are sent                                                  *)

(* A new chain of two or three queries, the first of which is for the file f. *)
LEMMA SaveChain ==
  ASSUME NEW f \in Hashes, NEW ch, ch = Chain(server_save_file_img(f))
  PROVE  /\ ch \in Chains /\ Shape(ch) /\ ch.done = 0
         /\ \A h : /\ Owed(ch, h) = {} /\ Due(ch, h) = {}
                   /\ Coming(ch, h) = IF f = h THEN {1} ELSE {}
<1>1. /\ ch.done = 0 /\ Len(ch.cmds) = 2 /\ ch.cmds[1].op = "insert_file"
      /\ ch.cmds[1].hash = f /\ ch.cmds[2].op = "refcount"
  BY DEF Chain, server_save_file_img, Cmd
<1>2. QED  BY <1>1, SaveTypes, ChainTypes DEF Shape, Owed, Due, Coming, Ends

LEMMA SaveAndChain ==
  ASSUME NEW f \in Hashes, NEW cmd \in GoodQuery, cmd.op \in {"insert_msg", "update_pfp"},
         NEW ch, ch = Chain(Append(server_save_file_img(f), cmd))
  PROVE  /\ ch \in Chains /\ Shape(ch) /\ ch.done = 0
         /\ \A h : /\ Owed(ch, h) = {}
                   /\ cmd.op = "insert_msg" => Due(ch, h) = Where(cmd.files, h)
                   /\ cmd.op = "update_pfp" => Due(ch, h) = IF cmd.hash = h THEN {3} ELSE {}
                   /\ Coming(ch, h) = IF f = h THEN {1} ELSE {}
<1>1. PICK s : s = server_save_file_img(f)  OBVIOUS
<1>2. s \in Seq(GoodQuery) /\ Len(s) = 2 /\ s # <<>>  BY <1>1, SaveTypes
<1>3. PICK q : q = Append(s, cmd)  OBVIOUS
<1>4. q \in Seq(GoodQuery) /\ q # <<>> /\ Len(q) = 3 /\ q[1] = s[1] /\ q[2] = s[2] /\ q[3] = cmd
  <2>1. s \in Seq(GoodQuery)  BY <1>2
  <2>2. q \in Seq(GoodQuery) /\ Len(q) = Len(s) + 1  BY <2>1, <1>3, AppendProperties
  <2>3. q # <<>>  BY <1>2, <1>3, AppendProperties
  <2>4. q[Len(s) + 1] = cmd  BY <1>2, <1>3, AppendProperties
  <2>5. \A i \in 1 .. Len(s) : q[i] = s[i]  BY <1>2, <1>3, AppendProperties
  <2>6. q \in Seq(GoodQuery) /\ q # <<>> /\ Len(q) = Len(s) + 1 /\ q[Len(s) + 1] = cmd
        /\ \A i \in 1 .. Len(s) : q[i] = s[i]
    BY <2>2, <2>3, <2>4, <2>5
  <2>7. 2 + 1 = 3 /\ 1 \in 1 .. 2 /\ 2 \in 1 .. 2  OBVIOUS
  <2>8. QED  BY <1>2, <2>6, <2>7
<1>5. ch = Chain(q) /\ ch \in Chains  BY <1>1, <1>3, <1>4, ChainTypes
<1>6. /\ ch.done = 0 /\ Len(ch.cmds) = 3 /\ ch.cmds[1].op = "insert_file"
      /\ ch.cmds[1].hash = f /\ ch.cmds[2].op = "refcount" /\ ch.cmds[3] = cmd
  BY <1>1, <1>4, <1>5 DEF Chain, server_save_file_img, Cmd
<1>7. QED  BY <1>5, <1>6 DEF Shape, Owed, Due, Coming, Ends

LEMMA DeleteChain ==
  ASSUME NEW m \in Msgs, NEW ch, ch = Chain(<<Cmd("delete_msg", None, m, NoFiles)>>)
  PROVE  /\ ch \in Chains /\ Shape(ch) /\ ch.done = 0
         /\ \A h : Owed(ch, h) = {} /\ Due(ch, h) = {} /\ Coming(ch, h) = {}
<1>1. Cmd("delete_msg", None, m, NoFiles) \in GoodQuery  BY IndexFacts, CmdTypes DEF Ops, Hash
<1>2. ch \in Chains
  <2>1. PICK cmds : cmds = <<Cmd("delete_msg", None, m, NoFiles)>>  OBVIOUS
  <2>2. cmds \in Seq(GoodQuery) /\ cmds # <<>>  BY <1>1, <2>1
  <2>3. QED  BY <2>1, <2>2, ChainTypes
<1>3. ch.done = 0 /\ Len(ch.cmds) = 1 /\ ch.cmds[1].op = "delete_msg"  BY DEF Chain, Cmd
<1>4. QED  BY <1>2, <1>3 DEF Shape, Owed, Due, Coming, Ends

LEMMA DeleteGroupChain ==
  ASSUME NEW ch, ch = Chain(<<Cmd("select_attachs", None, None, NoFiles),
                              Cmd("delete_msgs", None, None, NoFiles)>>)
  PROVE  /\ ch \in Chains /\ Shape(ch) /\ ch.done = 0
         /\ \A h : Owed(ch, h) = {} /\ Due(ch, h) = {} /\ Coming(ch, h) = {}
<1>1. Cmd("select_attachs", None, None, NoFiles) \in GoodQuery
      /\ Cmd("delete_msgs", None, None, NoFiles) \in GoodQuery
  BY IndexFacts, CmdTypes DEF Ops, Hash
<1>2. ch \in Chains
  <2>1. PICK cmds : cmds = <<Cmd("select_attachs", None, None, NoFiles),
                             Cmd("delete_msgs", None, None, NoFiles)>>
    OBVIOUS
  <2>2. cmds \in Seq(GoodQuery) /\ cmds # <<>>  BY <1>1, <2>1
  <2>3. QED  BY <2>1, <2>2, ChainTypes
<1>3. /\ ch.done = 0 /\ Len(ch.cmds) = 2 /\ ch.cmds[1].op = "select_attachs"
      /\ ch.cmds[2].op = "delete_msgs"
  BY DEF Chain, Cmd
<1>4. QED  BY <1>2, <1>3 DEF Shape, Owed, Due, Coming, Ends

LEMMA ReleaseChain ==
  ASSUME NEW f \in Hash, NEW ch, ch = Chain(server_delete_file(f))
  PROVE  /\ ch \in Chains /\ Shape(ch) /\ ch.done = 0
         /\ \A h : /\ Due(ch, h) = {} /\ Coming(ch, h) = {}
                   /\ Owed(ch, h) = IF f = h THEN {1} ELSE {}
<1>1. ch \in Chains  BY DeleteTypes, ChainTypes DEF server_delete_file
<1>2. /\ ch.done = 0 /\ Len(ch.cmds) = 2 /\ ch.cmds[1].op = "release" /\ ch.cmds[1].hash = f
      /\ ch.cmds[2].op = "refcount"
  BY DEF Chain, Cmd, server_delete_file
<1>3. 1 .. 2 = {1, 2}  OBVIOUS
<1>4. ASSUME NEW h PROVE Owed(ch, h) = IF f = h THEN {1} ELSE {}
  BY <1>2, <1>3 DEF Owed
<1>5. QED  BY <1>1, <1>2, <1>3, <1>4 DEF Due, Coming, Ends, Shape

(* A file of the list is released once for every time it is there.           *)
LEMMA ReleaseAllChain ==
  ASSUME NEW files \in Seq(Hash), NEW cmds, cmds = server_delete_attachments_json(files),
         cmds # <<>>, NEW ch, ch = Chain(cmds)
  PROVE  /\ ch \in Chains /\ Shape(ch) /\ ch.done = 0
         /\ \A h : /\ Due(ch, h) = {} /\ Coming(ch, h) = {}
                   /\ Cardinality(Owed(ch, h)) = Cardinality(Where(files, h))
<1>1. PICK n \in Nat : n = Len(files)  BY LenProperties
<1>2. cmds \in Seq(GoodQuery) /\ Len(cmds) = 2 * n  BY <1>1, DeleteAllTypes
<1>3. ch \in Chains /\ ch.cmds = cmds /\ ch.done = 0  BY <1>2, ChainTypes DEF Chain
<1>4. \A j \in 1 .. 2 * n : cmds[j] = server_delete_file(files[(j + 1) \div 2])[2 - (j % 2)]
  BY <1>1 DEF server_delete_attachments_json
<1>5. \A j \in 1 .. 2 * n : /\ j % 2 = 1 => 2 - (j % 2) = 1
                            /\ j % 2 # 1 => 2 - (j % 2) = 2
                            /\ (j + 1) \div 2 \in 1 .. n
  OBVIOUS
<1>6. \A f : /\ server_delete_file(f)[1].op = "release" /\ server_delete_file(f)[1].hash = f
             /\ server_delete_file(f)[2].op = "refcount"
  BY DEF server_delete_file, Cmd
<1>7. \A j \in 1 .. 2 * n : /\ j % 2 = 1 => cmds[j].op = "release"
                                            /\ cmds[j].hash = files[(j + 1) \div 2]
                            /\ j % 2 # 1 => cmds[j].op = "refcount"
  <2>1. \A j \in 1 .. 2 * n : /\ j % 2 = 1 => cmds[j] = server_delete_file(files[(j + 1) \div 2])[1]
                              /\ j % 2 # 1 => cmds[j] = server_delete_file(files[(j + 1) \div 2])[2]
    BY <1>4, <1>5
  <2>2. QED  BY <1>6, <2>1
<1>8. 1 \in 1 .. 2 * n /\ 1 % 2 = 1  BY <1>2, EmptySeq
<1>9. cmds[1].op = "release" /\ \A j \in 1 .. 2 * n : cmds[j].op \in {"release", "refcount"}
  BY <1>7, <1>8
<1>10. ASSUME NEW h PROVE Due(ch, h) = {} /\ Coming(ch, h) = {}
  <2>1. 2 * n # 3  OBVIOUS
  <2>2. Len(ch.cmds) # 3 /\ ch.cmds[1].op = "release"  BY <1>2, <1>3, <1>9, <2>1
  <2>3. ~Ends(ch, "insert_msg") /\ ~Ends(ch, "update_pfp")  BY <2>2 DEF Ends
  <2>4. Coming(ch, h) = {}  BY <2>2 DEF Coming
  <2>5. QED  BY <2>3, <2>4 DEF Due
<1>11. ASSUME NEW h PROVE Cardinality(Owed(ch, h)) = Cardinality(Where(files, h))
  <2>1. PICK S : S = Owed(ch, h)  OBVIOUS
  <2>2. PICK T : T = Where(files, h)  OBVIOUS
  <2>3. S = {j \in 1 .. 2 * n : 0 < j /\ cmds[j].op = "release" /\ cmds[j].hash = h}
    BY <1>2, <1>3, <1>9, <2>1 DEF Owed
  <2>4. T = {i \in 1 .. n : files[i] = h}  BY <1>1, <2>2, LenProperties DEF Where
  <2>5. \A j \in S : j \in 1 .. 2 * n /\ j % 2 = 1 /\ files[(j + 1) \div 2] = h
    BY <1>7, <2>3
  <2>6. PICK f : f = [j \in S |-> (j + 1) \div 2]  OBVIOUS
  <2>7. f \in [S -> T]  BY <1>5, <2>4, <2>5, <2>6
  <2>8. \A i, j \in S : f[i] = f[j] => i = j
    <3>1. \A i, j \in 1 .. 2 * n : i % 2 = 1 /\ j % 2 = 1 /\ (i + 1) \div 2 = (j + 1) \div 2 => i = j
      OBVIOUS
    <3>2. QED  BY <2>5, <2>6, <3>1
  <2>9. IsFiniteSet(T)  BY <2>2, WhereFinite
  <2>10. ASSUME NEW i \in T PROVE \E j \in S : f[j] = i
    <3>1. PICK j \in Nat : j = 2 * i - 1 /\ j \in 1 .. 2 * n /\ j % 2 = 1 /\ (j + 1) \div 2 = i
      BY <2>4
    <3>2. j \in S  BY <1>7, <2>3, <2>4, <3>1
    <3>3. QED  BY <2>6, <3>1, <3>2
  <2>11. f \in Surjection(S, T)  BY <2>7, <2>10 DEF Surjection
  <2>12. Cardinality(S) = Cardinality(T)
    BY <2>7, <2>8, <2>9, <2>11, FS_Injection DEF Injection, IsInjective
  <2>13. QED  BY <2>1, <2>2, <2>12
<1>12. QED  BY <1>2, <1>3, <1>9, <1>10, <1>11 DEF Shape

-----------------------------------------------------------------------------
(* Callbacks                                                                 *)

LEMMA CalledBackChain ==
  ASSUME NEW ch \in Chains, Shape(ch), NEW q, q = CalledBack(ch)
  PROVE  /\ Shape(q) /\ q.cmds = ch.cmds /\ q.done = ch.done
         /\ \A h : /\ Due(q, h) = Due(ch, h) /\ Coming(q, h) = Coming(ch, h)
                   /\ Owed(q, h) \subseteq Owed(ch, h)
                   /\ ch.cmds[1].op = "select_attachs" => Owed(q, h) = {}
<1>1. q.cmds = ch.cmds /\ q.done = ch.done /\ q.ran = ch.ran + 1
  BY DEF CalledBack, Chains
<1>2. q.ran # 0  BY <1>1, InChain
<1>3. ASSUME NEW h
      PROVE  /\ Due(q, h) = Due(ch, h) /\ Coming(q, h) = Coming(ch, h)
             /\ Owed(q, h) \subseteq Owed(ch, h)
  BY <1>1, <1>2 DEF Due, Coming, Owed, Ends
<1>4. ASSUME NEW h, ch.cmds[1].op = "select_attachs" PROVE Owed(q, h) = {}
  BY <1>1, <1>2, <1>4 DEF Shape, Ends, Owed
<1>5. QED  BY <1>1, <1>3, <1>4 DEF Shape

-----------------------------------------------------------------------------
(* The order of a queue                                                      *)

LEMMA SaneAppend ==
  ASSUME NEW p \in Seq(Chains), Sane(p), NEW ch \in Chains, Shape(ch), ch.done = 0
  PROVE  Sane(Append(p, ch))
<1>1. PICK n \in Nat : n = Len(p)  BY LenProperties
<1>2. PICK q : q = Append(p, ch)  OBVIOUS
<1>3. Len(q) = n + 1 /\ q[n + 1] = ch /\ \A k \in 1 .. n : q[k] = p[k]
  BY <1>1, <1>2, AppendProperties
<1>4. \A k \in 1 .. n + 1 : k \in 1 .. n \/ k = n + 1  OBVIOUS
<1>5. \A j \in 1 .. n + 1 : ~(n + 1 < j)  OBVIOUS
<1>6. ASSUME NEW k \in 1 .. n + 1 PROVE Shape(q[k])
  BY <1>1, <1>3, <1>4 DEF Sane
<1>7. ASSUME NEW k \in 1 .. n + 1, q[k].done < Len(q[k].cmds), NEW j \in 1 .. n + 1, k < j
      PROVE  q[j].done = 0
  <2>1. CASE j = n + 1  BY <1>3, <2>1
  <2>2. CASE j \in 1 .. n  BY <1>1, <1>3, <1>7, <2>2 DEF Sane
  <2>3. QED  BY <1>4, <2>1, <2>2
<1>8. QED  BY <1>2, <1>3, <1>6, <1>7 DEF Sane

LEMMA SaneReplace ==
  ASSUME NEW p \in Seq(Chains), Sane(p), NEW k \in 1 .. Len(p), NEW ch \in Chains, Shape(ch),
         ch.done < Len(ch.cmds) => p[k].done < Len(p[k].cmds),
         ch.done = p[k].done \/ \A j \in 1 .. k - 1 : p[j].done = Len(p[j].cmds)
  PROVE  Sane([p EXCEPT ![k] = ch])
<1>1. PICK n \in Nat : n = Len(p)  BY LenProperties
<1>2. PICK q : q = [p EXCEPT ![k] = ch]  OBVIOUS
<1>3. Len(q) = n /\ q[k] = ch /\ \A j \in 1 .. n : j # k => q[j] = p[j]
  BY <1>1, <1>2, ExceptSeq
<1>4. ASSUME NEW i \in 1 .. n PROVE Shape(q[i])  BY <1>1, <1>3 DEF Sane
<1>5. ASSUME NEW i \in 1 .. n, q[i].done < Len(q[i].cmds), NEW j \in 1 .. n, i < j
      PROVE  q[j].done = 0
  <2>1. p[i].done < Len(p[i].cmds)  BY <1>3, <1>5
  <2>2. p[j].done = 0  BY <1>1, <1>5, <2>1 DEF Sane
  <2>3. CASE j # k  BY <1>3, <2>2, <2>3
  <2>4. CASE j = k
    <3>1. i \in 1 .. k - 1  BY <1>1, <1>5, <2>4
    <3>2. p[i].done # Len(p[i].cmds)  BY <1>1, <2>1, ElementOfSeq, InChain
    <3>3. QED  BY <1>3, <2>2, <2>4, <3>1, <3>2
  <2>5. QED  BY <2>3, <2>4
<1>6. QED  BY <1>2, <1>3, <1>4, <1>5 DEF Sane

LEMMA TailFacts ==
  ASSUME NEW p \in Seq(Chains), p # <<>>
  PROVE  /\ Tail(p) \in Seq(Chains) /\ Len(Tail(p)) \in Nat /\ Len(p) = Len(Tail(p)) + 1
         /\ \A k \in 1 .. Len(Tail(p)) : Tail(p)[k] = p[k + 1]
<1>1. PICK q : q = Tail(p)  OBVIOUS
<1>2. q \in Seq(Chains) /\ Len(q) = Len(p) - 1 /\ \A k \in 1 .. Len(q) : q[k] = p[k + 1]
  BY <1>1, HeadTailProperties
<1>3. PICK m \in Nat : m = Len(p)  BY LenProperties
<1>4. PICK n \in Nat : n = Len(q)  BY <1>2, LenProperties
<1>5. QED  BY <1>1, <1>2, <1>3, <1>4

LEMMA SaneTail ==
  ASSUME NEW p \in Seq(Chains), p # <<>>, Sane(p)
  PROVE  Sane(Tail(p))
<1>1. PICK q : q = Tail(p)  OBVIOUS
<1>2. PICK n \in Nat : n = Len(q)  BY <1>1, TailFacts
<1>3. Len(p) = n + 1 /\ \A k \in 1 .. n : q[k] = p[k + 1]  BY <1>1, <1>2, TailFacts
<1>4. \A k \in 1 .. n : k + 1 \in 1 .. n + 1 /\ \A j \in 1 .. n : k < j => k + 1 < j + 1
  OBVIOUS
<1>5. ASSUME NEW k \in 1 .. n PROVE Shape(q[k])  BY <1>3, <1>4 DEF Sane
<1>6. ASSUME NEW k \in 1 .. n, q[k].done < Len(q[k].cmds), NEW j \in 1 .. n, k < j
      PROVE  q[j].done = 0
  <2>1. k + 1 \in 1 .. n + 1 /\ j + 1 \in 1 .. n + 1 /\ k + 1 < j + 1  BY <1>4, <1>6
  <2>2. p[k + 1].done < Len(p[k + 1].cmds)  BY <1>3, <1>6
  <2>3. p[j + 1].done = 0  BY <1>3, <2>1, <2>2 DEF Sane
  <2>4. QED  BY <1>3, <2>3
<1>7. QED  BY <1>1, <1>2, <1>5, <1>6 DEF Sane

-----------------------------------------------------------------------------
(* Profile pictures                                                          *)

LEMMA ClaimedAppend ==
  ASSUME NEW p \in Seq(Chains), NEW ch \in Chains, ch.done = 0, NEW u, NEW new, NEW old,
         Claimed(p, u, new, old)
  PROVE  Claimed(Append(p, ch), u, new, old)
<1>1. PICK n \in Nat : n = Len(p)  BY LenProperties
<1>2. PICK q : q = Append(p, ch)  OBVIOUS
<1>3. Len(q) = n + 1 /\ q[n + 1] = ch /\ \A k \in 1 .. n : q[k] = p[k]
  BY <1>1, <1>2, AppendProperties
<1>4. \A k \in 1 .. n + 1 : k \in 1 .. n \/ k = n + 1  OBVIOUS
<1>5. ~Pend(ch, u)  BY DEF Pend
<1>6. CASE new = old /\ \A k \in 1 .. n : ~Pend(p[k], u)  BY <1>2, <1>3, <1>4, <1>5, <1>6 DEF Claimed
<1>7. ASSUME NEW k \in 1 .. n, Pend(p[k], u), p[k].cmds[3].hash = new,
             \A j \in 1 .. n : Pend(p[j], u) => j <= k
      PROVE  Claimed(q, u, new, old)
  BY <1>3, <1>4, <1>5, <1>7 DEF Claimed
<1>8. QED  BY <1>1, <1>2, <1>6, <1>7 DEF Claimed

LEMMA ClaimedReplace ==
  ASSUME NEW p \in Seq(Chains), NEW i \in 1 .. Len(p), NEW ch \in Chains, NEW u, NEW new, NEW old,
         Claimed(p, u, new, old), Pend(ch, u) <=> Pend(p[i], u),
         Pend(ch, u) => ch.cmds[3].hash = p[i].cmds[3].hash
  PROVE  Claimed([p EXCEPT ![i] = ch], u, new, old)
<1>1. PICK n \in Nat : n = Len(p)  BY LenProperties
<1>2. PICK q : q = [p EXCEPT ![i] = ch]  OBVIOUS
<1>3. Len(q) = n /\ q[i] = ch /\ \A j \in 1 .. n : j # i => q[j] = p[j]
  BY <1>1, <1>2, ExceptSeq
<1>4. \A k \in 1 .. n : Pend(q[k], u) <=> Pend(p[k], u)  BY <1>3
<1>5. \A k \in 1 .. n : Pend(q[k], u) => q[k].cmds[3].hash = p[k].cmds[3].hash  BY <1>3
<1>6. CASE new = old /\ \A k \in 1 .. n : ~Pend(p[k], u)
  BY <1>2, <1>3, <1>4, <1>6 DEF Claimed
<1>7. ASSUME NEW k \in 1 .. n, Pend(p[k], u), p[k].cmds[3].hash = new,
             \A j \in 1 .. n : Pend(p[j], u) => j <= k
      PROVE  Claimed(q, u, new, old)
  BY <1>3, <1>4, <1>5, <1>7 DEF Claimed
<1>8. QED  BY <1>1, <1>2, <1>6, <1>7 DEF Claimed

(* The picture is changed by the query of a chain behind which there is no   *)
(* other that has been executed.                                             *)
LEMMA ClaimedUpdate ==
  ASSUME NEW p \in Seq(Chains), NEW i \in 1 .. Len(p), NEW ch \in Chains, NEW u, NEW old,
         Pend(ch, u), \A j \in 1 .. Len(p) : i < j => p[j].done = 0
  PROVE  Claimed([p EXCEPT ![i] = ch], u, ch.cmds[3].hash, old)
<1>1. PICK n \in Nat : n = Len(p)  BY LenProperties
<1>2. PICK q : q = [p EXCEPT ![i] = ch]  OBVIOUS
<1>3. Len(q) = n /\ q[i] = ch /\ \A j \in 1 .. n : j # i => q[j] = p[j]
  BY <1>1, <1>2, ExceptSeq
<1>4. \A j \in 1 .. n : i < j => ~Pend(q[j], u)  BY <1>1, <1>3 DEF Pend
<1>5. i \in 1 .. n  BY <1>1
<1>6. \A j \in 1 .. n : Pend(q[j], u) => j <= i  BY <1>4, <1>5
<1>7. QED  BY <1>2, <1>3, <1>5, <1>6 DEF Claimed

(* The first chain goes; if it changed the picture, its owner knows it now.  *)
LEMMA ClaimedTail ==
  ASSUME NEW p \in Seq(Chains), p # <<>>, NEW u, NEW new, NEW old, Claimed(p, u, new, old)
  PROVE  /\ ~Pend(p[1], u) => Claimed(Tail(p), u, new, old)
         /\ Pend(p[1], u) => Claimed(Tail(p), u, new, p[1].cmds[3].hash)
<1>1. PICK q : q = Tail(p)  OBVIOUS
<1>2. PICK n \in Nat : n = Len(q)  BY <1>1, TailFacts
<1>3. Len(p) = n + 1 /\ \A k \in 1 .. n : q[k] = p[k + 1]  BY <1>1, <1>2, TailFacts
<1>4. \A k \in 1 .. n : k + 1 \in 1 .. n + 1  OBVIOUS
<1>5. \A k \in 1 .. n + 1 : k = 1 \/ (k - 1 \in 1 .. n /\ (k - 1) + 1 = k)  OBVIOUS
<1>6. CASE new = old /\ \A k \in 1 .. n + 1 : ~Pend(p[k], u)
  BY <1>1, <1>2, <1>3, <1>4, <1>6 DEF Claimed
<1>7. ASSUME NEW k \in 1 .. n + 1, Pend(p[k], u), p[k].cmds[3].hash = new,
             \A j \in 1 .. n + 1 : Pend(p[j], u) => j <= k
      PROVE  /\ ~Pend(p[1], u) => Claimed(q, u, new, old)
             /\ Pend(p[1], u) => Claimed(q, u, new, p[1].cmds[3].hash)
  <2>1. CASE k = 1  BY <1>2, <1>3, <1>4, <1>7, <2>1 DEF Claimed
  <2>2. CASE k # 1
    <3>1. PICK i \in 1 .. n : i + 1 = k  BY <1>5, <2>2
    <3>2. Pend(q[i], u) /\ q[i].cmds[3].hash = new  BY <1>3, <1>7, <3>1
    <3>3. \A j \in 1 .. n : j + 1 <= k => j <= i  BY <3>1
    <3>4. \A j \in 1 .. n : Pend(q[j], u) => j <= i  BY <1>3, <1>4, <1>7, <3>3
    <3>5. QED  BY <1>2, <3>2, <3>4 DEF Claimed
  <2>3. QED  BY <2>1, <2>2
<1>8. QED  BY <1>1, <1>3, <1>6, <1>7 DEF Claimed

-----------------------------------------------------------------------------
(* References                                                                *)

LEMMA FilesFinite ==
  ASSUME NEW f \in [Index -> Hash], NEW h
  PROVE  IsFiniteSet(Where(f, h)) /\ Cardinality(Where(f, h)) \in Nat
BY FilesAreSeq, WhereFinite

LEMMA MsgFamily ==
  ASSUME NEW ms \in [Msgs -> Msg], NEW h
  PROVE  IsFamily(MsgFiles(ms, h)) /\ Size(MsgFiles(ms, h)) \in Nat
<1>1. \A m \in Msgs : IsFiniteSet(MsgFiles(ms, h)[m])  BY FS_EmptySet, FilesFinite DEF MsgFiles, Msg
<1>2. IsFamily(MsgFiles(ms, h))  BY <1>1, MsgsAssumption DEF IsFamily, MsgFiles
<1>3. QED  BY <1>2, PairsFinite

LEMMA PictureFamily ==
  ASSUME NEW c, NEW h
  PROVE  IsFamily(Pictures(c, h)) /\ Size(Pictures(c, h)) \in Nat
<1>1. \A u \in Users : IsFiniteSet(Pictures(c, h)[u])  BY FS_EmptySet, FS_Singleton DEF Pictures
<1>2. IsFamily(Pictures(c, h))  BY <1>1, UsersAssumption DEF IsFamily, Pictures
<1>3. QED  BY <1>2, PairsFinite

LEMMA HeldFamily ==
  ASSUME NEW tk \in [Tokens -> GoodToken], NEW s, NEW h
  PROVE  IsFamily(HeldFiles(tk, s, h)) /\ Size(HeldFiles(tk, s, h)) \in Nat
<1>1. \A t \in Tokens : IsFiniteSet(HeldFiles(tk, s, h)[t])
  BY FS_EmptySet, FilesFinite DEF HeldFiles, GoodToken, Token
<1>2. IsFamily(HeldFiles(tk, s, h))  BY <1>1, TokensAssumption DEF IsFamily, HeldFiles
<1>3. QED  BY <1>2, PairsFinite

(* One message is stored or deleted.                                         *)
LEMMA MsgStored ==
  ASSUME NEW ms \in [Msgs -> Msg], NEW m \in Msgs, NEW x \in Msg, NEW h,
         ms[m].life # "live", x.life = "live", NEW ms2, ms2 = [ms EXCEPT ![m] = x]
  PROVE  OneMore(ms2, ms, x.files, h)
<1>1. ms2 \in [Msgs -> Msg] /\ ms2[m] = x /\ \A k \in Msgs : k # m => ms2[k] = ms[k]  OBVIOUS
<1>2. PICK G : G = MsgFiles(ms, h)  OBVIOUS
<1>3. PICK H : H = MsgFiles(ms2, h)  OBVIOUS
<1>4. IsFamily(G) /\ IsFamily(H) /\ Size(G) \in Nat /\ Size(H) \in Nat
  BY <1>1, <1>2, <1>3, MsgFamily
<1>5. /\ DOMAIN G = Msgs /\ DOMAIN H = Msgs /\ G[m] = {} /\ H[m] = Where(x.files, h)
      /\ \A k \in Msgs : k # m => G[k] = H[k]
  BY <1>1, <1>2, <1>3 DEF MsgFiles
<1>6. Size(H) + Cardinality(G[m]) = Size(G) + Cardinality(H[m])
  <2>1. Exchanged(G, H, m)  BY <1>4, <1>5, SizeChange
  <2>2. QED  BY <2>1 DEF Exchanged
<1>7. Size(H) = Size(G) + Cardinality(Where(x.files, h))  BY <1>4, <1>5, <1>6, FS_EmptySet
<1>8. QED  BY <1>2, <1>3, <1>7 DEF OneMore

LEMMA MsgDeleted ==
  ASSUME NEW ms \in [Msgs -> Msg], NEW m \in Msgs, NEW x \in Msg, NEW h,
         ms[m].life = "live", x.life # "live", NEW ms2, ms2 = [ms EXCEPT ![m] = x]
  PROVE  OneMore(ms, ms2, ms[m].files, h)
<1>1. ms2 \in [Msgs -> Msg] /\ ms2[m] = x /\ \A k \in Msgs : k # m => ms2[k] = ms[k]  OBVIOUS
<1>2. PICK G : G = MsgFiles(ms, h)  OBVIOUS
<1>3. PICK H : H = MsgFiles(ms2, h)  OBVIOUS
<1>4. IsFamily(G) /\ IsFamily(H) /\ Size(G) \in Nat /\ Size(H) \in Nat
  BY <1>1, <1>2, <1>3, MsgFamily
<1>5. /\ DOMAIN G = Msgs /\ DOMAIN H = Msgs /\ H[m] = {} /\ G[m] = Where(ms[m].files, h)
      /\ \A k \in Msgs : k # m => G[k] = H[k]
  BY <1>1, <1>2, <1>3 DEF MsgFiles
<1>6. Size(H) + Cardinality(G[m]) = Size(G) + Cardinality(H[m])
  <2>1. Exchanged(G, H, m)  BY <1>4, <1>5, SizeChange
  <2>2. QED  BY <2>1 DEF Exchanged
<1>7. Size(H) + Cardinality(Where(ms[m].files, h)) = Size(G)  BY <1>4, <1>5, <1>6, FS_EmptySet
<1>8. QED  BY <1>2, <1>3, <1>7 DEF OneMore

LEMMA PictureChanged ==
  ASSUME NEW c \in [Users -> Hash], NEW u \in Users, NEW f, NEW h,
         NEW c2, c2 = [c EXCEPT ![u] = f]
  PROVE  OtherPicture(c, c2, f, c[u], h)
<1>1. c2[u] = f /\ \A k \in Users : k # u => c2[k] = c[k]  OBVIOUS
<1>2. PICK G : G = Pictures(c, h)  OBVIOUS
<1>3. PICK H : H = Pictures(c2, h)  OBVIOUS
<1>4. IsFamily(G) /\ IsFamily(H)  BY <1>2, <1>3, PictureFamily
<1>5. /\ DOMAIN G = Users /\ DOMAIN H = Users
      /\ \A k \in Users : k # u => G[k] = H[k]
  BY <1>1, <1>2, <1>3 DEF Pictures
<1>6. Size(H) + Cardinality(G[u]) = Size(G) + Cardinality(H[u])
  BY <1>4, <1>5, SizeChange DEF Exchanged
<1>7. Cardinality({}) = 0 /\ Cardinality({1}) = 1  BY FS_EmptySet, FS_Singleton
<1>8. Cardinality(H[u]) = (IF f = h THEN 1 ELSE 0)  BY <1>1, <1>3, <1>7 DEF Pictures
<1>9. QED  BY <1>2, <1>3, <1>6, <1>7, <1>8 DEF OtherPicture, Pictures

LEMMA FewerHeld ==
  ASSUME NEW tk \in [Tokens -> GoodToken], NEW tk2 \in [Tokens -> GoodToken], NEW s, NEW s2, NEW h,
         \A t \in Tokens : HeldFiles(tk2, s2, h)[t] \subseteq HeldFiles(tk, s, h)[t]
  PROVE  Size(HeldFiles(tk2, s2, h)) <= Size(HeldFiles(tk, s, h))
<1>1. IsFamily(HeldFiles(tk, s, h))  BY HeldFamily
<1>2. QED  BY <1>1, SizeMono DEF HeldFiles

LEMMA HeldChanged ==
  ASSUME NEW tk \in [Tokens -> GoodToken], NEW tk2 \in [Tokens -> GoodToken], NEW s, NEW s2, NEW h,
         NEW t \in Tokens, \A v \in Tokens : v # t => tk2[v] = tk[v] /\ s2[v] = s[v]
  PROVE  Exchanged(HeldFiles(tk, s, h), HeldFiles(tk2, s2, h), t)
<1>1. PICK G : G = HeldFiles(tk, s, h)  OBVIOUS
<1>2. PICK H : H = HeldFiles(tk2, s2, h)  OBVIOUS
<1>3. DOMAIN G = Tokens /\ DOMAIN H = Tokens /\ \A k \in Tokens : k # t => G[k] = H[k]
  BY <1>1, <1>2 DEF HeldFiles
<1>4. Exchanged(G, H, t)  BY <1>1, <1>2, <1>3, SizeChange, HeldFamily
<1>5. QED  BY <1>1, <1>2, <1>4

-----------------------------------------------------------------------------
(* Pictures in the database are covered by those in memory and by those that *)
(* the queue owes.                                                           *)

LEMMA PendOwed ==
  ASSUME NEW ch \in Chains, Shape(ch), NEW u, Pend(ch, u)
  PROVE  3 \in Owed(ch, ch.cmds[3].hash)
<1>1. Len(ch.cmds) = 3 /\ ch.cmds[3].op = "update_pfp" /\ ch.done = 3 /\ ch.cmds[3].ok
  BY DEF Pend, Ends
<1>2. Place(ch, 3)  BY <1>1, Places
<1>3. QED  BY <1>1, <1>2 DEF Owed, Ends, Place

LEMMA PicturesCovered ==
  ASSUME NEW p \in Seq(Chains), Sane(p), NEW new \in [Users -> Hash], NEW old \in [Users -> Hash],
         \A u \in Users : Claimed(p, u, new[u], old[u]), NEW h
  PROVE  /\ Cardinality({u \in Users : new[u] = h}) \in Nat
         /\ Cardinality({u \in Users : new[u] = h}) <= Size(Pictures(old, h)) + Size(OwedIn(p, h))
<1>1. PICK n \in Nat : n = Len(p)  BY LenProperties
<1>2. PICK A : A = {u \in Users : new[u] = h /\ old[u] = h}  OBVIOUS
<1>3. PICK B : B = {u \in Users : new[u] = h /\ old[u] # h}  OBVIOUS
<1>4. {u \in Users : new[u] = h} = A \cup B /\ A \cap B = {}  BY <1>2, <1>3
<1>5. IsFiniteSet(A) /\ IsFiniteSet(B)  BY <1>2, <1>3, UsersAssumption, FS_Subset
<1>6. Cardinality(A) <= Size(Pictures(old, h))
  <2>1. PICK G : G = Pictures(old, h)  OBVIOUS
  <2>2. DOMAIN G = Users /\ \A u \in A : 1 \in G[u]  BY <1>2, <2>1 DEF Pictures
  <2>3. PICK f : f = [u \in A |-> <<u, 1>>]  OBVIOUS
  <2>4. \A u \in A : <<u, 1>> \in Pairs(G)  BY <1>2, <2>2, InPairs
  <2>5. f \in Injection(A, Pairs(G))  BY <2>3, <2>4 DEF Injection, IsInjective
  <2>6. IsFiniteSet(Pairs(G))  BY <2>1, PictureFamily, PairsFinite
  <2>7. QED  BY <2>1, <2>5, <2>6, FS_Injection DEF Size
<1>7. Cardinality(B) <= Size(OwedIn(p, h))
  <2>1. PICK G : G = OwedIn(p, h)  OBVIOUS
  <2>2. PICK f : f = [u \in B |-> <<CHOOSE k \in 1 .. n : Pend(p[k], u) /\ p[k].cmds[3].hash = h, 3>>]
    OBVIOUS
  <2>3. ASSUME NEW u \in B
        PROVE  \E k \in 1 .. n : f[u] = <<k, 3>> /\ Pend(p[k], u) /\ p[k].cmds[3].hash = h
    BY <1>1, <1>3, <2>2 DEF Claimed
  <2>4. \A u \in B : f[u] \in Pairs(G)
    <3> TAKE u \in B
    <3>1. PICK k \in 1 .. n : f[u] = <<k, 3>> /\ Pend(p[k], u) /\ p[k].cmds[3].hash = h  BY <2>3
    <3>2. 3 \in Owed(p[k], h)  BY <1>1, <3>1, PendOwed, ElementOfSeq DEF Sane
    <3>3. QED  BY <1>1, <2>1, <3>1, <3>2, InPairs DEF OwedIn
  <2>5. ASSUME NEW u \in B, NEW v \in B, f[u] = f[v] PROVE u = v
    <3>1. PICK k \in 1 .. n : f[u] = <<k, 3>> /\ Pend(p[k], u)  BY <2>3
    <3>2. PICK j \in 1 .. n : f[v] = <<j, 3>> /\ Pend(p[j], v)  BY <2>3
    <3>3. k = j
      <4>1. <<k, 3>>[1] = k /\ <<j, 3>>[1] = j  OBVIOUS
      <4>2. QED  BY <2>5, <3>1, <3>2, <4>1
    <3>4. QED  BY <3>1, <3>2, <3>3 DEF Pend
  <2>6. f \in Injection(B, Pairs(G))  BY <2>2, <2>4, <2>5 DEF Injection, IsInjective
  <2>7. IsFiniteSet(Pairs(G))  BY <2>1, QueueFamilies, PairsFinite
  <2>8. QED  BY <2>1, <2>6, <2>7, FS_Injection DEF Size
<1>8. Cardinality(A \cup B) = Cardinality(A) + Cardinality(B)
  <2>1. Cardinality(A \cup B) = Cardinality(A) + Cardinality(B) - Cardinality(A \cap B)
    BY <1>5, FS_Union
  <2>2. PICK a \in Nat : a = Cardinality(A)  BY <1>5, FS_CardinalityType
  <2>3. PICK b \in Nat : b = Cardinality(B)  BY <1>5, FS_CardinalityType
  <2>4. Cardinality(A \cap B) = 0  BY <1>4, FS_EmptySet
  <2>5. Cardinality(A \cup B) = a + b - 0  BY <2>1, <2>2, <2>3, <2>4
  <2>6. QED  BY <2>2, <2>3, <2>5
<1>9. PICK a \in Nat : a = Cardinality(A)  BY <1>5, FS_CardinalityType
<1>10. PICK b \in Nat : b = Cardinality(B)  BY <1>5, FS_CardinalityType
<1>11. PICK x \in Nat : x = Size(Pictures(old, h))  BY PictureFamily
<1>12. PICK y \in Nat : y = Size(OwedIn(p, h))  BY QueueFamilies
<1>13. a + b \in Nat /\ a + b <= x + y  BY <1>6, <1>7, <1>9, <1>10, <1>11, <1>12
<1>14. QED  BY <1>4, <1>8, <1>9, <1>10, <1>11, <1>12, <1>13

LEMMA RowOf ==
  ASSUME NEW T \in Nat \ {0}, NEW n \in Nat, NEW l \in 1 .. n, NEW i \in 1 .. T
  PROVE  HasRow(T, n, l, i)
<1>1. PICK a \in Nat : a = l - 1 /\ a + 1 <= n  OBVIOUS
<1>2. PICK b \in Nat : b = i - 1 /\ b < T  OBVIOUS
<1>3. PICK x \in Nat : x = T * a + b  OBVIOUS
<1>4. PICK q \in Nat : q = x \div T  OBVIOUS
<1>5. PICK r \in Nat : r = x % T /\ r < T  OBVIOUS
<1>6. x = T * q + r  BY <1>4, <1>5
<1>7. ~(q < a)
  <2>1. SUFFICES ASSUME q < a PROVE FALSE  OBVIOUS
  <2>2. T * (q + 1) = T * q + T  OBVIOUS
  <2>3. QED  BY <1>3, <1>5, <1>6, <2>1, <2>2
<1>8. ~(a < q)
  <2>1. SUFFICES ASSUME a < q PROVE FALSE  OBVIOUS
  <2>2. T * (a + 1) = T * a + T  OBVIOUS
  <2>3. QED  BY <1>2, <1>3, <1>6, <2>1, <2>2
<1>9. q = a  BY <1>7, <1>8
<1>10. r = b  BY <1>3, <1>6, <1>9
<1>11. x + 1 \in 1 .. T * n /\ (x + 1) - 1 = x  BY <1>1, <1>2, <1>3
<1>12. QED  BY <1>1, <1>2, <1>4, <1>5, <1>9, <1>10, <1>11 DEF HasRow

(* The selected attachments are those of the stored messages.                *)
LEMMA AttachmentsCount ==
  ASSUME Types, NEW ms \in SetToSeqs(LiveMsgs), NEW h
  PROVE  Cardinality(Where(Attachments(ms), h)) = Size(MsgFiles(msg, h))
<1>1. PICK n \in Nat : n = Cardinality(LiveMsgs)  BY LiveMsgsFinite
<1>2. ms \in [1 .. n -> LiveMsgs] /\ \A i, j \in 1 .. n : i # j => ms[i] # ms[j]
  BY <1>1 DEF SetToSeqs
<1>3. Len(ms) = n  BY <1>2, LenProperties
<1>4. Total \in Nat \ {0}  BY TotalAssumption
<1>5. PICK at : at = [j \in 1 .. Total * n |-> ((j - 1) \div Total) + 1]  OBVIOUS
<1>6. PICK of : of = [j \in 1 .. Total * n |-> ((j - 1) % Total) + 1]  OBVIOUS
<1>7. \A j \in 1 .. Total * n : at[j] \in 1 .. n /\ of[j] \in 1 .. Total
  <2>1. \A j \in 1 .. Total * n :
          ((j - 1) \div Total) + 1 \in 1 .. n /\ ((j - 1) % Total) + 1 \in 1 .. Total
    BY <1>4
  <2>2. QED  BY <1>5, <1>6, <2>1
<1>8. \A i, j \in 1 .. Total * n : at[i] = at[j] /\ of[i] = of[j] => i = j
  <2>1. ASSUME NEW a \in Nat PROVE a = Total * (a \div Total) + (a % Total)  BY <1>4
  <2>2. ASSUME NEW a \in Nat, NEW b \in Nat, a \div Total = b \div Total, a % Total = b % Total
        PROVE  a = b
    BY <2>1, <2>2
  <2>3. ASSUME NEW i \in 1 .. Total * n, NEW j \in 1 .. Total * n, at[i] = at[j], of[i] = of[j]
        PROVE  i = j
    <3>1. i - 1 \in Nat /\ j - 1 \in Nat  BY <1>4
    <3>2. ((i - 1) \div Total) + 1 = ((j - 1) \div Total) + 1
          /\ ((i - 1) % Total) + 1 = ((j - 1) % Total) + 1
      BY <1>5, <1>6, <2>3
    <3>3. (i - 1) \div Total = (j - 1) \div Total /\ (i - 1) % Total = (j - 1) % Total
      BY <1>4, <3>1, <3>2
    <3>4. i - 1 = j - 1  BY <2>2, <3>1, <3>3
    <3>5. QED  BY <1>4, <3>4
  <2>4. QED  BY <2>3
<1>9. PICK s : s = Attachments(ms)  OBVIOUS
<1>10. DOMAIN s = 1 .. Total * n /\ \A j \in 1 .. Total * n : s[j] = msg[ms[at[j]]].files[of[j]]
  BY <1>3, <1>5, <1>6, <1>9 DEF Attachments
<1>11. PICK S : S = Where(s, h)  OBVIOUS
<1>12. \A j \in S : j \in 1 .. Total * n /\ msg[ms[at[j]]].files[of[j]] = h
  BY <1>10, <1>11 DEF Where
<1>13. PICK G : G = MsgFiles(msg, h)  OBVIOUS
<1>14. ASSUME NEW j \in S PROVE <<ms[at[j]], of[j]>> \in Pairs(G)
  <2>1. j \in 1 .. Total * n /\ msg[ms[at[j]]].files[of[j]] = h  BY <1>12
  <2>2. at[j] \in 1 .. n /\ of[j] \in 1 .. Total  BY <1>7, <2>1
  <2>3. PICK m : m = ms[at[j]]  OBVIOUS
  <2>4. m \in Msgs /\ msg[m].life = "live"  BY <1>2, <2>2, <2>3 DEF LiveMsgs
  <2>5. of[j] \in Where(msg[m].files, h)  BY <2>1, <2>2, <2>3, <2>4 DEF Where, Types, Msg, Index
  <2>6. QED  BY <1>13, <2>3, <2>4, <2>5, InPairs DEF MsgFiles
<1>15. PICK f : f = [j \in S |-> <<ms[at[j]], of[j]>>]  OBVIOUS
<1>16. \A i, j \in S : f[i] = f[j] => i = j
  <2>1. ASSUME NEW i \in S, NEW j \in S, f[i] = f[j] PROVE i = j
    BY <1>2, <1>7, <1>8, <1>12, <1>15, <2>1
  <2>2. QED  BY <2>1
<1>17. IsFiniteSet(Pairs(G))  BY <1>13, MsgFamily, PairsFinite DEF Types
<1>18. ms \in Surjection(1 .. n, LiveMsgs)
  <2>1. ms \in Injection(1 .. n, LiveMsgs)  BY <1>2 DEF Injection, IsInjective
  <2>2. Cardinality(1 .. n) = n  BY <1>1, FS_Interval
  <2>3. IsFiniteSet(LiveMsgs)  BY LiveMsgsFinite
  <2>4. QED  BY <1>1, <2>1, <2>2, <2>3, FS_Injection
<1>19. ASSUME NEW z \in Pairs(G) PROVE \E j \in S : f[j] = z
  <2>1. z = <<z[1], z[2]>> /\ z[1] \in DOMAIN G /\ z[2] \in G[z[1]]  BY InPairs
  <2>2. PICK m \in Msgs : m = z[1]  BY <1>13, <2>1 DEF MsgFiles
  <2>3. msg[m].life = "live" /\ z[2] \in Where(msg[m].files, h)  BY <1>13, <2>1, <2>2 DEF MsgFiles
  <2>4. PICK i \in 1 .. Total : i = z[2] /\ msg[m].files[i] = h
    BY <2>2, <2>3 DEF Where, Types, Msg, Index
  <2>5. PICK l \in 1 .. n : ms[l] = m  BY <1>18, <2>2, <2>3 DEF Surjection, LiveMsgs
  <2>r. HasRow(Total, n, l, i)  BY TotalAssumption, RowOf
  <2>6. PICK j \in 1 .. Total * n : (j - 1) \div Total = l - 1 /\ (j - 1) % Total = i - 1
    BY <2>r DEF HasRow
  <2>7. at[j] = l /\ of[j] = i  BY <1>5, <1>6, <2>6
  <2>8. j \in S  BY <1>10, <1>11, <2>4, <2>5, <2>7 DEF Where
  <2>9. QED  BY <1>15, <2>1, <2>2, <2>4, <2>5, <2>7, <2>8
<1>20. f \in Surjection(S, Pairs(G))  BY <1>14, <1>15, <1>19 DEF Surjection
<1>21. Cardinality(S) = Cardinality(Pairs(G))
  BY <1>14, <1>15, <1>16, <1>17, <1>20, FS_Injection DEF Injection, IsInjective
<1>22. QED  BY <1>9, <1>11, <1>13, <1>21 DEF Size

LEMMA ReferencesAre ==
  ASSUME Types, NEW h
  PROVE  References(h) = Size(MsgFiles(msg, h)) + Cardinality({u \in Users : pfp[u] = h})
<1>1. PICK S : S = {x \in Msgs \X Index : msg[x[1]].life = "live" /\ msg[x[1]].files[x[2]] = h}
  OBVIOUS
<1>2. PICK G : G = MsgFiles(msg, h)  OBVIOUS
<1>3. DOMAIN G = Msgs  BY <1>2 DEF MsgFiles
<1>4. \A m \in Msgs : \A i : i \in G[m] <=> i \in Index /\ msg[m].life = "live" /\ msg[m].files[i] = h
  BY <1>2 DEF MsgFiles, Where, Types, Msg
<1>5. ASSUME NEW z \in S PROVE z \in Pairs(G)  BY <1>1, <1>3, <1>4, InPairs
<1>6. ASSUME NEW z \in Pairs(G) PROVE z \in S  BY <1>1, <1>3, <1>4, InPairs
<1>7. QED  BY <1>1, <1>2, <1>5, <1>6 DEF References, Size

-----------------------------------------------------------------------------
(* The invariant behind RefCountCovers                                       *)

LEMMA RefsNat ==
  ASSUME NEW ms \in [Msgs -> Msg], NEW c, NEW h
  PROVE  Refs(ms, c, h) \in Nat
BY MsgFamily, PictureFamily DEF Refs

LEMMA SelectedAppend ==
  ASSUME NEW p \in Seq(Chains), NEW ch \in Chains, ch.done = 0, NEW ms, Selected(p, ms)
  PROVE  Selected(Append(p, ch), ms)
<1>1. PICK n \in Nat : n = Len(p)  BY LenProperties
<1>2. PICK q : q = Append(p, ch)  OBVIOUS
<1>3. Len(q) = n + 1 /\ q[n + 1] = ch /\ \A k \in 1 .. n : q[k] = p[k]
  BY <1>1, <1>2, AppendProperties
<1>4. \A k \in 1 .. n + 1 : k \in 1 .. n \/ k = n + 1  OBVIOUS
<1>5. ASSUME NEW k \in 1 .. n + 1, q[k].cmds[1].op = "select_attachs", q[k].done = 1
      PROVE  Stored(q[k].cmds[1].files, ms)
  BY <1>1, <1>3, <1>4, <1>5 DEF Selected
<1>6. QED  BY <1>2, <1>3, <1>5 DEF Selected

LEMMA SelectedTail ==
  ASSUME NEW p \in Seq(Chains), p # <<>>, NEW ms, Selected(p, ms)
  PROVE  Selected(Tail(p), ms)
<1>1. PICK q : q = Tail(p)  OBVIOUS
<1>2. PICK n \in Nat : n = Len(q)  BY <1>1, TailFacts
<1>3. \A k \in 1 .. n : k + 1 \in 1 .. n + 1  OBVIOUS
<1>4. ASSUME NEW k \in 1 .. n, q[k].cmds[1].op = "select_attachs", q[k].done = 1
      PROVE  Stored(q[k].cmds[1].files, ms)
  BY <1>1, <1>2, <1>3, <1>4, TailFacts DEF Selected
<1>5. QED  BY <1>1, <1>2, <1>4 DEF Selected

LEMMA SelectedReplace ==
  ASSUME NEW p \in Seq(Chains), NEW i \in 1 .. Len(p), NEW ch \in Chains, NEW ms, Selected(p, ms),
         ch.cmds = p[i].cmds, ch.done = p[i].done
  PROVE  Selected([p EXCEPT ![i] = ch], ms)
<1>1. PICK n \in Nat : n = Len(p)  BY LenProperties
<1>2. PICK q : q = [p EXCEPT ![i] = ch]  OBVIOUS
<1>3. Len(q) = n /\ q[i] = ch /\ \A j \in 1 .. n : j # i => q[j] = p[j]
  BY <1>1, <1>2, ExceptSeq
<1>4. QED  BY <1>1, <1>2, <1>3 DEF Selected

LEMMA ExecutingHolds ==
  ASSUME NEW p \in Seq(Chains), Sane(p), NEW k \in 1 .. Len(p), p[k].done < Len(p[k].cmds),
         \A j \in 1 .. k - 1 : p[j].done = Len(p[j].cmds), NEW op, p[k].cmds[p[k].done + 1].op = op,
         NEW cmd \in GoodQuery, SameQuery(cmd, p[k].cmds[p[k].done + 1])
  PROVE  Executing(p, k, op, cmd, Answered(p[k], cmd))
<1>1. PICK n \in Nat : n = Len(p)  BY LenProperties
<1>2. k \in 1 .. n /\ \A j \in 1 .. n : p[j] \in Chains /\ Shape(p[j])
  BY <1>1, ElementOfSeq DEF Sane
<1>3. PICK q : q = Answered(p[k], cmd)  OBVIOUS
<1>4. AnswersTo(p[k], cmd, q) /\ q \in Chains  BY <1>2, <1>3, AnsweredFacts
<1>5. Step(p[k], op, cmd, q)  BY <1>2, <1>4 DEF Step
<1>6. Sane([p EXCEPT ![k] = q])  BY <1>2, <1>4, SaneReplace, AnsweredShape
<1>7. \A h : \A j \in 1 .. k - 1 : Due(p[j], h) = {} /\ Coming(p[j], h) = {}  BY <1>2, DoneChain
<1>8. \A j \in 1 .. Len(p) : k < j => p[j].done = 0  BY DEF Sane
<1>9. ASSUME NEW j \in 1 .. n, j # k, p[j].cmds[1].op = "select_attachs", p[j].done = 1
       PROVE  FALSE
  <2>1. Len(p[j].cmds) = 2  BY <1>2, <1>9 DEF Shape
  <2>2. CASE j \in 1 .. k - 1
    <3>1. p[j].done = 2  BY <2>1, <2>2
    <3>2. QED  BY <1>9, <3>1
  <2>3. CASE k < j  BY <1>1, <1>8, <1>9, <2>3
  <2>4. QED  BY <1>2, <1>9, <2>2, <2>3
<1>10. QED  BY <1>1, <1>3, <1>4, <1>5, <1>6, <1>7, <1>8, <1>9 DEF Executing

LEMMA ExecutingSelected ==
  ASSUME NEW p \in Seq(Chains), NEW k, NEW op, NEW cmd, NEW q, Executing(p, k, op, cmd, q), NEW ms,
         op = "select_attachs" => Stored(cmd.files, ms)
  PROVE  Selected([p EXCEPT ![k] = q], ms)
<1>1. PICK n \in Nat : n = Len(p)  BY LenProperties
<1>2. PICK r : r = [p EXCEPT ![k] = q]  OBVIOUS
<1>3. k \in 1 .. Len(p) /\ q \in Chains /\ Step(p[k], op, cmd, q)  BY DEF Executing
<1>4. Len(r) = n /\ r[k] = q /\ \A j \in 1 .. n : j # k => r[j] = p[j]
  BY <1>1, <1>2, <1>3, ExceptSeq
<1>5. ASSUME q.cmds[1].op = "select_attachs", q.done = 1
      PROVE  op = "select_attachs" /\ q.cmds[1] = cmd
  BY <1>3, <1>5, StepFacts DEF StepsTo
<1>6. ASSUME NEW j \in 1 .. n, r[j].cmds[1].op = "select_attachs", r[j].done = 1
      PROVE  Stored(r[j].cmds[1].files, ms)
  BY <1>1, <1>4, <1>5, <1>6 DEF Executing
<1>7. QED  BY <1>2, <1>4, <1>6 DEF Selected

LEMMA ExecutingClaimed ==
  ASSUME NEW p \in Seq(Chains), NEW k, NEW op, NEW cmd, NEW q, Executing(p, k, op, cmd, q),
         NEW u, NEW new, NEW old, Claimed(p, u, new, old),
         op = "update_pfp" => ~cmd.ok \/ cmd.arg # u
  PROVE  Claimed([p EXCEPT ![k] = q], u, new, old)
<1>1. k \in 1 .. Len(p) /\ q \in Chains /\ Step(p[k], op, cmd, q)  BY DEF Executing
<1>2. PICK m \in Nat, d \in Nat : StepsTo(m, d, p[k], op, cmd, q)  BY <1>1, StepFacts
<1>3. ~Pend(p[k], u)
  <2>1. Len(p[k].cmds) = m /\ p[k].done = d /\ d < m  BY <1>2 DEF StepsTo
  <2>2. ~(m = 3 /\ d = 3)  BY <2>1
  <2>3. QED  BY <2>1, <2>2 DEF Pend, Ends
<1>4. ~Pend(q, u)
  <2>1. SUFFICES ASSUME Pend(q, u) PROVE FALSE  OBVIOUS
  <2>2. q.done = 3 /\ q.cmds[3].op = "update_pfp" /\ q.cmds[3].ok /\ q.cmds[3].arg = u
    BY <2>1 DEF Pend, Ends
  <2>3. q.done = d + 1 /\ d + 1 \in 1 .. m /\ q.cmds[d + 1] = cmd /\ p[k].cmds[d + 1].op = op
        /\ q.cmds[d + 1].op = p[k].cmds[d + 1].op
    BY <1>2 DEF StepsTo
  <2>4. d + 1 = 3  BY <2>2, <2>3
  <2>5. QED  BY <2>2, <2>3, <2>4
<1>5. QED  BY <1>1, <1>3, <1>4, ClaimedReplace

LEMMA ExecutingPaid ==
  ASSUME NEW p \in Seq(Chains), NEW k, NEW op, NEW cmd, NEW q, Executing(p, k, op, cmd, q), NEW h,
         NEW a \in Nat, NEW a2 \in Nat, NEW r \in Nat, NEW r2 \in Nat, NEW g \in Nat, NEW c \in Nat,
         Paid(p, h, a, r, g, c), Coming(q, h) = {},
         a2 + Cardinality(Owed(q, h)) + Cardinality(Due(q, h)) + r + Cardinality(Coming(p[k], h))
           <= a + Cardinality(Owed(p[k], h)) + Cardinality(Due(p[k], h)) + r2
  PROVE  Paid([p EXCEPT ![k] = q], h, a2, r2, g, c)
<1>1. \A j \in 1 .. k - 1 : Due(p[j], h) = {} /\ Coming(p[j], h) = {}  BY DEF Executing
<1>2. Covers(p, h, a, r) /\ CoversHeld(p, h, a, r, g, c)  BY DEF Paid
<1>3. QED  BY <1>1, <1>2, ResultCovers DEF Paid, Executing

-----------------------------------------------------------------------------
(* The database keeps the accounts.                                          *)

LEMMA Concludes ==
  ASSUME OneWorker, NEW w \in Workers, Fresh(token'),
         Accounts(pipe'[w], token', row', msg', pfp', cached', sent', task'[w])
  PROVE  FilesInv'
BY DEF FilesInv, OneWorker

LEMMA InvFacts ==
  ASSUME Types, FilesInv, ~ub, NEW w \in Workers
  PROVE  /\ Fresh(token) /\ pipe[w] \in Seq(Chains) /\ Sane(pipe[w]) /\ Selected(pipe[w], msg)
         /\ \A u \in Users : Claimed(pipe[w], u, pfp[u], cached[u])
         /\ \A h \in Hashes : Paid(pipe[w], h, Refs(msg, cached, h), row[h],
                                   Size(HeldFiles(token, sent, h)), Taken(task[w], h))
BY DEF FilesInv, Accounts, Types

LEMMA TakenNat == \A x, h : Taken(x, h) \in Nat
BY DEF Taken

LEMMA ExecutesStep ==
  ASSUME Types, FilesInv, NEW w \in Workers, NEW k \in DOMAIN pipe[w], NEW op, Executes(w, k, op),
         NEW cmd \in GoodQuery, SameQuery(cmd, Executed(w, k)), Result(w, k, cmd)
  PROVE  /\ Executing(pipe[w], k, op, cmd, Answered(pipe[w][k], cmd))
         /\ Step(pipe[w][k], op, cmd, Answered(pipe[w][k], cmd))
         /\ pipe'[w] = [pipe[w] EXCEPT ![k] = Answered(pipe[w][k], cmd)]
         /\ pipe[w][k] \in Chains /\ Answered(pipe[w][k], cmd) \in Chains
         /\ ~ub /\ Executed(w, k) = pipe[w][k].cmds[pipe[w][k].done + 1]
<1>1. ~ub  BY DEF Executes
<1>2. pipe[w] \in Seq(Chains) /\ Sane(pipe[w])  BY <1>1, InvFacts
<1>3. pipe[w][k].done < Len(pipe[w][k].cmds) /\ pipe[w][k].cmds[pipe[w][k].done + 1].op = op
      /\ \A j \in 1 .. k - 1 : pipe[w][j].done = Len(pipe[w][j].cmds)
  BY DEF Executes, Current
<1>4. SameQuery(cmd, pipe[w][k].cmds[pipe[w][k].done + 1])  BY DEF Executed
<1>5. Executing(pipe[w], k, op, cmd, Answered(pipe[w][k], cmd))
  BY <1>2, <1>3, <1>4, ExecutingHolds, LenProperties
<1>6. QED  BY <1>1, <1>5 DEF Executing, Step, Executed, Result, Types

LEMMA DatabaseStep ==
  ASSUME Types, FilesInv, OneWorker, NEW w \in Workers,
         NEW k \in DOMAIN pipe[w], NEW op,
         Executes(w, k, op), NEW cmd \in GoodQuery, SameQuery(cmd, Executed(w, k)), Result(w, k, cmd),
         UNCHANGED <<token, cached, sent, task>>, msg' \in [Msgs -> Msg], row' \in [Hashes -> Nat],
         op = "select_attachs" => Stored(cmd.files, msg'),
         pfp' = IF op = "update_pfp" /\ cmd.ok THEN [pfp EXCEPT ![cmd.arg] = cmd.hash] ELSE pfp,
         \A h \in Hashes : Balance(pipe[w][k], Answered(pipe[w][k], cmd), h,
                                   Refs(msg, cached, h), Refs(msg', cached, h), row[h], row'[h])
  PROVE  FilesInv'
<1>1. PICK q : q = Answered(pipe[w][k], cmd)  OBVIOUS
<1>2. PICK p : p = pipe[w]  OBVIOUS
<1>3. /\ Executing(p, k, op, cmd, q) /\ Step(p[k], op, cmd, q)
      /\ pipe'[w] = [p EXCEPT ![k] = q] /\ q \in Chains /\ ~ub
  BY <1>1, <1>2, ExecutesStep
<1>4. /\ Fresh(token) /\ p \in Seq(Chains) /\ Sane(p) /\ Selected(p, msg)
      /\ \A u \in Users : Claimed(p, u, pfp[u], cached[u])
      /\ \A h \in Hashes : Paid(p, h, Refs(msg, cached, h), row[h],
                                Size(HeldFiles(token, sent, h)), Taken(task[w], h))
  BY <1>2, <1>3, InvFacts
<1>5. Selected(pipe'[w], msg')
  <2>1. PICK ms : ms = msg'  OBVIOUS
  <2>2. op = "select_attachs" => Stored(cmd.files, ms)  BY <2>1
  <2>3. p \in Seq(Chains) /\ Executing(p, k, op, cmd, q)  BY <1>3, <1>4
  <2>4. Selected([p EXCEPT ![k] = q], ms)  BY <2>2, <2>3, ExecutingSelected
  <2>5. QED  BY <1>3, <2>1, <2>4
<1>6. ASSUME NEW u \in Users PROVE Claimed(pipe'[w], u, pfp'[u], cached[u])
  <2>1. CASE op = "update_pfp" /\ cmd.ok /\ cmd.arg = u
    <3>1. PICK n \in Nat, d \in Nat : StepsTo(n, d, p[k], op, cmd, q)  BY <1>3, StepFacts
    <3>2. /\ q.done = 3 /\ Len(q.cmds) = 3 /\ q.cmds[3] = cmd  BY <2>1, <3>1 DEF StepsTo, Place
    <3>3. Pend(q, u)  BY <2>1, <3>2 DEF Pend, Ends, SameQuery, Executed, Executes
    <3>4. Claimed([p EXCEPT ![k] = q], u, q.cmds[3].hash, cached[u])
      BY <1>3, <1>4, <3>3, ClaimedUpdate DEF Executing
    <3>5. QED  BY <1>3, <2>1, <3>2, <3>4 DEF Types
  <2>2. CASE ~(op = "update_pfp" /\ cmd.ok /\ cmd.arg = u)
    <3>1. pfp'[u] = pfp[u]  BY <2>2 DEF Types
    <3>2. Claimed(p, u, pfp[u], cached[u])  BY <1>4
    <3>3. op = "update_pfp" => ~cmd.ok \/ cmd.arg # u  BY <2>2
    <3>4. Claimed([p EXCEPT ![k] = q], u, pfp[u], cached[u])
      BY <1>3, <1>4, <3>2, <3>3, ExecutingClaimed
    <3>5. QED  BY <1>3, <3>1, <3>4
  <2>3. QED  BY <2>1, <2>2
<1>7. ASSUME NEW h \in Hashes
      PROVE  Paid(pipe'[w], h, Refs(msg', cached, h), row'[h],
                  Size(HeldFiles(token, sent, h)), Taken(task[w], h))
  <2>1. PICK a \in Nat : a = Refs(msg, cached, h)  BY RefsNat DEF Types
  <2>2. PICK a2 \in Nat : a2 = Refs(msg', cached, h)  BY RefsNat
  <2>3. PICK r \in Nat : r = row[h]  BY DEF Types
  <2>4. PICK r2 \in Nat : r2 = row'[h]  OBVIOUS
  <2>5. PICK g \in Nat : g = Size(HeldFiles(token, sent, h))  BY HeldFamily DEF Types
  <2>6. PICK c \in Nat : c = Taken(task[w], h)  BY TakenNat
  <2>7. Balance(p[k], q, h, a, a2, r, r2)  BY <1>1, <1>2, <2>1, <2>2, <2>3, <2>4
  <2>8. Paid(p, h, a, r, g, c)  BY <1>4, <2>1, <2>3, <2>5, <2>6
  <2>9. Paid([p EXCEPT ![k] = q], h, a2, r2, g, c)
    BY <1>3, <1>4, <2>7, <2>8, ExecutingPaid DEF Balance
  <2>10. QED  BY <1>3, <2>2, <2>4, <2>5, <2>6, <2>9
<1>8. QED  BY <1>3, <1>4, <1>5, <1>6, <1>7, Concludes DEF Accounts, Executing

LEMMA EmptyCardinality == Cardinality({}) = 0 /\ Cardinality({1}) = 1 /\ Cardinality({3}) = 1
BY FS_EmptySet, FS_Singleton

LEMMA InsertFileKeeps ==
  ASSUME Types, Types', FilesInv, OneWorker, NEW w \in Workers, db_async_insert_userfile(w)
  PROVE  FilesInv'
<1>1. PICK k \in DOMAIN pipe[w] :
        /\ Executes(w, k, "insert_file")
        /\ row' = [row EXCEPT ![Executed(w, k).hash] = @ + 1]
        /\ Result(w, k, Executed(w, k))
  BY DEF db_async_insert_userfile
<1>2. UNCHANGED <<token, cached, sent, task, msg, pfp>>  BY DEF db_async_insert_userfile, hist
<1>3. PICK c : c = Executed(w, k)  OBVIOUS
<1>4. c \in GoodQuery /\ SameQuery(c, c)  BY <1>1, <1>3, ExecutedTypes DEF SameQuery
<1>5. c.hash \in Hashes  BY <1>1, <1>3, ExecutedTypes DEF GoodQuery
<1>6. PICK q : q = Answered(pipe[w][k], c)  OBVIOUS
<1>7. /\ Step(pipe[w][k], "insert_file", c, q) /\ pipe[w][k] \in Chains
      /\ c = pipe[w][k].cmds[pipe[w][k].done + 1]
  BY <1>1, <1>3, <1>4, <1>6, ExecutesStep
<1>8. ASSUME NEW h \in Hashes
      PROVE  Balance(pipe[w][k], q, h, Refs(msg, cached, h), Refs(msg', cached, h), row[h], row'[h])
  <2>1. PICK a \in Nat : a = Refs(msg, cached, h)  BY RefsNat DEF Types
  <2>2. PICK r \in Nat : r = row[h]  BY DEF Types
  <2>3. PICK d \in Nat : d = Cardinality(Due(pipe[w][k], h))  BY <1>7, ChainFinite
  <2>4. /\ Owed(q, h) = {} /\ Owed(pipe[w][k], h) = {} /\ Due(q, h) = Due(pipe[w][k], h)
        /\ Coming(q, h) = {}
        /\ Coming(pipe[w][k], h) = IF c.hash = h THEN {1} ELSE {}
    <3>1. PICK ch : ch = pipe[w][k]  OBVIOUS
    <3>2. Step(ch, "insert_file", c, q) /\ c = ch.cmds[ch.done + 1]  BY <3>1, <1>7
    <3>3. /\ Owed(q, h) = {} /\ Owed(ch, h) = {} /\ Due(q, h) = Due(ch, h) /\ Coming(q, h) = {}
          /\ Coming(ch, h) = IF c.hash = h THEN {1} ELSE {}
      BY <3>2, InsertFileDemand
    <3>4. QED  BY <3>1, <3>3
  <2>5. Cardinality(Coming(pipe[w][k], h)) = (IF c.hash = h THEN 1 ELSE 0)
    BY <2>4, EmptyCardinality
  <2>6. PICK e \in Nat : e = IF c.hash = h THEN 1 ELSE 0  OBVIOUS
  <2>7. Cardinality(Owed(q, h)) = 0 /\ Cardinality(Owed(pipe[w][k], h)) = 0
        /\ Cardinality(Due(q, h)) = d
    BY <2>3, <2>4, EmptyCardinality
  <2>8. row'[h] = r + e /\ Cardinality(Coming(pipe[w][k], h)) = e
    BY <1>1, <1>3, <2>2, <2>5, <2>6 DEF Types
  <2>9. QED  BY <1>2, <2>1, <2>2, <2>3, <2>4, <2>7, <2>8 DEF Balance
<1>9. pfp' = pfp /\ msg' \in [Msgs -> Msg] /\ row' \in [Hashes -> Nat]  BY <1>2 DEF Types
<1>10. QED  BY <1>1, <1>2, <1>3, <1>4, <1>6, <1>8, <1>9, DatabaseStep

LEMMA RefcountKeeps ==
  ASSUME Types, Types', FilesInv, OneWorker, NEW w \in Workers, db_async_userfile_refcount(w)
  PROVE  FilesInv'
<1>1. PICK k \in DOMAIN pipe[w] :
        /\ Executes(w, k, "refcount")
        /\ LET c == Executed(w, k) IN
           Result(w, k, [c EXCEPT !.n = IF c.hash = None THEN 0 ELSE row[c.hash]])
  BY DEF db_async_userfile_refcount
<1>2. UNCHANGED <<token, cached, sent, task, msg, pfp, row>>
  BY DEF db_async_userfile_refcount, hist, db
<1>3. PICK c : c = Executed(w, k)  OBVIOUS
<1>4. c \in GoodQuery /\ c.op = "refcount"  BY <1>1, <1>3, ExecutedTypes
<1>5. PICK n : n = IF c.hash = None THEN 0 ELSE row[c.hash]  OBVIOUS
<1>6. n \in Nat  BY <1>4, <1>5 DEF GoodQuery, Query, Hash, Types
<1>7. PICK cmd : cmd = [c EXCEPT !.n = n]  OBVIOUS
<1>8. cmd \in GoodQuery /\ SameQuery(cmd, c)  BY <1>4, <1>6, <1>7 DEF GoodQuery, Query, SameQuery
<1>9. Result(w, k, cmd)  BY <1>1, <1>3, <1>5, <1>7
<1>10. PICK q : q = Answered(pipe[w][k], cmd)  OBVIOUS
<1>11. Step(pipe[w][k], "refcount", cmd, q) /\ pipe[w][k] \in Chains
  BY <1>1, <1>3, <1>8, <1>9, <1>10, ExecutesStep
<1>12. ASSUME NEW h \in Hashes
       PROVE  Balance(pipe[w][k], q, h, Refs(msg, cached, h), Refs(msg', cached, h), row[h], row'[h])
  <2>1. PICK a \in Nat : a = Refs(msg, cached, h)  BY RefsNat DEF Types
  <2>2. PICK r \in Nat : r = row[h]  BY DEF Types
  <2>3. PICK d \in Nat : d = Cardinality(Due(pipe[w][k], h))  BY <1>11, ChainFinite
  <2>4. PICK o \in Nat : o = Cardinality(Owed(pipe[w][k], h))  BY <1>11, ChainFinite
  <2>5. /\ Owed(q, h) = Owed(pipe[w][k], h) /\ Due(q, h) = Due(pipe[w][k], h)
        /\ Coming(q, h) = {} /\ Coming(pipe[w][k], h) = {}
    BY <1>11, RefcountDemand
  <2>6. a + o + d + r + 0 <= a + o + d + r  OBVIOUS
  <2>7. Cardinality(Owed(q, h)) = o /\ Cardinality(Due(q, h)) = d
        /\ Cardinality(Coming(pipe[w][k], h)) = 0
    BY <2>3, <2>4, <2>5, EmptyCardinality
  <2>8. QED  BY <1>2, <2>1, <2>2, <2>3, <2>4, <2>5, <2>6, <2>7 DEF Balance
<1>13. pfp' = pfp /\ msg' \in [Msgs -> Msg] /\ row' \in [Hashes -> Nat]  BY <1>2 DEF Types
<1>14. QED  BY <1>1, <1>2, <1>3, <1>8, <1>9, <1>10, <1>12, <1>13, DatabaseStep

LEMMA ReleaseKeeps ==
  ASSUME Types, Types', FilesInv, OneWorker, NEW w \in Workers, db_async_delete_userfile(w)
  PROVE  FilesInv'
<1>1. PICK k \in DOMAIN pipe[w] :
        /\ Executes(w, k, "release")
        /\ LET c == Executed(w, k) IN
           /\ row' = Released(c.hash)
           /\ Result(w, k, [c EXCEPT !.ok = ~CannotRelease(c.hash)])
  BY DEF db_async_delete_userfile
<1>2. UNCHANGED <<token, cached, sent, task, msg, pfp>>  BY DEF db_async_delete_userfile, hist
<1>3. PICK c : c = Executed(w, k)  OBVIOUS
<1>4. c \in GoodQuery /\ c.op = "release"  BY <1>1, <1>3, ExecutedTypes
<1>5. PICK b \in BOOLEAN : b = ~CannotRelease(c.hash)  OBVIOUS
<1>6. PICK cmd : cmd = [c EXCEPT !.ok = b]  OBVIOUS
<1>7. cmd \in GoodQuery /\ SameQuery(cmd, c)  BY <1>4, <1>5, <1>6 DEF GoodQuery, Query, SameQuery
<1>8. Result(w, k, cmd)  BY <1>1, <1>3, <1>5, <1>6
<1>9. PICK q : q = Answered(pipe[w][k], cmd)  OBVIOUS
<1>10. /\ Step(pipe[w][k], "release", cmd, q) /\ pipe[w][k] \in Chains
       /\ c = pipe[w][k].cmds[pipe[w][k].done + 1]
  BY <1>1, <1>3, <1>7, <1>8, <1>9, ExecutesStep
<1>11. pipe[w][k].cmds[1].op = "release"  BY <1>10, StepFacts DEF StepsTo, Place
<1>12. ASSUME NEW h \in Hashes
       PROVE  Balance(pipe[w][k], q, h, Refs(msg, cached, h), Refs(msg', cached, h), row[h], row'[h])
  <2>1. PICK a \in Nat : a = Refs(msg, cached, h)  BY RefsNat DEF Types
  <2>2. PICK r \in Nat : r = row[h]  BY DEF Types
  <2>3. PICK r2 \in Nat : r2 = row'[h]  BY DEF Types
  <2>4. PICK o \in Nat : o = Cardinality(Owed(pipe[w][k], h))  BY <1>10, ChainFinite
  <2>5. PICK j : j = pipe[w][k].done + 1  OBVIOUS
  <2>6. /\ Due(q, h) = {} /\ Due(pipe[w][k], h) = {} /\ Coming(q, h) = {}
        /\ Coming(pipe[w][k], h) = {}
        /\ Owed(q, h) = Owed(pipe[w][k], h) \ {j}
        /\ j \in Owed(pipe[w][k], h) <=> c.hash = h
    BY <1>10, <1>11, <2>5, ReleaseDemand
  <2>7. IsFiniteSet(Owed(pipe[w][k], h))  BY <1>10, ChainFinite
  <2>8. PICK o2 \in Nat : o2 = Cardinality(Owed(q, h))
    BY <2>6, <2>7, FS_Subset, FS_CardinalityType
  <2>9. ASSUME c.hash = h PROVE o2 = o - 1
    <3>1. PICK S : S = Owed(pipe[w][k], h)  OBVIOUS
    <3>2. j \in S /\ IsFiniteSet(S)  BY <2>6, <2>7, <2>9, <3>1
    <3>3. Cardinality(S \ {j}) = Cardinality(S) - 1  BY <3>2, FS_RemoveElement
    <3>4. QED  BY <2>4, <2>6, <2>8, <3>1, <3>3
  <2>10. r2 = r \/ (c.hash = h /\ r2 = r - 1)
    BY <1>1, <1>3, <2>2, <2>3 DEF Released, Types
  <2>11. a + o2 + 0 + r + 0 <= a + o + 0 + r2  BY <2>4, <2>6, <2>7, <2>8, <2>9, <2>10, FS_Subset
  <2>12. Cardinality(Due(q, h)) = 0 /\ Cardinality(Due(pipe[w][k], h)) = 0
         /\ Cardinality(Coming(pipe[w][k], h)) = 0
    BY <2>6, EmptyCardinality
  <2>13. QED  BY <1>2, <2>1, <2>2, <2>3, <2>4, <2>6, <2>8, <2>11, <2>12 DEF Balance
<1>13. pfp' = pfp /\ msg' \in [Msgs -> Msg] /\ row' \in [Hashes -> Nat]  BY <1>2 DEF Types
<1>14. QED  BY <1>1, <1>2, <1>3, <1>7, <1>8, <1>9, <1>12, <1>13, DatabaseStep

LEMMA InsertMsgKeeps ==
  ASSUME Types, Types', FilesInv, OneWorker, NEW w \in Workers, db_async_insert_group_msg(w)
  PROVE  FilesInv'
<1>1. PICK k \in DOMAIN pipe[w] :
        /\ Executes(w, k, "insert_msg")
        /\ LET c == Executed(w, k) IN
           \/ /\ \E m \in Msgs :
                   /\ group /\ msg[m].life = "none"
                   /\ msg' = [msg EXCEPT ![m] = [life |-> "live", token |-> c.arg,
                                                 files |-> c.files]]
              /\ Result(w, k, c)
           \/ /\ Result(w, k, [c EXCEPT !.ok = FALSE])
              /\ UNCHANGED msg
  BY DEF db_async_insert_group_msg
<1>2. UNCHANGED <<token, cached, sent, task, pfp, row>>  BY DEF db_async_insert_group_msg, hist
<1>3. PICK c : c = Executed(w, k)  OBVIOUS
<1>4. c \in GoodQuery /\ c.op = "insert_msg"  BY <1>1, <1>3, ExecutedTypes
<1>5. PICK b \in BOOLEAN :
        /\ Result(w, k, [c EXCEPT !.ok = b])
        /\ \/ UNCHANGED msg
           \/ \E m \in Msgs :
                /\ msg[m].life # "live"
                /\ msg' = [msg EXCEPT ![m] = [life |-> "live", token |-> c.arg, files |-> c.files]]
  <2>1. [c EXCEPT !.ok = c.ok] = c /\ c.ok \in BOOLEAN  BY <1>4 DEF GoodQuery, Query
  <2>2. CASE Result(w, k, [c EXCEPT !.ok = FALSE]) /\ UNCHANGED msg  BY <2>2
  <2>3. CASE ~(Result(w, k, [c EXCEPT !.ok = FALSE]) /\ UNCHANGED msg)  BY <1>1, <1>3, <2>1, <2>3
  <2>4. QED  BY <2>2, <2>3
<1>6. PICK cmd : cmd = [c EXCEPT !.ok = b]  OBVIOUS
<1>7. cmd \in GoodQuery /\ SameQuery(cmd, c)  BY <1>4, <1>5, <1>6 DEF GoodQuery, Query, SameQuery
<1>8. Result(w, k, cmd)  BY <1>5, <1>6
<1>9. PICK q : q = Answered(pipe[w][k], cmd)  OBVIOUS
<1>10. /\ Step(pipe[w][k], "insert_msg", cmd, q) /\ pipe[w][k] \in Chains
       /\ c = pipe[w][k].cmds[pipe[w][k].done + 1]
  BY <1>1, <1>3, <1>7, <1>8, <1>9, ExecutesStep
<1>11. c.arg \in Tokens /\ c.files \in [Index -> Hash]  BY <1>4 DEF GoodQuery
<1>12. ASSUME NEW h \in Hashes
       PROVE  Balance(pipe[w][k], q, h, Refs(msg, cached, h), Refs(msg', cached, h), row[h], row'[h])
  <2>1. PICK m1 \in Nat : m1 = Size(MsgFiles(msg, h))  BY MsgFamily DEF Types
  <2>2. PICK m2 \in Nat : m2 = Size(MsgFiles(msg', h))  BY MsgFamily DEF Types
  <2>3. PICK z \in Nat : z = Size(Pictures(cached, h))  BY PictureFamily
  <2>4. PICK r \in Nat : r = row[h]  BY DEF Types
  <2>5. PICK x \in Nat : x = Cardinality(Where(c.files, h))  BY <1>11, FilesFinite
  <2>6. /\ Owed(q, h) = {} /\ Owed(pipe[w][k], h) = {} /\ Coming(q, h) = {}
        /\ Coming(pipe[w][k], h) = {}
        /\ Due(q, h) = {} /\ Due(pipe[w][k], h) = Where(c.files, h)
    BY <1>10, InsertMsgDemand
  <2>7. m2 = m1 \/ m2 = m1 + x
    <3>1. CASE UNCHANGED msg  BY <2>1, <2>2, <3>1
    <3>2. ASSUME NEW m \in Msgs, msg[m].life # "live",
                 msg' = [msg EXCEPT ![m] = [life |-> "live", token |-> c.arg, files |-> c.files]]
          PROVE  m2 = m1 + x
      <4>1. PICK y : y = [life |-> "live", token |-> c.arg, files |-> c.files]  OBVIOUS
      <4>2. y \in Msg /\ y.life = "live" /\ y.files = c.files  BY <1>11, <4>1 DEF Msg
      <4>3. msg' = [msg EXCEPT ![m] = y] /\ msg \in [Msgs -> Msg]  BY <3>2, <4>1 DEF Types
      <4>4. OneMore(msg', msg, y.files, h)  BY <3>2, <4>2, <4>3, MsgStored
      <4>5. QED  BY <2>1, <2>2, <2>5, <4>2, <4>4 DEF OneMore
    <3>3. QED  BY <1>5, <3>1, <3>2
  <2>8. Refs(msg, cached, h) = m1 + z /\ Refs(msg', cached, h) = m2 + z
    BY <2>1, <2>2, <2>3 DEF Refs
  <2>9. /\ Cardinality(Owed(q, h)) = 0 /\ Cardinality(Due(q, h)) = 0
         /\ Cardinality(Owed(pipe[w][k], h)) = 0 /\ Cardinality(Due(pipe[w][k], h)) = x
         /\ Cardinality(Coming(pipe[w][k], h)) = 0
    BY <2>5, <2>6, EmptyCardinality
  <2>10. QED  BY <1>2, <2>4, <2>6, <2>7, <2>8, <2>9 DEF Balance
<1>13. pfp' = pfp /\ msg' \in [Msgs -> Msg] /\ row' \in [Hashes -> Nat]  BY <1>2 DEF Types
<1>14. QED  BY <1>1, <1>2, <1>3, <1>7, <1>8, <1>9, <1>12, <1>13, DatabaseStep

LEMMA UpdatePfpKeeps ==
  ASSUME Types, Types', FilesInv, OneWorker, NEW w \in Workers, db_async_update_user(w)
  PROVE  FilesInv'
<1>1. PICK k \in DOMAIN pipe[w] :
        /\ Executes(w, k, "update_pfp")
        /\ LET c == Executed(w, k) IN
           /\ pfp' = IF row[c.hash] = 0 THEN pfp ELSE [pfp EXCEPT ![c.arg] = c.hash]
           /\ Result(w, k, [c EXCEPT !.ok = row[c.hash] > 0])
  BY DEF db_async_update_user
<1>2. UNCHANGED <<token, cached, sent, task, msg, row>>  BY DEF db_async_update_user, hist
<1>3. PICK c : c = Executed(w, k)  OBVIOUS
<1>4. c \in GoodQuery /\ c.op = "update_pfp"  BY <1>1, <1>3, ExecutedTypes
<1>5. PICK b \in BOOLEAN : [c EXCEPT !.ok = row[c.hash] > 0] = [c EXCEPT !.ok = b]
                           /\ (b <=> row[c.hash] # 0)
  <2>1. row[c.hash] \in Nat  BY <1>4 DEF GoodQuery, Types
  <2>2. CASE row[c.hash] = 0
    <3>1. (row[c.hash] > 0) = FALSE  BY <2>1, <2>2
    <3>2. QED  BY <2>2, <3>1
  <2>3. CASE row[c.hash] # 0
    <3>1. (row[c.hash] > 0) = TRUE  BY <2>1, <2>3
    <3>2. QED  BY <2>3, <3>1
  <2>4. QED  BY <2>2, <2>3
<1>6. PICK cmd : cmd = [c EXCEPT !.ok = b]  OBVIOUS
<1>7. cmd \in GoodQuery /\ SameQuery(cmd, c) /\ cmd.ok = b
  BY <1>4, <1>5, <1>6 DEF GoodQuery, Query, SameQuery
<1>8. Result(w, k, cmd)  BY <1>1, <1>3, <1>5, <1>6
<1>9. PICK q : q = Answered(pipe[w][k], cmd)  OBVIOUS
<1>10. Step(pipe[w][k], "update_pfp", cmd, q) /\ pipe[w][k] \in Chains
  BY <1>1, <1>3, <1>7, <1>8, <1>9, ExecutesStep
<1>11. ASSUME NEW h \in Hashes
       PROVE  Balance(pipe[w][k], q, h, Refs(msg, cached, h), Refs(msg', cached, h), row[h], row'[h])
  <2>1. PICK a \in Nat : a = Refs(msg, cached, h)  BY RefsNat DEF Types
  <2>2. PICK r \in Nat : r = row[h]  BY DEF Types
  <2>3. PICK e \in Nat : e = IF cmd.hash = h THEN 1 ELSE 0  OBVIOUS
  <2>4. PICK o \in Nat : o = IF cmd.ok /\ cmd.hash = h THEN 1 ELSE 0  OBVIOUS
  <2>5. /\ Owed(pipe[w][k], h) = {} /\ Coming(q, h) = {} /\ Coming(pipe[w][k], h) = {}
        /\ Due(q, h) = {} /\ Due(pipe[w][k], h) = (IF cmd.hash = h THEN {3} ELSE {})
        /\ Owed(q, h) = IF cmd.ok /\ cmd.hash = h THEN {3} ELSE {}
    BY <1>10, UpdatePfpDemand
  <2>6. o <= e  BY <2>3, <2>4
  <2>7. a + o + 0 + r + 0 <= a + 0 + e + r  BY <2>6
  <2>8. /\ Cardinality(Owed(pipe[w][k], h)) = 0 /\ Cardinality(Due(q, h)) = 0
        /\ Cardinality(Coming(pipe[w][k], h)) = 0
        /\ Cardinality(Due(pipe[w][k], h)) = e /\ Cardinality(Owed(q, h)) = o
    BY <2>3, <2>4, <2>5, EmptyCardinality
  <2>9. QED  BY <1>2, <2>1, <2>2, <2>5, <2>7, <2>8 DEF Balance
<1>12. PICK op : op = "update_pfp"  OBVIOUS
<1>13. pfp' = IF op = "update_pfp" /\ cmd.ok THEN [pfp EXCEPT ![cmd.arg] = cmd.hash] ELSE pfp
  BY <1>1, <1>3, <1>5, <1>7, <1>12 DEF SameQuery
<1>14. msg' \in [Msgs -> Msg] /\ row' \in [Hashes -> Nat]  BY <1>2 DEF Types
<1>15. Executes(w, k, op) /\ (op = "select_attachs" => Stored(cmd.files, msg'))  BY <1>1, <1>12
<1>16. QED  BY <1>2, <1>3, <1>7, <1>8, <1>9, <1>11, <1>14, <1>13, <1>15, DatabaseStep

LEMMA DeleteMsgKeeps ==
  ASSUME Types, Types', FilesInv, OneWorker, NEW w \in Workers, db_async_delete_msg(w)
  PROVE  FilesInv'
<1>1. PICK k \in DOMAIN pipe[w] :
        /\ Executes(w, k, "delete_msg")
        /\ LET c == Executed(w, k) IN
           \/ /\ msg[c.arg].life = "live"
              /\ msg' = [msg EXCEPT ![c.arg] = [@ EXCEPT !.life = "gone"]]
              /\ Result(w, k, [c EXCEPT !.files = msg[c.arg].files])
           \/ /\ msg[c.arg].life # "live"
              /\ Result(w, k, [c EXCEPT !.ok = FALSE])
              /\ UNCHANGED msg
  BY DEF db_async_delete_msg
<1>2. UNCHANGED <<token, cached, sent, task, pfp, row>>  BY DEF db_async_delete_msg, hist
<1>3. PICK c : c = Executed(w, k)  OBVIOUS
<1>4. c \in GoodQuery /\ c.op = "delete_msg"  BY <1>1, <1>3, ExecutedTypes
<1>5. c.arg \in Msgs  BY <1>4 DEF GoodQuery
<1>6. msg[c.arg] \in Msg /\ msg[c.arg].files \in Seq(Hash)  BY <1>5, FilesAreSeq DEF Types, Msg
<1>7. PICK cmd \in GoodQuery :
        /\ SameQuery(cmd, c) /\ Result(w, k, cmd)
        /\ \/ /\ msg[c.arg].life = "live" /\ cmd.files = msg[c.arg].files
              /\ msg' = [msg EXCEPT ![c.arg] = [msg[c.arg] EXCEPT !.life = "gone"]]
           \/ ~cmd.ok /\ msg' = msg
  <2>1. CASE msg[c.arg].life = "live"
    BY <1>1, <1>3, <1>4, <1>6, <2>1 DEF GoodQuery, Query, SameQuery
  <2>2. CASE msg[c.arg].life # "live"
    <3>1. PICK cmd : cmd = [c EXCEPT !.ok = FALSE]  OBVIOUS
    <3>2. cmd \in GoodQuery /\ SameQuery(cmd, c) /\ ~cmd.ok
      BY <1>4, <3>1 DEF GoodQuery, Query, SameQuery
    <3>3. Result(w, k, cmd) /\ msg' = msg  BY <1>1, <1>3, <2>2, <3>1
    <3>4. QED  BY <3>2, <3>3
  <2>3. QED  BY <2>1, <2>2
<1>8. PICK q : q = Answered(pipe[w][k], cmd)  OBVIOUS
<1>9. Step(pipe[w][k], "delete_msg", cmd, q) /\ pipe[w][k] \in Chains
  BY <1>1, <1>3, <1>7, <1>8, ExecutesStep
<1>10. ASSUME NEW h \in Hashes
       PROVE  Balance(pipe[w][k], q, h, Refs(msg, cached, h), Refs(msg', cached, h), row[h], row'[h])
  <2>1. PICK m1 \in Nat : m1 = Size(MsgFiles(msg, h))  BY MsgFamily DEF Types
  <2>2. PICK m2 \in Nat : m2 = Size(MsgFiles(msg', h))  BY MsgFamily DEF Types
  <2>3. PICK z \in Nat : z = Size(Pictures(cached, h))  BY PictureFamily
  <2>4. PICK r \in Nat : r = row[h]  BY DEF Types
  <2>5. /\ Owed(pipe[w][k], h) = {} /\ Coming(q, h) = {} /\ Coming(pipe[w][k], h) = {}
        /\ Due(q, h) = {} /\ Due(pipe[w][k], h) = {}
        /\ Owed(q, h) = IF cmd.ok THEN Where(cmd.files, h) ELSE {}
    BY <1>9, DeleteMsgDemand
  <2>6. PICK o \in Nat : o = Cardinality(Owed(q, h))
    BY <1>1, <1>3, <1>7, <1>8, ChainFinite, ExecutesStep
  <2>7. m2 + o <= m1
    <3>1. CASE ~cmd.ok /\ msg' = msg  BY <2>1, <2>2, <2>5, <2>6, <3>1, EmptyCardinality
    <3>2. CASE /\ msg[c.arg].life = "live" /\ cmd.files = msg[c.arg].files
               /\ msg' = [msg EXCEPT ![c.arg] = [msg[c.arg] EXCEPT !.life = "gone"]]
      <4>1. PICK y : y = [msg[c.arg] EXCEPT !.life = "gone"]  OBVIOUS
      <4>2. PICK ms : ms = msg'  OBVIOUS
      <4>3. ms = [msg EXCEPT ![c.arg] = y] /\ msg \in [Msgs -> Msg]  BY <3>2, <4>1, <4>2 DEF Types
      <4>4. OneMore(msg, ms, msg[c.arg].files, h)
        BY <1>5, <1>6, <3>2, <4>1, <4>3, MsgDeleted DEF Msg
      <4>5. PICK x \in Nat : x = Cardinality(Where(msg[c.arg].files, h))  BY <1>6, WhereFinite
      <4>6. o = x \/ o = 0  BY <2>5, <2>6, <3>2, <4>5, EmptyCardinality
      <4>7. QED  BY <2>1, <2>2, <4>2, <4>4, <4>5, <4>6 DEF OneMore
    <3>3. QED  BY <1>7, <3>1, <3>2
  <2>8. Refs(msg, cached, h) = m1 + z /\ Refs(msg', cached, h) = m2 + z
    BY <2>1, <2>2, <2>3 DEF Refs
  <2>9. /\ Cardinality(Owed(pipe[w][k], h)) = 0 /\ Cardinality(Due(q, h)) = 0
         /\ Cardinality(Due(pipe[w][k], h)) = 0 /\ Cardinality(Coming(pipe[w][k], h)) = 0
    BY <2>5, EmptyCardinality
  <2>10. QED  BY <1>2, <2>4, <2>5, <2>6, <2>7, <2>8, <2>9 DEF Balance
<1>11. pfp' = pfp /\ msg' \in [Msgs -> Msg] /\ row' \in [Hashes -> Nat]  BY <1>2 DEF Types
<1>12. QED  BY <1>1, <1>2, <1>3, <1>7, <1>8, <1>10, <1>11, DatabaseStep

LEMMA SelectKeeps ==
  ASSUME Types, Types', FilesInv, OneWorker, NEW w \in Workers, SelectAttachs(w)
  PROVE  FilesInv'
<1>1. PICK k \in DOMAIN pipe[w] :
        /\ Executes(w, k, "select_attachs")
        /\ \E ms \in SetToSeqs(LiveMsgs) :
             Result(w, k, [Executed(w, k) EXCEPT !.files = Attachments(ms)])
  BY DEF SelectAttachs
<1>2. UNCHANGED <<token, cached, sent, task, msg, pfp, row>>  BY DEF SelectAttachs, hist, db
<1>3. PICK ms \in SetToSeqs(LiveMsgs) :
        Result(w, k, [Executed(w, k) EXCEPT !.files = Attachments(ms)])
  BY <1>1
<1>4. PICK c : c = Executed(w, k)  OBVIOUS
<1>5. PICK f : f = Attachments(ms)  OBVIOUS
<1>6. f \in Seq(Hash)  BY <1>5, AttachmentsTypes
<1>7. PICK cmd : cmd = [c EXCEPT !.files = f]  OBVIOUS
<1>8. cmd \in GoodQuery /\ SameQuery(cmd, c) /\ cmd.files = f
  BY <1>1, <1>4, <1>6, <1>7, ExecutedTypes DEF GoodQuery, Query, SameQuery
<1>9. Result(w, k, cmd)  BY <1>3, <1>4, <1>5, <1>7
<1>10. PICK q : q = Answered(pipe[w][k], cmd)  OBVIOUS
<1>11. Step(pipe[w][k], "select_attachs", cmd, q) /\ pipe[w][k] \in Chains
  BY <1>1, <1>4, <1>8, <1>9, <1>10, ExecutesStep
<1>12. ASSUME NEW h \in Hashes
       PROVE  Balance(pipe[w][k], q, h, Refs(msg, cached, h), Refs(msg', cached, h), row[h], row'[h])
  <2>1. PICK a \in Nat : a = Refs(msg, cached, h)  BY RefsNat DEF Types
  <2>2. PICK r \in Nat : r = row[h]  BY DEF Types
  <2>3. /\ Owed(pipe[w][k], h) = {} /\ Coming(q, h) = {} /\ Coming(pipe[w][k], h) = {}
        /\ Due(q, h) = {} /\ Due(pipe[w][k], h) = {} /\ Owed(q, h) = {}
    BY <1>11, SelectDemand
  <2>4. a + 0 + 0 + r + 0 <= a + 0 + 0 + r  OBVIOUS
  <2>5. QED  BY <1>2, <2>1, <2>2, <2>3, <2>4, EmptyCardinality DEF Balance
<1>13. pfp' = pfp /\ msg' \in [Msgs -> Msg] /\ row' \in [Hashes -> Nat] /\ Stored(cmd.files, msg')
  BY <1>2, <1>5, <1>8, AttachmentsCount DEF Types, Stored
<1>14. QED  BY <1>1, <1>2, <1>4, <1>8, <1>9, <1>10, <1>12, <1>13, DatabaseStep

LEMMA DeleteMsgsKeeps ==
  ASSUME Types, Types', FilesInv, OneWorker, NEW w \in Workers, DeleteMsgs(w)
  PROVE  FilesInv'
<1>1. PICK k \in DOMAIN pipe[w] :
        /\ Executes(w, k, "delete_msgs")
        /\ Result(w, k, Executed(w, k))
  BY DEF DeleteMsgs
<1>2. UNCHANGED <<token, cached, sent, task, pfp, row>>  BY DEF DeleteMsgs, hist
<1>3. PICK c : c = Executed(w, k)  OBVIOUS
<1>4. c \in GoodQuery /\ SameQuery(c, c)  BY <1>1, <1>3, ExecutedTypes DEF SameQuery
<1>5. PICK q : q = Answered(pipe[w][k], c)  OBVIOUS
<1>6. /\ Step(pipe[w][k], "delete_msgs", c, q) /\ pipe[w][k] \in Chains /\ ~ub /\ q \in Chains
  BY <1>1, <1>3, <1>4, <1>5, ExecutesStep
<1>7. pipe[w] \in Seq(Chains) /\ Selected(pipe[w], msg)  BY <1>6, InvFacts
<1>8. \A m \in Msgs : msg'[m].life # "live"  BY DEF Types, Msg, DeleteMsgs
<1>9. ASSUME NEW h \in Hashes
       PROVE  Balance(pipe[w][k], q, h, Refs(msg, cached, h), Refs(msg', cached, h), row[h], row'[h])
  <2>1. PICK m1 \in Nat : m1 = Size(MsgFiles(msg, h))  BY MsgFamily DEF Types
  <2>2. PICK z \in Nat : z = Size(Pictures(cached, h))  BY PictureFamily
  <2>3. PICK r \in Nat : r = row[h]  BY DEF Types
  <2>4. /\ Owed(pipe[w][k], h) = {} /\ Coming(q, h) = {} /\ Coming(pipe[w][k], h) = {}
        /\ Due(q, h) = {} /\ Due(pipe[w][k], h) = {}
        /\ pipe[w][k].cmds[1].op = "select_attachs" /\ pipe[w][k].done = 1
        /\ Owed(q, h) \subseteq Where(pipe[w][k].cmds[1].files, h)
    BY <1>6, SelectDemand
  <2>5. Stored(pipe[w][k].cmds[1].files, msg)  BY <1>7, <2>4, LenProperties DEF Selected
  <2>6. PICK f : f = pipe[w][k].cmds[1].files  OBVIOUS
  <2>7. f \in Seq(Hash)
    <3>1. PICK n \in Nat : n = Len(pipe[w][k].cmds) /\ 1 <= n  BY <1>6, InChain
    <3>2. 1 \in 1 .. n  BY <3>1
    <3>3. pipe[w][k].cmds[1] \in GoodQuery  BY <1>6, <3>1, <3>2, InChain
    <3>4. QED  BY <2>6, <3>3 DEF GoodQuery, Query
  <2>8. PICK x \in Nat : x = Cardinality(Where(f, h))  BY <2>7, WhereFinite
  <2>9. PICK o \in Nat : o = Cardinality(Owed(q, h))  BY <1>6, ChainFinite
  <2>10. o <= x  BY <2>4, <2>6, <2>7, <2>8, <2>9, WhereFinite, FS_Subset
  <2>11. Size(MsgFiles(msg', h)) = 0  BY <1>8, SizeEmpty DEF MsgFiles
  <2>12. (0 + z) + o + 0 + r + 0 <= (m1 + z) + 0 + 0 + r  BY <2>1, <2>5, <2>6, <2>8, <2>10 DEF Stored
  <2>13. Refs(msg, cached, h) = m1 + z /\ Refs(msg', cached, h) = 0 + z
    BY <2>1, <2>2, <2>11 DEF Refs
  <2>14. QED  BY <1>2, <2>3, <2>4, <2>9, <2>12, <2>13, EmptyCardinality DEF Balance
<1>10. pfp' = pfp /\ msg' \in [Msgs -> Msg] /\ row' \in [Hashes -> Nat]  BY <1>2 DEF Types
<1>11. QED  BY <1>1, <1>2, <1>3, <1>4, <1>5, <1>9, <1>10, DatabaseStep

-----------------------------------------------------------------------------
(* Handlers keep the accounts.                                               *)

LEMMA HeldCovers ==
  ASSUME NEW p \in Seq(Chains), NEW h, NEW a \in Nat, NEW r \in Nat, NEW g \in Nat, NEW c \in Nat,
         NEW g2 \in Nat, NEW c2 \in Nat, Paid(p, h, a, r, g, c), g2 + c <= g + c2
  PROVE  Paid(p, h, a, r, g2, c2)
<1>1. PICK n \in Nat : n = Len(p)  BY LenProperties
<1>2. PICK o \in Nat : o = Size(OwedIn(p, h))  BY QueueFamilies
<1>3. PICK d \in Nat : d = Size(DueIn(p, h, n))  BY QueueFamilies
<1>4. PICK e \in Nat : e = Size(ComingIn(p, h, n))  BY QueueFamilies
<1>5. a + o + d + g <= r + e + c  BY <1>1, <1>2, <1>3, <1>4 DEF Paid, CoversHeld
<1>6. a + o + d + g2 <= r + e + c2  BY <1>5
<1>7. QED  BY <1>1, <1>2, <1>3, <1>4, <1>6 DEF Paid, CoversHeld

LEMMA HandlerStep ==
  ASSUME Types, Types', FilesInv, OneWorker, ~ub, NEW w \in Workers,
         NEW ch \in Chains, Shape(ch), ch.done = 0, pipe'[w] = Append(pipe[w], ch),
         UNCHANGED <<row, msg, pfp, cached>>, Fresh(token'),
         \A h \in Hashes : Taken(task'[w], h) = 0,
         \A h \in Hashes : Charged(ch, h, Size(HeldFiles(token, sent, h)), Taken(task[w], h),
                                   Size(HeldFiles(token', sent', h)))
  PROVE  FilesInv'
<1>1. PICK p : p = pipe[w]  OBVIOUS
<1>2. /\ p \in Seq(Chains) /\ Sane(p) /\ Selected(p, msg)
      /\ \A u \in Users : Claimed(p, u, pfp[u], cached[u])
      /\ \A h \in Hashes : Paid(p, h, Refs(msg, cached, h), row[h],
                                Size(HeldFiles(token, sent, h)), Taken(task[w], h))
  BY <1>1, InvFacts
<1>3. PICK q : q = Append(p, ch)  OBVIOUS
<1>4. \A u \in Users : Claimed(q, u, pfp[u], cached[u])  BY <1>2, <1>3, ClaimedAppend
<1>5. ASSUME NEW h \in Hashes
      PROVE  Paid(q, h, Refs(msg, cached, h), row[h], Size(HeldFiles(token', sent', h)), 0)
  BY <1>2, <1>3, RefsNat, HeldFamily, TakenNat, AppendNew DEF Types, Paid, Charged
<1>6. pipe'[w] = q  BY <1>1, <1>3
<1>7. Accounts(pipe'[w], token', row', msg', pfp', cached', sent', task'[w])
  BY <1>2, <1>3, <1>4, <1>5, <1>6, SaneAppend, SelectedAppend DEF Accounts
<1>8. QED  BY <1>7, Concludes

LEMMA HoldingStep ==
  ASSUME Types, Types', FilesInv, OneWorker, ~ub, NEW w \in Workers,
         UNCHANGED <<pipe, row, msg, pfp, cached>>, Fresh(token'),
         \A h \in Hashes : Holds(Size(HeldFiles(token, sent, h)), Taken(task[w], h),
                                 Size(HeldFiles(token', sent', h)), Taken(task'[w], h))
  PROVE  FilesInv'
<1>1. PICK p : p = pipe[w]  OBVIOUS
<1>2. /\ p \in Seq(Chains) /\ Sane(p) /\ Selected(p, msg)
      /\ \A u \in Users : Claimed(p, u, pfp[u], cached[u])
      /\ \A h \in Hashes : Paid(p, h, Refs(msg, cached, h), row[h],
                                Size(HeldFiles(token, sent, h)), Taken(task[w], h))
  BY <1>1, InvFacts
<1>3. ASSUME NEW h \in Hashes
      PROVE  Paid(p, h, Refs(msg, cached, h), row[h], Size(HeldFiles(token', sent', h)),
                  Taken(task'[w], h))
  BY <1>2, RefsNat, HeldFamily, TakenNat, HeldCovers DEF Types, Holds
<1>4. QED  BY <1>1, <1>2, <1>3, Concludes DEF Accounts

LEMMA IdleTakes == \A h : Taken(Idle, h) = 0
BY DEF Taken, Idle

LEMMA NoFilesNowhere == \A h \in Hashes : Where(NoFiles, h) = {}
BY NoneAssumption DEF Where, NoFiles

LEMMA TokenFamily ==
  ASSUME Types, NEW h
  PROVE  Size(HeldFiles(token, sent, h)) \in Nat
BY HeldFamily DEF Types

(* A token that is made or freed holds no more than before.                  *)
LEMMA TokenHolds ==
  ASSUME Types, Types', UNCHANGED sent, NEW t \in Tokens, NEW h \in Hashes,
         \A v \in Tokens : v # t => token'[v] = token[v],
         token'[t].life # "live" \/ Where(token'[t].files, h) = {}
  PROVE  Size(HeldFiles(token', sent', h)) <= Size(HeldFiles(token, sent, h))
<1>1. PICK tk \in [Tokens -> GoodToken] : tk = token'  BY DEF Types
<1>2. PICK s : s = sent  OBVIOUS
<1>3. \A v \in Tokens : HeldFiles(tk, s, h)[v] \subseteq HeldFiles(token, s, h)[v]
  BY <1>1 DEF HeldFiles
<1>4. Size(HeldFiles(tk, s, h)) <= Size(HeldFiles(token, s, h))  BY <1>3, FewerHeld DEF Types
<1>5. QED  BY <1>1, <1>2, <1>4

LEMMA TokenKeeps ==
  ASSUME Types, Types', FilesInv, OneWorker, NEW w \in Workers, NEW t \in Tokens,
         server_new_upload_token(w, t) \/ timer_ut(w, t)
  PROVE  FilesInv'
<1>1. /\ ~ub /\ UNCHANGED <<pipe, row, msg, pfp, cached, sent, task>>
  BY DEF server_new_upload_token, timer_ut, Free, db, hist
<1>2. Fresh(token)  BY <1>1 DEF FilesInv
<1>3. token \in [Tokens -> GoodToken]  BY DEF Types
<1>4. \A v \in Tokens : v # t => token'[v] = token[v]
  BY <1>3 DEF server_new_upload_token, timer_ut
<1>5. /\ token'[t].life # "none"
      /\ token'[t].life = "live" => token'[t].files = NoFiles
  <2>1. CASE timer_ut(w, t)  BY <1>3, <2>1 DEF timer_ut, GoodToken, Token
  <2>2. CASE server_new_upload_token(w, t)
    BY <1>2, <1>3, <2>2 DEF Fresh, server_new_upload_token, GoodToken, Token
  <2>3. QED  BY <2>1, <2>2
<1>6. ASSUME NEW h \in Hashes
      PROVE  Holds(Size(HeldFiles(token, sent, h)), Taken(task[w], h),
                   Size(HeldFiles(token', sent', h)), Taken(task'[w], h))
  <2>1. Size(HeldFiles(token', sent', h)) <= Size(HeldFiles(token, sent, h))
    BY <1>1, <1>4, <1>5, TokenHolds, NoFilesNowhere
  <2>2. PICK c \in Nat : c = Taken(task[w], h)  BY TakenNat
  <2>3. PICK g \in Nat : g = Size(HeldFiles(token, sent, h))  BY TokenFamily
  <2>4. PICK g2 \in Nat : g2 = Size(HeldFiles(token', sent', h))  BY HeldFamily DEF Types
  <2>5. QED  BY <1>1, <2>1, <2>2, <2>3, <2>4 DEF Holds
<1>7. QED  BY <1>1, <1>2, <1>4, <1>5, <1>6, HoldingStep DEF Fresh

LEMMA PostAttachKeeps ==
  ASSUME Types, Types', FilesInv, OneWorker, NEW w \in Workers, NEW t \in Tokens, NEW i \in Index,
         NEW f \in Hashes, PostAttach(w, t, i, f)
  PROVE  FilesInv'
<1>1. /\ ~ub /\ UNCHANGED <<pipe, row, msg, pfp, cached, sent, token>> /\ task[w] = Idle
  BY DEF PostAttach, Free, db
<1>2. task'[w].step = "save"  BY DEF Idle, PostAttach, Types
<1>3. ASSUME NEW h \in Hashes
      PROVE  Holds(Size(HeldFiles(token, sent, h)), Taken(task[w], h),
                   Size(HeldFiles(token', sent', h)), Taken(task'[w], h))
  BY <1>1, <1>2, IdleTakes, TokenFamily DEF Taken, Holds
<1>4. QED  BY <1>1, <1>3, HoldingStep DEF FilesInv

LEMMA UsesFreedKeeps == UsesFreed => FilesInv'
BY DEF UsesFreed, FilesInv

LEMMA SaveAttachKeeps ==
  ASSUME Types, Types', FilesInv, OneWorker, NEW w \in Workers, SaveAttach(w)
  PROVE  FilesInv'
<1>1. CASE UsesFreed  BY <1>1, UsesFreedKeeps
<1>2. CASE ~UsesFreed
  <2>1. PICK t : t = task[w].token  OBVIOUS
  <2>2. /\ ~ub /\ task[w].step = "save" /\ token[t].life = "live"
        /\ token' = [token EXCEPT ![t] =
                       [@ EXCEPT !.files = [token[t].files EXCEPT ![task[w].index] = task[w].hash]]]
        /\ task' = [task EXCEPT ![w] = [@ EXCEPT !.step = "count", !.read = token[t].current]]
        /\ UNCHANGED <<pipe, row, msg, pfp, cached, sent>>
    BY <1>2, <2>1 DEF SaveAttach, db, hist
  <2>3. PICK f : f = task[w].hash  OBVIOUS
  <2>4. PICK i : i = task[w].index  OBVIOUS
  <2>5. t \in Tokens /\ f \in Hashes /\ i \in Index /\ task[w] \in Task
    BY <2>1, <2>2, <2>3, <2>4, TaskFacts
  <2>6. token \in [Tokens -> GoodToken] /\ token[t].files \in [Index -> Hash]
    BY <2>5 DEF Types, GoodToken, Token
  <2>7. token'[t].files = [token[t].files EXCEPT ![i] = f] /\ token'[t].life = "live"
    BY <2>2, <2>3, <2>4, <2>5, <2>6 DEF GoodToken, Token
  <2>8. \A v \in Tokens : v # t => token'[v] = token[v]  BY <2>2, <2>5, <2>6
  <2>9. Fresh(token')  BY <2>2, <2>7, <2>8 DEF Fresh, FilesInv
  <2>10. task'[w].step = "count" /\ task'[w].hash = f  BY <2>2, <2>3, <2>5 DEF Task, Types
  <2>11. ASSUME NEW h \in Hashes
         PROVE  Holds(Size(HeldFiles(token, sent, h)), Taken(task[w], h),
                      Size(HeldFiles(token', sent', h)), Taken(task'[w], h))
    <3>1. Taken(task[w], h) = 0  BY <2>2 DEF Taken
    <3>2. PICK e \in Nat : e = Taken(task'[w], h)  BY TakenNat
    <3>3. e = IF f = h THEN 1 ELSE 0  BY <2>10, <3>2 DEF Taken
    <3>4. PICK tk \in [Tokens -> GoodToken] : tk = token'  BY DEF Types
    <3>5. PICK G : G = HeldFiles(token, sent, h)  OBVIOUS
    <3>6. PICK H : H = HeldFiles(tk, sent, h)  OBVIOUS
    <3>7. Exchanged(HeldFiles(token, sent, h), HeldFiles(tk, sent, h), t)
      BY <2>5, <2>6, <2>8, <3>4, HeldChanged
    <3>8. PICK x \in Nat : x = Size(G)  BY <3>5, TokenFamily
    <3>9. PICK y \in Nat : y = Size(H)  BY <3>6, HeldFamily
    <3>10. IsFiniteSet(G[t]) /\ IsFiniteSet(H[t])
      BY <2>5, <2>6, <3>4, <3>5, <3>6, HeldFamily DEF IsFamily, HeldFiles
    <3>11. PICK b \in Nat : b = Cardinality(G[t])  BY <3>10, FS_CardinalityType
    <3>12. PICK d \in Nat : d = Cardinality(H[t])  BY <3>10, FS_CardinalityType
    <3>13. y + b = x + d  BY <3>5, <3>6, <3>7, <3>8, <3>9, <3>11, <3>12 DEF Exchanged
    <3>14. d <= b + e
      <4>1. f = h => H[t] \subseteq G[t] \cup {i}
        BY <2>2, <2>5, <2>6, <2>7, <3>4, <3>5, <3>6 DEF HeldFiles, Where
      <4>2. f # h => H[t] \subseteq G[t]
        BY <2>2, <2>5, <2>6, <2>7, <3>4, <3>5, <3>6 DEF HeldFiles, Where
      <4>3. CASE f # h  BY <3>3, <3>10, <3>11, <3>12, <4>2, <4>3, FS_Subset
      <4>4. CASE f = h
        <5>1. PICK S : S = G[t] \cup {i}  OBVIOUS
        <5>2. IsFiniteSet(S) /\ (Cardinality(S) = b \/ Cardinality(S) = b + 1)
          BY <3>10, <3>11, <5>1, FS_AddElement
        <5>3. d <= Cardinality(S)  BY <3>12, <4>1, <4>4, <5>1, <5>2, FS_Subset
        <5>4. QED  BY <3>3, <4>4, <5>2, <5>3
      <4>5. QED  BY <4>3, <4>4
    <3>15. y + 0 <= x + e  BY <3>13, <3>14
    <3>16. QED  BY <2>2, <3>1, <3>2, <3>4, <3>5, <3>6, <3>8, <3>9, <3>15 DEF Holds
  <2>12. QED  BY <2>2, <2>9, <2>11, HoldingStep
<1>3. QED  BY <1>1, <1>2

LEMMA CountAttachKeeps ==
  ASSUME Types, Types', FilesInv, OneWorker, NEW w \in Workers, CountAttach(w)
  PROVE  FilesInv'
<1>1. CASE UsesFreed  BY <1>1, UsesFreedKeeps
<1>2. CASE ~UsesFreed
  <2>1. PICK t : t = task[w].token  OBVIOUS
  <2>2. /\ ~ub /\ task[w].step = "count" /\ token[t].life = "live"
        /\ token' = [token EXCEPT ![t] = [@ EXCEPT !.current = task[w].read + 1]]
        /\ task' = [task EXCEPT ![w] = [@ EXCEPT !.step = "test"]]
        /\ UNCHANGED <<pipe, row, msg, pfp, cached, sent>>
    BY <1>2, <2>1 DEF CountAttach, db, hist
  <2>3. t \in Tokens /\ task[w] \in Task  BY <2>1, <2>2, TaskFacts
  <2>4. token \in [Tokens -> GoodToken]  BY DEF Types
  <2>5. token'[t].files = token[t].files /\ token'[t].life = token[t].life
    BY <2>2, <2>3, <2>4 DEF GoodToken, Token
  <2>6. \A v \in Tokens : token'[v].files = token[v].files /\ token'[v].life = token[v].life
    BY <2>2, <2>3, <2>4, <2>5
  <2>7. task'[w].step = "test" /\ task'[w].hash = task[w].hash  BY <2>2, <2>3 DEF Task, Types
  <2>8. ASSUME NEW h \in Hashes
         PROVE  Holds(Size(HeldFiles(token, sent, h)), Taken(task[w], h),
                      Size(HeldFiles(token', sent', h)), Taken(task'[w], h))
    <3>1. Taken(task'[w], h) = Taken(task[w], h)  BY <2>2, <2>7 DEF Taken
    <3>2. HeldFiles(token', sent', h) = HeldFiles(token, sent, h)  BY <2>2, <2>6 DEF HeldFiles
    <3>3. PICK c \in Nat : c = Taken(task[w], h)  BY TakenNat
    <3>4. PICK g \in Nat : g = Size(HeldFiles(token, sent, h))  BY TokenFamily
    <3>5. g + c <= g + c  OBVIOUS
    <3>6. QED  BY <3>1, <3>2, <3>3, <3>4, <3>5 DEF Holds
  <2>9. QED  BY <2>2, <2>6, <2>8, HoldingStep DEF Fresh, FilesInv
<1>3. QED  BY <1>1, <1>2

LEMMA QueuesChain ==
  ASSUME Types, NEW w \in Workers, NEW cmds, Queue(w, cmds)
  PROVE  pipe'[w] = Append(pipe[w], Chain(cmds))
BY DEF Queue, Types

LEMMA TestAttachKeeps ==
  ASSUME Types, Types', Counts, FilesInv, OneWorker, NEW w \in Workers, TestAttach(w)
  PROVE  FilesInv'
<1>1. CASE UsesFreed  BY <1>1, UsesFreedKeeps
<1>2. CASE ~UsesFreed
  <2>1. PICK t : t = task[w].token  OBVIOUS
  <2>2. PICK f : f = task[w].hash  OBVIOUS
  <2>3. PICK save : save = server_save_file_img(f)  OBVIOUS
  <2>4. PICK cmd : cmd = Cmd("insert_msg", None, t, token[t].files)  OBVIOUS
  <2>5. /\ ~ub /\ task[w].step = "test" /\ token[t].life = "live"
        /\ \/ Queue(w, Append(save, cmd)) /\ sent' = [sent EXCEPT ![t] = @ + 1]
           \/ Queue(w, save) /\ UNCHANGED sent
        /\ task' = [task EXCEPT ![w] = Idle]
        /\ UNCHANGED <<token, row, msg, pfp, cached>>
    BY <1>2, <2>1, <2>2, <2>3, <2>4 DEF TestAttach, db
  <2>6. t \in Tokens /\ f \in Hashes  BY <2>1, <2>2, <2>5, TaskFacts
  <2>7. \A h \in Hashes : Taken(task'[w], h) = 0  BY <2>5, IdleTakes DEF Types
  <2>8. Fresh(token')  BY <2>5 DEF FilesInv
  <2>9. token \in [Tokens -> GoodToken] /\ token[t].files \in [Index -> Hash]
    BY <2>6 DEF Types, GoodToken, Token
  <2>10. \A h : Taken(task[w], h) = IF f = h THEN 1 ELSE 0  BY <2>2, <2>5 DEF Taken
  <2>11. CASE Queue(w, save) /\ UNCHANGED sent
    <3>1. PICK ch : ch = Chain(server_save_file_img(f))  OBVIOUS
    <3>2. pipe'[w] = Append(pipe[w], ch)  BY <2>3, <2>11, <3>1, QueuesChain
    <3>3. /\ ch \in Chains /\ Shape(ch) /\ ch.done = 0
          /\ \A h : /\ Owed(ch, h) = {} /\ Due(ch, h) = {}
                    /\ Coming(ch, h) = IF f = h THEN {1} ELSE {}
      BY <2>6, <3>1, SaveChain
    <3>4. ASSUME NEW h \in Hashes
          PROVE  Charged(ch, h, Size(HeldFiles(token, sent, h)), Taken(task[w], h),
                         Size(HeldFiles(token', sent', h)))
      <4>1. PICK g \in Nat : g = Size(HeldFiles(token, sent, h))  BY TokenFamily
      <4>2. PICK e \in Nat : e = IF f = h THEN 1 ELSE 0  OBVIOUS
      <4>3. Cardinality(Due(ch, h)) = 0 /\ Cardinality(Coming(ch, h)) = e /\ Taken(task[w], h) = e
        BY <2>10, <3>3, <4>2, EmptyCardinality
      <4>4. 0 + g + e <= e + g  OBVIOUS
      <4>5. Owed(ch, h) = {} /\ Size(HeldFiles(token', sent', h)) = g  BY <2>5, <2>11, <3>3, <4>1
      <4>6. QED  BY <4>1, <4>3, <4>4, <4>5 DEF Charged
    <3>5. QED  BY <2>5, <2>7, <2>8, <3>2, <3>3, <3>4, HandlerStep
  <2>12. CASE Queue(w, Append(save, cmd)) /\ sent' = [sent EXCEPT ![t] = @ + 1]
    <3>1. cmd \in GoodQuery /\ cmd.op = "insert_msg"
      <4>1. "insert_msg" \in Ops /\ None \in Hash /\ t \in Tokens \cup Users \cup Msgs \cup {None}
        BY <2>6 DEF Ops, Hash
      <4>2. QED  BY <2>4, <2>6, <2>9, <4>1, CmdTypes
    <3>2. PICK ch : ch = Chain(Append(server_save_file_img(f), cmd))  OBVIOUS
    <3>3. pipe'[w] = Append(pipe[w], ch)  BY <2>3, <2>12, <3>2, QueuesChain
    <3>4. /\ ch \in Chains /\ Shape(ch) /\ ch.done = 0
          /\ \A h : /\ Owed(ch, h) = {} /\ Due(ch, h) = Where(cmd.files, h)
                    /\ Coming(ch, h) = IF f = h THEN {1} ELSE {}
      BY <2>6, <3>1, <3>2, SaveAndChain
    <3>5. sent[t] = 0  BY <2>1, <2>5, <2>6 DEF Counts, Sound
    <3>6. sent'[t] = 1 /\ \A v \in Tokens : v # t => sent'[v] = sent[v]
      BY <2>6, <2>12, <3>5 DEF Types
    <3>7. ASSUME NEW h \in Hashes
          PROVE  Charged(ch, h, Size(HeldFiles(token, sent, h)), Taken(task[w], h),
                         Size(HeldFiles(token', sent', h)))
      <4>1. PICK s : s = sent'  OBVIOUS
      <4>2. PICK G : G = HeldFiles(token, sent, h)  OBVIOUS
      <4>3. PICK H : H = HeldFiles(token, s, h)  OBVIOUS
      <4>4. Exchanged(G, H, t)  BY <2>6, <2>9, <3>6, <4>1, <4>2, <4>3, HeldChanged
      <4>5. G[t] = Where(token[t].files, h) /\ H[t] = {}
        BY <2>5, <2>6, <3>5, <3>6, <4>1, <4>2, <4>3 DEF HeldFiles
      <4>6. PICK x \in Nat : x = Size(G)  BY <4>2, TokenFamily
      <4>7. PICK y \in Nat : y = Size(H)  BY <2>9, <4>3, HeldFamily
      <4>8. PICK b \in Nat : b = Cardinality(Where(token[t].files, h))  BY <2>9, FilesFinite
      <4>9. PICK e \in Nat : e = IF f = h THEN 1 ELSE 0  OBVIOUS
      <4>10. Cardinality(Due(ch, h)) = b /\ Cardinality(Coming(ch, h)) = e /\ Taken(task[w], h) = e
        BY <2>4, <2>10, <3>4, <4>8, <4>9, EmptyCardinality DEF Cmd
      <4>11. b + y + e <= e + x  BY <4>4, <4>5, <4>6, <4>7, <4>8, EmptyCardinality DEF Exchanged
      <4>12. Owed(ch, h) = {} /\ Size(HeldFiles(token', sent', h)) = y
        BY <2>5, <3>4, <4>1, <4>3, <4>7
      <4>13. QED  BY <4>2, <4>6, <4>10, <4>11, <4>12 DEF Charged
    <3>8. QED  BY <2>5, <2>7, <2>8, <3>3, <3>4, <3>7, HandlerStep
  <2>13. QED  BY <2>5, <2>11, <2>12
<1>3. QED  BY <1>1, <1>2

LEMMA PostPfpKeeps ==
  ASSUME Types, Types', FilesInv, OneWorker, NEW w \in Workers, NEW t \in Tokens, NEW f \in Hashes,
         PostPfp(w, t, f)
  PROVE  FilesInv'
<1>1. PICK cmd : cmd = Cmd("update_pfp", f, token[t].user, NoFiles)  OBVIOUS
<1>2. /\ ~ub /\ task[w] = Idle /\ UNCHANGED <<row, msg, pfp, cached, sent, task>>
      /\ token[t].life = "live" /\ token[t].type = "pfp"
      /\ token' = [token EXCEPT ![t] = [@ EXCEPT !.life = "freed"]]
      /\ Queue(w, Append(server_save_file_img(f), cmd)) \/ UNCHANGED pipe
  BY <1>1 DEF PostPfp, Free, db, hist
<1>3. token \in [Tokens -> GoodToken]  BY DEF Types
<1>4. \A v \in Tokens : v # t => token'[v] = token[v]  BY <1>2, <1>3
<1>5. token'[t].life = "freed"  BY <1>2, <1>3 DEF GoodToken, Token
<1>6. Fresh(token')  BY <1>2, <1>4, <1>5 DEF Fresh, FilesInv
<1>7. \A h \in Hashes : Taken(task[w], h) = 0 /\ Taken(task'[w], h) = 0  BY <1>2, IdleTakes
<1>8. ASSUME NEW h \in Hashes
      PROVE  Size(HeldFiles(token', sent', h)) <= Size(HeldFiles(token, sent, h))
  BY <1>2, <1>4, <1>5, TokenHolds
<1>9. CASE UNCHANGED pipe
  <2>1. ASSUME NEW h \in Hashes
        PROVE  Holds(Size(HeldFiles(token, sent, h)), Taken(task[w], h),
                     Size(HeldFiles(token', sent', h)), Taken(task'[w], h))
    <3>1. PICK g \in Nat : g = Size(HeldFiles(token, sent, h))  BY TokenFamily
    <3>2. PICK g2 \in Nat : g2 = Size(HeldFiles(token', sent', h))  BY HeldFamily DEF Types
    <3>3. g2 + 0 <= g + 0  BY <1>8, <3>1, <3>2
    <3>4. QED  BY <1>7, <3>1, <3>2, <3>3 DEF Holds
  <2>2. QED  BY <1>2, <1>6, <1>9, <2>1, HoldingStep
<1>10. CASE Queue(w, Append(server_save_file_img(f), cmd))
  <2>1. token[t].user \in Users  BY <1>2, <1>3 DEF GoodToken
  <2>2. cmd \in GoodQuery /\ cmd.op = "update_pfp"  BY <1>1, <2>1, IndexFacts, CmdTypes DEF Ops, Hash
  <2>3. cmd.hash = f  BY <1>1 DEF Cmd
  <2>4. PICK ch : ch = Chain(Append(server_save_file_img(f), cmd))  OBVIOUS
  <2>5. pipe'[w] = Append(pipe[w], ch)  BY <1>10, <2>4, QueuesChain
  <2>6. /\ ch \in Chains /\ Shape(ch) /\ ch.done = 0
        /\ \A h : /\ Owed(ch, h) = {} /\ Due(ch, h) = IF cmd.hash = h THEN {3} ELSE {}
                  /\ Coming(ch, h) = IF f = h THEN {1} ELSE {}
    BY <2>2, <2>4, SaveAndChain
  <2>7. ASSUME NEW h \in Hashes
        PROVE  Charged(ch, h, Size(HeldFiles(token, sent, h)), Taken(task[w], h),
                       Size(HeldFiles(token', sent', h)))
    <3>1. PICK g \in Nat : g = Size(HeldFiles(token, sent, h))  BY TokenFamily
    <3>2. PICK g2 \in Nat : g2 = Size(HeldFiles(token', sent', h))  BY HeldFamily DEF Types
    <3>3. PICK e \in Nat : e = IF f = h THEN 1 ELSE 0  OBVIOUS
    <3>4. Cardinality(Due(ch, h)) = e /\ Cardinality(Coming(ch, h)) = e
      BY <2>3, <2>6, <3>3, EmptyCardinality
    <3>5. e + g2 + 0 <= e + g  BY <1>8, <3>1, <3>2
    <3>6. QED  BY <1>7, <2>6, <3>1, <3>2, <3>4, <3>5 DEF Charged
  <2>8. QED  BY <1>2, <1>6, <1>7, <2>5, <2>6, <2>7, HandlerStep
<1>11. QED  BY <1>2, <1>9, <1>10

LEMMA AskKeeps ==
  ASSUME Types, Types', FilesInv, OneWorker, NEW w \in Workers,
         (\E m \in Msgs : server_delete_group_msg(w, m)) \/ db_async_delete_group(w)
  PROVE  FilesInv'
<1>1. ~ub /\ task[w] = Idle /\ UNCHANGED <<row, msg, pfp, cached, token, sent, task>>
  BY DEF server_delete_group_msg, db_async_delete_group, Free, db, hist
<1>2. PICK ch \in Chains :
        /\ Shape(ch) /\ ch.done = 0 /\ pipe'[w] = Append(pipe[w], ch)
        /\ \A h : Owed(ch, h) = {} /\ Due(ch, h) = {} /\ Coming(ch, h) = {}
  <2>1. CASE \E m \in Msgs : server_delete_group_msg(w, m)
    BY <2>1, QueuesChain, DeleteChain DEF server_delete_group_msg
  <2>2. CASE db_async_delete_group(w)
    BY <2>2, QueuesChain, DeleteGroupChain DEF db_async_delete_group
  <2>3. QED  BY <2>1, <2>2
<1>3. \A h \in Hashes : Taken(task[w], h) = 0 /\ Taken(task'[w], h) = 0  BY <1>1, IdleTakes
<1>4. ASSUME NEW h \in Hashes
      PROVE  Charged(ch, h, Size(HeldFiles(token, sent, h)), Taken(task[w], h),
                     Size(HeldFiles(token', sent', h)))
  <2>1. PICK g \in Nat : g = Size(HeldFiles(token, sent, h))  BY TokenFamily
  <2>2. Cardinality(Due(ch, h)) = 0 /\ Cardinality(Coming(ch, h)) = 0 /\ Owed(ch, h) = {}
    BY <1>2, EmptyCardinality
  <2>3. 0 + g + 0 <= 0 + g  OBVIOUS
  <2>4. Size(HeldFiles(token', sent', h)) = g  BY <1>1, <2>1
  <2>5. QED  BY <1>3, <2>1, <2>2, <2>3, <2>4 DEF Charged
<1>5. QED  BY <1>1, <1>2, <1>3, <1>4, HandlerStep DEF FilesInv

-----------------------------------------------------------------------------
(* Callbacks keep the accounts.                                              *)

LEMMA RestIs ==
  ASSUME Types, NEW w \in Workers
  PROVE  Rest(w) = RestOf(pipe[w])
BY DEF Rest, RestOf, LastRuns

LEMMA ReadyFacts ==
  ASSUME NEW p \in Seq(Chains), Sane(p), Ready(p)
  PROVE  /\ 1 \in 1 .. Len(p) /\ p[1] \in Chains /\ Shape(p[1])
         /\ \A h : Due(p[1], h) = {} /\ Coming(p[1], h) = {}
<1>1. PICK n \in Nat : n = Len(p)  BY LenProperties
<1>2. 1 \in 1 .. n  BY <1>1, EmptySeq DEF Ready
<1>3. p[1] \in Chains /\ Shape(p[1])  BY <1>1, <1>2, ElementOfSeq DEF Sane
<1>4. QED  BY <1>1, <1>2, <1>3, DoneChain DEF Ready

LEMMA CalledBackTypes ==
  ASSUME NEW ch \in Chains, ch.ran + 1 # Len(ch.cmds)
  PROVE  CalledBack(ch) \in Chains
<1>1. PICK n \in Nat : n = Len(ch.cmds)  BY InChain
<1>2. PICK r \in Nat : r = ch.ran /\ r < n  BY <1>1, InChain
<1>3. PICK q : q = CalledBack(ch)  OBVIOUS
<1>4. q = [cmds |-> ch.cmds, done |-> ch.done, ran |-> r + 1]
  BY <1>2, <1>3 DEF CalledBack, Chains
<1>5. QED  BY <1>1, <1>2, <1>3, <1>4 DEF Chains

LEMMA RestSane ==
  ASSUME NEW p \in Seq(Chains), Sane(p), Ready(p), NEW ms, Selected(p, ms)
  PROVE  RestOf(p) \in Seq(Chains) /\ Sane(RestOf(p)) /\ Selected(RestOf(p), ms)
<1>1. p # <<>> /\ 1 \in 1 .. Len(p) /\ p[1] \in Chains /\ Shape(p[1])  BY ReadyFacts DEF Ready
<1>2. CASE LastRuns(p)  BY <1>1, <1>2, TailFacts, SaneTail, SelectedTail DEF RestOf
<1>3. CASE ~LastRuns(p)
  BY <1>1, <1>3, CalledBackTypes, CalledBackChain, SaneReplace, SelectedReplace, ExceptSeq DEF
     LastRuns, RestOf
<1>4. QED  BY <1>2, <1>3

(* A callback that leaves its chain to others, and one that has to pay for   *)
(* what the chain owed.                                                      *)
LEMMA RestPaid ==
  ASSUME NEW p \in Seq(Chains), Sane(p), Ready(p), NEW h, NEW a \in Nat, NEW r \in Nat, NEW g \in Nat,
         NEW c \in Nat, Paid(p, h, a, r, g, c)
  PROVE  Paid(RestOf(p), h, a, r, g, c)
<1>1. /\ p # <<>> /\ 1 \in 1 .. Len(p) /\ p[1] \in Chains /\ Shape(p[1])
      /\ Due(p[1], h) = {} /\ Coming(p[1], h) = {}
  BY ReadyFacts DEF Ready
<1>2. Covers(p, h, a, r) /\ CoversHeld(p, h, a, r, g, c)  BY DEF Paid
<1>3. PICK o \in Nat : o = Cardinality(Owed(p[1], h))  BY <1>1, ChainFinite
<1>4. CASE LastRuns(p)
  <2>1. a <= a + Cardinality(Owed(p[1], h))  BY <1>3
  <2>2. QED  BY <1>1, <1>2, <1>4, <2>1, TailCovers DEF RestOf, Paid
<1>5. CASE ~LastRuns(p)
  <2>1. PICK q : q = CalledBack(p[1])  OBVIOUS
  <2>2. q \in Chains  BY <1>1, <1>5, <2>1, CalledBackTypes DEF LastRuns
  <2>3. /\ Due(q, h) = Due(p[1], h) /\ Coming(q, h) = Coming(p[1], h)
        /\ Owed(q, h) \subseteq Owed(p[1], h)
    BY <1>1, <2>1, CalledBackChain
  <2>4. PICK o2 \in Nat : o2 = Cardinality(Owed(q, h))  BY <2>2, ChainFinite
  <2>5. o2 <= o  BY <1>1, <1>3, <2>3, <2>4, ChainFinite, FS_Subset
  <2>6. a + Cardinality(Owed(q, h)) <= a + Cardinality(Owed(p[1], h))  BY <1>3, <2>4, <2>5
  <2>7. Covers([p EXCEPT ![1] = q], h, a, r) /\ CoversHeld([p EXCEPT ![1] = q], h, a, r, g, c)
    BY <1>1, <1>2, <2>2, <2>3, <2>6, RunCovers
  <2>8. QED  BY <1>5, <2>1, <2>7 DEF RestOf, Paid
<1>6. QED  BY <1>4, <1>5

LEMMA RestPays ==
  ASSUME NEW p \in Seq(Chains), Sane(p), Ready(p), NEW h, NEW a \in Nat, NEW r \in Nat, NEW g \in Nat,
         NEW c \in Nat, Paid(p, h, a, r, g, c),
         LastRuns(p) \/ p[1].cmds[1].op = "select_attachs",
         NEW a2 \in Nat, a2 = a + Cardinality(Owed(p[1], h))
  PROVE  Paid(RestOf(p), h, a2, r, g, c)
<1>1. /\ p # <<>> /\ 1 \in 1 .. Len(p) /\ p[1] \in Chains /\ Shape(p[1])
      /\ Due(p[1], h) = {} /\ Coming(p[1], h) = {}
  BY ReadyFacts DEF Ready
<1>2. Covers(p, h, a, r) /\ CoversHeld(p, h, a, r, g, c)  BY DEF Paid
<1>3. PICK o \in Nat : o = Cardinality(Owed(p[1], h))  BY <1>1, ChainFinite
<1>4. CASE LastRuns(p)
  <2>1. a2 <= a + Cardinality(Owed(p[1], h))  BY <1>3
  <2>2. QED  BY <1>1, <1>2, <1>4, <2>1, TailCovers DEF RestOf, Paid
<1>5. CASE ~LastRuns(p)
  <2>1. PICK q : q = CalledBack(p[1])  OBVIOUS
  <2>2. q \in Chains  BY <1>1, <1>5, <2>1, CalledBackTypes DEF LastRuns
  <2>3. /\ Due(q, h) = Due(p[1], h) /\ Coming(q, h) = Coming(p[1], h)
        /\ Owed(q, h) = {}
    BY <1>1, <1>5, <2>1, CalledBackChain
  <2>4. a2 + Cardinality(Owed(q, h)) <= a + Cardinality(Owed(p[1], h))
    BY <1>3, <2>3, EmptyCardinality
  <2>5. Covers([p EXCEPT ![1] = q], h, a2, r) /\ CoversHeld([p EXCEPT ![1] = q], h, a2, r, g, c)
    BY <1>1, <1>2, <2>2, <2>3, <2>4, RunCovers
  <2>6. QED  BY <1>5, <2>1, <2>5 DEF RestOf, Paid
<1>6. QED  BY <1>4, <1>5

LEMMA RestClaimed ==
  ASSUME NEW p \in Seq(Chains), Sane(p), Ready(p), NEW u, NEW new, NEW old, Claimed(p, u, new, old),
         LastRuns(p) => ~Pend(p[1], u)
  PROVE  Claimed(RestOf(p), u, new, old)
<1>1. p # <<>> /\ 1 \in 1 .. Len(p) /\ p[1] \in Chains /\ Shape(p[1])  BY ReadyFacts DEF Ready
<1>2. CASE LastRuns(p)  BY <1>1, <1>2, ClaimedTail DEF RestOf
<1>3. CASE ~LastRuns(p)
  BY <1>1, <1>3, CalledBackTypes, CalledBackChain, ClaimedReplace DEF LastRuns, Pend, Ends, RestOf
<1>4. QED  BY <1>2, <1>3

LEMMA CallbackStep ==
  ASSUME Types, Types', FilesInv, OneWorker, ~ub, NEW w \in Workers, Ready(pipe[w]),
         pipe'[w] = RestOf(pipe[w]), UNCHANGED <<row, msg, pfp, cached, sent, task>>, Fresh(token'),
         \A u \in Users : LastRuns(pipe[w]) => ~Pend(pipe[w][1], u),
         \A h \in Hashes : Size(HeldFiles(token', sent', h)) <= Size(HeldFiles(token, sent, h))
  PROVE  FilesInv'
<1>1. PICK p : p = pipe[w]  OBVIOUS
<1>2. /\ p \in Seq(Chains) /\ Sane(p) /\ Selected(p, msg) /\ Ready(p)
      /\ \A u \in Users : Claimed(p, u, pfp[u], cached[u])
      /\ \A h \in Hashes : Paid(p, h, Refs(msg, cached, h), row[h],
                                Size(HeldFiles(token, sent, h)), Taken(task[w], h))
  BY <1>1, InvFacts
<1>3. PICK q : q = RestOf(p)  OBVIOUS
<1>4. q \in Seq(Chains) /\ Sane(q) /\ Selected(q, msg)  BY <1>2, <1>3, RestSane
<1>5. ASSUME NEW h \in Hashes
      PROVE  Paid(q, h, Refs(msg, cached, h), row[h], Size(HeldFiles(token', sent', h)),
                  Taken(task[w], h))
  <2>1. PICK a \in Nat : a = Refs(msg, cached, h)  BY RefsNat DEF Types
  <2>2. PICK r \in Nat : r = row[h]  BY DEF Types
  <2>3. PICK g \in Nat : g = Size(HeldFiles(token, sent, h))  BY TokenFamily
  <2>4. PICK g2 \in Nat : g2 = Size(HeldFiles(token', sent', h))  BY HeldFamily DEF Types
  <2>5. PICK c \in Nat : c = Taken(task[w], h)  BY TakenNat
  <2>6. Paid(q, h, a, r, g, c)  BY <1>2, <1>3, <2>1, <2>2, <2>3, <2>5, RestPaid
  <2>7. g2 + c <= g + c  BY <2>3, <2>4
  <2>8. Paid(q, h, a, r, g2, c)  BY <1>4, <2>6, <2>7, HeldCovers
  <2>9. QED  BY <2>1, <2>2, <2>4, <2>5, <2>8
<1>6. pipe'[w] = q  BY <1>1, <1>3
<1>7. Accounts(pipe'[w], token', row', msg', pfp', cached', sent', task'[w])
  BY <1>1, <1>2, <1>3, <1>4, <1>5, <1>6, RestClaimed DEF Accounts
<1>8. QED  BY <1>7, Concludes

LEMMA ReleaseStep ==
  ASSUME Types, Types', FilesInv, OneWorker, ~ub, NEW w \in Workers, Ready(pipe[w]),
         NEW ch \in Chains, Shape(ch), ch.done = 0,
         pipe'[w] = Append(RestOf(pipe[w]), ch), UNCHANGED <<row, msg, pfp, token, sent, task>>,
         LastRuns(pipe[w]) \/ pipe[w][1].cmds[1].op = "select_attachs",
         \A u \in Users : Claimed(RestOf(pipe[w]), u, pfp[u], cached'[u]),
         \A h \in Hashes : TakesOver(ch, pipe[w][1], h, Refs(msg, cached, h), Refs(msg, cached', h))
  PROVE  FilesInv'
<1>1. PICK p : p = pipe[w]  OBVIOUS
<1>2. /\ p \in Seq(Chains) /\ Sane(p) /\ Selected(p, msg) /\ Ready(p) /\ Fresh(token)
      /\ \A h \in Hashes : Paid(p, h, Refs(msg, cached, h), row[h],
                                Size(HeldFiles(token, sent, h)), Taken(task[w], h))
  BY <1>1, InvFacts
<1>3. PICK q : q = RestOf(p)  OBVIOUS
<1>4. q \in Seq(Chains) /\ Sane(q) /\ Selected(q, msg)  BY <1>2, <1>3, RestSane
<1>5. PICK s : s = Append(q, ch)  OBVIOUS
<1>6. \A u \in Users : Claimed(s, u, pfp[u], cached'[u])  BY <1>1, <1>3, <1>4, <1>5, ClaimedAppend
<1>7. ASSUME NEW h \in Hashes
      PROVE  Paid(s, h, Refs(msg, cached', h), row[h], Size(HeldFiles(token, sent, h)),
                  Taken(task[w], h))
  <2>1. PICK a \in Nat : a = Refs(msg, cached, h)  BY RefsNat DEF Types
  <2>2. PICK r \in Nat : r = row[h]  BY DEF Types
  <2>3. PICK g \in Nat : g = Size(HeldFiles(token, sent, h))  BY TokenFamily
  <2>4. PICK a2 \in Nat : a2 = Refs(msg, cached', h)  BY RefsNat DEF Types
  <2>5. PICK c \in Nat : c = Taken(task[w], h)  BY TakenNat
  <2>6. Paid(p, h, a, r, g, c)  BY <1>2, <2>1, <2>2, <2>3, <2>5
  <2>7. PICK o \in Nat : o = Cardinality(Owed(p[1], h))  BY <1>2, ChainFinite, ReadyFacts
  <2>8. PICK b \in Nat : b = a + o  OBVIOUS
  <2>9. b = a + Cardinality(Owed(p[1], h))  BY <2>7, <2>8
  <2>10. Paid(q, h, b, r, g, c)  BY <1>1, <1>2, <1>3, <2>6, <2>9, RestPays
  <2>11. Due(ch, h) = {} /\ Coming(ch, h) = {} /\ a2 + Cardinality(Owed(ch, h)) <= b
    BY <1>1, <2>1, <2>4, <2>9 DEF TakesOver
  <2>12. Paid(s, h, a2, r, g, c)  BY <1>4, <1>5, <2>10, <2>11, AppendOwed DEF Paid
  <2>13. QED  BY <2>2, <2>3, <2>4, <2>5, <2>12
<1>8. pipe'[w] = s  BY <1>1, <1>3, <1>5
<1>9. Accounts(pipe'[w], token', row', msg', pfp', cached', sent', task'[w])
  BY <1>4, <1>5, <1>6, <1>7, <1>8, SaneAppend, SelectedAppend DEF Accounts
<1>10. QED  BY <1>2, <1>9, Concludes

LEMMA RunningFacts ==
  ASSUME Types, FilesInv, NEW w \in Workers, NEW op, Running(w, op)
  PROVE  /\ ~ub /\ Ready(pipe[w]) /\ pipe[w] \in Seq(Chains) /\ Sane(pipe[w])
         /\ \E ch, j : Calls(w, op, ch, j)
<1>1. ~ub /\ Ready(pipe[w]) /\ pipe[w][1].cmds[pipe[w][1].ran + 1].op = op
  BY DEF Running, Ready
<1>2. pipe[w] \in Seq(Chains) /\ Sane(pipe[w])  BY <1>1, InvFacts
<1>3. PICK ch : ch = pipe[w][1]  OBVIOUS
<1>4. ch \in Chains /\ Shape(ch)  BY <1>1, <1>2, <1>3, ReadyFacts
<1>5. PICK n \in Nat : n = Len(ch.cmds)  BY <1>4, InChain
<1>6. PICK r \in Nat : r = ch.ran /\ r < n  BY <1>4, <1>5, InChain
<1>7. PICK j \in Nat : j = r + 1  OBVIOUS
<1>8. j \in 1 .. n  BY <1>6, <1>7
<1>9. Place(ch, j)  BY <1>4, <1>5, <1>8, Places
<1>10. j = ch.ran + 1  BY <1>6, <1>7
<1>11. This(w) = ch.cmds[j] /\ ch.cmds[j].op = op  BY <1>1, <1>3, <1>10 DEF This
<1>12. LastRuns(pipe[w]) <=> j = Len(ch.cmds)  BY <1>3, <1>10 DEF LastRuns
<1>13. ch.done = Len(ch.cmds)  BY <1>1, <1>3 DEF Ready
<1>14. Calls(w, op, ch, j)
  BY <1>3, <1>4, <1>5, <1>8, <1>9, <1>10, <1>11, <1>12, <1>13 DEF Calls
<1>15. QED  BY <1>1, <1>2, <1>14

LEMMA NotPending ==
  ASSUME Types, FilesInv, NEW w \in Workers, NEW op, Running(w, op),
         op # "update_pfp" \/ ~This(w).ok, NEW u
  PROVE  LastRuns(pipe[w]) => ~Pend(pipe[w][1], u)
<1>1. PICK ch, j : Calls(w, op, ch, j)  BY RunningFacts
<1>2. SUFFICES ASSUME LastRuns(pipe[w]), Pend(pipe[w][1], u) PROVE FALSE  OBVIOUS
<1>3. Len(ch.cmds) = 3 /\ ch.cmds[3].op = "update_pfp" /\ ch.cmds[3].ok
  BY <1>1, <1>2 DEF Calls, Pend, Ends
<1>4. op = "update_pfp" /\ This(w).ok  BY <1>1, <1>2, <1>3 DEF Calls
<1>5. QED  BY <1>4

LEMMA RanIs ==
  ASSUME Types, NEW w \in Workers, NEW op, Running(w, op), NEW more \in Seq(GoodQuery), Ran(w, more)
  PROVE  pipe'[w] = IF more = <<>> THEN RestOf(pipe[w]) ELSE Append(RestOf(pipe[w]), Chain(more))
<1>1. pipe' = [pipe EXCEPT ![w] = IF more = <<>> THEN Rest(w) ELSE Append(Rest(w), Chain(more))]
  BY RanTypes DEF Running
<1>2. pipe'[w] = IF more = <<>> THEN Rest(w) ELSE Append(Rest(w), Chain(more))  BY <1>1 DEF Types
<1>3. QED  BY <1>2, RestIs

LEMMA SameHeld ==
  ASSUME Types, UNCHANGED <<token, sent>>, NEW h
  PROVE  Size(HeldFiles(token', sent', h)) <= Size(HeldFiles(token, sent, h))
<1>1. PICK g \in Nat : g = Size(HeldFiles(token, sent, h))  BY TokenFamily
<1>2. QED  BY <1>1

(* A callback that sends nothing.                                            *)
LEMMA QuietStep ==
  ASSUME Types, Types', FilesInv, OneWorker, NEW w \in Workers, NEW op, Running(w, op),
         op # "update_pfp" \/ ~This(w).ok, Ran(w, <<>>),
         UNCHANGED <<row, msg, pfp, cached, sent, task, token>>
  PROVE  FilesInv'
<1>1. ~ub /\ Ready(pipe[w])  BY RunningFacts
<1>2. \A u \in Users : LastRuns(pipe[w]) => ~Pend(pipe[w][1], u)  BY NotPending
<1>3. Fresh(token')  BY <1>1 DEF FilesInv
<1>4. \A h \in Hashes : Size(HeldFiles(token', sent', h)) <= Size(HeldFiles(token, sent, h))
  BY SameHeld
<1>5. QED  BY <1>1, <1>2, <1>3, <1>4, CallbackStep, EmptyTypes, RanIs

LEMMA FileCallbackKeeps ==
  ASSUME Types, Types', FilesInv, OneWorker, NEW w \in Workers,
         do_save_file_img(w) \/ do_delete_file(w) \/ DiskFails(w) \/ NoCallback(w)
  PROVE  FilesInv'
<1>1. Ran(w, <<>>) /\ UNCHANGED <<row, msg, pfp, cached, sent, task, token>>
  BY DEF do_save_file_img, do_delete_file, DiskFails, NoCallback, db, hist
<1>2. PICK op : op # "update_pfp" /\ Running(w, op)
  BY DEF do_save_file_img, do_delete_file, DiskFails, NoCallback
<1>3. QED  BY <1>1, <1>2, QuietStep

LEMMA InsertAfterKeeps ==
  ASSUME Types, Types', FilesInv, OneWorker, NEW w \in Workers, do_insert_msg_after(w)
  PROVE  FilesInv'
<1>1. CASE UsesFreed  BY <1>1, UsesFreedKeeps
<1>2. CASE ~UsesFreed
  <2>1. PICK t : t = This(w).arg  OBVIOUS
  <2>2. /\ Running(w, "insert_msg") /\ Ran(w, <<>>)
        /\ token' = [token EXCEPT ![t] = [@ EXCEPT !.life = "freed"]]
        /\ UNCHANGED <<row, msg, pfp, cached, sent, task>>
    BY <1>2, <2>1 DEF do_insert_msg_after, db, hist
  <2>3. t \in Tokens  BY <2>1, <2>2, ThisTypes DEF GoodQuery
  <2>4. ~ub /\ Ready(pipe[w])  BY <2>2, RunningFacts
  <2>5. PICK op : op = "insert_msg"  OBVIOUS
  <2>6. Running(w, op) /\ op # "update_pfp"  BY <2>2, <2>5
  <2>7. pipe'[w] = RestOf(pipe[w])  BY <2>2, <2>6, EmptyTypes, RanIs
  <2>8. \A u \in Users : LastRuns(pipe[w]) => ~Pend(pipe[w][1], u)  BY <2>6, NotPending
  <2>9. token \in [Tokens -> GoodToken]  BY DEF Types
  <2>10. \A v \in Tokens : v # t => token'[v] = token[v]  BY <2>2, <2>9
  <2>11. token'[t].life = "freed"  BY <2>2, <2>3, <2>9 DEF GoodToken, Token
  <2>12. Fresh(token')  BY <2>4, <2>10, <2>11 DEF Fresh, FilesInv
  <2>13. \A h \in Hashes : Size(HeldFiles(token', sent', h)) <= Size(HeldFiles(token, sent, h))
    BY <2>2, <2>3, <2>10, <2>11, TokenHolds
  <2>14. QED  BY <2>2, <2>4, <2>7, <2>8, <2>12, <2>13, CallbackStep
<1>3. QED  BY <1>1, <1>2

(* The files of the messages a chain has deleted are released.               *)
LEMMA ReleaseFilesStep ==
  ASSUME Types, Types', FilesInv, OneWorker, NEW w \in Workers, NEW op, Running(w, op),
         op # "update_pfp", NEW files \in Seq(Hash), Ran(w, server_delete_attachments_json(files)),
         LastRuns(pipe[w]) \/ pipe[w][1].cmds[1].op = "select_attachs",
         \A h \in Hashes : Owed(pipe[w][1], h) = Where(files, h),
         UNCHANGED <<row, msg, pfp, cached, sent, task, token>>
  PROVE  FilesInv'
<1>1. ~ub /\ Ready(pipe[w]) /\ pipe[w] \in Seq(Chains) /\ Sane(pipe[w])  BY RunningFacts
<1>2. PICK more : more = server_delete_attachments_json(files)  OBVIOUS
<1>3. more \in Seq(GoodQuery) /\ Ran(w, more)  BY <1>2, DeleteAllTypes
<1>4. CASE more = <<>>  BY <1>3, <1>4, QuietStep
<1>5. CASE more # <<>>
  <2>1. PICK ch : ch = Chain(more)  OBVIOUS
  <2>2. pipe'[w] = Append(RestOf(pipe[w]), ch)  BY <1>3, <1>5, <2>1, RanIs
  <2>3. /\ ch \in Chains /\ Shape(ch) /\ ch.done = 0
        /\ \A h : /\ Due(ch, h) = {} /\ Coming(ch, h) = {}
                  /\ Cardinality(Owed(ch, h)) = Cardinality(Where(files, h))
    BY <1>2, <1>5, <2>1, ReleaseAllChain
  <2>4. \A u \in Users : Claimed(RestOf(pipe[w]), u, pfp[u], cached'[u])
    BY <1>1, InvFacts, NotPending, RestClaimed
  <2>5. ASSUME NEW h \in Hashes
        PROVE  TakesOver(ch, pipe[w][1], h, Refs(msg, cached, h), Refs(msg, cached', h))
    <3>1. PICK a \in Nat : a = Refs(msg, cached, h)  BY RefsNat DEF Types
    <3>2. PICK x \in Nat : x = Cardinality(Where(files, h))  BY WhereFinite
    <3>3. PICK o \in Nat : o = Cardinality(Owed(ch, h))  BY <2>3, ChainFinite
    <3>4. o <= x  BY <2>3, <3>2, <3>3
    <3>5. a + o <= a + x  BY <3>4
    <3>6. Cardinality(Owed(pipe[w][1], h)) = x  BY <3>2
    <3>7. Due(ch, h) = {} /\ Coming(ch, h) = {} /\ Refs(msg, cached', h) = a  BY <2>3, <3>1
    <3>8. QED  BY <3>1, <3>3, <3>5, <3>6, <3>7 DEF TakesOver
  <2>6. QED  BY <1>1, <2>2, <2>3, <2>4, <2>5, ReleaseStep
<1>6. QED  BY <1>4, <1>5

LEMMA DeleteResultKeeps ==
  ASSUME Types, Types', FilesInv, OneWorker, NEW w \in Workers,
         delete_msg_result(w) \/ delete_group_result(w)
  PROVE  FilesInv'
<1>1. UNCHANGED <<row, msg, pfp, cached, sent, task, token>>
  BY DEF delete_msg_result, delete_group_result, db, hist
<1>2. CASE delete_msg_result(w)
  <2>1. PICK op : op = "delete_msg"  OBVIOUS
  <2>2. Running(w, op) /\ op # "update_pfp"  BY <1>2, <2>1 DEF delete_msg_result
  <2>3. CASE ~This(w).ok  BY <1>1, <1>2, <2>2, <2>3, QuietStep DEF delete_msg_result
  <2>4. CASE This(w).ok
    <3>1. PICK f : f = This(w).files  OBVIOUS
    <3>2. f \in Seq(Hash)  BY <2>2, <3>1, ThisTypes DEF GoodQuery, Query
    <3>3. Ran(w, server_delete_attachments_json(f))  BY <1>2, <2>4, <3>1 DEF delete_msg_result
    <3>4. PICK ch, j : Calls(w, op, ch, j)  BY <2>2, RunningFacts
    <3>5. j = 1 /\ Len(ch.cmds) = 1  BY <2>1, <3>4 DEF Calls, Place
    <3>6. LastRuns(pipe[w])  BY <3>4, <3>5 DEF Calls
    <3>7. \A h \in Hashes : Owed(pipe[w][1], h) = Where(f, h)
      BY <2>1, <2>4, <3>1, <3>4, <3>5 DEF Owed, Calls
    <3>8. QED  BY <1>1, <2>2, <3>2, <3>3, <3>6, <3>7, ReleaseFilesStep
  <2>5. QED  BY <2>3, <2>4
<1>3. CASE delete_group_result(w)
  <2>1. PICK op : op = "select_attachs"  OBVIOUS
  <2>2. Running(w, op) /\ op # "update_pfp"  BY <1>3, <2>1 DEF delete_group_result
  <2>3. PICK f : f = This(w).files  OBVIOUS
  <2>4. f \in Seq(Hash)  BY <2>2, <2>3, ThisTypes DEF GoodQuery, Query
  <2>5. Ran(w, server_delete_attachments_json(f))  BY <1>3, <2>3 DEF delete_group_result
  <2>6. PICK ch, j : Calls(w, op, ch, j)  BY <2>2, RunningFacts
  <2>7. /\ ch = pipe[w][1] /\ ch.done = 2 /\ This(w) = ch.cmds[1] /\ ch.cmds[1].op = "select_attachs"
        /\ ch.ran + 1 = 1 /\ ch \in Chains
    BY <2>1, <2>6 DEF Calls, Place
  <2>8. ch.ran = 0  BY <2>7, InChain
  <2>9. \A h \in Hashes : Owed(pipe[w][1], h) = Where(f, h)  BY <2>3, <2>7, <2>8 DEF Owed
  <2>10. QED  BY <1>1, <2>2, <2>4, <2>5, <2>7, <2>9, ReleaseFilesStep
<1>4. QED  BY <1>2, <1>3

LEMMA PfpResultKeeps ==
  ASSUME Types, Types', FilesInv, OneWorker, NEW w \in Workers, OwnerTold(w)
  PROVE  FilesInv'
<1>1. UNCHANGED <<row, msg, pfp, sent, task, token>>  BY DEF OwnerTold, db, hist
<1>2. PICK op : op = "update_pfp"  OBVIOUS
<1>3. Running(w, op)  BY <1>2 DEF OwnerTold
<1>4. CASE ~This(w).ok  BY <1>1, <1>3, <1>4, QuietStep DEF OwnerTold
<1>5. CASE This(w).ok
  <2>1. PICK v : v = This(w).arg  OBVIOUS
  <2>2. PICK f : f = This(w).hash  OBVIOUS
  <2>3. /\ cached' = [cached EXCEPT ![v] = f] /\ Ran(w, server_delete_file(cached[v]))
    BY <1>5, <2>1, <2>2 DEF OwnerTold
  <2>4. v \in Users /\ f \in Hashes  BY <1>2, <1>3, <2>1, <2>2, ThisTypes DEF GoodQuery
  <2>5. cached \in [Users -> Hash] /\ cached[v] \in Hash  BY <2>4 DEF Types
  <2>6. PICK old : old = cached[v]  OBVIOUS
  <2>7. ~ub /\ Ready(pipe[w]) /\ pipe[w] \in Seq(Chains) /\ Sane(pipe[w])  BY <1>3, RunningFacts
  <2>8. PICK first, j : Calls(w, op, first, j)  BY <1>3, RunningFacts
  <2>9. j = 3 /\ Len(first.cmds) = 3 /\ first.cmds[1].op = "insert_file"
    BY <1>2, <2>8 DEF Calls, Place
  <2>10. LastRuns(pipe[w])  BY <2>8, <2>9 DEF Calls
  <2>11. /\ first = pipe[w][1] /\ first.done = 3 /\ This(w) = first.cmds[3]
         /\ first.cmds[3].op = "update_pfp" /\ first \in Chains
    BY <1>2, <2>8, <2>9 DEF Calls
  <2>12. PICK more : more = server_delete_file(old)  OBVIOUS
  <2>13. more \in Seq(GoodQuery) /\ more # <<>>  BY <2>5, <2>6, <2>12, DeleteTypes
  <2>14. PICK ch : ch = Chain(more)  OBVIOUS
  <2>15. pipe'[w] = Append(RestOf(pipe[w]), ch)  BY <1>3, <2>3, <2>6, <2>12, <2>13, <2>14, RanIs
  <2>16. /\ ch \in Chains /\ Shape(ch) /\ ch.done = 0
         /\ \A h : /\ Due(ch, h) = {} /\ Coming(ch, h) = {}
                   /\ Owed(ch, h) = IF old = h THEN {1} ELSE {}
    BY <2>5, <2>6, <2>12, <2>14, ReleaseChain
  <2>17. ASSUME NEW u \in Users PROVE Claimed(RestOf(pipe[w]), u, pfp[u], cached'[u])
    <3>1. Claimed(pipe[w], u, pfp[u], cached[u])  BY <2>7, InvFacts
    <3>2. RestOf(pipe[w]) = Tail(pipe[w]) /\ pipe[w] # <<>>  BY <2>7, <2>10 DEF RestOf, Ready
    <3>3. Pend(pipe[w][1], u) <=> u = v
      BY <1>5, <2>1, <2>9, <2>11 DEF Pend, Ends
    <3>4. CASE u = v
      <4>1. cached'[u] = pipe[w][1].cmds[3].hash  BY <2>2, <2>3, <2>4, <2>5, <2>11, <3>4
      <4>2. QED  BY <2>7, <3>1, <3>2, <3>3, <3>4, <4>1, ClaimedTail
    <3>5. CASE u # v
      <4>1. cached'[u] = cached[u]  BY <2>3, <2>5, <3>5
      <4>2. QED  BY <2>7, <3>1, <3>2, <3>3, <3>5, <4>1, ClaimedTail
    <3>6. QED  BY <3>4, <3>5
  <2>18. ASSUME NEW h \in Hashes
         PROVE  TakesOver(ch, pipe[w][1], h, Refs(msg, cached, h), Refs(msg, cached', h))
    <3>1. PICK m \in Nat : m = Size(MsgFiles(msg, h))  BY MsgFamily DEF Types
    <3>2. PICK c2 : c2 = cached'  OBVIOUS
    <3>3. PICK z \in Nat : z = Size(Pictures(cached, h))  BY PictureFamily
    <3>4. PICK z2 \in Nat : z2 = Size(Pictures(c2, h))  BY PictureFamily
    <3>5. PICK d \in Nat : d = IF old = h THEN 1 ELSE 0  OBVIOUS
    <3>6. PICK e \in Nat : e = IF f = h THEN 1 ELSE 0  OBVIOUS
    <3>7. OtherPicture(cached, c2, f, cached[v], h)  BY <2>3, <2>4, <2>5, <3>2, PictureChanged
    <3>8. (m + z2) + d <= (m + z) + e  BY <2>6, <3>3, <3>4, <3>5, <3>6, <3>7 DEF OtherPicture
    <3>9. Owed(pipe[w][1], h) = IF f = h THEN {3} ELSE {}
      BY <1>5, <2>2, <2>9, <2>11 DEF Owed, Ends
    <3>10. Cardinality(Owed(pipe[w][1], h)) = e /\ Cardinality(Owed(ch, h)) = d
      BY <2>16, <3>5, <3>6, <3>9, EmptyCardinality
    <3>11. QED  BY <2>16, <3>1, <3>2, <3>3, <3>4, <3>8, <3>10 DEF TakesOver, Refs
  <2>19. QED  BY <1>1, <2>7, <2>10, <2>15, <2>16, <2>17, <2>18, ReleaseStep
<1>6. QED  BY <1>4, <1>5

-----------------------------------------------------------------------------
(* The count covers the references, and a crash loses nothing of it.         *)

LEMMA CountCovers ==
  ASSUME Types, FilesInv, ~ub, NEW w \in Workers, NEW h \in Hashes
  PROVE  /\ Size(MsgFiles(msg, h)) + Cardinality({u \in Users : pfp[u] = h}) <= row[h]
         /\ Size(MsgFiles(msg, h)) \in Nat /\ Cardinality({u \in Users : pfp[u] = h}) \in Nat
<1>1. PICK p : p = pipe[w]  OBVIOUS
<1>2. /\ p \in Seq(Chains) /\ Sane(p) /\ \A u \in Users : Claimed(p, u, pfp[u], cached[u])
      /\ Covers(p, h, Refs(msg, cached, h), row[h])
  BY <1>1, InvFacts DEF Paid
<1>3. PICK m \in Nat : m = Size(MsgFiles(msg, h))  BY MsgFamily DEF Types
<1>4. PICK z \in Nat : z = Size(Pictures(cached, h))  BY PictureFamily
<1>5. PICK r \in Nat : r = row[h]  BY DEF Types
<1>6. PICK o \in Nat : o = Size(OwedIn(p, h))  BY <1>2, QueueFamilies
<1>7. pfp \in [Users -> Hash] /\ cached \in [Users -> Hash]  BY DEF Types
<1>8. PICK n \in Nat : n = Cardinality({u \in Users : pfp[u] = h})
  BY <1>2, <1>7, PicturesCovered
<1>9. n <= z + o  BY <1>2, <1>4, <1>6, <1>7, <1>8, PicturesCovered
<1>10. Size(DueIn(p, h, 0)) = 0 /\ Size(ComingIn(p, h, 0)) = 0  BY SizeEmpty DEF DueIn, ComingIn
<1>11. (m + z) + o + 0 <= r + 0  BY <1>2, <1>3, <1>4, <1>5, <1>6, <1>10 DEF Refs, Covers
<1>12. m + n <= r  BY <1>9, <1>11
<1>13. QED  BY <1>3, <1>5, <1>8, <1>12

LEMMA PicturesCount ==
  ASSUME NEW c, NEW h
  PROVE  Size(Pictures(c, h)) <= Cardinality({u \in Users : c[u] = h})
<1>1. PICK A : A = {u \in Users : c[u] = h}  OBVIOUS
<1>2. PICK G : G = Pictures(c, h)  OBVIOUS
<1>3. A \in SUBSET Users  BY <1>1
<1>4. \A y \in Pairs(G) : y = <<y[1], y[2]>> /\ y[1] \in A /\ y[2] = 1
  BY <1>1, <1>2, <1>3, InPairs DEF Pictures
<1>5. PICK f : f = [y \in Pairs(G) |-> y[1]]  OBVIOUS
<1>6. ASSUME NEW x \in Pairs(G), NEW y \in Pairs(G), f[x] = f[y] PROVE x = y  BY <1>4, <1>5, <1>6
<1>7. f \in Injection(Pairs(G), A)  BY <1>4, <1>5, <1>6 DEF Injection, IsInjective
<1>8. QED  BY <1>1, <1>2, <1>3, <1>7, FS_Injection, UsersAssumption, FS_Subset DEF Size

(* Nothing is queued and nothing is held.                                    *)
LEMMA EmptyPaid ==
  ASSUME NEW h, NEW a \in Nat, NEW r \in Nat, a <= r
  PROVE  Paid(<<>>, h, a, r, 0, 0)
<1>1. PICK p : p = <<>>  OBVIOUS
<1>2. Len(p) = 0 /\ 1 .. 0 = {}  BY <1>1
<1>3. Size(OwedIn(p, h)) = 0  BY <1>2, SizeEmpty DEF OwedIn
<1>4. ASSUME NEW K PROVE Size(DueIn(p, h, K)) = 0 /\ Size(ComingIn(p, h, K)) = 0
  BY <1>2, SizeEmpty DEF DueIn, ComingIn
<1>5. a + 0 + 0 <= r + 0 /\ a + 0 + 0 + 0 <= r + 0 + 0  OBVIOUS
<1>6. CoversHeld(p, h, a, r, 0, 0)  BY <1>3, <1>4, <1>5 DEF CoversHeld
<1>7. QED  BY <1>1, <1>3, <1>4, <1>5, <1>6 DEF Paid, Covers

LEMMA EmptyAccounts ==
  ASSUME NEW tk, NEW r \in [Hashes -> Nat], NEW ms \in [Msgs -> Msg], NEW c, NEW s, NEW x, x = Idle,
         \A t \in Tokens : tk[t].life # "live", \A h \in Hashes : Refs(ms, c, h) <= r[h]
  PROVE  Accounts(<<>>, tk, r, ms, c, c, s, x)
<1>1. PICK p : p = <<>>  OBVIOUS
<1>2. Len(p) = 0 /\ 1 .. 0 = {}  BY <1>1
<1>3. \A u \in Users : Claimed(p, u, c[u], c[u])  BY <1>2 DEF Claimed
<1>4. ASSUME NEW h \in Hashes
      PROVE  Paid(p, h, Refs(ms, c, h), r[h], Size(HeldFiles(tk, s, h)), Taken(x, h))
  BY <1>1, SizeEmpty, IdleTakes, RefsNat, EmptyPaid DEF HeldFiles
<1>5. QED  BY <1>1, <1>2, <1>3, <1>4 DEF Accounts, Sane, Selected

LEMMA CrashKeeps ==
  ASSUME Types, Types', FilesInv, OneWorker, Crash
  PROVE  FilesInv'
<1>1. PICK w \in Workers : Workers = {w}  BY DEF OneWorker
<1>2. /\ ~ub /\ pipe'[w] = <<>> /\ task'[w] = Idle /\ cached' = pfp
      /\ UNCHANGED <<row, msg, pfp, sent>>
      /\ token' = [t \in Tokens |-> [token[t] EXCEPT !.life = IF @ = "live" THEN "freed" ELSE @]]
  BY DEF Crash, db
<1>3. \A t \in Tokens : /\ token'[t].life # "live" /\ token'[t].files = token[t].files
                        /\ token'[t].life = "none" => token[t].life = "none"
  BY <1>2 DEF GoodToken, Token, Types
<1>4. ASSUME NEW h \in Hashes PROVE Refs(msg, pfp, h) <= row[h]
  <2>1. PICK m \in Nat : m = Size(MsgFiles(msg, h))  BY MsgFamily DEF Types
  <2>2. PICK z \in Nat : z = Size(Pictures(pfp, h))  BY PictureFamily
  <2>3. PICK n \in Nat : n = Cardinality({u \in Users : pfp[u] = h})  BY <1>2, CountCovers
  <2>4. PICK r \in Nat : r = row[h]  BY DEF Types
  <2>5. m + n <= r  BY <1>2, <2>1, <2>3, <2>4, CountCovers
  <2>6. z <= n  BY <2>2, <2>3, PicturesCount
  <2>7. m + z <= r  BY <2>5, <2>6
  <2>8. QED  BY <2>1, <2>2, <2>4, <2>7 DEF Refs
<1>5. PICK tk : tk = token'  OBVIOUS
<1>6. PICK x : x = task'[w]  OBVIOUS
<1>7. x = Idle /\ \A t \in Tokens : tk[t].life # "live"  BY <1>2, <1>3, <1>5, <1>6
<1>8. Accounts(<<>>, tk, row, msg, pfp, pfp, sent, x)  BY <1>4, <1>7, EmptyAccounts DEF Types
<1>9. Accounts(pipe'[w], token', row', msg', pfp', cached', sent', task'[w])
  BY <1>2, <1>5, <1>6, <1>8
<1>10. QED  BY <1>2, <1>3, <1>9, Concludes DEF Fresh, FilesInv

LEMMA InitFiles == Init => FilesInv
<1> SUFFICES ASSUME Init PROVE FilesInv  OBVIOUS
<1>1. \A t \in Tokens : token[t].life = "none" /\ token[t].files = NoFiles  BY DEF Init
<1>2. cached = pfp /\ \A w \in Workers : pipe[w] = <<>> /\ task[w] = Idle  BY DEF Init
<1>3. row \in [Hashes -> Nat] /\ msg \in [Msgs -> Msg]  BY InitTypes DEF Types
<1>4. ASSUME NEW h \in Hashes PROVE Refs(msg, pfp, h) <= row[h]
  BY NoneAssumption, SizeEmpty DEF Init, MsgFiles, Pictures, Refs
<1>5. \A t \in Tokens : token[t].life # "live"  BY <1>1
<1>6. ASSUME NEW w \in Workers
      PROVE  Accounts(pipe[w], token, row, msg, pfp, cached, sent, task[w])
  BY <1>2, <1>3, <1>4, <1>5, EmptyAccounts
<1>7. QED  BY <1>1, <1>6 DEF FilesInv, Fresh

LEMMA NextFiles == OneWorker /\ Types /\ Types' /\ Counts /\ FilesInv /\ [Next]_vars => FilesInv'
<1> SUFFICES ASSUME OneWorker, Types, Types', Counts, FilesInv, [Next]_vars PROVE FilesInv'
  OBVIOUS
<1>1. CASE Crash  BY <1>1, CrashKeeps
<1>2. CASE UNCHANGED vars  BY <1>2 DEF vars, FilesInv
<1>3. ASSUME NEW w \in Workers, NEW t \in Tokens,
             \/ server_new_upload_token(w, t) \/ timer_ut(w, t)
             \/ \E h \in Hashes : PostPfp(w, t, h) \/ \E i \in Index : PostAttach(w, t, i, h)
      PROVE  FilesInv'
  BY <1>3, TokenKeeps, PostPfpKeeps, PostAttachKeeps
<1>4. ASSUME NEW w \in Workers, SaveAttach(w) \/ CountAttach(w) \/ TestAttach(w)
      PROVE  FilesInv'
  BY <1>4, SaveAttachKeeps, CountAttachKeeps, TestAttachKeeps
<1>5. ASSUME NEW w \in Workers,
             (\E m \in Msgs : server_delete_group_msg(w, m)) \/ db_async_delete_group(w)
      PROVE  FilesInv'
  BY <1>5, AskKeeps
<1>6. ASSUME NEW w \in Workers,
             \/ db_async_insert_userfile(w) \/ db_async_userfile_refcount(w)
             \/ db_async_delete_userfile(w) \/ db_async_insert_group_msg(w)
             \/ db_async_update_user(w) \/ db_async_delete_msg(w)
             \/ SelectAttachs(w) \/ DeleteMsgs(w)
      PROVE  FilesInv'
  BY <1>6, InsertFileKeeps, RefcountKeeps, ReleaseKeeps, InsertMsgKeeps, UpdatePfpKeeps,
     DeleteMsgKeeps, SelectKeeps, DeleteMsgsKeeps
<1>7. ASSUME NEW w \in Workers,
             \/ do_save_file_img(w) \/ do_delete_file(w) \/ NoCallback(w) \/ DiskFails(w)
             \/ do_insert_msg_after(w) \/ update_pfp_result(w)
             \/ delete_msg_result(w) \/ delete_group_result(w)
      PROVE  FilesInv'
  BY <1>7, FileCallbackKeeps, InsertAfterKeeps, PfpResultKeeps, DeleteResultKeeps, UsesFreedKeeps
  DEF update_pfp_result, OwnerGone
<1>8. QED  BY <1>1, <1>2, <1>3, <1>4, <1>5, <1>6, <1>7 DEF Next

LEMMA FilesImply == OneWorker /\ Types /\ FilesInv => RefCountCovers
<1> SUFFICES ASSUME OneWorker, Types, FilesInv, ~ub, NEW h \in Hashes
             PROVE  row[h] >= References(h)
  BY DEF RefCountCovers
<1>1. PICK w \in Workers : TRUE  BY DEF OneWorker
<1>2. PICK m \in Nat : m = Size(MsgFiles(msg, h))  BY MsgFamily DEF Types
<1>3. PICK n \in Nat : n = Cardinality({u \in Users : pfp[u] = h})  BY <1>1, CountCovers
<1>4. PICK r \in Nat : r = row[h]  BY DEF Types
<1>5. r >= m + n  BY <1>1, <1>2, <1>3, <1>4, CountCovers
<1>6. QED  BY <1>2, <1>3, <1>4, <1>5, ReferencesAre

(* With one worker ref_count never falls below the number of messages and    *)
(* profile pictures that refer to the file: server_save_file_img is sent     *)
(* before the message or the picture, server_delete_file from the callback   *)
(* of the deletion or of the update, and queries are answered in order.      *)
(* Whatever else is in the pipeline, and wherever the process crashes, until *)
(* the callback of a picture uses a user whose WebSocket has closed.         *)
THEOREM RefCountCoversHolds == ASSUME OneWorker PROVE Spec => []RefCountCovers
<1>1. Init => Types /\ Counts /\ FilesInv  BY InitTypes, InitCounts, InitFiles
<1>2. Types /\ Counts /\ FilesInv /\ [Next]_vars => Types' /\ Counts' /\ FilesInv'
  BY NextTypes, NextCounts, NextFiles
<1>3. Types /\ Counts /\ FilesInv => RefCountCovers  BY FilesImply
<1>4. QED  BY <1>1, <1>2, <1>3, PTL DEF Spec

-----------------------------------------------------------------------------
(* What the queue will do to a file on disk                                  *)

(* Effects that stay as they are.                                            *)
LEMMA SameRight ==
  ASSUME NEW p, NEW q, NEW h, NEW r, NEW b, Right(p, h, r, b),
         \A l, j \in Nat : At(q, l, j, h, r) = At(p, l, j, h, r)
  PROVE  Right(q, h, r, b)
BY DEF Right, Outcome

LEMMA NewDone ==
  ASSUME NEW ch, ch.done = 0, ch.ran = 0, NEW h, NEW r, NEW i \in Nat
  PROVE  Effect(ch, i, h, r) = "none"
BY DEF Effect

LEMMA AppendRight ==
  ASSUME NEW p \in Seq(Chains), NEW ch \in Chains, ch.done = 0, ch.ran = 0, NEW h, NEW r, NEW b,
         Right(p, h, r, b)
  PROVE  Right(Append(p, ch), h, r, b)
<1>1. PICK n \in Nat : n = Len(p)  BY LenProperties
<1>2. PICK q : q = Append(p, ch)  OBVIOUS
<1>3. Len(q) = n + 1 /\ q[n + 1] = ch /\ \A k \in 1 .. n : q[k] = p[k]
  BY <1>1, <1>2, AppendProperties
<1>4. n + 1 \in 1 .. n + 1 /\ n + 1 \notin 1 .. n  OBVIOUS
<1>5. ASSUME NEW l \in Nat, NEW j \in Nat PROVE At(q, l, j, h, r) = At(p, l, j, h, r)
  <2>1. CASE l \in 1 .. n  BY <1>1, <1>3, <2>1 DEF At
  <2>2. CASE l = n + 1  BY <1>1, <1>3, <1>4, <2>2, NewDone DEF At
  <2>3. CASE l \notin 1 .. n /\ l # n + 1  BY <1>1, <1>3, <2>3 DEF At
  <2>4. QED  BY <2>1, <2>2, <2>3
<1>6. QED  BY <1>2, <1>5, SameRight

(* A new effect, x, behind all others, decides.                              *)
LEMMA LastDecides ==
  ASSUME NEW p, NEW q, NEW h, NEW r \in Nat, NEW r2 \in Nat, NEW b, Right(p, h, r, b),
         NEW k \in Nat, NEW i \in Nat, NEW x, At(q, k, i, h, r2) = x, At(p, k, i, h, r) = "none",
         \A l, j \in Nat : ~(l = k /\ j = i) => At(q, l, j, h, r2) = At(p, l, j, h, r),
         \A l, j \in Nat : Later(k, i, l, j) => At(q, l, j, h, r2) = "none",
         \/ x = "write" /\ r2 > 0
         \/ x = "unlink" /\ r2 = 0
         \/ x = "none" /\ (r2 > 0 <=> r > 0)
  PROVE  Right(q, h, r2, b)
<1>1. CASE x = "write" /\ r2 > 0  BY <1>1 DEF Outcome, Right
<1>2. CASE x = "unlink" /\ r2 = 0  BY <1>2 DEF Outcome, Right
<1>3. CASE x = "none" /\ (r2 > 0 <=> r > 0)  BY <1>3 DEF Outcome, Right
<1>4. QED  BY <1>1, <1>2, <1>3

LEMMA EffectSame ==
  ASSUME NEW ch, NEW op, NEW cmd, NEW q, Step(ch, op, cmd, q), Tidy(ch), NEW h,
         NEW r, NEW r2, ReadsRow(op, cmd, h, r)
  PROVE  StepEffects(ch, op, cmd, q, h, r, r2)
<1> SUFFICES ASSUME NEW i \in Nat
             PROVE  /\ i # ch.done + 1 => Effect(q, i, h, r2) = Effect(ch, i, h, r)
                    /\ i = ch.done + 1 => /\ Effect(ch, i, h, r) = "none"
                                          /\ Effect(q, i, h, r2) = NewEffect(op, cmd, h, r2)
                    /\ ch.done + 1 < i => Effect(q, i, h, r2) = "none"
  BY DEF StepEffects
<1>1. PICK n \in Nat, d \in Nat : StepsTo(n, d, ch, op, cmd, q)  BY StepFacts
<1>2. /\ n = Len(ch.cmds) /\ d = ch.done /\ d < n /\ d + 1 \in 1 .. n
      /\ ch.cmds[d + 1].op = op /\ Len(q.cmds) = n /\ q.done = d + 1 /\ q.ran = ch.ran
      /\ q.cmds[d + 1] = cmd
      /\ \A j \in 1 .. n : j # d + 1 => q.cmds[j] = ch.cmds[j]
      /\ \A j \in 1 .. n : q.cmds[j].op = ch.cmds[j].op /\ q.cmds[j].hash = ch.cmds[j].hash
  BY <1>1 DEF StepsTo
<1>3. cmd.op = op /\ cmd.hash = ch.cmds[d + 1].hash  BY <1>2
<1>4. ch.ran = 0  BY <1>2 DEF Tidy
<1>5. CASE i = 0  BY <1>2, <1>4, <1>5 DEF Effect
<1>6. CASE d + 1 < i  BY <1>2, <1>6 DEF Effect
<1>7. CASE i = d + 1  BY <1>2, <1>3, <1>4, <1>7 DEF Effect, Reads, NewEffect
<1>8. CASE i = d /\ i # 0
  <2>1. i \in 1 .. n /\ i + 1 = d + 1 /\ i # d + 1 /\ ~(d + 1 < i) /\ ~(d < i)
        /\ ~(i + 1 <= d) /\ i + 1 <= d + 1 /\ ~(i <= 0)
    BY <1>2, <1>8
  <2>2. q.cmds[i] = ch.cmds[i]  BY <1>2, <2>1
  <2>3. Reads(ch, i, r) = r /\ Reads(q, i, r2) = cmd.n  BY <1>2, <2>1 DEF Reads
  <2>4. CASE IsFile(ch.cmds[i])
    BY <1>2, <1>3, <1>4, <2>1, <2>2, <2>3, <2>4 DEF Tidy, ReadsRow, Effect
  <2>5. CASE ~IsFile(ch.cmds[i])  BY <1>2, <1>4, <2>1, <2>2, <2>5 DEF IsFile, Effect
  <2>6. QED  BY <2>4, <2>5
<1>9. CASE i # 0 /\ i < d
  <2>1. i \in 1 .. n /\ i + 1 \in 1 .. n /\ i # d + 1 /\ i + 1 # d + 1 /\ ~(d + 1 < i) /\ ~(d < i)
        /\ i + 1 <= d /\ i + 1 <= d + 1
    BY <1>2, <1>9
  <2>2. q.cmds[i] = ch.cmds[i] /\ q.cmds[i + 1] = ch.cmds[i + 1]  BY <1>2, <2>1
  <2>3. Reads(ch, i, r) = ch.cmds[i + 1].n /\ Reads(q, i, r2) = ch.cmds[i + 1].n
    BY <1>2, <2>1, <2>2 DEF Reads
  <2>4. QED  BY <1>2, <1>4, <2>1, <2>2, <2>3 DEF Effect
<1>10. QED  BY <1>5, <1>6, <1>7, <1>8, <1>9

(* The effects of a chain that is answered, and of one that is not begun,    *)
(* do not depend on the row.                                                 *)
LEMMA OthersSame ==
  ASSUME NEW ch \in Chains, Tidy(ch), ch.done = Len(ch.cmds) \/ ch.done = 0, NEW h, NEW r, NEW r2,
         NEW i \in Nat
  PROVE  /\ Effect(ch, i, h, r2) = Effect(ch, i, h, r)
         /\ ch.done = 0 => Effect(ch, i, h, r) = "none"
<1>1. PICK n \in Nat : n = Len(ch.cmds)  BY InChain
<1>2. ch.ran \in Nat /\ 1 <= n /\ ch.done \in Nat  BY <1>1, InChain
<1>3. CASE ch.done = 0  BY <1>1, <1>2, <1>3, NewDone DEF Tidy
<1>4. CASE ch.done = n
  <2>1. CASE i <= ch.ran \/ n < i  BY <1>1, <1>2, <1>4, <2>1 DEF Effect
  <2>2. CASE ~(i <= ch.ran) /\ ~(n < i)
    <3>1. i \in 1 .. n  BY <1>2, <2>2
    <3>2. CASE IsFile(ch.cmds[i])  BY <1>1, <1>2, <1>4, <3>1, <3>2 DEF Tidy, Reads, Effect
    <3>3. CASE ~IsFile(ch.cmds[i])  BY <1>1, <1>2, <1>4, <3>3 DEF Effect, IsFile
    <3>4. QED  BY <3>2, <3>3
  <2>3. QED  BY <2>1, <2>2
<1>5. QED  BY <1>1, <1>3, <1>4

LEMMA ExecutingRight ==
  ASSUME NEW p \in Seq(Chains), NEW k, NEW op, NEW cmd, NEW q, Executing(p, k, op, cmd, q), Orderly(p),
         \A j \in 1 .. k - 1 : p[j].done = Len(p[j].cmds),
         NEW h, NEW r \in Nat, NEW r2 \in Nat, NEW b, Right(p, h, r, b),
         ReadsRow(op, cmd, h, r),
         \/ NewEffect(op, cmd, h, r2) = "write" /\ r2 > 0
         \/ NewEffect(op, cmd, h, r2) = "unlink" /\ r2 = 0
         \/ NewEffect(op, cmd, h, r2) = "none" /\ (r2 > 0 <=> r > 0)
  PROVE  Right([p EXCEPT ![k] = q], h, r2, b)
<1>1. PICK n \in Nat : n = Len(p)  BY LenProperties
<1>2. PICK s : s = [p EXCEPT ![k] = q]  OBVIOUS
<1>3. k \in 1 .. n /\ q \in Chains /\ Step(p[k], op, cmd, q)
      /\ \A j \in 1 .. n : k < j => p[j].done = 0
  BY <1>1 DEF Executing
<1>4. Len(s) = n /\ s[k] = q /\ \A j \in 1 .. n : j # k => s[j] = p[j]
  BY <1>1, <1>2, <1>3, ExceptSeq
<1>5. \A j \in 1 .. n : p[j] \in Chains /\ Tidy(p[j])  BY <1>1, ElementOfSeq DEF Orderly
<1>6. PICK i \in Nat : i = p[k].done + 1
  <2>1. PICK d \in Nat : d = p[k].done  BY <1>3, <1>5, InChain
  <2>2. d + 1 \in Nat  OBVIOUS
  <2>3. QED  BY <2>1, <2>2
<1>7. ASSUME NEW l \in 1 .. n, l # k, NEW j \in Nat
      PROVE  At(s, l, j, h, r2) = At(p, l, j, h, r) /\ (k < l => At(s, l, j, h, r2) = "none")
  <2>1. l \in 1 .. k - 1 \/ k < l  BY <1>3, <1>7
  <2>2. p[l].done = Len(p[l].cmds) \/ p[l].done = 0  BY <1>3, <2>1
  <2>3. Effect(p[l], j, h, r2) = Effect(p[l], j, h, r)
        /\ (p[l].done = 0 => Effect(p[l], j, h, r2) = "none")
    BY <1>5, <2>2, OthersSame
  <2>4. At(s, l, j, h, r2) = Effect(p[l], j, h, r2) /\ At(p, l, j, h, r) = Effect(p[l], j, h, r)
    BY <1>1, <1>4, <1>7 DEF At
  <2>5. k < l => p[l].done = 0  BY <1>3
  <2>6. QED  BY <2>3, <2>4, <2>5
<1>8. \A j \in Nat : /\ At(s, k, j, h, r2) = Effect(q, j, h, r2)
                     /\ At(p, k, j, h, r) = Effect(p[k], j, h, r)
  BY <1>1, <1>3, <1>4 DEF At
<1>9. ASSUME NEW j \in Nat
      PROVE  /\ j # i => At(s, k, j, h, r2) = At(p, k, j, h, r)
             /\ j = i => /\ At(p, k, j, h, r) = "none"
                         /\ At(s, k, j, h, r2) = NewEffect(op, cmd, h, r2)
             /\ i < j => At(s, k, j, h, r2) = "none"
  <2>1. PICK ch : ch = p[k]  OBVIOUS
  <2>2. Step(ch, op, cmd, q) /\ Tidy(ch)  BY <1>3, <1>5, <2>1
  <2>3. StepEffects(ch, op, cmd, q, h, r, r2)  BY <2>2, EffectSame
  <2>4. QED  BY <1>6, <1>8, <2>1, <2>3 DEF StepEffects
<1>10. \A l \in Nat \ (1 .. n) : \A j \in Nat : At(s, l, j, h, r2) = "none" /\ At(p, l, j, h, r) = "none"
  BY <1>1, <1>4 DEF At
<1>11. k \in Nat  BY <1>3
<1>12. \A l, j \in Nat : ~(l = k /\ j = i) => At(s, l, j, h, r2) = At(p, l, j, h, r)
  BY <1>7, <1>9, <1>10
<1>13. \A l, j \in Nat : Later(k, i, l, j) => At(s, l, j, h, r2) = "none"
  <2>1. ASSUME NEW l \in Nat, NEW j \in Nat, k < l \/ (k = l /\ i < j) PROVE At(s, l, j, h, r2) = "none"
    <3>1. CASE l = k
      <4>1. i < j  BY <1>11, <2>1, <3>1
      <4>2. QED  BY <1>9, <3>1, <4>1
    <3>2. CASE l # k
      <4>1. k < l  BY <2>1, <3>2
      <4>2. QED  BY <1>7, <1>10, <3>2, <4>1
    <3>3. QED  BY <3>1, <3>2
  <2>2. QED  BY <2>1 DEF Later
<1>14. At(s, k, i, h, r2) = NewEffect(op, cmd, h, r2) /\ At(p, k, i, h, r) = "none"  BY <1>9
<1>15. PICK x : x = NewEffect(op, cmd, h, r2)  OBVIOUS
<1>16. At(s, k, i, h, r2) = x  BY <1>14, <1>15
<1>17. \/ x = "write" /\ r2 > 0
       \/ x = "unlink" /\ r2 = 0
       \/ x = "none" /\ (r2 > 0 <=> r > 0)
  BY <1>15
<1>18. Right(s, h, r2, b)  BY <1>11, <1>12, <1>13, <1>14, <1>16, <1>17, LastDecides
<1>19. QED  BY <1>2, <1>18

LEMMA OutcomeCalled ==
  ASSUME NEW p, NEW q, NEW h, NEW r, NEW b, NEW e, NEW f, e # f, e # "none", f # "none",
         Outcome(p, h, r, b, e, f), NEW i \in Nat, FirstGone(p, q, i, h, r)
  PROVE  Outcome(q, h, r, Applied(At(p, 1, i, h, r), b, e, f), e, f)
<1>1. \A l, j \in Nat : At(q, l, j, h, r) = IF l = 1 /\ j = i THEN "none" ELSE At(p, l, j, h, r)
  BY DEF FirstGone
<1>2. \A l, j \in Nat : At(p, l, j, h, r) = "none" \/ (l = 1 /\ j = i) \/ Later(1, i, l, j)
  BY DEF FirstGone
<1>3. CASE b /\ \A l, j \in Nat : At(p, l, j, h, r) # f  BY <1>3, <1>1 DEF Applied, Outcome
<1>4. ASSUME NEW k \in Nat, NEW g \in Nat, At(p, k, g, h, r) = e,
             \A l, j \in Nat : Later(k, g, l, j) => At(p, l, j, h, r) # f
      PROVE  Outcome(q, h, r, Applied(At(p, 1, i, h, r), b, e, f), e, f)
  <2>1. CASE k = 1 /\ g = i  BY <1>4, <1>1, <1>2, <2>1 DEF Applied, Outcome
  <2>2. CASE ~(k = 1 /\ g = i)  BY <1>4, <1>1, <2>2 DEF Outcome
  <2>3. QED  BY <2>1, <2>2
<1>5. QED  BY <1>3, <1>4 DEF Outcome

(* The same when it was the last callback of its chain, which goes.          *)
LEMMA OutcomeGone ==
  ASSUME NEW p, NEW q, NEW h, NEW r, NEW b, NEW e, NEW f, e # f, e # "none", f # "none",
         Outcome(p, h, r, b, e, f), NEW i \in Nat,
         Shifted(p, q, h, r), OnlyAt(p, i, h, r)
  PROVE  Outcome(q, h, r, Applied(At(p, 1, i, h, r), b, e, f), e, f)
<1>1. /\ \A l, j \in Nat : l # 0 => At(q, l, j, h, r) = At(p, l + 1, j, h, r)
      /\ \A j \in Nat : At(q, 0, j, h, r) = "none" /\ At(p, 0, j, h, r) = "none"
      /\ \A j \in Nat : j # i => At(p, 1, j, h, r) = "none"
  BY DEF Shifted, OnlyAt
<1>2. CASE b /\ \A l, j \in Nat : At(p, l, j, h, r) # f  BY <1>1, <1>2 DEF Applied, Outcome
<1>3. ASSUME NEW k \in Nat, NEW g \in Nat, At(p, k, g, h, r) = e,
             \A l, j \in Nat : Later(k, g, l, j) => At(p, l, j, h, r) # f
      PROVE  Outcome(q, h, r, Applied(At(p, 1, i, h, r), b, e, f), e, f)
  <2>1. CASE k = 1  BY <1>1, <1>3, <2>1 DEF Later, Applied, Outcome
  <2>2. CASE k # 1
    <3>1. k # 0  BY <1>1, <1>3
    <3>2. PICK m \in Nat : m # 0 /\ m + 1 = k  BY <2>2, <3>1
    <3>3. ASSUME NEW l \in Nat, NEW j \in Nat, Later(m, g, l, j)
          PROVE  l # 0 /\ l + 1 \in Nat /\ Later(k, g, l + 1, j)
      BY <3>2, <3>3 DEF Later
    <3>4. \A l, j \in Nat : Later(m, g, l, j) => At(q, l, j, h, r) # f  BY <1>1, <1>3, <3>3
    <3>5. QED  BY <1>1, <1>3, <3>2, <3>4 DEF Outcome
  <2>3. QED  BY <2>1, <2>2
<1>4. QED  BY <1>2, <1>3 DEF Outcome

(* The file after the callback of query i of the first chain.                *)
LEMMA RestRight ==
  ASSUME NEW p \in Seq(Chains), Sane(p), Ready(p), NEW h, NEW r \in Nat, NEW b, Right(p, h, r, b),
         NEW x, x = Effect(p[1], p[1].ran + 1, h, r)
  PROVE  Right(RestOf(p), h, r, Applied(x, b, "write", "unlink"))
<1>1. PICK n \in Nat : n = Len(p)  BY LenProperties
<1>2. 1 \in 1 .. n /\ p[1] \in Chains /\ p # <<>>  BY <1>1, ReadyFacts DEF Ready
<1>3. PICK i \in Nat : i = p[1].ran + 1 /\ i # 0  BY <1>2, InChain
<1>4. PICK m \in Nat : m = Len(p[1].cmds)  BY <1>2, InChain
<1>5. p[1].done = m /\ p[1].ran \in Nat  BY <1>2, <1>4, InChain DEF Ready
<1>6. x = At(p, 1, i, h, r)  BY <1>1, <1>2, <1>3 DEF At
<1>7. \A j \in Nat : j # i /\ ~(i < j) => At(p, 1, j, h, r) = "none"
  BY <1>1, <1>2, <1>3, <1>5 DEF At, Effect
<1>8. \A j \in Nat : At(p, 0, j, h, r) = "none"  BY <1>1 DEF At
<1>9. PICK q : q = RestOf(p)  OBVIOUS
<1>10. ASSUME NEW c, NEW e, NEW f, e # f, e # "none", f # "none", Outcome(p, h, r, c, e, f)
       PROVE  Outcome(q, h, r, Applied(x, c, e, f), e, f)
  <2>1. CASE LastRuns(p)
    <3>1. i = m  BY <1>3, <1>4, <2>1 DEF LastRuns
    <3>2. \A j \in Nat : j # i => At(p, 1, j, h, r) = "none"
      BY <1>1, <1>2, <1>4, <1>5, <1>7, <3>1 DEF At, Effect
    <3>3. PICK k \in Nat : k = Len(q) /\ n = k + 1 /\ \A l \in 1 .. k : q[l] = p[l + 1]
      BY <1>1, <1>2, <1>9, <2>1, TailFacts DEF RestOf
    <3>4. ASSUME NEW l \in Nat, NEW j \in Nat, l # 0 PROVE At(q, l, j, h, r) = At(p, l + 1, j, h, r)
      BY <1>1, <3>3, <3>4 DEF At
    <3>5. \A j \in Nat : At(q, 0, j, h, r) = "none"  BY <3>3 DEF At
    <3>6. Outcome(q, h, r, Applied(At(p, 1, i, h, r), c, e, f), e, f)
      BY <1>8, <1>10, <3>2, <3>4, <3>5, OutcomeGone DEF Shifted, OnlyAt
    <3>7. QED  BY <1>6, <3>6
  <2>2. CASE ~LastRuns(p)
    <3>1. PICK ch : ch = CalledBack(p[1])  OBVIOUS
    <3>2. ch.cmds = p[1].cmds /\ ch.done = p[1].done /\ ch.ran = i
      BY <1>2, <1>3, <3>1 DEF CalledBack, Chains
    <3>3. q = [p EXCEPT ![1] = ch]  BY <1>9, <2>2, <3>1 DEF RestOf
    <3>4. Len(q) = n /\ q[1] = ch /\ \A l \in 1 .. n : l # 1 => q[l] = p[l]
      BY <1>1, <1>2, <2>2, <3>1, <3>3, ExceptSeq, CalledBackTypes DEF LastRuns
    <3>5. ASSUME NEW j \in Nat
          PROVE  Effect(ch, j, h, r) = IF j <= i THEN "none" ELSE Effect(p[1], j, h, r)
      <4>1. CASE j <= i  BY <3>2, <4>1 DEF Effect
      <4>2. CASE ~(j <= i)  BY <1>3, <1>5, <3>2, <4>2 DEF Reads, Effect
      <4>3. QED  BY <4>1, <4>2
    <3>6. ASSUME NEW l \in Nat, NEW j \in Nat
          PROVE  At(q, l, j, h, r) = IF l = 1 /\ j = i THEN "none" ELSE At(p, l, j, h, r)
      <4>1. CASE l # 1  BY <1>1, <3>4, <4>1 DEF At
      <4>2. CASE l = 1  BY <1>1, <1>2, <1>7, <3>4, <3>5, <4>2 DEF At
      <4>3. QED  BY <4>1, <4>2
    <3>7. ASSUME NEW l \in Nat, NEW j \in Nat
          PROVE  At(p, l, j, h, r) = "none" \/ (l = 1 /\ j = i) \/ Later(1, i, l, j)
      <4>1. CASE l = 0  BY <1>8, <4>1
      <4>2. CASE l = 1  BY <1>7, <4>2 DEF Later
      <4>3. CASE l # 0 /\ l # 1  BY <4>3 DEF Later
      <4>4. QED  BY <4>1, <4>2, <4>3
    <3>8. Outcome(q, h, r, Applied(At(p, 1, i, h, r), c, e, f), e, f)
      BY <1>10, <3>6, <3>7, OutcomeCalled DEF FirstGone
    <3>9. QED  BY <1>6, <3>8
  <2>3. QED  BY <2>1, <2>2
<1>11. CASE r > 0  BY <1>9, <1>10, <1>11 DEF Right
<1>12. CASE ~(r > 0)
  <2>1. Outcome(p, h, r, ~b, "unlink", "write")  BY <1>12 DEF Right
  <2>2. Outcome(q, h, r, Applied(x, ~b, "unlink", "write"), "unlink", "write")  BY <1>10, <2>1
  <2>3. Applied(x, ~b, "unlink", "write") <=> ~Applied(x, b, "write", "unlink")  BY DEF Applied
  <2>4. Outcome(q, h, r, ~Applied(x, b, "write", "unlink"), "unlink", "write")
    BY <2>2, <2>3 DEF Outcome
  <2>5. QED  BY <1>9, <1>12, <2>4 DEF Right
<1>13. QED  BY <1>11, <1>12

LEMMA NewSave ==
  ASSUME NEW f \in Hashes
  PROVE  New(Chain(server_save_file_img(f)))
<1>1. PICK ch : ch = Chain(server_save_file_img(f))  OBVIOUS
<1>2. /\ ch.done = 0 /\ ch.ran = 0 /\ Len(ch.cmds) = 2 /\ ch.cmds[1].op = "insert_file"
      /\ ch.cmds[1].hash = f /\ ch.cmds[2].hash = f /\ ch.cmds[2].op = "refcount"
      /\ ch.cmds[1].ok /\ ch.cmds[2].ok
  BY <1>1 DEF Chain, server_save_file_img, Cmd
<1>3. Tidy(ch)  BY <1>2 DEF Tidy, IsFile
<1>4. QED  BY <1>1, <1>2, <1>3, SaveChain DEF New

LEMMA NewSaveAnd ==
  ASSUME NEW f \in Hashes, NEW cmd \in GoodQuery, cmd.op \in {"insert_msg", "update_pfp"}, cmd.ok
  PROVE  New(Chain(Append(server_save_file_img(f), cmd)))
<1>1. PICK ch : ch = Chain(Append(server_save_file_img(f), cmd))  OBVIOUS
<1>2. PICK s : s = server_save_file_img(f)  OBVIOUS
<1>3. s \in Seq(GoodQuery) /\ Len(s) = 2  BY <1>2, SaveTypes
<1>4. s[1].op = "insert_file" /\ s[1].hash = f /\ s[2].op = "refcount" /\ s[2].hash = f
      /\ s[1].ok /\ s[2].ok
  BY <1>2 DEF server_save_file_img, Cmd
<1>5. PICK q : q = Append(s, cmd)  OBVIOUS
<1>6. Len(q) = 3 /\ q[1] = s[1] /\ q[2] = s[2] /\ q[3] = cmd  BY <1>3, <1>5, AppendProperties
<1>7. ch.cmds = q /\ ch.done = 0 /\ ch.ran = 0  BY <1>1, <1>2, <1>5 DEF Chain
<1>8. 1 .. 3 = {1, 2, 3} /\ 1 + 1 = 2  OBVIOUS
<1>9. Tidy(ch)
  <2>1. \A j \in 1 .. 3 : IsFile(q[j]) => j = 1  BY <1>4, <1>6, <1>8 DEF IsFile
  <2>2. q[2].op = "refcount" /\ q[2].hash = q[1].hash /\ \A j \in 1 .. 3 : q[j].ok
    BY <1>4, <1>6, <1>8
  <2>3. \A j \in 1 .. 3 : IsFile(q[j]) =>
          j + 1 \in 1 .. 3 /\ q[j + 1].op = "refcount" /\ q[j + 1].hash = q[j].hash
    BY <1>8, <2>1, <2>2
  <2>4. Len(ch.cmds) = 3 /\ ch.cmds = q /\ ch.ran = 0  BY <1>6, <1>7
  <2>5. \A j \in 1 .. 3 : ch.cmds[j].ok  BY <2>2, <2>4
  <2>6. \A j \in 1 .. 3 : IsFile(ch.cmds[j]) =>
          /\ j + 1 \in 1 .. 3 /\ ch.cmds[j + 1].op = "refcount"
          /\ ch.cmds[j + 1].hash = ch.cmds[j].hash
    BY <2>3, <2>4
  <2>7. QED  BY <2>4, <2>5, <2>6 DEF Tidy
<1>10. QED  BY <1>1, <1>7, <1>9, SaveAndChain DEF New

LEMMA NewDelete ==
  ASSUME NEW m \in Msgs
  PROVE  New(Chain(<<Cmd("delete_msg", None, m, NoFiles)>>))
<1>1. PICK ch : ch = Chain(<<Cmd("delete_msg", None, m, NoFiles)>>)  OBVIOUS
<1>2. ch.done = 0 /\ ch.ran = 0 /\ Len(ch.cmds) = 1 /\ ch.cmds[1].op = "delete_msg" /\ ch.cmds[1].ok
  BY <1>1 DEF Chain, Cmd
<1>3. Tidy(ch)  BY <1>2 DEF Tidy, IsFile
<1>4. QED  BY <1>1, <1>2, <1>3, DeleteChain DEF New

LEMMA NewDeleteGroup ==
  New(Chain(<<Cmd("select_attachs", None, None, NoFiles), Cmd("delete_msgs", None, None, NoFiles)>>))
<1>1. PICK ch : ch = Chain(<<Cmd("select_attachs", None, None, NoFiles),
                             Cmd("delete_msgs", None, None, NoFiles)>>)
  OBVIOUS
<1>2. /\ ch.done = 0 /\ ch.ran = 0 /\ Len(ch.cmds) = 2 /\ ch.cmds[1].op = "select_attachs"
      /\ ch.cmds[2].op = "delete_msgs" /\ ch.cmds[1].ok /\ ch.cmds[2].ok
  BY <1>1 DEF Chain, Cmd
<1>3. Tidy(ch)  BY <1>2 DEF Tidy, IsFile
<1>4. QED  BY <1>1, <1>2, <1>3, DeleteGroupChain DEF New

LEMMA NewRelease ==
  ASSUME NEW f \in Hash
  PROVE  New(Chain(server_delete_file(f)))
<1>1. PICK ch : ch = Chain(server_delete_file(f))  OBVIOUS
<1>2. /\ ch.done = 0 /\ ch.ran = 0 /\ Len(ch.cmds) = 2 /\ ch.cmds[1].op = "release"
      /\ ch.cmds[1].hash = f /\ ch.cmds[2].hash = f /\ ch.cmds[2].op = "refcount"
      /\ ch.cmds[1].ok /\ ch.cmds[2].ok
  BY <1>1 DEF Chain, server_delete_file, Cmd
<1>3. Tidy(ch)  BY <1>2 DEF Tidy, IsFile
<1>4. QED  BY <1>1, <1>2, <1>3, ReleaseChain DEF New

LEMMA NewReleaseAll ==
  ASSUME NEW files \in Seq(Hash), NEW cmds, cmds = server_delete_attachments_json(files), cmds # <<>>
  PROVE  New(Chain(cmds))
<1>1. PICK n \in Nat : n = Len(files)  BY LenProperties
<1>2. PICK ch : ch = Chain(cmds)  OBVIOUS
<1>3. ch \in Chains /\ ch.cmds = cmds /\ ch.done = 0 /\ ch.ran = 0
  BY <1>2, ReleaseAllChain DEF Chain
<1>4. \A f : /\ server_delete_file(f)[1].op = "release" /\ server_delete_file(f)[1].hash = f
             /\ server_delete_file(f)[2].op = "refcount" /\ server_delete_file(f)[2].hash = f
             /\ server_delete_file(f)[1].ok /\ server_delete_file(f)[2].ok
  BY DEF server_delete_file, Cmd
<1>5. \A j \in 1 .. 2 * n : /\ j % 2 = 1 => 2 - (j % 2) = 1
                            /\ j % 2 # 1 => 2 - (j % 2) = 2
  OBVIOUS
<1>6. \A j \in 1 .. 2 * n : /\ j % 2 = 1 => cmds[j] = server_delete_file(files[(j + 1) \div 2])[1]
                            /\ j % 2 # 1 => cmds[j] = server_delete_file(files[(j + 1) \div 2])[2]
  BY <1>1, <1>5 DEF server_delete_attachments_json
<1>7. \A j \in 1 .. 2 * n : /\ cmds[j].ok /\ cmds[j].hash = files[(j + 1) \div 2]
                            /\ j % 2 # 1 => cmds[j].op = "refcount"
  BY <1>4, <1>6
<1>8. \A j \in 1 .. 2 * n : j % 2 = 1 => /\ j + 1 \in 1 .. 2 * n /\ (j + 1) % 2 # 1
                                          /\ (j + 1) + 1 \in Nat
                                          /\ ((j + 1) + 1) \div 2 = (j + 1) \div 2
  OBVIOUS
<1>9. ASSUME NEW j \in 1 .. 2 * n, IsFile(cmds[j])
       PROVE  j + 1 \in 1 .. 2 * n /\ cmds[j + 1].op = "refcount" /\ cmds[j + 1].hash = cmds[j].hash
  BY <1>7, <1>8, <1>9 DEF IsFile
<1>10. Tidy(ch)  BY <1>1, <1>3, <1>7, <1>9, DeleteAllTypes DEF Tidy
<1>11. QED  BY <1>2, <1>3, <1>10 DEF New

LEMMA AnsweredTidy ==
  ASSUME NEW ch, NEW op, NEW cmd, NEW q, Step(ch, op, cmd, q), Tidy(ch)
  PROVE  Tidy(q)
<1>1. PICK n \in Nat, d \in Nat : StepsTo(n, d, ch, op, cmd, q)  BY StepFacts
<1>2. /\ n = Len(ch.cmds) /\ d = ch.done /\ d < n /\ Len(q.cmds) = n /\ q.done = d + 1 /\ q.ran = ch.ran
      /\ \A j \in 1 .. n : j # d + 1 => q.cmds[j] = ch.cmds[j]
      /\ \A j \in 1 .. n : q.cmds[j].op = ch.cmds[j].op /\ q.cmds[j].hash = ch.cmds[j].hash
  BY <1>1 DEF StepsTo
<1>3. q.ran = 0  BY <1>2 DEF Tidy
<1>4. \A j \in 1 .. n : IsFile(q.cmds[j]) => /\ j + 1 \in 1 .. n /\ q.cmds[j + 1].op = "refcount"
                                             /\ q.cmds[j + 1].hash = q.cmds[j].hash
  BY <1>2 DEF Tidy, IsFile
<1>5. ASSUME NEW j \in 1 .. n, d + 1 < j PROVE q.cmds[j].ok  BY <1>2, <1>5 DEF Tidy
<1>6. QED  BY <1>2, <1>3, <1>4, <1>5 DEF Tidy

LEMMA OrderlyAppend ==
  ASSUME NEW p \in Seq(Chains), Orderly(p), NEW ch, New(ch)
  PROVE  Orderly(Append(p, ch))
<1>1. PICK n \in Nat : n = Len(p)  BY LenProperties
<1>2. PICK q : q = Append(p, ch)  OBVIOUS
<1>3. Len(q) = n + 1 /\ q[n + 1] = ch /\ \A k \in 1 .. n : q[k] = p[k]
  BY <1>1, <1>2, AppendProperties DEF New
<1>4. \A k \in 1 .. n + 1 : Tidy(q[k])  BY <1>1, <1>3 DEF Orderly, New
<1>5. QED  BY <1>2, <1>3, <1>4 DEF Orderly

LEMMA OrderlyReplace ==
  ASSUME NEW p \in Seq(Chains), Orderly(p), NEW k \in 1 .. Len(p), NEW ch \in Chains, Tidy(ch)
  PROVE  Orderly([p EXCEPT ![k] = ch])
<1>1. PICK n \in Nat : n = Len(p)  BY LenProperties
<1>2. PICK q : q = [p EXCEPT ![k] = ch]  OBVIOUS
<1>3. Len(q) = n /\ q[k] = ch /\ \A j \in 1 .. n : j # k => q[j] = p[j]
  BY <1>1, <1>2, ExceptSeq
<1>4. QED  BY <1>1, <1>2, <1>3 DEF Orderly

LEMMA OrderlyRest ==
  ASSUME NEW p \in Seq(Chains), Sane(p), Ready(p), Orderly(p)
  PROVE  Orderly(RestOf(p)) /\ RestOf(p) \in Seq(Chains)
<1>1. p # <<>> /\ 1 \in 1 .. Len(p) /\ p[1] \in Chains  BY ReadyFacts DEF Ready
<1>2. CASE LastRuns(p)  BY <1>1, <1>2, TailFacts DEF Orderly, RestOf
<1>3. CASE ~LastRuns(p)
  <2>1. PICK q : q = CalledBack(p[1])  OBVIOUS
  <2>2. q \in Chains  BY <1>1, <1>3, <2>1, CalledBackTypes DEF LastRuns
  <2>3. Tidy(p[1]) /\ p[1].done = Len(p[1].cmds)  BY <1>1 DEF Orderly, Ready
  <2>4. Tidy(q)  BY <1>1, <2>1, <2>3 DEF Tidy, CalledBack, Chains
  <2>5. PICK s : s = [p EXCEPT ![1] = q]  OBVIOUS
  <2>6. Orderly(s)  BY <1>1, <2>2, <2>4, <2>5, OrderlyReplace
  <2>7. QED  BY <1>1, <1>3, <2>1, <2>2, <2>5, <2>6, ExceptSeq DEF RestOf
<1>4. QED  BY <1>2, <1>3

-----------------------------------------------------------------------------
(* The disk follows the rows.                                                *)

LEMMA DiskConcludes ==
  ASSUME OneWorker, NEW w \in Workers, Orderly(pipe'[w]),
         \A h \in Hashes \ doubt' : Right(pipe'[w], h, row'[h], h \in disk')
  PROVE  DiskInv'
BY DEF DiskInv, OneWorker

LEMMA SameDisk ==
  ASSUME DiskInv, UNCHANGED <<pipe, row, disk, doubt, ub>>
  PROVE  DiskInv'
BY DEF DiskInv

LEMMA UsesFreedDisk == UsesFreed => DiskInv'
BY DEF UsesFreed, DiskInv

(* A handler sends a chain.                                                  *)
LEMMA QueuesDisk ==
  ASSUME Types, DiskInv, OneWorker, ~ub, NEW w \in Workers, NEW cmds, Queue(w, cmds), New(Chain(cmds)),
         UNCHANGED <<row, disk, doubt>>
  PROVE  DiskInv'
<1>1. PICK p : p = pipe[w]  OBVIOUS
<1>2. PICK ch : ch = Chain(cmds)  OBVIOUS
<1>3. p \in Seq(Chains) /\ Orderly(p) /\ \A h \in Hashes \ doubt : Right(p, h, row[h], h \in disk)
  BY <1>1 DEF DiskInv, Types
<1>4. New(ch) /\ ch \in Chains /\ ch.done = 0 /\ ch.ran = 0  BY <1>2 DEF New
<1>5. Orderly(Append(p, ch))  BY <1>3, <1>4, OrderlyAppend
<1>6. ASSUME NEW h \in Hashes \ doubt PROVE Right(Append(p, ch), h, row[h], h \in disk)
  BY <1>3, <1>4, AppendRight
<1>7. QED  BY <1>1, <1>2, <1>5, <1>6, DiskConcludes, QueuesChain

LEMMA HandlersDisk ==
  ASSUME Types, DiskInv, OneWorker, NEW w \in Workers,
         \/ \E t \in Tokens : \/ server_new_upload_token(w, t) \/ timer_ut(w, t)
                              \/ \E h \in Hashes, i \in Index : PostAttach(w, t, i, h)
         \/ SaveAttach(w) \/ CountAttach(w)
  PROVE  DiskInv'
<1>1. CASE UsesFreed  BY <1>1, UsesFreedDisk
<1>2. CASE ~UsesFreed
  <2>1. UNCHANGED <<pipe, row, disk, doubt, ub>>
    BY <1>2 DEF server_new_upload_token, timer_ut, PostAttach, SaveAttach, CountAttach, db, fault
  <2>2. QED  BY <2>1, SameDisk
<1>3. QED  BY <1>1, <1>2

LEMMA TestAttachDisk ==
  ASSUME Types, DiskInv, OneWorker, NEW w \in Workers, TestAttach(w)
  PROVE  DiskInv'
<1>1. CASE UsesFreed  BY <1>1, UsesFreedDisk
<1>2. CASE ~UsesFreed
  <2>1. PICK t : t = task[w].token  OBVIOUS
  <2>2. PICK f : f = task[w].hash  OBVIOUS
  <2>3. PICK cmd : cmd = Cmd("insert_msg", None, t, token[t].files)  OBVIOUS
  <2>4. /\ ~ub /\ task[w].step = "test"
        /\ Queue(w, Append(server_save_file_img(f), cmd)) \/ Queue(w, server_save_file_img(f))
        /\ UNCHANGED <<row, disk, doubt>>
    BY <1>2, <2>1, <2>2, <2>3 DEF TestAttach, db, fault
  <2>5. t \in Tokens /\ f \in Hashes /\ token[t].files \in [Index -> Hash]
    BY <2>1, <2>2, <2>4, TaskFacts DEF GoodToken, Token
  <2>6. PICK files \in [Index -> Hash] : files = token[t].files  BY <2>5
  <2>7. Cmd("insert_msg", None, t, files) \in GoodQuery  BY <2>5, CmdTypes DEF Ops, Hash
  <2>8. cmd \in GoodQuery  BY <2>3, <2>6, <2>7
  <2>9. New(Chain(Append(server_save_file_img(f), cmd))) /\ New(Chain(server_save_file_img(f)))
    BY <2>3, <2>5, <2>8, NewSave, NewSaveAnd DEF Cmd
  <2>10. QED  BY <2>4, <2>9, QueuesDisk
<1>3. QED  BY <1>1, <1>2

LEMMA PostPfpDisk ==
  ASSUME Types, DiskInv, OneWorker, NEW w \in Workers, NEW t \in Tokens, NEW f \in Hashes,
         PostPfp(w, t, f)
  PROVE  DiskInv'
<1>1. PICK cmd : cmd = Cmd("update_pfp", f, token[t].user, NoFiles)  OBVIOUS
<1>2. /\ ~ub /\ token[t].type = "pfp"
      /\ Queue(w, Append(server_save_file_img(f), cmd)) \/ UNCHANGED pipe
      /\ UNCHANGED <<row, disk, doubt, ub>>
  BY <1>1 DEF PostPfp, Free, db, fault
<1>3. cmd \in GoodQuery  BY <1>1, <1>2, IndexFacts, CmdTypes DEF Ops, Hash, Types, GoodToken
<1>4. New(Chain(Append(server_save_file_img(f), cmd)))  BY <1>1, <1>3, NewSaveAnd DEF Cmd
<1>5. QED  BY <1>2, <1>4, QueuesDisk, SameDisk

LEMMA AskDisk ==
  ASSUME Types, DiskInv, OneWorker, NEW w \in Workers,
         (\E m \in Msgs : server_delete_group_msg(w, m)) \/ db_async_delete_group(w)
  PROVE  DiskInv'
<1>1. PICK cmds : Queue(w, cmds) /\ New(Chain(cmds))
  BY NewDelete, NewDeleteGroup DEF server_delete_group_msg, db_async_delete_group
<1>2. QED  BY <1>1, QueuesDisk DEF server_delete_group_msg, db_async_delete_group, Free, db, fault

LEMMA ExecutesDisk ==
  ASSUME Types, Types', FilesInv, DiskInv, OneWorker, NEW w \in Workers,
         NEW k \in DOMAIN pipe[w], NEW op,
         Executes(w, k, op), NEW cmd \in GoodQuery, SameQuery(cmd, Executed(w, k)), Result(w, k, cmd),
         UNCHANGED <<disk, doubt>>, \A h \in Hashes : Decides(op, cmd, h, row[h], row'[h])
  PROVE  DiskInv'
<1>1. PICK p : p = pipe[w]  OBVIOUS
<1>2. PICK q : q = Answered(p[k], cmd)  OBVIOUS
<1>3. /\ Executing(p, k, op, cmd, q) /\ Step(p[k], op, cmd, q)
      /\ pipe'[w] = [p EXCEPT ![k] = q] /\ q \in Chains /\ ~ub
  BY <1>1, <1>2, ExecutesStep
<1>4. p \in Seq(Chains) /\ Orderly(p) /\ \A h \in Hashes \ doubt : Right(p, h, row[h], h \in disk)
  BY <1>1, <1>3 DEF DiskInv, Types
<1>5. \A j \in 1 .. k - 1 : p[j].done = Len(p[j].cmds)  BY <1>1 DEF Executes, Current
<1>6. k \in 1 .. Len(p) /\ Tidy(p[k])  BY <1>3, <1>4 DEF Executing, Orderly
<1>7. Orderly([p EXCEPT ![k] = q])  BY <1>3, <1>4, <1>6, AnsweredTidy, OrderlyReplace
<1>8. ASSUME NEW h \in Hashes \ doubt PROVE Right(pipe'[w], h, row'[h], h \in disk)
  <2>1. PICK r \in Nat : r = row[h]  BY DEF Types
  <2>2. PICK r2 \in Nat : r2 = row'[h]  BY DEF Types
  <2>3. PICK b : b = (h \in disk)  OBVIOUS
  <2>4. Right(p, h, r, b)  BY <1>4, <2>1, <2>3
  <2>5. ReadsRow(op, cmd, h, r)  BY <2>1, <2>2 DEF Decides
  <2>6. \/ NewEffect(op, cmd, h, r2) = "write" /\ r2 > 0
        \/ NewEffect(op, cmd, h, r2) = "unlink" /\ r2 = 0
        \/ NewEffect(op, cmd, h, r2) = "none" /\ (r2 > 0 <=> r > 0)
    BY <2>1, <2>2 DEF Decides
  <2>7. Right([p EXCEPT ![k] = q], h, r2, b)
    BY <1>3, <1>4, <1>5, <2>4, <2>5, <2>6, ExecutingRight
  <2>8. QED  BY <1>3, <2>2, <2>3, <2>7
<1>9. QED  BY <1>3, <1>7, <1>8, DiskConcludes

(* A query about no file.                                                    *)
LEMMA PlainDisk ==
  ASSUME Types, Types', FilesInv, DiskInv, OneWorker, NEW w \in Workers,
         NEW k \in DOMAIN pipe[w], NEW op,
         Executes(w, k, op), NEW cmd \in GoodQuery, SameQuery(cmd, Executed(w, k)), Result(w, k, cmd),
         UNCHANGED <<disk, doubt, row>>, op \notin {"insert_file", "release", "refcount"}
  PROVE  DiskInv'
BY ExecutesDisk DEF Decides, ReadsRow, NewEffect

LEMMA InsertFileDisk ==
  ASSUME Types, Types', FilesInv, DiskInv, OneWorker, NEW w \in Workers, db_async_insert_userfile(w)
  PROVE  DiskInv'
<1>1. PICK k \in DOMAIN pipe[w] :
        /\ Executes(w, k, "insert_file")
        /\ row' = [row EXCEPT ![Executed(w, k).hash] = @ + 1]
        /\ Result(w, k, Executed(w, k))
  BY DEF db_async_insert_userfile
<1>2. PICK c : c = Executed(w, k)  OBVIOUS
<1>3. c \in GoodQuery /\ SameQuery(c, c)  BY <1>1, <1>2, ExecutedTypes DEF SameQuery
<1>4. ASSUME NEW h \in Hashes PROVE Decides("insert_file", c, h, row[h], row'[h])
  <2>1. PICK r \in Nat : r = row[h]  BY DEF Types
  <2>2. PICK r2 \in Nat : r2 = row'[h]  BY DEF Types
  <2>3. r2 = IF c.hash = h THEN r + 1 ELSE r  BY <1>1, <1>2, <2>1, <2>2 DEF Types
  <2>4. CASE c.hash # h  BY <2>1, <2>2, <2>3, <2>4 DEF NewEffect, Decides, ReadsRow
  <2>5. CASE c.hash = h /\ r = 0  BY <2>1, <2>2, <2>3, <2>5 DEF NewEffect, Decides, ReadsRow
  <2>6. CASE c.hash = h /\ r # 0  BY <2>1, <2>2, <2>3, <2>6 DEF NewEffect, Decides, ReadsRow
  <2>7. QED  BY <2>4, <2>5, <2>6
<1>5. QED  BY <1>1, <1>2, <1>3, <1>4, ExecutesDisk DEF db_async_insert_userfile, fault

LEMMA RefcountDisk ==
  ASSUME Types, Types', FilesInv, DiskInv, OneWorker, NEW w \in Workers, db_async_userfile_refcount(w)
  PROVE  DiskInv'
<1>1. PICK k \in DOMAIN pipe[w] :
        /\ Executes(w, k, "refcount")
        /\ LET c == Executed(w, k) IN
           Result(w, k, [c EXCEPT !.n = IF c.hash = None THEN 0 ELSE row[c.hash]])
  BY DEF db_async_userfile_refcount
<1>2. UNCHANGED <<disk, doubt, row>>  BY DEF db_async_userfile_refcount, db, fault
<1>3. PICK c : c = Executed(w, k)  OBVIOUS
<1>4. c \in GoodQuery /\ c.op = "refcount"  BY <1>1, <1>3, ExecutedTypes
<1>5. PICK n : n = IF c.hash = None THEN 0 ELSE row[c.hash]  OBVIOUS
<1>6. n \in Nat  BY <1>4, <1>5 DEF GoodQuery, Query, Hash, Types
<1>7. PICK cmd : cmd = [c EXCEPT !.n = n]  OBVIOUS
<1>8. cmd \in GoodQuery /\ SameQuery(cmd, c) /\ cmd.n = n
  BY <1>4, <1>6, <1>7 DEF GoodQuery, Query, SameQuery
<1>9. Result(w, k, cmd)  BY <1>1, <1>3, <1>5, <1>7
<1>10. ASSUME NEW h \in Hashes PROVE Decides("refcount", cmd, h, row[h], row'[h])
  BY <1>2, <1>5, <1>8, NoneAssumption DEF SameQuery, ReadsRow, NewEffect, Decides
<1>11. QED  BY <1>1, <1>2, <1>3, <1>8, <1>9, <1>10, ExecutesDisk

LEMMA ReleaseDisk ==
  ASSUME Types, Types', FilesInv, DiskInv, OneWorker, NEW w \in Workers, db_async_delete_userfile(w)
  PROVE  DiskInv'
<1>1. PICK k \in DOMAIN pipe[w] :
        /\ Executes(w, k, "release")
        /\ LET c == Executed(w, k) IN
           /\ row' = Released(c.hash)
           /\ Result(w, k, [c EXCEPT !.ok = ~CannotRelease(c.hash)])
  BY DEF db_async_delete_userfile
<1>2. PICK c : c = Executed(w, k)  OBVIOUS
<1>3. c \in GoodQuery /\ c.op = "release"  BY <1>1, <1>2, ExecutedTypes
<1>4. PICK b \in BOOLEAN : b = ~CannotRelease(c.hash)  OBVIOUS
<1>5. PICK cmd : cmd = [c EXCEPT !.ok = b]  OBVIOUS
<1>6. cmd \in GoodQuery /\ SameQuery(cmd, c) /\ cmd.ok = b
  BY <1>3, <1>4, <1>5 DEF GoodQuery, Query, SameQuery
<1>7. Result(w, k, cmd)  BY <1>1, <1>2, <1>4, <1>5
<1>8. ASSUME NEW h \in Hashes PROVE Decides("release", cmd, h, row[h], row'[h])
  <2>1. PICK r \in Nat : r = row[h]  BY DEF Types
  <2>2. PICK r2 \in Nat : r2 = row'[h]  BY DEF Types
  <2>3. h # None /\ cmd.hash = c.hash  BY <1>6, NoneAssumption DEF SameQuery
  <2>4. row' = Released(c.hash)  BY <1>1, <1>2
  <2>5. CASE c.hash # h
    BY <2>1, <2>2, <2>3, <2>4, <2>5 DEF Released, Types, NewEffect, Decides, ReadsRow
  <2>6. CASE c.hash = h /\ CannotRelease(h)
    BY <1>4, <1>6, <2>1, <2>2, <2>4, <2>6 DEF Released, NewEffect, Decides, ReadsRow
  <2>7. CASE c.hash = h /\ ~CannotRelease(h)
    <3>1. cmd.ok  BY <1>4, <1>6, <2>7
    <3>2. r2 = IF r = 0 THEN r ELSE r - 1  BY <2>1, <2>2, <2>3, <2>4, <2>7 DEF Released, Types
    <3>3. CASE r2 = 0  BY <2>1, <2>2, <2>3, <2>7, <3>1, <3>3 DEF NewEffect, Decides, ReadsRow
    <3>4. CASE r2 # 0  BY <2>1, <2>2, <3>2, <3>4 DEF NewEffect, Decides, ReadsRow
    <3>5. QED  BY <3>3, <3>4
  <2>8. QED  BY <2>5, <2>6, <2>7
<1>9. QED  BY <1>1, <1>2, <1>6, <1>7, <1>8, ExecutesDisk DEF db_async_delete_userfile, fault

LEMMA InsertMsgDisk ==
  ASSUME Types, Types', FilesInv, DiskInv, OneWorker, NEW w \in Workers, db_async_insert_group_msg(w)
  PROVE  DiskInv'
<1>1. PICK k \in DOMAIN pipe[w] :
        /\ Executes(w, k, "insert_msg")
        /\ Result(w, k, Executed(w, k)) \/ Result(w, k, [Executed(w, k) EXCEPT !.ok = FALSE])
  BY DEF db_async_insert_group_msg
<1>2. PICK c : c = Executed(w, k)  OBVIOUS
<1>3. c \in GoodQuery /\ SameQuery(c, c)  BY <1>1, <1>2, ExecutedTypes DEF SameQuery
<1>4. [c EXCEPT !.ok = FALSE] \in GoodQuery /\ SameQuery([c EXCEPT !.ok = FALSE], c)
  BY <1>3 DEF GoodQuery, Query, SameQuery
<1>5. QED  BY <1>1, <1>2, <1>3, <1>4, PlainDisk DEF db_async_insert_group_msg, fault

LEMMA UpdatePfpDisk ==
  ASSUME Types, Types', FilesInv, DiskInv, OneWorker, NEW w \in Workers, db_async_update_user(w)
  PROVE  DiskInv'
<1>1. PICK k \in DOMAIN pipe[w] :
        /\ Executes(w, k, "update_pfp")
        /\ LET c == Executed(w, k) IN Result(w, k, [c EXCEPT !.ok = row[c.hash] > 0])
  BY DEF db_async_update_user
<1>2. PICK c : c = Executed(w, k)  OBVIOUS
<1>3. c \in GoodQuery /\ c.op = "update_pfp"  BY <1>1, <1>2, ExecutedTypes
<1>4. PICK b \in BOOLEAN : [c EXCEPT !.ok = row[c.hash] > 0] = [c EXCEPT !.ok = b]
  <2>1. row[c.hash] \in Nat  BY <1>3 DEF GoodQuery, Types
  <2>2. CASE row[c.hash] = 0
    <3>1. (row[c.hash] > 0) = FALSE  BY <2>1, <2>2
    <3>2. QED  BY <3>1
  <2>3. CASE row[c.hash] # 0
    <3>1. (row[c.hash] > 0) = TRUE  BY <2>1, <2>3
    <3>2. QED  BY <3>1
  <2>4. QED  BY <2>2, <2>3
<1>5. PICK cmd : cmd = [c EXCEPT !.ok = b]  OBVIOUS
<1>6. cmd \in GoodQuery /\ SameQuery(cmd, c)  BY <1>3, <1>4, <1>5 DEF GoodQuery, Query, SameQuery
<1>7. Result(w, k, cmd)  BY <1>1, <1>2, <1>4, <1>5
<1>8. QED  BY <1>1, <1>2, <1>6, <1>7, PlainDisk DEF db_async_update_user, fault

LEMMA DeleteMsgDisk ==
  ASSUME Types, Types', FilesInv, DiskInv, OneWorker, NEW w \in Workers, db_async_delete_msg(w)
  PROVE  DiskInv'
<1>1. PICK k \in DOMAIN pipe[w] :
        /\ Executes(w, k, "delete_msg")
        /\ LET c == Executed(w, k) IN
           \/ Result(w, k, [c EXCEPT !.files = msg[c.arg].files])
           \/ Result(w, k, [c EXCEPT !.ok = FALSE])
  BY DEF db_async_delete_msg
<1>2. PICK c : c = Executed(w, k)  OBVIOUS
<1>3. c \in GoodQuery /\ c.op = "delete_msg"  BY <1>1, <1>2, ExecutedTypes
<1>4. PICK f \in Seq(Hash) : f = msg[c.arg].files  BY <1>3, FilesAreSeq DEF Types, Msg, GoodQuery
<1>5. [c EXCEPT !.ok = FALSE] \in GoodQuery /\ SameQuery([c EXCEPT !.ok = FALSE], c)
  BY <1>3 DEF GoodQuery, Query, SameQuery
<1>6. [c EXCEPT !.files = f] \in GoodQuery /\ SameQuery([c EXCEPT !.files = f], c)
  BY <1>3 DEF GoodQuery, Query, SameQuery
<1>7. Result(w, k, [c EXCEPT !.files = f]) \/ Result(w, k, [c EXCEPT !.ok = FALSE])
  BY <1>1, <1>2, <1>4
<1>8. QED  BY <1>1, <1>2, <1>5, <1>6, <1>7, PlainDisk DEF db_async_delete_msg, fault

LEMMA DeleteGroupDisk ==
  ASSUME Types, Types', FilesInv, DiskInv, OneWorker, NEW w \in Workers,
         SelectAttachs(w) \/ DeleteMsgs(w)
  PROVE  DiskInv'
<1>1. CASE SelectAttachs(w)
  <2>1. PICK k \in DOMAIN pipe[w] :
          /\ Executes(w, k, "select_attachs")
          /\ \E ms \in SetToSeqs(LiveMsgs) :
               Result(w, k, [Executed(w, k) EXCEPT !.files = Attachments(ms)])
    BY <1>1 DEF SelectAttachs
  <2>2. PICK ms \in SetToSeqs(LiveMsgs) :
          Result(w, k, [Executed(w, k) EXCEPT !.files = Attachments(ms)])
    BY <2>1
  <2>3. PICK c : c = Executed(w, k)  OBVIOUS
  <2>4. PICK f : f = Attachments(ms)  OBVIOUS
  <2>5. f \in Seq(Hash)  BY <2>4, AttachmentsTypes
  <2>6. PICK cmd : cmd = [c EXCEPT !.files = f]  OBVIOUS
  <2>7. cmd \in GoodQuery /\ SameQuery(cmd, c)
    BY <2>1, <2>3, <2>5, <2>6, ExecutedTypes DEF GoodQuery, Query, SameQuery
  <2>8. Result(w, k, cmd)  BY <2>2, <2>3, <2>4, <2>6
  <2>9. QED  BY <1>1, <2>1, <2>3, <2>7, <2>8, PlainDisk DEF SelectAttachs, db, fault
<1>2. CASE DeleteMsgs(w)  BY <1>2, ExecutedTypes, PlainDisk DEF DeleteMsgs, fault, SameQuery
<1>3. QED  BY <1>1, <1>2

-----------------------------------------------------------------------------
(* Callbacks write and unlink.                                               *)

LEMMA RightIff ==
  ASSUME NEW p, NEW h, NEW r, NEW b, NEW c, b <=> c, Right(p, h, r, b)
  PROVE  Right(p, h, r, c)
BY DEF Right, Outcome

LEMMA CalledDisk ==
  ASSUME Types, Types', FilesInv, DiskInv, OneWorker, NEW w \in Workers, NEW op, Running(w, op),
         NEW more \in Seq(GoodQuery), Ran(w, more), more # <<>> => New(Chain(more)),
         UNCHANGED row, \A h \in Hashes \ doubt' : h \notin doubt /\ Does(w, h)
  PROVE  DiskInv'
<1>1. PICK p : p = pipe[w]  OBVIOUS
<1>2. ~ub /\ Ready(p) /\ p \in Seq(Chains) /\ Sane(p)  BY <1>1, RunningFacts
<1>3. Orderly(p) /\ \A h \in Hashes \ doubt : Right(p, h, row[h], h \in disk)
  BY <1>1, <1>2 DEF DiskInv
<1>4. PICK q : q = RestOf(p)  OBVIOUS
<1>5. q \in Seq(Chains) /\ Orderly(q)  BY <1>2, <1>3, <1>4, OrderlyRest
<1>6. pipe'[w] = IF more = <<>> THEN q ELSE Append(q, Chain(more))  BY <1>1, <1>4, RanIs
<1>7. Orderly(pipe'[w])
  <2>1. CASE more = <<>>  BY <1>5, <1>6, <2>1
  <2>2. CASE more # <<>>  BY <1>5, <1>6, <2>2, OrderlyAppend
  <2>3. QED  BY <2>1, <2>2
<1>8. ASSUME NEW h \in Hashes \ doubt' PROVE Right(pipe'[w], h, row'[h], h \in disk')
  <2>1. PICK r \in Nat : r = row[h]  BY DEF Types
  <2>2. PICK b : b = (h \in disk)  OBVIOUS
  <2>3. PICK c : c = (h \in disk')  OBVIOUS
  <2>4. PICK x : x = Effect(p[1], p[1].ran + 1, h, r)  OBVIOUS
  <2>5. h \in Hashes \ doubt /\ Does(w, h)  OBVIOUS
  <2>6. Right(p, h, r, b)  BY <1>3, <2>1, <2>2, <2>5
  <2>7. PICK a : a = Applied(x, b, "write", "unlink")  OBVIOUS
  <2>8. Right(q, h, r, a)  BY <1>2, <1>4, <2>4, <2>6, <2>7, RestRight
  <2>9. a <=> c  BY <1>1, <2>1, <2>2, <2>3, <2>4, <2>5, <2>7 DEF Does
  <2>10. Right(q, h, r, c)  BY <2>8, <2>9, RightIff
  <2>11. Right(pipe'[w], h, r, c)
    <3>1. CASE more = <<>>  BY <1>6, <2>10, <3>1
    <3>2. CASE more # <<>>  BY <1>5, <1>6, <2>10, <3>2, AppendRight DEF New
    <3>3. QED  BY <3>1, <3>2
  <2>12. QED  BY <2>1, <2>3, <2>11
<1>9. QED  BY <1>7, <1>8, DiskConcludes

(* A callback that neither writes nor unlinks.                               *)
LEMMA PlainCalled ==
  ASSUME Types, Types', FilesInv, DiskInv, OneWorker, NEW w \in Workers, NEW op, Running(w, op),
         NEW more \in Seq(GoodQuery), Ran(w, more), more # <<>> => New(Chain(more)),
         UNCHANGED <<row, disk, doubt>>, op \notin {"insert_file", "release"}
  PROVE  DiskInv'
<1>1. \A h \in Hashes : Effect(pipe[w][1], pipe[w][1].ran + 1, h, row[h]) = "none"
  BY DEF Effect, Running
<1>2. QED  BY <1>1, CalledDisk DEF Does, Applied

(* The effect of the callback of a query that counts.                        *)
LEMMA FileEffect ==
  ASSUME Types, FilesInv, DiskInv, NEW w \in Workers, NEW op, Running(w, op),
         op \in {"insert_file", "release"}, NEW h \in Hashes
  PROVE  /\ That(w).n \in Nat
         /\ Effect(pipe[w][1], pipe[w][1].ran + 1, h, row[h]) =
              IF This(w).hash # h THEN "none"
              ELSE IF op = "insert_file" /\ That(w).n = 1 THEN "write"
              ELSE IF op = "release" /\ This(w).ok /\ That(w).n = 0 THEN "unlink"
              ELSE "none"
<1>1. PICK ch, j : Calls(w, op, ch, j)  BY RunningFacts
<1>2. /\ ch = pipe[w][1] /\ j = ch.ran + 1 /\ ch \in Chains /\ j \in Nat /\ j \in 1 .. Len(ch.cmds)
      /\ ch.cmds[j].op = op /\ ch.done = Len(ch.cmds) /\ This(w) = ch.cmds[j]
  BY <1>1 DEF Calls
<1>3. ~ub /\ Ready(pipe[w]) /\ pipe[w] \in Seq(Chains) /\ Sane(pipe[w])  BY RunningFacts
<1>4. Tidy(ch)  BY <1>2, <1>3, ReadyFacts DEF DiskInv, Orderly
<1>5. PICK n \in Nat : n = Len(ch.cmds)  BY <1>2, InChain
<1>6. j + 1 \in 1 .. n  BY <1>2, <1>4, <1>5 DEF Tidy, IsFile
<1>7. PICK d \in Nat : d = ch.ran  BY <1>2, InChain
<1>8. ~(j <= ch.ran) /\ ~(n < j) /\ j + 1 <= n /\ ch.ran + 2 = j + 1
  <2>1. j = d + 1 /\ j + 1 <= n  BY <1>2, <1>6, <1>7
  <2>2. ~(j <= d) /\ ~(n < j) /\ d + 2 = j + 1  BY <2>1
  <2>3. QED  BY <1>7, <2>1, <2>2
<1>9. That(w) = ch.cmds[j + 1]  BY <1>2, <1>8 DEF That
<1>10. That(w).n \in Nat  BY <1>2, <1>5, <1>6, <1>9, InChain DEF GoodQuery, Query
<1>11. Effect(ch, j, h, row[h]) =
              IF This(w).hash # h THEN "none"
              ELSE IF op = "insert_file" /\ That(w).n = 1 THEN "write"
              ELSE IF op = "release" /\ This(w).ok /\ That(w).n = 0 THEN "unlink"
              ELSE "none"
  BY <1>2, <1>5, <1>8, <1>9 DEF Effect, Reads
<1>12. QED  BY <1>2, <1>10, <1>11

LEMMA SaveDisk ==
  ASSUME Types, Types', FilesInv, DiskInv, OneWorker, NEW w \in Workers, do_save_file_img(w)
  PROVE  DiskInv'
<1>1. PICK op : op = "insert_file"  OBVIOUS
<1>2. /\ Running(w, op) /\ disk' = (IF That(w).n = 1 THEN disk \cup {This(w).hash} ELSE disk)
      /\ Ran(w, <<>>) /\ UNCHANGED <<row, doubt>>
  BY <1>1 DEF do_save_file_img, db, fault
<1>3. ASSUME NEW h \in Hashes PROVE Does(w, h)  BY <1>1, <1>2, FileEffect DEF Applied, Does
<1>4. QED  BY <1>2, <1>3, EmptyTypes, CalledDisk

LEMMA UnlinkDisk ==
  ASSUME Types, Types', FilesInv, DiskInv, OneWorker, NEW w \in Workers, do_delete_file(w)
  PROVE  DiskInv'
<1>1. PICK op : op = "release"  OBVIOUS
<1>2. /\ Running(w, op)
      /\ disk' = (IF This(w).ok /\ That(w).n <= 0 THEN disk \ {This(w).hash} ELSE disk)
      /\ Ran(w, <<>>) /\ UNCHANGED <<row, doubt>>
  BY <1>1 DEF do_delete_file, db, fault
<1>3. ASSUME NEW h \in Hashes PROVE Does(w, h)  BY <1>1, <1>2, FileEffect DEF Applied, Does
<1>4. QED  BY <1>2, <1>3, EmptyTypes, CalledDisk

LEMMA DiskFailsDisk ==
  ASSUME Types, Types', FilesInv, DiskInv, OneWorker, NEW w \in Workers, DiskFails(w)
  PROVE  DiskInv'
<1>1. PICK op \in {"insert_file", "release"} : Running(w, op)  BY DEF DiskFails
<1>2. doubt' = doubt \cup {This(w).hash} /\ Ran(w, <<>>) /\ UNCHANGED <<row, disk>>
  BY DEF DiskFails, db
<1>3. ASSUME NEW h \in Hashes \ doubt' PROVE h \notin doubt /\ Does(w, h)
  BY <1>1, <1>2, FileEffect DEF Does, Applied
<1>4. QED  BY <1>1, <1>2, <1>3, EmptyTypes, CalledDisk

LEMMA OtherCallbacksDisk ==
  ASSUME Types, Types', FilesInv, DiskInv, OneWorker, NEW w \in Workers,
         \/ NoCallback(w) \/ do_insert_msg_after(w) \/ OwnerTold(w)
         \/ delete_msg_result(w) \/ delete_group_result(w)
  PROVE  DiskInv'
<1>1. CASE NoCallback(w)
  <2>1. PICK op \in {"refcount", "delete_msgs"} : Running(w, op)  BY <1>1 DEF NoCallback
  <2>2. Running(w, op) /\ Ran(w, <<>>) /\ UNCHANGED <<row, disk, doubt>>
    BY <1>1, <2>1 DEF NoCallback, db, fault
  <2>3. QED  BY <2>2, EmptyTypes, PlainCalled
<1>2. CASE do_insert_msg_after(w)
  <2>1. CASE UsesFreed  BY <2>1, UsesFreedDisk
  <2>2. CASE ~UsesFreed
    <3>1. PICK op : op = "insert_msg"  OBVIOUS
    <3>2. /\ Running(w, op) /\ op \notin {"insert_file", "release"} /\ Ran(w, <<>>)
          /\ UNCHANGED <<row, disk, doubt>>
      BY <1>2, <2>2, <3>1 DEF do_insert_msg_after, db, fault
    <3>3. QED  BY <3>2, EmptyTypes, PlainCalled
  <2>3. QED  BY <2>1, <2>2
<1>3. CASE OwnerTold(w)
  <2>1. PICK op : op = "update_pfp"  OBVIOUS
  <2>2. Running(w, op) /\ op \notin {"insert_file", "release"} /\ UNCHANGED <<row, disk, doubt>>
    BY <1>3, <2>1 DEF OwnerTold, db, fault
  <2>3. CASE Ran(w, <<>>)  BY <2>2, <2>3, EmptyTypes, PlainCalled
  <2>4. CASE ~Ran(w, <<>>)
    <3>1. PICK f \in Hash : f = cached[This(w).arg]  BY <2>1, <2>2, ThisTypes DEF Types, GoodQuery
    <3>2. PICK more : more = server_delete_file(f)  OBVIOUS
    <3>3. New(Chain(more))  BY <3>2, NewRelease
    <3>4. Ran(w, more)  BY <1>3, <2>4, <3>1, <3>2 DEF OwnerTold
    <3>5. QED  BY <2>2, <3>2, <3>3, <3>4, PlainCalled, DeleteTypes
  <2>5. QED  BY <2>3, <2>4
<1>4. CASE delete_msg_result(w) \/ delete_group_result(w)
  <2>1. PICK op \in {"delete_msg", "select_attachs"} : Running(w, op)
    BY <1>4 DEF delete_msg_result, delete_group_result
  <2>2. UNCHANGED <<row, disk, doubt>>
    BY <1>4 DEF delete_msg_result, delete_group_result, db, fault
  <2>3. CASE Ran(w, <<>>)  BY <2>1, <2>2, <2>3, EmptyTypes, PlainCalled
  <2>4. CASE ~Ran(w, <<>>)
    <3>1. PICK f \in Seq(Hash) : f = This(w).files  BY <2>1, ThisTypes DEF GoodQuery, Query
    <3>2. PICK more : more = server_delete_attachments_json(f)  OBVIOUS
    <3>3. more # <<>> => New(Chain(more))  BY <3>2, NewReleaseAll
    <3>4. Ran(w, more)  BY <1>4, <2>4, <3>1, <3>2 DEF delete_msg_result, delete_group_result
    <3>5. QED  BY <2>1, <2>2, <3>2, <3>3, <3>4, PlainCalled, DeleteAllTypes
  <2>5. QED  BY <2>3, <2>4
<1>5. QED  BY <1>1, <1>2, <1>3, <1>4

(* A crash: what is queued about a file is in doubt.                         *)
LEMMA CrashDisk ==
  ASSUME Types, DiskInv, OneWorker, Crash
  PROVE  DiskInv'
<1>1. PICK w \in Workers : Workers = {w}  BY DEF OneWorker
<1>2. /\ ~ub /\ pipe'[w] = <<>> /\ doubt' = doubt \cup Interrupted /\ UNCHANGED <<row, disk>>
  BY DEF Crash, db
<1>3. PICK p : p = pipe[w]  OBVIOUS
<1>4. p \in Seq(Chains) /\ \A h \in Hashes \ doubt : Right(p, h, row[h], h \in disk)
  BY <1>2, <1>3 DEF DiskInv, Types
<1>5. PICK e : e = <<>>  OBVIOUS
<1>6. Len(e) = 0 /\ 1 .. 0 = {}  BY <1>5
<1>7. ASSUME NEW h \in Hashes \ doubt' PROVE Right(e, h, row[h], h \in disk)
  <2>1. h \in Hashes \ doubt /\ h \notin InFlight(w)  BY <1>2 DEF Interrupted
  <2>2. ASSUME NEW l \in Nat, NEW j \in Nat PROVE At(p, l, j, h, row[h]) = "none"
    <3>1. CASE l \notin 1 .. Len(p)  BY <3>1 DEF At
    <3>2. CASE l \in 1 .. Len(p)
      <4>1. PICK ch : ch = p[l]  OBVIOUS
      <4>2. ch \in Chains  BY <1>4, <3>2, <4>1, ElementOfSeq
      <4>3. PICK n \in Nat : n = Len(ch.cmds)  BY <4>2, InChain
      <4>4. ch.ran \in Nat /\ ch.done \in Nat /\ ch.done <= n /\ ch.cmds \in Seq(GoodQuery)
        BY <4>2, <4>3, InChain DEF Chains
      <4>5. CASE j <= ch.ran \/ ch.done < j  BY <3>2, <4>1, <4>5 DEF At, Effect
      <4>6. CASE ~(j <= ch.ran) /\ ~(ch.done < j)
        <5>1. l \in DOMAIN pipe[w] /\ j \in DOMAIN ch.cmds
          BY <1>3, <1>4, <3>2, <4>3, <4>4, <4>6, LenProperties
        <5>2. Names(ch.cmds[j]) \subseteq InFlight(w)  BY <1>3, <4>1, <5>1 DEF InFlight, ToSet
        <5>3. QED  BY <2>1, <3>2, <4>1, <5>2 DEF At, Effect, Names
      <4>7. QED  BY <4>5, <4>6
    <3>3. QED  BY <3>1, <3>2
  <2>3. PICK r : r = row[h]  OBVIOUS
  <2>4. PICK b : b = (h \in disk)  OBVIOUS
  <2>5. \A l, j \in Nat : At(e, l, j, h, r) = At(p, l, j, h, r)  BY <1>6, <2>2, <2>3 DEF At
  <2>6. Right(e, h, r, b)  BY <1>4, <2>1, <2>3, <2>4, <2>5, SameRight
  <2>7. QED  BY <2>3, <2>4, <2>6
<1>8. QED  BY <1>2, <1>5, <1>6, <1>7, DiskConcludes DEF Orderly

LEMMA InitDisk == Init => DiskInv
<1> SUFFICES ASSUME Init, NEW w \in Workers
             PROVE  /\ Orderly(pipe[w])
                    /\ \A h \in Hashes \ doubt : Right(pipe[w], h, row[h], h \in disk)
  BY DEF DiskInv
<1>1. pipe[w] = <<>> /\ disk = {} /\ \A h \in Hashes : row[h] = 0  BY DEF Init
<1>2. PICK e : e = <<>>  OBVIOUS
<1>3. Len(e) = 0 /\ 1 .. 0 = {}  BY <1>2
<1>4. ASSUME NEW h \in Hashes PROVE Right(e, h, row[h], h \in disk)
  BY <1>1, <1>3 DEF At, Outcome, Right
<1>5. QED  BY <1>1, <1>2, <1>3, <1>4 DEF Orderly

LEMMA NextDisk ==
  OneWorker /\ Types /\ Types' /\ FilesInv /\ DiskInv /\ [Next]_vars => DiskInv'
<1> SUFFICES ASSUME OneWorker, Types, Types', FilesInv, DiskInv, [Next]_vars PROVE DiskInv'
  OBVIOUS
<1>1. CASE Crash  BY <1>1, CrashDisk
<1>2. CASE UNCHANGED vars  BY <1>2, SameDisk DEF vars
<1>3. ASSUME NEW w \in Workers, NEW t \in Tokens,
             \/ server_new_upload_token(w, t) \/ timer_ut(w, t)
             \/ \E h \in Hashes : PostPfp(w, t, h) \/ \E i \in Index : PostAttach(w, t, i, h)
      PROVE  DiskInv'
  BY <1>3, HandlersDisk, PostPfpDisk
<1>4. ASSUME NEW w \in Workers, SaveAttach(w) \/ CountAttach(w) \/ TestAttach(w)
      PROVE  DiskInv'
  BY <1>4, HandlersDisk, TestAttachDisk
<1>5. ASSUME NEW w \in Workers,
             (\E m \in Msgs : server_delete_group_msg(w, m)) \/ db_async_delete_group(w)
      PROVE  DiskInv'
  BY <1>5, AskDisk
<1>6. ASSUME NEW w \in Workers,
             \/ db_async_insert_userfile(w) \/ db_async_userfile_refcount(w)
             \/ db_async_delete_userfile(w) \/ db_async_insert_group_msg(w)
             \/ db_async_update_user(w) \/ db_async_delete_msg(w)
             \/ SelectAttachs(w) \/ DeleteMsgs(w)
      PROVE  DiskInv'
  BY <1>6, InsertFileDisk, RefcountDisk, ReleaseDisk, InsertMsgDisk, UpdatePfpDisk, DeleteMsgDisk,
     DeleteGroupDisk
<1>7. ASSUME NEW w \in Workers,
             \/ do_save_file_img(w) \/ do_delete_file(w) \/ NoCallback(w) \/ DiskFails(w)
             \/ do_insert_msg_after(w) \/ update_pfp_result(w)
             \/ delete_msg_result(w) \/ delete_group_result(w)
      PROVE  DiskInv'
  BY <1>7, SaveDisk, UnlinkDisk, DiskFailsDisk, OtherCallbacksDisk, UsesFreedDisk
  DEF update_pfp_result, OwnerGone
<1>8. QED  BY <1>1, <1>2, <1>3, <1>4, <1>5, <1>6, <1>7 DEF Next

(* When nothing is queued the file is there exactly if it has a row.         *)
LEMMA DiskFollows ==
  ASSUME OneWorker, DiskInv, Drained, NEW h \in Hashes \ doubt
  PROVE  h \in disk <=> row[h] > 0
<1>1. PICK w \in Workers : TRUE  BY DEF OneWorker
<1>2. PICK e : e = <<>>  OBVIOUS
<1>3. Len(e) = 0 /\ 1 .. 0 = {} /\ Right(e, h, row[h], h \in disk)  BY <1>2 DEF Drained, DiskInv
<1>4. \A l, j \in Nat : At(e, l, j, h, row[h]) = "none"  BY <1>3 DEF At
<1>5. CASE row[h] > 0  BY <1>3, <1>4, <1>5 DEF Right, Outcome
<1>6. CASE ~(row[h] > 0)  BY <1>3, <1>4, <1>6 DEF Right, Outcome
<1>7. QED  BY <1>5, <1>6

-----------------------------------------------------------------------------
(* The count is what is referred to, owed and kept                           *)

LEMMA BalancedAppend ==
  ASSUME NEW p \in Seq(Chains), NEW ch \in Chains, NEW h, NEW q, q = Append(p, ch),
         NEW a \in Nat, NEW r \in Nat, NEW g \in Nat, NEW c \in Nat,
         NEW a2 \in Nat, NEW g2 \in Nat, NEW c2 \in Nat, Balanced(p, h, a, r, g, c),
         a2 + Cardinality(Owed(ch, h)) + Cardinality(Due(ch, h)) + g2 + c
           = a + g + Cardinality(Coming(ch, h)) + c2
  PROVE  Balanced(q, h, a2, r, g2, c2)
<1>1. PICK n \in Nat : n = Len(p)  BY LenProperties
<1>2. Len(q) = n + 1  BY <1>1, AppendProperties
<1>3. AppendedSizes(p, q, ch, h)  BY AppendSizes
<1>4. n + 1 \in Nat /\ n < n + 1 /\ n <= n + 1  OBVIOUS
<1>5. DueIn(p, h, n + 1) = DueIn(p, h, n) /\ ComingIn(p, h, n + 1) = ComingIn(p, h, n)
  BY <1>1, <1>4, BeyondEnd
<1>6. PICK o1 \in Nat : o1 = Size(OwedIn(p, h))  BY QueueFamilies
<1>7. PICK d1 \in Nat : d1 = Size(DueIn(p, h, n))  BY QueueFamilies
<1>8. PICK e1 \in Nat : e1 = Size(ComingIn(p, h, n))  BY QueueFamilies
<1>9. PICK o \in Nat : o = Cardinality(Owed(ch, h))  BY ChainFinite
<1>10. PICK d \in Nat : d = Cardinality(Due(ch, h))  BY ChainFinite
<1>11. PICK e \in Nat : e = Cardinality(Coming(ch, h))  BY ChainFinite
<1>12. Size(OwedIn(q, h)) = o1 + o  BY <1>3, <1>6, <1>9 DEF AppendedSizes
<1>13. Size(DueIn(q, h, n + 1)) = d1 + d /\ Size(ComingIn(q, h, n + 1)) = e1 + e
  BY <1>1, <1>3, <1>4, <1>5, <1>7, <1>8, <1>10, <1>11 DEF AppendedSizes
<1>14. a + o1 + d1 + g = r + e1 + c  BY <1>1, <1>6, <1>7, <1>8 DEF Balanced
<1>15. a2 + o + d + g2 + c = a + g + e + c2  BY <1>9, <1>10, <1>11
<1>16. a2 + (o1 + o) + (d1 + d) + g2 = r + (e1 + e) + c2  BY <1>14, <1>15
<1>17. QED  BY <1>2, <1>12, <1>13, <1>16 DEF Balanced

LEMMA BalancedReplace ==
  ASSUME NEW p \in Seq(Chains), NEW k \in 1 .. Len(p), NEW ch \in Chains, NEW h,
         NEW q, q = [p EXCEPT ![k] = ch],
         NEW a \in Nat, NEW r \in Nat, NEW g \in Nat, NEW c \in Nat,
         NEW a2 \in Nat, NEW r2 \in Nat, NEW g2 \in Nat, Balanced(p, h, a, r, g, c),
         a2 + Cardinality(Owed(ch, h)) + Cardinality(Due(ch, h)) + g2 + r + Cardinality(Coming(p[k], h))
           = a + Cardinality(Owed(p[k], h)) + Cardinality(Due(p[k], h)) + g + r2
               + Cardinality(Coming(ch, h))
  PROVE  Balanced(q, h, a2, r2, g2, c)
<1>1. PICK n \in Nat : n = Len(p)  BY LenProperties
<1>2. Len(q) = n /\ k <= n /\ p[k] \in Chains  BY <1>1, ExceptSeq, ElementOfSeq
<1>3. ReplacedSizes(p, q, k, ch, h)  BY ReplaceSizes
<1>4. PICK o1 \in Nat : o1 = Size(OwedIn(p, h))  BY QueueFamilies
<1>5. PICK d1 \in Nat : d1 = Size(DueIn(p, h, n))  BY QueueFamilies
<1>6. PICK e1 \in Nat : e1 = Size(ComingIn(p, h, n))  BY QueueFamilies
<1>7. q \in Seq(Chains)  BY ExceptSeq
<1>8. PICK o2 \in Nat : o2 = Size(OwedIn(q, h))  BY <1>7, QueueFamilies
<1>9. PICK d2 \in Nat : d2 = Size(DueIn(q, h, n))  BY <1>7, QueueFamilies
<1>10. PICK e2 \in Nat : e2 = Size(ComingIn(q, h, n))  BY <1>7, QueueFamilies
<1>11. PICK o \in Nat : o = Cardinality(Owed(ch, h))  BY ChainFinite
<1>12. PICK d \in Nat : d = Cardinality(Due(ch, h))  BY ChainFinite
<1>13. PICK e \in Nat : e = Cardinality(Coming(ch, h))  BY ChainFinite
<1>14. PICK o3 \in Nat : o3 = Cardinality(Owed(p[k], h))  BY <1>2, ChainFinite
<1>15. PICK d3 \in Nat : d3 = Cardinality(Due(p[k], h))  BY <1>2, ChainFinite
<1>16. PICK e3 \in Nat : e3 = Cardinality(Coming(p[k], h))  BY <1>2, ChainFinite
<1>17. o2 + o3 = o1 + o  BY <1>3, <1>4, <1>8, <1>11, <1>14 DEF ReplacedSizes
<1>18. d2 + d3 = d1 + d /\ e2 + e3 = e1 + e
  BY <1>2, <1>3, <1>5, <1>6, <1>9, <1>10, <1>12, <1>13, <1>15, <1>16 DEF ReplacedSizes
<1>19. a + o1 + d1 + g = r + e1 + c  BY <1>1, <1>4, <1>5, <1>6 DEF Balanced
<1>20. a2 + o + d + g2 + r + e3 = a + o3 + d3 + g + r2 + e
  BY <1>11, <1>12, <1>13, <1>14, <1>15, <1>16
<1>21. a2 + o2 + d2 + g2 = r2 + e2 + c  BY <1>17, <1>18, <1>19, <1>20
<1>22. QED  BY <1>2, <1>8, <1>9, <1>10, <1>21 DEF Balanced

LEMMA BalancedTail ==
  ASSUME NEW p \in Seq(Chains), p # <<>>, NEW h, NEW q, q = Tail(p),
         NEW a \in Nat, NEW r \in Nat, NEW g \in Nat, NEW c \in Nat, Balanced(p, h, a, r, g, c),
         Due(p[1], h) = {}, Coming(p[1], h) = {}, NEW a2 \in Nat, a2 = a + Cardinality(Owed(p[1], h))
  PROVE  Balanced(q, h, a2, r, g, c)
<1>1. PICK n \in Nat : n = Len(q) /\ Len(p) = n + 1  BY TailFacts
<1>2. TailedSizes(p, q, h)  BY TailSizes
<1>3. q \in Seq(Chains) /\ p[1] \in Chains  BY <1>1, TailFacts, ElementOfSeq
<1>4. n + 1 \in Nat  OBVIOUS
<1>5. PICK o1 \in Nat : o1 = Size(OwedIn(q, h))  BY <1>3, QueueFamilies
<1>6. PICK d1 \in Nat : d1 = Size(DueIn(q, h, n))  BY <1>3, QueueFamilies
<1>7. PICK e1 \in Nat : e1 = Size(ComingIn(q, h, n))  BY <1>3, QueueFamilies
<1>8. PICK o \in Nat : o = Cardinality(Owed(p[1], h))  BY <1>3, ChainFinite
<1>9. Size(DueIn(p, h, n + 1)) = d1 + 0 /\ Size(ComingIn(p, h, n + 1)) = e1 + 0
  BY <1>2, <1>6, <1>7, EmptyCardinality DEF TailedSizes
<1>10. a + (o1 + o) + (d1 + 0) + g = r + (e1 + 0) + c
  BY <1>1, <1>2, <1>5, <1>8, <1>9 DEF Balanced, TailedSizes
<1>11. QED  BY <1>1, <1>5, <1>6, <1>7, <1>8, <1>10 DEF Balanced

(* Only the set of token t of the kept files changes.                        *)
LEMMA KeptFamily ==
  ASSUME NEW tk \in [Tokens -> GoodToken], NEW p, NEW ms, NEW h
  PROVE  IsFamily(KeptFiles(p, tk, ms, h)) /\ Size(KeptFiles(p, tk, ms, h)) \in Nat
<1>1. ASSUME NEW t \in Tokens PROVE IsFiniteSet(KeptFiles(p, tk, ms, h)[t])
  BY FilesFinite, FS_EmptySet DEF GoodToken, Token, KeptFiles
<1>2. IsFamily(KeptFiles(p, tk, ms, h))  BY <1>1, TokensAssumption DEF IsFamily, KeptFiles
<1>3. QED  BY <1>2, PairsFinite

LEMMA KeptChanged ==
  ASSUME NEW tk \in [Tokens -> GoodToken], NEW tk2 \in [Tokens -> GoodToken], NEW p, NEW q,
         NEW ms, NEW ms2, NEW h, NEW t \in Tokens, OthersKept(p, tk, ms, q, tk2, ms2, t)
  PROVE  Exchanged(KeptFiles(p, tk, ms, h), KeptFiles(q, tk2, ms2, h), t)
<1>1. PICK G : G = KeptFiles(p, tk, ms, h)  OBVIOUS
<1>2. PICK H : H = KeptFiles(q, tk2, ms2, h)  OBVIOUS
<1>3. DOMAIN G = Tokens /\ DOMAIN H = Tokens  BY <1>1, <1>2 DEF KeptFiles
<1>4. \A k \in Tokens : k # t => G[k] = H[k]  BY <1>1, <1>2 DEF KeptFiles, OthersKept
<1>5. Exchanged(G, H, t)  BY <1>1, <1>2, <1>3, <1>4, SizeChange, KeptFamily
<1>6. QED  BY <1>1, <1>2, <1>5

LEMMA KeptSame ==
  ASSUME NEW p, NEW tk, NEW ms, NEW q, NEW tk2, NEW ms2, NEW h, AllKept(p, tk, ms, q, tk2, ms2)
  PROVE  KeptFiles(q, tk2, ms2, h) = KeptFiles(p, tk, ms, h)
BY DEF AllKept, KeptFiles

LEMMA UnderwayIs ==
  ASSUME NEW p, NEW ms, NEW t
  PROVE  Underway(p, ms, t) <=> Waiting(p, t) \/ \E m \in Msgs : ms[m].token = t
BY DEF Underway, Waiting

-----------------------------------------------------------------------------
(* Queued messages                                                           *)

LEMMA WaitingAppend ==
  ASSUME NEW p \in Seq(Chains), NEW ch \in Chains, NEW q, q = Append(p, ch), NEW t
  PROVE  Waiting(q, t) <=> Waiting(p, t) \/ Awaits(ch, t)
<1>1. PICK n \in Nat : n = Len(p)  BY LenProperties
<1>2. Len(q) = n + 1 /\ q[n + 1] = ch /\ \A k \in 1 .. n : q[k] = p[k]  BY <1>1, AppendProperties
<1>3. \A k \in 1 .. n + 1 : k \in 1 .. n \/ k = n + 1  OBVIOUS
<1>4. n + 1 \in 1 .. n + 1 /\ \A k \in 1 .. n : k \in 1 .. n + 1  OBVIOUS
<1>5. ASSUME Waiting(q, t) PROVE Waiting(p, t) \/ Awaits(ch, t)
  BY <1>1, <1>2, <1>3, <1>5 DEF Waiting
<1>6. ASSUME Waiting(p, t) PROVE Waiting(q, t)  BY <1>1, <1>2, <1>4, <1>6 DEF Waiting
<1>7. ASSUME Awaits(ch, t) PROVE Waiting(q, t)  BY <1>2, <1>4, <1>7 DEF Waiting
<1>8. QED  BY <1>5, <1>6, <1>7

LEMMA WaitingReplace ==
  ASSUME NEW p \in Seq(Chains), NEW k \in 1 .. Len(p), NEW ch \in Chains,
         NEW q, q = [p EXCEPT ![k] = ch],
         NEW t
  PROVE  /\ Awaits(ch, t) <=> Awaits(p[k], t) => (Waiting(q, t) <=> Waiting(p, t))
         /\ ~Awaits(ch, t) /\ (\A j \in 1 .. Len(p) : Awaits(p[j], t) => j = k) => ~Waiting(q, t)
<1>1. PICK n \in Nat : n = Len(p)  BY LenProperties
<1>2. Len(q) = n /\ q[k] = ch /\ \A j \in 1 .. n : j # k => q[j] = p[j]  BY <1>1, ExceptSeq
<1>3. ASSUME Awaits(ch, t) <=> Awaits(p[k], t) PROVE Waiting(q, t) <=> Waiting(p, t)
  BY <1>1, <1>2, <1>3 DEF Waiting
<1>4. ASSUME ~Awaits(ch, t), \A j \in 1 .. Len(p) : Awaits(p[j], t) => j = k PROVE ~Waiting(q, t)
  BY <1>1, <1>2, <1>4 DEF Waiting
<1>5. QED  BY <1>3, <1>4

LEMMA WaitingTail ==
  ASSUME NEW p \in Seq(Chains), p # <<>>, NEW t, ~Awaits(p[1], t), NEW q, q = Tail(p)
  PROVE  Waiting(q, t) <=> Waiting(p, t)
<1>1. PICK n \in Nat : n = Len(q) /\ Len(p) = n + 1 /\ \A k \in 1 .. n : q[k] = p[k + 1]
  BY TailFacts
<1>2. ASSUME Waiting(q, t) PROVE Waiting(p, t)  BY <1>1, <1>2 DEF Waiting
<1>3. ASSUME Waiting(p, t) PROVE Waiting(q, t)
  <2>1. PICK k \in 1 .. n + 1 : Awaits(p[k], t)  BY <1>1, <1>3 DEF Waiting
  <2>2. k # 1  BY <2>1
  <2>3. PICK j \in 1 .. n : k = j + 1  BY <2>2
  <2>4. QED  BY <1>1, <2>1, <2>3 DEF Waiting
<1>4. QED  BY <1>2, <1>3

(* A chain and what becomes of it wait for the same.                         *)
LEMMA StepAwaits ==
  ASSUME NEW ch, NEW op, NEW cmd, NEW q, Step(ch, op, cmd, q), op # "insert_msg", NEW t
  PROVE  /\ Awaits(q, t) <=> Awaits(ch, t)
         /\ Awaits(q, t) => q.cmds[3] = ch.cmds[3]
<1>1. PICK n \in Nat, d \in Nat : StepsTo(n, d, ch, op, cmd, q)  BY StepFacts
<1>2. /\ n = Len(ch.cmds) /\ d = ch.done /\ d < n /\ ch.cmds[d + 1].op = op
      /\ Len(q.cmds) = n /\ q.done = d + 1
      /\ \A j \in 1 .. n : /\ j # d + 1 => q.cmds[j] = ch.cmds[j]
                           /\ q.cmds[j].op = ch.cmds[j].op /\ q.cmds[j].arg = ch.cmds[j].arg
  BY <1>1 DEF StepsTo
<1>3. Ends(q, "insert_msg") <=> Ends(ch, "insert_msg")  BY <1>2 DEF Ends
<1>4. ASSUME Ends(ch, "insert_msg")
      PROVE  q.cmds[3] = ch.cmds[3] /\ ch.done < 3 /\ q.done < 3
  BY <1>2, <1>4 DEF Ends
<1>5. QED  BY <1>3, <1>4 DEF Awaits

LEMMA InsertAwaits ==
  ASSUME NEW ch, NEW cmd, NEW q, Step(ch, "insert_msg", cmd, q)
  PROVE  /\ \A t : ~Awaits(q, t)
         /\ \A t : Awaits(ch, t) <=> t = ch.cmds[ch.done + 1].arg
         /\ ch.done + 1 = 3
<1>1. PICK n \in Nat, d \in Nat : StepsTo(n, d, ch, "insert_msg", cmd, q)  BY StepFacts
<1>2. /\ n = Len(ch.cmds) /\ d = ch.done /\ d < n /\ ch.cmds[d + 1].op = "insert_msg"
      /\ Len(q.cmds) = n /\ q.done = d + 1 /\ Place(ch, d + 1)
  BY <1>1 DEF StepsTo
<1>3. d + 1 = 3 /\ n = 3  BY <1>2 DEF Place
<1>4. Ends(ch, "insert_msg")  BY <1>2, <1>3 DEF Ends
<1>5. QED  BY <1>2, <1>3, <1>4 DEF Awaits

LEMMA DoneAwaits ==
  ASSUME NEW ch \in Chains, ch.done = Len(ch.cmds), NEW t
  PROVE  ~Awaits(ch, t)
BY DEF Awaits, Ends

LEMMA CalledBackAwaits ==
  ASSUME NEW ch \in Chains, Shape(ch), NEW q, q = CalledBack(ch), NEW t
  PROVE  /\ Awaits(q, t) <=> Awaits(ch, t)
         /\ q.cmds = ch.cmds
BY CalledBackChain DEF Awaits, Ends

LEMMA BackedStep ==
  ASSUME NEW p, NEW q, NEW d \in Nat, NEW tk, NEW tk2, NEW ms, NEW ms2, NEW s, NEW s2,
         Backed(p, tk, ms, s), Moved(p, q, d), Spared(q, tk, ms, s, tk2, ms2, s2), MsgsSent(ms2, s2),
         Len(q) \in Nat
  PROVE  Backed(q, tk2, ms2, s2)
<1>1. ASSUME NEW k \in 1 .. Len(q), NEW t \in Tokens, Awaits(q[k], t)
      PROVE  Sure(q[k], tk2, ms2, s2, t)
  BY <1>1 DEF Moved, Backed, Waiting, Sure, Spared
<1>2. ASSUME NEW j \in 1 .. Len(q), NEW k \in 1 .. Len(q), NEW t \in Tokens,
             Awaits(q[j], t), Awaits(q[k], t)
      PROVE  j = k
  BY <1>2 DEF Moved, Backed
<1>3. QED  BY <1>1, <1>2 DEF Backed

LEMMA BackedAppend ==
  ASSUME NEW p \in Seq(Chains), NEW ch \in Chains, NEW q, q = Append(p, ch), NEW tk, NEW ms, NEW s,
         Backed(p, tk, ms, s), Joins(ch, p, tk, ms, s)
  PROVE  Backed(q, tk, ms, s)
<1>1. PICK n \in Nat : n = Len(p)  BY LenProperties
<1>2. Len(q) = n + 1 /\ q[n + 1] = ch /\ \A k \in 1 .. n : q[k] = p[k]  BY <1>1, AppendProperties
<1>3. \A k \in 1 .. n + 1 : k \in 1 .. n \/ k = n + 1  OBVIOUS
<1>4. ASSUME NEW k \in 1 .. n + 1, NEW t \in Tokens, Awaits(q[k], t)
      PROVE  Sure(q[k], tk, ms, s, t)
  BY <1>1, <1>2, <1>3, <1>4 DEF Joins, Backed
<1>5. ASSUME NEW j \in 1 .. n + 1, NEW k \in 1 .. n + 1, NEW t \in Tokens,
             Awaits(q[j], t), Awaits(q[k], t)
      PROVE  j = k
  <2>1. Awaits(ch, t) => \A l \in 1 .. n : ~Awaits(q[l], t)  BY <1>1, <1>2 DEF Waiting, Joins
  <2>2. CASE j = n + 1 \/ k = n + 1  BY <1>2, <1>3, <1>5, <2>1, <2>2
  <2>3. CASE j \in 1 .. n /\ k \in 1 .. n  BY <1>1, <1>2, <1>5, <2>3 DEF Backed
  <2>4. QED  BY <1>3, <2>2, <2>3
<1>6. QED  BY <1>2, <1>4, <1>5 DEF Backed

LEMMA MovedReplace ==
  ASSUME NEW p \in Seq(Chains), NEW k \in 1 .. Len(p), NEW ch \in Chains,
         NEW q, q = [p EXCEPT ![k] = ch],
         Follows(ch, p[k])
  PROVE  Moved(p, q, 0)
<1>1. PICK n \in Nat : n = Len(p)  BY LenProperties
<1>2. Len(q) = n /\ q[k] = ch /\ \A j \in 1 .. n : j # k => q[j] = p[j]  BY <1>1, ExceptSeq
<1>3. ASSUME NEW j \in 1 .. n, NEW t \in Tokens, Awaits(q[j], t)
      PROVE  Awaits(p[j], t) /\ q[j].cmds[3].files = p[j].cmds[3].files
  BY <1>2, <1>3 DEF Follows
<1>4. QED  BY <1>1, <1>2, <1>3 DEF Moved

LEMMA MovedSame ==
  ASSUME NEW p \in Seq(Chains)
  PROVE  Moved(p, p, 0)
<1>1. PICK n \in Nat : n = Len(p)  BY LenProperties
<1>2. QED  BY <1>1 DEF Moved

LEMMA MovedTail ==
  ASSUME NEW p \in Seq(Chains), p # <<>>, NEW q, q = Tail(p)
  PROVE  Moved(p, q, 1)
<1>1. PICK n \in Nat : n = Len(q) /\ Len(p) = n + 1 /\ \A k \in 1 .. n : q[k] = p[k + 1]
  BY TailFacts
<1>2. QED  BY <1>1 DEF Moved

-----------------------------------------------------------------------------
(* An attachment that is in its message was posted, and is not the one the   *)
(* worker is about to save, which was posted too.                            *)

LEMMA EqualConcludes ==
  ASSUME OneWorker, NEW w \in Workers, Backed(pipe'[w], token', msg', sent'),
         Filled(token', posted', task'[w]),
         InBalance(pipe'[w], token', row', msg', cached', task'[w], doubt')
  PROVE  EqualInv'
BY DEF EqualInv, OneWorker

LEMMA EqualFacts ==
  ASSUME EqualInv, ~ub, NEW w \in Workers
  PROVE  /\ Backed(pipe[w], token, msg, sent) /\ Filled(token, posted, task[w])
         /\ InBalance(pipe[w], token, row, msg, cached, task[w], doubt)
BY DEF EqualInv

LEMMA TokensBacked ==
  ASSUME NEW p \in Seq(Chains), NEW q \in Seq(Chains), NEW d \in Nat, NEW tk, NEW ms, NEW ms2, NEW s,
         Backed(p, tk, ms, s), Moved(p, q, d), SameTokens(ms, ms2)
  PROVE  Backed(q, tk, ms2, s)
<1>1. Spared(q, tk, ms, s, tk, ms2, s)  BY DEF Spared, SameTokens
<1>2. Len(q) \in Nat  BY LenProperties
<1>3. QED  BY <1>1, <1>2, BackedStep DEF Backed, MsgsSent, SameTokens

LEMMA ExecutingBalanced ==
  ASSUME NEW p \in Seq(Chains), NEW k \in 1 .. Len(p), NEW q \in Chains, NEW h,
         NEW s, s = [p EXCEPT ![k] = q],
         NEW a \in Nat, NEW a2 \in Nat, NEW r \in Nat, NEW r2 \in Nat, NEW g \in Nat, NEW c \in Nat,
         Balanced(p, h, a, r, g, c), Even(p[k], q, h, a, a2, r, r2)
  PROVE  Balanced(s, h, a2, r2, g, c)
<1>1. p[k] \in Chains  BY ElementOfSeq
<1>2. PICK o \in Nat : o = Cardinality(Owed(q, h))  BY ChainFinite
<1>3. PICK d \in Nat : d = Cardinality(Due(q, h))  BY ChainFinite
<1>4. Cardinality(Coming(q, h)) = 0  BY EmptyCardinality DEF Even
<1>5. PICK o3 \in Nat : o3 = Cardinality(Owed(p[k], h))  BY <1>1, ChainFinite
<1>6. PICK d3 \in Nat : d3 = Cardinality(Due(p[k], h))  BY <1>1, ChainFinite
<1>7. PICK e3 \in Nat : e3 = Cardinality(Coming(p[k], h))  BY <1>1, ChainFinite
<1>8. a2 + o + d + r + e3 = a + o3 + d3 + r2  BY <1>2, <1>3, <1>5, <1>6, <1>7 DEF Even
<1>9. a2 + o + d + g + r + e3 = a + o3 + d3 + g + r2 + 0  BY <1>8
<1>10. QED
  BY <1>2, <1>3, <1>4, <1>5, <1>6, <1>7, <1>9, BalancedReplace

LEMMA StepFollows ==
  ASSUME NEW ch, NEW op, NEW cmd, NEW q, Step(ch, op, cmd, q)
  PROVE  Follows(q, ch)
<1>1. CASE op = "insert_msg"  BY <1>1, InsertAwaits DEF Follows
<1>2. CASE op # "insert_msg"  BY <1>2, StepAwaits DEF Follows
<1>3. QED  BY <1>1, <1>2

LEMMA DatabaseEqual ==
  ASSUME Types, Types', FilesInv, EqualInv, OneWorker, NEW w \in Workers,
         NEW k \in DOMAIN pipe[w], NEW op,
         Executes(w, k, op), NEW cmd \in GoodQuery, SameQuery(cmd, Executed(w, k)), Result(w, k, cmd),
         UNCHANGED <<token, cached, sent, task, posted, doubt>>, op # "insert_msg",
         SameTokens(msg, msg'),
         AllEven(pipe[w][k], Answered(pipe[w][k], cmd), msg, msg', cached, row, row', doubt)
  PROVE  EqualInv'
<1>1. PICK p : p = pipe[w]  OBVIOUS
<1>2. PICK q : q = Answered(p[k], cmd)  OBVIOUS
<1>3. PICK s : s = [p EXCEPT ![k] = q]  OBVIOUS
<1>4. /\ Executing(p, k, op, cmd, q) /\ Step(p[k], op, cmd, q) /\ pipe'[w] = s
      /\ p[k] \in Chains /\ q \in Chains /\ ~ub
  BY <1>1, <1>2, <1>3, ExecutesStep
<1>5. p \in Seq(Chains) /\ s \in Seq(Chains) /\ k \in 1 .. Len(p)
  BY <1>1, <1>4, LenProperties DEF Types
<1>6. /\ Backed(p, token, msg, sent) /\ Filled(token, posted, task[w])
      /\ InBalance(p, token, row, msg, cached, task[w], doubt)
  BY <1>1, <1>4, EqualFacts
<1>7. Backed(s, token, msg', sent)
  BY <1>3, <1>4, <1>5, <1>6, TokensBacked, StepFollows, MovedReplace
<1>8. AllKept(p, token, msg, s, token, msg')
  <2>1. ASSUME NEW v \in Tokens PROVE Underway(s, msg', v) <=> Underway(p, msg, v)
    <3>1. Awaits(q, v) <=> Awaits(p[k], v)  BY <1>4, StepAwaits
    <3>2. Waiting(s, v) <=> Waiting(p, v)  BY <1>3, <1>4, <1>5, <3>1, WaitingReplace
    <3>3. (\E m \in Msgs : msg'[m].token = v) <=> (\E m \in Msgs : msg[m].token = v)
      BY DEF SameTokens
    <3>4. QED  BY <3>2, <3>3, UnderwayIs
  <2>2. QED  BY <2>1 DEF AllKept
<1>9. ASSUME NEW h \in Hashes \ doubt
       PROVE  Balanced(s, h, Refs(msg', cached, h), row'[h], Size(KeptFiles(s, token, msg', h)),
                       Taken(task[w], h))
  <2>1. PICK g \in Nat : g = Size(KeptFiles(p, token, msg, h))  BY KeptFamily DEF Types
  <2>2. PICK a \in Nat : a = Refs(msg, cached, h)  BY RefsNat DEF Types
  <2>3. PICK a2 \in Nat : a2 = Refs(msg', cached, h)  BY RefsNat DEF Types
  <2>4. PICK r \in Nat : r = row[h]  BY DEF Types
  <2>5. PICK r2 \in Nat : r2 = row'[h]  BY DEF Types
  <2>6. PICK c \in Nat : c = Taken(task[w], h)  BY TakenNat
  <2>7. Even(p[k], q, h, a, a2, r, r2)
    BY <1>1, <1>2, <2>2, <2>3, <2>4, <2>5 DEF AllEven
  <2>8. Balanced(p, h, a, r, g, c)  BY <1>6, <2>1, <2>2, <2>4, <2>6 DEF InBalance
  <2>9. Balanced(s, h, a2, r2, g, c)  BY <1>3, <1>4, <1>5, <2>7, <2>8, ExecutingBalanced
  <2>10. QED  BY <1>8, <2>1, <2>3, <2>5, <2>6, <2>9, KeptSame
<1>10. /\ pipe'[w] = s /\ token' = token /\ sent' = sent /\ posted' = posted /\ task'[w] = task[w]
       /\ cached' = cached /\ doubt' = doubt
  BY <1>4
<1>11. QED  BY <1>6, <1>7, <1>9, <1>10, EqualConcludes DEF InBalance

LEMMA InsertFileEqual ==
  ASSUME Types, Types', FilesInv, EqualInv, OneWorker, NEW w \in Workers, db_async_insert_userfile(w)
  PROVE  EqualInv'
<1>1. PICK k \in DOMAIN pipe[w] :
        /\ Executes(w, k, "insert_file")
        /\ row' = [row EXCEPT ![Executed(w, k).hash] = @ + 1]
        /\ Result(w, k, Executed(w, k))
  BY DEF db_async_insert_userfile
<1>2. UNCHANGED <<token, cached, sent, task, posted, doubt>> /\ msg' = msg
  BY DEF db_async_insert_userfile, hist, fault
<1>3. PICK c : c = Executed(w, k)  OBVIOUS
<1>4. c \in GoodQuery /\ c.op = "insert_file"  BY <1>1, <1>3, ExecutedTypes
<1>5. c.hash \in Hashes /\ SameQuery(c, c)  BY <1>4 DEF GoodQuery, SameQuery
<1>6. PICK q : q = Answered(pipe[w][k], c)  OBVIOUS
<1>7. PICK ch : ch = pipe[w][k]  OBVIOUS
<1>8. Step(ch, "insert_file", c, q) /\ ch \in Chains /\ c = ch.cmds[ch.done + 1]
  BY <1>1, <1>3, <1>4, <1>5, <1>6, <1>7, ExecutesStep
<1>9. ASSUME NEW h \in Hashes
      PROVE  Even(ch, q, h, Refs(msg, cached, h), Refs(msg', cached, h), row[h], row'[h])
  <2>1. PICK a \in Nat : a = Refs(msg, cached, h)  BY RefsNat DEF Types
  <2>2. PICK r \in Nat : r = row[h]  BY DEF Types
  <2>3. PICK d \in Nat : d = Cardinality(Due(ch, h))  BY <1>8, ChainFinite
  <2>4. /\ Owed(q, h) = {} /\ Owed(ch, h) = {} /\ Due(q, h) = Due(ch, h)
        /\ Coming(q, h) = {} /\ Coming(ch, h) = IF c.hash = h THEN {1} ELSE {}
    BY <1>8, InsertFileDemand
  <2>5. PICK e \in Nat : e = IF c.hash = h THEN 1 ELSE 0  OBVIOUS
  <2>6. row'[h] = r + e  BY <1>1, <1>3, <2>2, <2>5 DEF Types
  <2>7. Cardinality(Coming(ch, h)) = e  BY <2>4, <2>5, EmptyCardinality
  <2>8. /\ Cardinality(Owed(q, h)) = 0 /\ Cardinality(Owed(ch, h)) = 0
        /\ Cardinality(Due(q, h)) = d
    BY <2>3, <2>4, EmptyCardinality
  <2>9. a + 0 + d + r + e = a + 0 + d + (r + e)  OBVIOUS
  <2>10. QED  BY <1>2, <2>1, <2>2, <2>3, <2>4, <2>6, <2>7, <2>8, <2>9 DEF Even
<1>10. PICK op : op = "insert_file"  OBVIOUS
<1>11. Executes(w, k, op) /\ Result(w, k, c) /\ SameQuery(c, Executed(w, k)) /\ op # "insert_msg"
  BY <1>1, <1>3, <1>5, <1>10
<1>12. AllEven(pipe[w][k], Answered(pipe[w][k], c), msg, msg', cached, row, row', doubt)
  BY <1>6, <1>7, <1>9 DEF AllEven
<1>13. QED  BY <1>2, <1>4, <1>11, <1>12, DatabaseEqual DEF SameTokens

LEMMA RefcountEqual ==
  ASSUME Types, Types', FilesInv, EqualInv, OneWorker, NEW w \in Workers, db_async_userfile_refcount(w)
  PROVE  EqualInv'
<1>1. PICK k \in DOMAIN pipe[w] :
        /\ Executes(w, k, "refcount")
        /\ LET c == Executed(w, k) IN
           Result(w, k, [c EXCEPT !.n = IF c.hash = None THEN 0 ELSE row[c.hash]])
  BY DEF db_async_userfile_refcount
<1>2. UNCHANGED <<token, cached, sent, task, posted, doubt>> /\ msg' = msg /\ row' = row
  BY DEF db_async_userfile_refcount, hist, db, fault
<1>3. PICK c : c = Executed(w, k)  OBVIOUS
<1>4. c \in GoodQuery /\ c.op = "refcount"  BY <1>1, <1>3, ExecutedTypes
<1>5. PICK n : n = IF c.hash = None THEN 0 ELSE row[c.hash]  OBVIOUS
<1>6. n \in Nat  BY <1>4, <1>5 DEF GoodQuery, Query, Hash, Types
<1>7. PICK cmd : cmd = [c EXCEPT !.n = n]  OBVIOUS
<1>8. cmd \in GoodQuery /\ SameQuery(cmd, c)  BY <1>4, <1>6, <1>7 DEF GoodQuery, Query, SameQuery
<1>9. Result(w, k, cmd)  BY <1>1, <1>3, <1>5, <1>7
<1>10. PICK q : q = Answered(pipe[w][k], cmd)  OBVIOUS
<1>11. PICK ch : ch = pipe[w][k]  OBVIOUS
<1>12. Step(ch, "refcount", cmd, q) /\ ch \in Chains
  BY <1>1, <1>3, <1>8, <1>9, <1>10, <1>11, ExecutesStep
<1>13. ASSUME NEW h \in Hashes
       PROVE  Even(ch, q, h, Refs(msg, cached, h), Refs(msg', cached, h), row[h], row'[h])
  <2>1. PICK a \in Nat : a = Refs(msg, cached, h)  BY RefsNat DEF Types
  <2>2. PICK r \in Nat : r = row[h]  BY DEF Types
  <2>3. PICK d \in Nat : d = Cardinality(Due(ch, h))  BY <1>12, ChainFinite
  <2>4. PICK o \in Nat : o = Cardinality(Owed(ch, h))  BY <1>12, ChainFinite
  <2>5. /\ Owed(q, h) = Owed(ch, h) /\ Due(q, h) = Due(ch, h)
        /\ Coming(q, h) = {} /\ Coming(ch, h) = {}
    BY <1>12, RefcountDemand
  <2>6. a + o + d + r + 0 = a + o + d + r  OBVIOUS
  <2>7. Cardinality(Owed(q, h)) = o /\ Cardinality(Due(q, h)) = d /\ Cardinality(Coming(ch, h)) = 0
    BY <2>3, <2>4, <2>5, EmptyCardinality
  <2>8. QED  BY <1>2, <2>1, <2>2, <2>3, <2>4, <2>5, <2>6, <2>7 DEF Even
<1>14. PICK op : op = "refcount"  OBVIOUS
<1>15. Executes(w, k, op) /\ SameQuery(cmd, Executed(w, k)) /\ op # "insert_msg"
  BY <1>1, <1>3, <1>8, <1>14
<1>16. AllEven(pipe[w][k], Answered(pipe[w][k], cmd), msg, msg', cached, row, row', doubt)
  BY <1>10, <1>11, <1>13 DEF AllEven
<1>17. QED  BY <1>2, <1>8, <1>9, <1>15, <1>16, DatabaseEqual DEF SameTokens

(* A release is never refused: the pictures in the database are covered by   *)
(* those in memory and by what the rest of the queue owes.                   *)
LEMMA ReleaseCounts ==
  ASSUME Types, Types', FilesInv, OneWorker, NEW w \in Workers, NEW k \in DOMAIN pipe[w],
         Executes(w, k, "release"), NEW cmd \in GoodQuery, SameQuery(cmd, Executed(w, k)),
         Result(w, k, cmd), NEW h \in Hashes, cmd.hash = h
  PROVE  row[h] # 0 /\ ~CannotRelease(h)
<1>1. PICK op : op = "release"  OBVIOUS
<1>2. PICK p : p = pipe[w]  OBVIOUS
<1>3. PICK q : q = Answered(p[k], cmd)  OBVIOUS
<1>4. PICK s : s = [p EXCEPT ![k] = q]  OBVIOUS
<1>5. PICK ch : ch = p[k]  OBVIOUS
<1>6. /\ Executing(p, k, op, cmd, q) /\ Step(ch, op, cmd, q) /\ pipe'[w] = s
      /\ ch \in Chains /\ q \in Chains /\ ~ub /\ Executed(w, k) = ch.cmds[ch.done + 1]
  BY <1>1, <1>2, <1>3, <1>4, <1>5, ExecutesStep
<1>7. p \in Seq(Chains) /\ k \in 1 .. Len(p)  BY <1>2, LenProperties DEF Types
<1>8. s \in Seq(Chains) /\ Sane(s)
  <2>1. s \in Seq(Chains)  BY <1>6 DEF Types
  <2>2. QED  BY <1>4, <1>6, <2>1 DEF Executing
<1>9. ch.cmds[1].op = "release"  BY <1>1, <1>6, StepFacts DEF StepsTo, Place
<1>10. PICK j : j = ch.done + 1  OBVIOUS
<1>11. Owed(q, h) = Owed(ch, h) \ {j} /\ j \in Owed(ch, h)
  <2>1. ch.cmds[j].hash = h  BY <1>6, <1>10 DEF SameQuery
  <2>2. op \in {"release", "refcount"}  BY <1>1
  <2>3. QED  BY <1>1, <1>6, <1>9, <1>10, <2>1, <2>2, ReleaseDemand
<1>12. PICK o \in Nat : o = Cardinality(Owed(ch, h))  BY <1>6, ChainFinite
<1>13. PICK o2 \in Nat : o2 = Cardinality(Owed(q, h))  BY <1>6, ChainFinite
<1>14. o2 = o - 1
  <2>1. PICK S : S = Owed(ch, h)  OBVIOUS
  <2>2. j \in S /\ IsFiniteSet(S)  BY <1>6, <1>11, <2>1, ChainFinite
  <2>3. Cardinality(S \ {j}) = Cardinality(S) - 1  BY <2>2, FS_RemoveElement
  <2>4. QED  BY <1>11, <1>12, <1>13, <2>1, <2>3
<1>15. PICK O \in Nat : O = Size(OwedIn(p, h))  BY <1>7, QueueFamilies
<1>16. PICK O2 \in Nat : O2 = Size(OwedIn(s, h))  BY <1>8, QueueFamilies
<1>17. O2 + o = O + o2
  <2>1. ReplacedSizes(p, s, k, q, h)  BY <1>4, <1>6, <1>7, ReplaceSizes
  <2>2. QED  BY <1>5, <1>12, <1>13, <1>15, <1>16, <2>1 DEF ReplacedSizes
<1>18. /\ \A u \in Users : Claimed(p, u, pfp[u], cached[u])
       /\ Covers(p, h, Refs(msg, cached, h), row[h])
  BY <1>2, <1>6, InvFacts DEF Paid
<1>19. \A u \in Users : Claimed(s, u, pfp[u], cached[u])
  <2>1. op # "update_pfp"  BY <1>1
  <2>2. ASSUME NEW u \in Users PROVE Claimed(s, u, pfp[u], cached[u])
    <3>1. PICK new : new = pfp[u]  OBVIOUS
    <3>2. PICK old : old = cached[u]  OBVIOUS
    <3>3. Claimed(p, u, new, old)  BY <1>18, <3>1, <3>2
    <3>4. op = "update_pfp" => ~cmd.ok \/ cmd.arg # u  BY <2>1
    <3>5. p \in Seq(Chains) /\ Executing(p, k, op, cmd, q)  BY <1>6, <1>7
    <3>6. Claimed([p EXCEPT ![k] = q], u, new, old)  BY <3>3, <3>4, <3>5, ExecutingClaimed
    <3>7. QED  BY <1>4, <3>1, <3>2, <3>6
  <2>3. QED  BY <2>2
<1>20. PICK z \in Nat : z = Size(Pictures(cached, h))  BY PictureFamily
<1>21. PICK n \in Nat : n = Cardinality({u \in Users : pfp[u] = h}) /\ n <= z + O2
  BY <1>8, <1>16, <1>19, <1>20, PicturesCovered DEF Types
<1>22. PICK m \in Nat : m = Size(MsgFiles(msg, h))  BY MsgFamily DEF Types
<1>23. PICK r \in Nat : r = row[h]  BY DEF Types
<1>24. (m + z) + O + 0 <= r + 0
  <2>1. Size(DueIn(p, h, 0)) = 0 /\ Size(ComingIn(p, h, 0)) = 0  BY SizeEmpty DEF DueIn, ComingIn
  <2>2. QED  BY <1>15, <1>18, <1>20, <1>22, <1>23, <2>1 DEF Refs, Covers
<1>25. ASSUME NEW u \in Users, pfp[u] = h PROVE n # 0
  BY <1>21, <1>25, UsersAssumption, FS_Subset, FS_EmptySet
<1>26. r # 0 /\ (n # 0 => r # 1)  BY <1>14, <1>17, <1>21, <1>24
<1>27. QED  BY <1>23, <1>25, <1>26 DEF CannotRelease

LEMMA ReleaseEqual ==
  ASSUME Types, Types', FilesInv, EqualInv, OneWorker, NEW w \in Workers, db_async_delete_userfile(w)
  PROVE  EqualInv'
<1>1. PICK k \in DOMAIN pipe[w] :
        /\ Executes(w, k, "release")
        /\ LET c == Executed(w, k) IN
           /\ row' = Released(c.hash)
           /\ Result(w, k, [c EXCEPT !.ok = ~CannotRelease(c.hash)])
  BY DEF db_async_delete_userfile
<1>2. UNCHANGED <<token, cached, sent, task, posted, doubt>> /\ msg' = msg
  BY DEF db_async_delete_userfile, hist, fault
<1>3. PICK c : c = Executed(w, k)  OBVIOUS
<1>4. c \in GoodQuery /\ c.op = "release"  BY <1>1, <1>3, ExecutedTypes
<1>5. PICK b \in BOOLEAN : b = ~CannotRelease(c.hash)  OBVIOUS
<1>6. PICK cmd : cmd = [c EXCEPT !.ok = b]  OBVIOUS
<1>7. cmd \in GoodQuery /\ SameQuery(cmd, c)  BY <1>4, <1>5, <1>6 DEF GoodQuery, Query, SameQuery
<1>8. Result(w, k, cmd)  BY <1>1, <1>3, <1>5, <1>6
<1>9. PICK q : q = Answered(pipe[w][k], cmd)  OBVIOUS
<1>10. PICK ch : ch = pipe[w][k]  OBVIOUS
<1>11. Step(ch, "release", cmd, q) /\ ch \in Chains /\ c = ch.cmds[ch.done + 1] /\ q \in Chains
  BY <1>1, <1>3, <1>7, <1>8, <1>9, <1>10, ExecutesStep
<1>12. ch.cmds[1].op = "release"  BY <1>11, StepFacts DEF StepsTo, Place
<1>13. ASSUME NEW h \in Hashes
       PROVE  Even(ch, q, h, Refs(msg, cached, h), Refs(msg', cached, h), row[h], row'[h])
  <2>1. PICK a \in Nat : a = Refs(msg, cached, h)  BY RefsNat DEF Types
  <2>2. PICK r \in Nat : r = row[h]  BY DEF Types
  <2>3. PICK r2 \in Nat : r2 = row'[h]  BY DEF Types
  <2>4. PICK o \in Nat : o = Cardinality(Owed(ch, h))  BY <1>11, ChainFinite
  <2>5. PICK o2 \in Nat : o2 = Cardinality(Owed(q, h))  BY <1>11, ChainFinite
  <2>6. PICK j : j = ch.done + 1  OBVIOUS
  <2>7. /\ Due(q, h) = {} /\ Due(ch, h) = {} /\ Coming(q, h) = {} /\ Coming(ch, h) = {}
        /\ Owed(q, h) = Owed(ch, h) \ {j}
        /\ j \in Owed(ch, h) <=> c.hash = h
    BY <1>11, <1>12, <2>6, ReleaseDemand
  <2>8. o2 + r = o + r2
    <3>1. CASE c.hash = h
      <4>1. PICK S : S = Owed(ch, h)  OBVIOUS
      <4>2. Cardinality(S \ {j}) = Cardinality(S) - 1
        BY <1>11, <2>7, <3>1, <4>1, FS_RemoveElement, ChainFinite
      <4>3. row[h] # 0 /\ ~CannotRelease(h)
        BY <1>1, <1>3, <1>7, <1>8, <3>1, ReleaseCounts DEF SameQuery
      <4>4. row' = [row EXCEPT ![h] = @ - 1]  BY <1>1, <1>3, <3>1, <4>3, NoneAssumption DEF Released
      <4>5. r2 = r - 1  BY <2>2, <2>3, <4>4 DEF Types
      <4>6. QED  BY <2>4, <2>5, <2>7, <4>1, <4>2, <4>5
    <3>2. CASE c.hash # h
      <4>1. row'[h] = row[h]  BY <1>1, <1>3, <3>2 DEF Released, Types
      <4>2. o2 = o /\ r2 = r  BY <2>2, <2>3, <2>4, <2>5, <2>7, <3>2, <4>1
      <4>3. QED  BY <4>2
    <3>3. QED  BY <3>1, <3>2
  <2>9. a + o2 + 0 + r + 0 = a + o + 0 + r2  BY <2>8
  <2>10. Cardinality(Due(q, h)) = 0 /\ Cardinality(Due(ch, h)) = 0 /\ Cardinality(Coming(ch, h)) = 0
    BY <2>7, EmptyCardinality
  <2>11. QED  BY <1>2, <2>1, <2>2, <2>3, <2>4, <2>5, <2>7, <2>9, <2>10 DEF Even
<1>14. PICK op : op = "release"  OBVIOUS
<1>15. Executes(w, k, op) /\ SameQuery(cmd, Executed(w, k)) /\ op # "insert_msg"
  BY <1>1, <1>3, <1>7, <1>14
<1>16. AllEven(pipe[w][k], Answered(pipe[w][k], cmd), msg, msg', cached, row, row', doubt)
  BY <1>9, <1>10, <1>13 DEF AllEven
<1>17. QED  BY <1>2, <1>7, <1>8, <1>15, <1>16, DatabaseEqual DEF SameTokens

(* The file of a picture has its row when the picture is stored.             *)
LEMMA UpdateCounts ==
  ASSUME Types, FilesInv, NEW w \in Workers, NEW k \in DOMAIN pipe[w],
         Executes(w, k, "update_pfp"), NEW cmd \in GoodQuery, SameQuery(cmd, Executed(w, k)),
         Result(w, k, cmd), NEW h \in Hashes, cmd.hash = h
  PROVE  row[h] # 0
<1>1. PICK op : op = "update_pfp"  OBVIOUS
<1>2. PICK p : p = pipe[w]  OBVIOUS
<1>3. PICK q : q = Answered(p[k], cmd)  OBVIOUS
<1>4. PICK ch : ch = p[k]  OBVIOUS
<1>5. /\ Executing(p, k, op, cmd, q) /\ Step(ch, op, cmd, q) /\ ch \in Chains /\ ~ub
  BY <1>1, <1>2, <1>3, <1>4, ExecutesStep
<1>6. p \in Seq(Chains) /\ k \in 1 .. Len(p)  BY <1>2, LenProperties DEF Types
<1>7. k \in Nat /\ k <= k  BY <1>6
<1>8. Coming(ch, h) = {} /\ Due(ch, h) = {3}  BY <1>1, <1>5, UpdatePfpDemand
<1>9. Size(ComingIn(p, h, k)) = 0
  <2>1. PICK G : G = ComingIn(p, h, k)  OBVIOUS
  <2>2. \A j \in 1 .. k - 1 : Coming(p[j], h) = {}  BY <1>5 DEF Executing
  <2>3. \A j \in 1 .. Len(p) : j <= k => j = k \/ j \in 1 .. k - 1  BY <1>7
  <2>4. \A j \in 1 .. Len(p) : j <= k => Coming(p[j], h) = {}  BY <1>4, <1>8, <2>2, <2>3
  <2>5. DOMAIN G = 1 .. Len(p) /\ \A j \in 1 .. Len(p) : G[j] = {}  BY <2>1, <2>4 DEF ComingIn
  <2>6. QED  BY <2>1, <2>5, SizeEmpty
<1>10. PICK d \in Nat : d = Size(DueIn(p, h, k)) /\ d # 0
  <2>1. PICK G : G = DueIn(p, h, k)  OBVIOUS
  <2>2. IsFamily(G) /\ Size(G) \in Nat  BY <1>6, <1>7, <2>1, QueueFamilies
  <2>3. <<k, 3>> \in Pairs(G)  BY <1>4, <1>6, <1>7, <1>8, <2>1, InPairs DEF DueIn
  <2>4. Size(G) # 0  BY <2>2, <2>3, FS_EmptySet, PairsFinite DEF Size
  <2>5. QED  BY <2>1, <2>2, <2>4
<1>11. PICK a \in Nat : a = Refs(msg, cached, h)  BY RefsNat DEF Types
<1>12. PICK o \in Nat : o = Size(OwedIn(p, h))  BY <1>6, QueueFamilies
<1>13. PICK r \in Nat : r = row[h]  BY DEF Types
<1>14. Refs(msg, cached, h) + Size(OwedIn(p, h)) + Size(DueIn(p, h, k))
         <= row[h] + Size(ComingIn(p, h, k))
  BY <1>2, <1>5, <1>7, InvFacts DEF Covers, Paid
<1>15. a + o + d <= r + 0  BY <1>9, <1>10, <1>11, <1>12, <1>13, <1>14
<1>16. r # 0  BY <1>10, <1>15
<1>17. QED  BY <1>13, <1>16

LEMMA UpdatePfpEqual ==
  ASSUME Types, Types', FilesInv, EqualInv, OneWorker, NEW w \in Workers, db_async_update_user(w)
  PROVE  EqualInv'
<1>1. PICK k \in DOMAIN pipe[w] :
        /\ Executes(w, k, "update_pfp")
        /\ Result(w, k, [Executed(w, k) EXCEPT !.ok = row[Executed(w, k).hash] > 0])
  BY DEF db_async_update_user
<1>2. UNCHANGED <<token, cached, sent, task, posted, doubt>> /\ msg' = msg /\ row' = row
  BY DEF db_async_update_user, hist, fault
<1>3. PICK c : c = Executed(w, k)  OBVIOUS
<1>4. c \in GoodQuery /\ c.op = "update_pfp" /\ c.hash \in Hashes
  BY <1>1, <1>3, ExecutedTypes DEF GoodQuery
<1>5. PICK b \in BOOLEAN : [c EXCEPT !.ok = row[c.hash] > 0] = [c EXCEPT !.ok = b]
                           /\ (b <=> row[c.hash] # 0)
  <2>1. row[c.hash] \in Nat  BY <1>4 DEF Types
  <2>2. CASE row[c.hash] = 0
    <3>1. (row[c.hash] > 0) = FALSE  BY <2>1, <2>2
    <3>2. QED  BY <2>2, <3>1
  <2>3. CASE row[c.hash] # 0
    <3>1. (row[c.hash] > 0) = TRUE  BY <2>1, <2>3
    <3>2. QED  BY <2>3, <3>1
  <2>4. QED  BY <2>2, <2>3
<1>6. PICK cmd : cmd = [c EXCEPT !.ok = b]  OBVIOUS
<1>7. cmd \in GoodQuery /\ SameQuery(cmd, c) /\ cmd.ok = b /\ cmd.hash = c.hash
  BY <1>4, <1>5, <1>6 DEF GoodQuery, Query, SameQuery
<1>8. Result(w, k, cmd)  BY <1>1, <1>3, <1>5, <1>6
<1>9. SameQuery(cmd, Executed(w, k))  BY <1>3, <1>7
<1>10. cmd.ok  BY <1>1, <1>4, <1>5, <1>7, <1>8, <1>9, UpdateCounts
<1>11. PICK q : q = Answered(pipe[w][k], cmd)  OBVIOUS
<1>12. PICK ch : ch = pipe[w][k]  OBVIOUS
<1>13. Step(ch, "update_pfp", cmd, q) /\ ch \in Chains
  BY <1>1, <1>7, <1>8, <1>9, <1>11, <1>12, ExecutesStep
<1>14. ASSUME NEW h \in Hashes
       PROVE  Even(ch, q, h, Refs(msg, cached, h), Refs(msg', cached, h), row[h], row'[h])
  <2>1. PICK a \in Nat : a = Refs(msg, cached, h)  BY RefsNat DEF Types
  <2>2. PICK r \in Nat : r = row[h]  BY DEF Types
  <2>3. PICK e \in Nat : e = IF cmd.hash = h THEN 1 ELSE 0  OBVIOUS
  <2>4. /\ Owed(ch, h) = {} /\ Coming(q, h) = {} /\ Coming(ch, h) = {}
        /\ Due(q, h) = {} /\ Due(ch, h) = (IF cmd.hash = h THEN {3} ELSE {})
        /\ Owed(q, h) = IF cmd.ok /\ cmd.hash = h THEN {3} ELSE {}
    BY <1>13, UpdatePfpDemand
  <2>5. a + e + 0 + r + 0 = a + 0 + e + r  OBVIOUS
  <2>6. /\ Cardinality(Owed(ch, h)) = 0 /\ Cardinality(Due(q, h)) = 0 /\ Cardinality(Coming(ch, h)) = 0
        /\ Cardinality(Due(ch, h)) = e /\ Cardinality(Owed(q, h)) = e
    BY <1>10, <2>3, <2>4, EmptyCardinality
  <2>7. QED  BY <1>2, <2>1, <2>2, <2>4, <2>5, <2>6 DEF Even
<1>15. PICK op : op = "update_pfp"  OBVIOUS
<1>16. Executes(w, k, op) /\ op # "insert_msg"  BY <1>1, <1>15
<1>17. AllEven(pipe[w][k], Answered(pipe[w][k], cmd), msg, msg', cached, row, row', doubt)
  BY <1>11, <1>12, <1>14 DEF AllEven
<1>18. QED  BY <1>2, <1>7, <1>8, <1>9, <1>16, <1>17, DatabaseEqual DEF SameTokens

(* The chain the database is at: its callbacks have not begun, and what is   *)
(* not executed has not failed.                                              *)
LEMMA NotBegun ==
  ASSUME Types, DiskInv, NEW w \in Workers, NEW k \in DOMAIN pipe[w], NEW op, Executes(w, k, op)
  PROVE  pipe[w][k].ran = 0 /\ Executed(w, k).ok
<1>1. PICK ch : ch = pipe[w][k]  OBVIOUS
<1>2. ch \in Chains /\ ch.done < Len(ch.cmds) /\ ~ub  BY <1>1, ChainFacts DEF Executes, Current
<1>3. k \in 1 .. Len(pipe[w])  BY LenProperties DEF Types
<1>4. PICK n \in Nat : n = Len(ch.cmds)  BY <1>2, InChain
<1>5. PICK d \in Nat : d = ch.done /\ d < n /\ d # n  BY <1>2, <1>4, InChain
<1>6. d + 1 \in 1 .. n /\ d < d + 1  BY <1>5
<1>7. ch.cmds[d + 1].ok /\ ch.ran = 0
  BY <1>1, <1>2, <1>3, <1>4, <1>5, <1>6 DEF Tidy, DiskInv, Orderly
<1>8. QED  BY <1>1, <1>5, <1>7 DEF Executed

LEMMA DeleteMsgEqual ==
  ASSUME Types, Types', FilesInv, DiskInv, EqualInv, OneWorker, NEW w \in Workers, db_async_delete_msg(w)
  PROVE  EqualInv'
<1>1. PICK k \in DOMAIN pipe[w] :
        /\ Executes(w, k, "delete_msg")
        /\ LET c == Executed(w, k) IN
           \/ /\ msg[c.arg].life = "live"
              /\ msg' = [msg EXCEPT ![c.arg] = [@ EXCEPT !.life = "gone"]]
              /\ Result(w, k, [c EXCEPT !.files = msg[c.arg].files])
           \/ /\ msg[c.arg].life # "live"
              /\ Result(w, k, [c EXCEPT !.ok = FALSE])
              /\ UNCHANGED msg
  BY DEF db_async_delete_msg
<1>2. UNCHANGED <<token, cached, sent, task, posted, doubt>> /\ row' = row
  BY DEF db_async_delete_msg, hist, fault
<1>3. PICK c : c = Executed(w, k)  OBVIOUS
<1>4. c \in GoodQuery /\ c.op = "delete_msg"  BY <1>1, <1>3, ExecutedTypes
<1>5. c.arg \in Msgs /\ c.ok  BY <1>1, <1>3, <1>4, NotBegun DEF GoodQuery
<1>6. msg[c.arg] \in Msg /\ msg[c.arg].files \in Seq(Hash)  BY <1>5, FilesAreSeq DEF Types, Msg
<1>7. PICK cmd \in GoodQuery :
        /\ SameQuery(cmd, c) /\ Result(w, k, cmd)
        /\ \/ /\ msg[c.arg].life = "live" /\ cmd.files = msg[c.arg].files /\ cmd.ok
              /\ msg' = [msg EXCEPT ![c.arg] = [msg[c.arg] EXCEPT !.life = "gone"]]
           \/ ~cmd.ok /\ msg' = msg
  <2>1. CASE msg[c.arg].life = "live"
    BY <1>1, <1>3, <1>4, <1>5, <1>6, <2>1 DEF GoodQuery, Query, SameQuery
  <2>2. CASE msg[c.arg].life # "live"
    <3>1. PICK cmd : cmd = [c EXCEPT !.ok = FALSE]  OBVIOUS
    <3>2. cmd \in GoodQuery /\ SameQuery(cmd, c) /\ ~cmd.ok
      BY <1>4, <3>1 DEF GoodQuery, Query, SameQuery
    <3>3. Result(w, k, cmd) /\ msg' = msg  BY <1>1, <1>3, <2>2, <3>1
    <3>4. QED  BY <3>2, <3>3
  <2>3. QED  BY <2>1, <2>2
<1>8. SameQuery(cmd, Executed(w, k))  BY <1>3, <1>7
<1>9. PICK q : q = Answered(pipe[w][k], cmd)  OBVIOUS
<1>10. PICK ch : ch = pipe[w][k]  OBVIOUS
<1>11. Step(ch, "delete_msg", cmd, q) /\ ch \in Chains /\ q \in Chains
  BY <1>1, <1>7, <1>8, <1>9, <1>10, ExecutesStep
<1>12. ASSUME NEW h \in Hashes
       PROVE  Even(ch, q, h, Refs(msg, cached, h), Refs(msg', cached, h), row[h], row'[h])
  <2>1. PICK m1 \in Nat : m1 = Size(MsgFiles(msg, h))  BY MsgFamily DEF Types
  <2>2. PICK m2 \in Nat : m2 = Size(MsgFiles(msg', h))  BY MsgFamily DEF Types
  <2>3. PICK z \in Nat : z = Size(Pictures(cached, h))  BY PictureFamily
  <2>4. PICK r \in Nat : r = row[h]  BY DEF Types
  <2>5. /\ Owed(ch, h) = {} /\ Coming(q, h) = {} /\ Coming(ch, h) = {}
        /\ Due(q, h) = {} /\ Due(ch, h) = {}
        /\ Owed(q, h) = IF cmd.ok THEN Where(cmd.files, h) ELSE {}
    BY <1>11, DeleteMsgDemand
  <2>6. PICK o \in Nat : o = Cardinality(Owed(q, h))  BY <1>11, ChainFinite
  <2>7. m2 + o = m1
    <3>1. CASE ~cmd.ok /\ msg' = msg  BY <2>1, <2>2, <2>5, <2>6, <3>1, EmptyCardinality
    <3>2. CASE /\ msg[c.arg].life = "live" /\ cmd.files = msg[c.arg].files /\ cmd.ok
               /\ msg' = [msg EXCEPT ![c.arg] = [msg[c.arg] EXCEPT !.life = "gone"]]
      <4>1. PICK y : y = [msg[c.arg] EXCEPT !.life = "gone"]  OBVIOUS
      <4>2. PICK ms : ms = msg'  OBVIOUS
      <4>3. ms = [msg EXCEPT ![c.arg] = y] /\ msg \in [Msgs -> Msg]  BY <3>2, <4>1, <4>2 DEF Types
      <4>4. OneMore(msg, ms, msg[c.arg].files, h)
        BY <1>5, <1>6, <3>2, <4>1, <4>3, MsgDeleted DEF Msg
      <4>5. PICK x \in Nat : x = Cardinality(Where(msg[c.arg].files, h))  BY <1>6, WhereFinite
      <4>6. o = x  BY <2>5, <2>6, <3>2, <4>5
      <4>7. QED  BY <2>1, <2>2, <4>2, <4>4, <4>5, <4>6 DEF OneMore
    <3>3. QED  BY <1>7, <3>1, <3>2
  <2>8. Refs(msg, cached, h) = m1 + z /\ Refs(msg', cached, h) = m2 + z
    BY <2>1, <2>2, <2>3 DEF Refs
  <2>9. /\ Cardinality(Owed(ch, h)) = 0 /\ Cardinality(Due(q, h)) = 0
         /\ Cardinality(Due(ch, h)) = 0 /\ Cardinality(Coming(ch, h)) = 0
    BY <2>5, EmptyCardinality
  <2>10. QED  BY <1>2, <2>4, <2>5, <2>6, <2>7, <2>8, <2>9 DEF Even
<1>13. SameTokens(msg, msg')
  <2>1. CASE msg' = msg  BY <2>1 DEF SameTokens
  <2>2. CASE msg' = [msg EXCEPT ![c.arg] = [msg[c.arg] EXCEPT !.life = "gone"]]
    BY <1>5, <1>6, <2>2 DEF Msg, Types, SameTokens
  <2>3. QED  BY <1>7, <2>1, <2>2
<1>14. PICK op : op = "delete_msg"  OBVIOUS
<1>15. Executes(w, k, op) /\ op # "insert_msg"  BY <1>1, <1>14
<1>16. AllEven(pipe[w][k], Answered(pipe[w][k], cmd), msg, msg', cached, row, row', doubt)
  BY <1>9, <1>10, <1>12 DEF AllEven
<1>17. QED  BY <1>2, <1>7, <1>8, <1>13, <1>15, <1>16, DatabaseEqual

LEMMA SelectEqual ==
  ASSUME Types, Types', FilesInv, EqualInv, OneWorker, NEW w \in Workers, SelectAttachs(w)
  PROVE  EqualInv'
<1>1. PICK k \in DOMAIN pipe[w] :
        /\ Executes(w, k, "select_attachs")
        /\ \E ms \in SetToSeqs(LiveMsgs) :
             Result(w, k, [Executed(w, k) EXCEPT !.files = Attachments(ms)])
  BY DEF SelectAttachs
<1>2. UNCHANGED <<token, cached, sent, task, posted, doubt>> /\ msg' = msg /\ row' = row
  BY DEF SelectAttachs, hist, db, fault
<1>3. PICK ms \in SetToSeqs(LiveMsgs) :
        Result(w, k, [Executed(w, k) EXCEPT !.files = Attachments(ms)])
  BY <1>1
<1>4. PICK c : c = Executed(w, k)  OBVIOUS
<1>5. PICK f : f = Attachments(ms)  OBVIOUS
<1>6. f \in Seq(Hash)  BY <1>5, AttachmentsTypes
<1>7. PICK cmd : cmd = [c EXCEPT !.files = f]  OBVIOUS
<1>8. cmd \in GoodQuery /\ SameQuery(cmd, Executed(w, k))
  BY <1>1, <1>4, <1>6, <1>7, ExecutedTypes DEF GoodQuery, Query, SameQuery
<1>9. Result(w, k, cmd)  BY <1>3, <1>4, <1>5, <1>7
<1>10. PICK q : q = Answered(pipe[w][k], cmd)  OBVIOUS
<1>11. PICK ch : ch = pipe[w][k]  OBVIOUS
<1>12. Step(ch, "select_attachs", cmd, q)
  BY <1>1, <1>8, <1>9, <1>10, <1>11, ExecutesStep
<1>13. ASSUME NEW h \in Hashes
       PROVE  Even(ch, q, h, Refs(msg, cached, h), Refs(msg', cached, h), row[h], row'[h])
  <2>1. PICK a \in Nat : a = Refs(msg, cached, h)  BY RefsNat DEF Types
  <2>2. PICK r \in Nat : r = row[h]  BY DEF Types
  <2>3. /\ Owed(ch, h) = {} /\ Coming(q, h) = {} /\ Coming(ch, h) = {}
        /\ Due(q, h) = {} /\ Due(ch, h) = {} /\ Owed(q, h) = {}
    BY <1>12, SelectDemand
  <2>4. QED  BY <1>2, <2>1, <2>2, <2>3, EmptyCardinality DEF Even
<1>14. PICK op : op = "select_attachs"  OBVIOUS
<1>15. Executes(w, k, op) /\ op # "insert_msg"  BY <1>1, <1>14
<1>16. AllEven(pipe[w][k], Answered(pipe[w][k], cmd), msg, msg', cached, row, row', doubt)
  BY <1>10, <1>11, <1>13 DEF AllEven
<1>17. QED  BY <1>2, <1>8, <1>9, <1>15, <1>16, DatabaseEqual DEF SameTokens

LEMMA DeleteMsgsEqual ==
  ASSUME Types, Types', FilesInv, DiskInv, EqualInv, OneWorker, NEW w \in Workers, DeleteMsgs(w)
  PROVE  EqualInv'
<1>1. PICK k \in DOMAIN pipe[w] :
        /\ Executes(w, k, "delete_msgs")
        /\ msg' = [m \in Msgs |-> [msg[m] EXCEPT !.life = IF @ = "live" THEN "gone" ELSE @]]
        /\ Result(w, k, Executed(w, k))
  BY DEF DeleteMsgs
<1>2. UNCHANGED <<token, cached, sent, task, posted, doubt>> /\ row' = row
  BY DEF DeleteMsgs, hist, fault
<1>3. PICK op : op = "delete_msgs"  OBVIOUS
<1>4. Executes(w, k, op) /\ op # "insert_msg" /\ op \in {"select_attachs", "delete_msgs"}
  BY <1>1, <1>3
<1>5. PICK cmd : cmd = Executed(w, k)  OBVIOUS
<1>6. cmd \in GoodQuery /\ SameQuery(cmd, Executed(w, k)) /\ Result(w, k, cmd)
  BY <1>1, <1>4, <1>5, ExecutedTypes DEF SameQuery
<1>7. PICK q : q = Answered(pipe[w][k], cmd)  OBVIOUS
<1>8. PICK ch : ch = pipe[w][k]  OBVIOUS
<1>9. Step(ch, op, cmd, q) /\ ch \in Chains /\ q \in Chains /\ ~ub
  BY <1>4, <1>6, <1>7, <1>8, ExecutesStep
<1>10. ch.ran = 0  BY <1>4, <1>8, NotBegun
<1>11. /\ ch.cmds[1].op = "select_attachs" /\ ch.done = 1 /\ q.done = 2 /\ q.ran = 0
       /\ q.cmds[1] = ch.cmds[1] /\ ch.cmds[1] \in GoodQuery
  BY <1>3, <1>9, <1>10, StepFacts, InChain DEF StepsTo, Place
<1>12. Stored(ch.cmds[1].files, msg)  BY <1>8, <1>9, <1>11, InvFacts, LenProperties DEF Selected
<1>13. \A m \in Msgs : msg'[m].life # "live"  BY <1>1 DEF Types, Msg
<1>14. ASSUME NEW h \in Hashes
       PROVE  Even(ch, q, h, Refs(msg, cached, h), Refs(msg', cached, h), row[h], row'[h])
  <2>1. PICK m1 \in Nat : m1 = Size(MsgFiles(msg, h))  BY MsgFamily DEF Types
  <2>2. PICK z \in Nat : z = Size(Pictures(cached, h))  BY PictureFamily
  <2>3. PICK r \in Nat : r = row[h]  BY DEF Types
  <2>4. /\ Owed(ch, h) = {} /\ Coming(q, h) = {} /\ Coming(ch, h) = {}
        /\ Due(q, h) = {} /\ Due(ch, h) = {}
    BY <1>4, <1>9, SelectNone
  <2>5. Cardinality(Owed(q, h)) = m1  BY <1>11, <1>12, <2>1 DEF Stored, Owed
  <2>6. Size(MsgFiles(msg', h)) = 0  BY <1>13, SizeEmpty DEF MsgFiles
  <2>7. Refs(msg, cached, h) = m1 + z /\ Refs(msg', cached, h) = 0 + z
    BY <2>1, <2>2, <2>6 DEF Refs
  <2>8. /\ Cardinality(Owed(ch, h)) = 0 /\ Cardinality(Due(q, h)) = 0
         /\ Cardinality(Due(ch, h)) = 0 /\ Cardinality(Coming(ch, h)) = 0
    BY <2>4, EmptyCardinality
  <2>9. QED  BY <1>2, <2>3, <2>4, <2>5, <2>7, <2>8 DEF Even
<1>15. SameTokens(msg, msg')  BY <1>1 DEF Types, Msg, SameTokens
<1>16. AllEven(pipe[w][k], Answered(pipe[w][k], cmd), msg, msg', cached, row, row', doubt)
  BY <1>7, <1>8, <1>14 DEF AllEven
<1>17. QED  BY <1>2, <1>4, <1>6, <1>15, <1>16, DatabaseEqual

(* Stored or kept: what the queued message was to refer to is accounted for. *)
LEMMA StoredOrKept ==
  ASSUME NEW tk \in [Tokens -> GoodToken], NEW ms \in [Msgs -> Msg], NEW ms2 \in [Msgs -> Msg],
         NEW t \in Tokens, NEW f \in [Index -> Hash], f = tk[t].files, StoredOrNot(ms, ms2, t, f),
         NEW p, NEW q, OthersKept(p, tk, ms, q, tk, ms2, t), Waiting(p, t), ~Waiting(q, t),
         \A m \in Msgs : ms[m].token # t, NEW h
  PROVE  Size(MsgFiles(ms2, h)) + Size(KeptFiles(q, tk, ms2, h))
           = Size(MsgFiles(ms, h)) + Size(KeptFiles(p, tk, ms, h)) + Cardinality(Where(f, h))
<1>1. PICK m1 \in Nat : m1 = Size(MsgFiles(ms, h))  BY MsgFamily
<1>2. PICK m2 \in Nat : m2 = Size(MsgFiles(ms2, h))  BY MsgFamily
<1>3. PICK g1 \in Nat : g1 = Size(KeptFiles(p, tk, ms, h))  BY KeptFamily
<1>4. PICK g2 \in Nat : g2 = Size(KeptFiles(q, tk, ms2, h))  BY KeptFamily
<1>5. PICK x \in Nat : x = Cardinality(Where(f, h))  BY FilesFinite
<1>6. Exchanged(KeptFiles(p, tk, ms, h), KeptFiles(q, tk, ms2, h), t)  BY KeptChanged
<1>7. Cardinality(KeptFiles(p, tk, ms, h)[t]) = 0  BY EmptyCardinality, UnderwayIs DEF KeptFiles
<1>8. CASE ms2 = ms
  <2>1. KeptFiles(q, tk, ms2, h)[t] = Where(f, h)  BY <1>8, UnderwayIs DEF KeptFiles
  <2>2. m2 = m1  BY <1>1, <1>2, <1>8
  <2>3. m2 + g2 = m1 + g1 + x  BY <1>3, <1>4, <1>5, <1>6, <1>7, <2>1, <2>2 DEF Exchanged
  <2>4. QED  BY <1>1, <1>2, <1>3, <1>4, <1>5, <2>3
<1>9. ASSUME NEW m \in Msgs, ms[m].life = "none",
              ms2 = [ms EXCEPT ![m] = [life |-> "live", token |-> t, files |-> f]]
       PROVE  m2 + g2 = m1 + g1 + x
  <2>1. PICK y : y = [life |-> "live", token |-> t, files |-> f]  OBVIOUS
  <2>2. y \in Msg /\ y.life = "live" /\ y.files = f /\ y.token = t  BY <2>1 DEF Msg
  <2>3. ms2 = [ms EXCEPT ![m] = y]  BY <1>9, <2>1
  <2>4. OneMore(ms2, ms, y.files, h)  BY <1>9, <2>2, <2>3, MsgStored
  <2>5. Underway(q, ms2, t)  BY <2>2, <2>3, UnderwayIs
  <2>6. g2 + 0 = g1 + 0  BY <1>3, <1>4, <1>6, <1>7, <2>5, EmptyCardinality DEF Exchanged, KeptFiles
  <2>7. QED  BY <1>1, <1>2, <1>5, <2>2, <2>4, <2>6 DEF OneMore
<1>10. QED  BY <1>1, <1>2, <1>3, <1>4, <1>5, <1>8, <1>9 DEF StoredOrNot

LEMMA InsertMsgEqual ==
  ASSUME Types, Types', FilesInv, EqualInv, OneWorker, NEW w \in Workers, db_async_insert_group_msg(w)
  PROVE  EqualInv'
<1>1. PICK k \in DOMAIN pipe[w] :
        /\ Executes(w, k, "insert_msg")
        /\ LET c == Executed(w, k) IN
           \/ /\ \E m \in Msgs :
                   /\ group /\ msg[m].life = "none"
                   /\ msg' = [msg EXCEPT ![m] = [life |-> "live", token |-> c.arg,
                                                 files |-> c.files]]
              /\ Result(w, k, c)
           \/ /\ Result(w, k, [c EXCEPT !.ok = FALSE])
              /\ UNCHANGED msg
  BY DEF db_async_insert_group_msg
<1>2. PICK c : c = Executed(w, k)  OBVIOUS
<1>3. c \in GoodQuery /\ c.op = "insert_msg"  BY <1>1, <1>2, ExecutedTypes
<1>4. PICK t : t = c.arg  OBVIOUS
<1>5. PICK f : f = c.files  OBVIOUS
<1>6. t \in Tokens /\ f \in [Index -> Hash]  BY <1>3, <1>4, <1>5 DEF GoodQuery
<1>7. PICK b \in BOOLEAN : Result(w, k, [c EXCEPT !.ok = b]) /\ StoredOrNot(msg, msg', t, f)
  <2>1. [c EXCEPT !.ok = c.ok] = c /\ c.ok \in BOOLEAN  BY <1>3 DEF GoodQuery, Query
  <2>2. CASE Result(w, k, [c EXCEPT !.ok = FALSE]) /\ UNCHANGED msg  BY <2>2 DEF StoredOrNot
  <2>3. CASE ~(Result(w, k, [c EXCEPT !.ok = FALSE]) /\ UNCHANGED msg)
    BY <1>1, <1>2, <1>4, <1>5, <2>1, <2>3 DEF StoredOrNot
  <2>4. QED  BY <2>2, <2>3
<1>8. PICK cmd : cmd = [c EXCEPT !.ok = b]  OBVIOUS
<1>9. cmd \in GoodQuery /\ SameQuery(cmd, Executed(w, k)) /\ Result(w, k, cmd)
  BY <1>2, <1>3, <1>7, <1>8 DEF GoodQuery, Query, SameQuery
<1>10. PICK p : p = pipe[w]  OBVIOUS
<1>11. PICK q : q = Answered(p[k], cmd)  OBVIOUS
<1>12. PICK s : s = [p EXCEPT ![k] = q]  OBVIOUS
<1>13. PICK ch : ch = p[k]  OBVIOUS
<1>14. /\ Step(ch, "insert_msg", cmd, q) /\ pipe'[w] = s /\ ch \in Chains /\ q \in Chains /\ ~ub
       /\ c = ch.cmds[ch.done + 1]
  BY <1>1, <1>2, <1>9, <1>10, <1>11, <1>12, <1>13, ExecutesStep
<1>15. p \in Seq(Chains) /\ s \in Seq(Chains) /\ k \in 1 .. Len(p)
  BY <1>10, <1>14, LenProperties DEF Types
<1>16. /\ Backed(p, token, msg, sent) /\ Filled(token, posted, task[w])
       /\ InBalance(p, token, row, msg, cached, task[w], doubt)
  BY <1>10, <1>14, EqualFacts
<1>17. /\ \A v : ~Awaits(q, v)
       /\ \A v : Awaits(ch, v) <=> v = t
       /\ c = ch.cmds[3]
  BY <1>4, <1>14, InsertAwaits
<1>18. sent[t] # 0 /\ f = token[t].files /\ \A m \in Msgs : msg[m].token # t
  BY <1>5, <1>6, <1>13, <1>15, <1>16, <1>17 DEF Backed, Sure
<1>19. Waiting(p, t) /\ ~Waiting(s, t)
  <2>1. \A j \in 1 .. Len(p) : Awaits(p[j], t) => j = k  BY <1>6, <1>13, <1>15, <1>16, <1>17 DEF Backed
  <2>2. ~Awaits(q, t)  BY <1>17
  <2>3. ~Waiting(s, t)  BY <1>12, <1>14, <1>15, <2>1, <2>2, WaitingReplace
  <2>4. QED  BY <1>13, <1>15, <1>17, <2>3 DEF Waiting
<1>20. ASSUME NEW v \in Tokens, v # t
       PROVE  /\ Waiting(s, v) <=> Waiting(p, v)
              /\ (\E m \in Msgs : msg'[m].token = v) <=> (\E m \in Msgs : msg[m].token = v)
  <2>1. Waiting(s, v) <=> Waiting(p, v)  BY <1>12, <1>13, <1>14, <1>15, <1>17, <1>20, WaitingReplace
  <2>2. CASE msg' = msg  BY <2>1, <2>2
  <2>3. ASSUME NEW m \in Msgs, msg[m].life = "none",
               msg' = [msg EXCEPT ![m] = [life |-> "live", token |-> t, files |-> f]]
        PROVE  \A l \in Msgs : msg'[l].token = v <=> msg[l].token = v
    BY <1>16, <1>20, <2>3, NoneAssumption DEF Backed, MsgsSent, Types
  <2>4. QED  BY <1>7, <2>1, <2>2, <2>3 DEF StoredOrNot
<1>21. OthersKept(p, token, msg, s, token, msg', t)  BY <1>20, UnderwayIs DEF OthersKept
<1>22. Backed(s, token, msg', sent)
  <2>1. Moved(p, s, 0)  BY <1>12, <1>13, <1>14, <1>15, <1>17, MovedReplace DEF Follows
  <2>2. Spared(s, token, msg, sent, token, msg', sent)  BY <1>19, <1>20 DEF Spared
  <2>3. MsgsSent(msg', sent)
    <3>1. CASE msg' = msg  BY <1>16, <3>1 DEF Backed
    <3>2. ASSUME NEW m \in Msgs,
                 msg' = [msg EXCEPT ![m] = [life |-> "live", token |-> t, files |-> f]]
          PROVE  MsgsSent(msg', sent)
      BY <1>16, <1>18, <3>2 DEF Types, Backed, MsgsSent
    <3>3. QED  BY <1>7, <3>1, <3>2 DEF StoredOrNot
  <2>4. QED  BY <1>15, <1>16, <2>1, <2>2, <2>3, BackedStep, LenProperties
<1>23. ASSUME NEW h \in Hashes \ doubt
       PROVE  Balanced(s, h, Refs(msg', cached, h), row[h], Size(KeptFiles(s, token, msg', h)),
                       Taken(task[w], h))
  <2>1. PICK m1 \in Nat : m1 = Size(MsgFiles(msg, h))  BY MsgFamily DEF Types
  <2>2. PICK m2 \in Nat : m2 = Size(MsgFiles(msg', h))  BY MsgFamily DEF Types
  <2>3. PICK z \in Nat : z = Size(Pictures(cached, h))  BY PictureFamily
  <2>4. PICK r \in Nat : r = row[h]  BY DEF Types
  <2>5. PICK x \in Nat : x = Cardinality(Where(f, h))  BY <1>6, FilesFinite
  <2>6. PICK g1 \in Nat : g1 = Size(KeptFiles(p, token, msg, h))  BY KeptFamily DEF Types
  <2>7. PICK g2 \in Nat : g2 = Size(KeptFiles(s, token, msg', h))  BY KeptFamily DEF Types
  <2>8. PICK y \in Nat : y = Taken(task[w], h)  BY TakenNat
  <2>9. m2 + g2 = m1 + g1 + x
    <3>1. PICK ms2 : ms2 = msg'  OBVIOUS
    <3>2. token \in [Tokens -> GoodToken] /\ msg \in [Msgs -> Msg] /\ ms2 \in [Msgs -> Msg]
      BY <3>1 DEF Types
    <3>3. StoredOrNot(msg, ms2, t, f) /\ OthersKept(p, token, msg, s, token, ms2, t)
      BY <1>7, <1>21, <3>1
    <3>4. Size(MsgFiles(ms2, h)) + Size(KeptFiles(s, token, ms2, h))
            = Size(MsgFiles(msg, h)) + Size(KeptFiles(p, token, msg, h)) + Cardinality(Where(f, h))
      BY <1>6, <1>18, <1>19, <3>2, <3>3, StoredOrKept
    <3>5. QED  BY <2>1, <2>2, <2>5, <2>6, <2>7, <3>1, <3>4
  <2>10. Refs(msg, cached, h) = m1 + z /\ Refs(msg', cached, h) = m2 + z
    BY <2>1, <2>2, <2>3 DEF Refs
  <2>11. /\ Cardinality(Owed(q, h)) = 0 /\ Cardinality(Due(q, h)) = 0
         /\ Cardinality(Owed(p[k], h)) = 0 /\ Cardinality(Due(p[k], h)) = x
         /\ Cardinality(Coming(p[k], h)) = 0 /\ Cardinality(Coming(q, h)) = 0
    BY <1>5, <1>13, <1>14, <2>5, EmptyCardinality, InsertMsgDemand
  <2>12. PICK a1 \in Nat : a1 = m1 + z  OBVIOUS
  <2>13. PICK a2 \in Nat : a2 = m2 + z  OBVIOUS
  <2>14. a2 + Cardinality(Owed(q, h)) + Cardinality(Due(q, h)) + g2 + r + Cardinality(Coming(p[k], h))
           = a1 + Cardinality(Owed(p[k], h)) + Cardinality(Due(p[k], h)) + g1 + r
               + Cardinality(Coming(q, h))
    BY <2>9, <2>11, <2>12, <2>13
  <2>15. Balanced(p, h, a1, r, g1, y)  BY <1>16, <2>4, <2>6, <2>8, <2>10, <2>12 DEF InBalance
  <2>16. Balanced(s, h, a2, r, g2, y)
    BY <1>12, <1>14, <1>15, <2>14, <2>15, BalancedReplace
  <2>17. QED  BY <2>4, <2>7, <2>8, <2>10, <2>13, <2>16
<1>24. /\ pipe'[w] = s /\ token' = token /\ sent' = sent /\ posted' = posted /\ task'[w] = task[w]
       /\ cached' = cached /\ doubt' = doubt /\ row' = row
  BY <1>14 DEF db_async_insert_group_msg, hist, fault
<1>25. QED  BY <1>16, <1>22, <1>23, <1>24, EqualConcludes DEF InBalance

-----------------------------------------------------------------------------
(* Handlers keep the balance.                                                *)

LEMMA UsesFreedEqual == UsesFreed => EqualInv'
BY DEF UsesFreed, EqualInv

LEMMA BalancedHeld ==
  ASSUME NEW p \in Seq(Chains), NEW h, NEW a \in Nat, NEW r \in Nat, NEW g \in Nat, NEW c \in Nat,
         NEW g2 \in Nat, NEW c2 \in Nat, Balanced(p, h, a, r, g, c), g2 + c = g + c2
  PROVE  Balanced(p, h, a, r, g2, c2)
<1>1. PICK n \in Nat : n = Len(p)  BY LenProperties
<1>2. PICK o \in Nat : o = Size(OwedIn(p, h))  BY QueueFamilies
<1>3. PICK d \in Nat : d = Size(DueIn(p, h, n))  BY QueueFamilies
<1>4. PICK e \in Nat : e = Size(ComingIn(p, h, n))  BY QueueFamilies
<1>5. a + o + d + g = r + e + c  BY <1>1, <1>2, <1>3, <1>4 DEF Balanced
<1>6. a + o + d + g2 = r + e + c2  BY <1>5
<1>7. QED  BY <1>1, <1>2, <1>3, <1>4, <1>6 DEF Balanced

(* No query.                                                                 *)
LEMMA HoldingEqual ==
  ASSUME Types, Types', EqualInv, OneWorker, ~ub, NEW w \in Workers,
         UNCHANGED <<pipe, row, msg, cached, sent, doubt>>, Filled(token', posted', task'[w]),
         Spared(pipe[w], token, msg, sent, token', msg, sent),
         AllHeld(pipe[w], token, token', msg, task[w], task'[w])
  PROVE  EqualInv'
<1>1. PICK p \in Seq(Chains) : p = pipe[w]  BY DEF Types
<1>2. Backed(p, token, msg, sent) /\ InBalance(p, token, row, msg, cached, task[w], doubt)
  BY <1>1, EqualFacts
<1>3. PICK tk \in [Tokens -> GoodToken] : tk = token'  BY DEF Types
<1>4. PICK x2 : x2 = task'[w]  OBVIOUS
<1>5. Backed(p, tk, msg, sent)  BY <1>1, <1>2, <1>3, MovedSame, LenProperties, BackedStep DEF Backed
<1>6. ASSUME NEW h \in Hashes \ doubt
      PROVE  Balanced(p, h, Refs(msg, cached, h), row[h], Size(KeptFiles(p, tk, msg, h)), Taken(x2, h))
  <2>1. PICK g \in Nat : g = Size(KeptFiles(p, token, msg, h))  BY KeptFamily DEF Types
  <2>2. PICK g2 \in Nat : g2 = Size(KeptFiles(p, tk, msg, h))  BY KeptFamily
  <2>3. PICK a \in Nat : a = Refs(msg, cached, h)  BY RefsNat DEF Types
  <2>4. PICK r \in Nat : r = row[h]  BY DEF Types
  <2>5. PICK c \in Nat : c = Taken(task[w], h)  BY TakenNat
  <2>6. PICK c2 \in Nat : c2 = Taken(x2, h)  BY TakenNat
  <2>7. g2 + c = g + c2  BY <1>1, <1>3, <1>4, <2>1, <2>2, <2>5, <2>6 DEF AllHeld, Keeps
  <2>8. Balanced(p, h, a, r, g2, c2)
    BY <1>2, <2>1, <2>3, <2>4, <2>5, <2>7, BalancedHeld DEF InBalance
  <2>9. QED  BY <2>2, <2>3, <2>4, <2>6, <2>8
<1>7. pipe'[w] = p /\ row' = row /\ msg' = msg /\ cached' = cached /\ sent' = sent /\ doubt' = doubt
  BY <1>1
<1>8. QED  BY <1>3, <1>4, <1>5, <1>6, <1>7, EqualConcludes DEF InBalance

LEMMA SameFilesSpared ==
  ASSUME NEW p, NEW tk, NEW tk2, NEW ms, NEW s, SameFiles(tk, tk2)
  PROVE  Spared(p, tk, ms, s, tk2, ms, s)
BY DEF SameFiles, Spared

LEMMA SameFilesHeld ==
  ASSUME NEW tk \in [Tokens -> GoodToken], NEW tk2, NEW p, NEW ms, NEW x, NEW x2,
         SameFiles(tk, tk2), \A h \in Hashes : Taken(x2, h) = Taken(x, h)
  PROVE  AllHeld(p, tk, tk2, ms, x, x2)
<1>1. ASSUME NEW h \in Hashes
      PROVE  Keeps(Size(KeptFiles(p, tk, ms, h)), Taken(x, h),
                   Size(KeptFiles(p, tk2, ms, h)), Taken(x2, h))
  BY KeptSame, KeptFamily, TakenNat DEF AllKept, SameFiles, Keeps
<1>2. QED  BY <1>1 DEF AllHeld

LEMMA TokenEqual ==
  ASSUME Types, Types', FilesInv, EqualInv, OneWorker, NEW w \in Workers, NEW t \in Tokens,
         server_new_upload_token(w, t) \/ timer_ut(w, t)
  PROVE  EqualInv'
<1>1. ~ub /\ UNCHANGED <<pipe, row, msg, cached, sent, doubt, task, posted>>
  BY DEF server_new_upload_token, timer_ut, Free, db, hist, fault
<1>2. Fresh(token)  BY <1>1 DEF FilesInv
<1>3. token \in [Tokens -> GoodToken]  BY DEF Types
<1>4. \A v \in Tokens : v # t => token'[v] = token[v]
  BY <1>3 DEF server_new_upload_token, timer_ut
<1>5. /\ token'[t].files = token[t].files
      /\ token'[t].life = "live" => token'[t].files = NoFiles
  <2>1. CASE timer_ut(w, t)  BY <1>3, <2>1 DEF timer_ut, GoodToken, Token
  <2>2. CASE server_new_upload_token(w, t)
    BY <1>2, <1>3, <2>2 DEF Fresh, server_new_upload_token, GoodToken, Token
  <2>3. QED  BY <2>1, <2>2
<1>6. SameFiles(token, token')  BY <1>4, <1>5 DEF SameFiles
<1>7. \A i \in Index : NoFiles[i] = None  BY DEF NoFiles
<1>8. Filled(token', posted', task'[w])  BY <1>1, <1>4, <1>5, <1>7, EqualFacts DEF Filled
<1>9. PICK p : p = pipe[w]  OBVIOUS
<1>10. PICK tk : tk = token'  OBVIOUS
<1>11. Spared(p, token, msg, sent, tk, msg, sent)  BY <1>6, <1>10, SameFilesSpared
<1>12. PICK x : x = task[w]  OBVIOUS
<1>13. AllHeld(p, token, tk, msg, x, x)  BY <1>3, <1>6, <1>10, SameFilesHeld
<1>14. task'[w] = x  BY <1>1, <1>12
<1>15. QED  BY <1>1, <1>8, <1>9, <1>10, <1>11, <1>12, <1>13, <1>14, HoldingEqual

LEMMA PostAttachEqual ==
  ASSUME Types, Types', EqualInv, OneWorker, NEW w \in Workers, NEW t \in Tokens, NEW i \in Index,
         NEW f \in Hashes, PostAttach(w, t, i, f)
  PROVE  EqualInv'
<1>1. /\ ~ub /\ UNCHANGED <<pipe, row, msg, cached, sent, doubt>> /\ token' = token /\ task[w] = Idle
      /\ token[t].life = "live" /\ i \notin posted[t]
  BY DEF PostAttach, Free, db, fault
<1>2. task'[w].step = "save" /\ task'[w].token = t /\ task'[w].index = i
  BY DEF Idle, PostAttach, Types
<1>3. posted'[t] = posted[t] \cup {i} /\ \A v \in Tokens : v # t => posted'[v] = posted[v]
  BY DEF PostAttach, Types
<1>4. Filled(token, posted, task[w])  BY <1>1, EqualFacts
<1>5. Filled(token', posted', task'[w])
  <2>1. ASSUME NEW v \in Tokens, NEW j \in Index, token[v].life = "live", token[v].files[j] # None
        PROVE  j \in posted'[v] /\ ~(v = t /\ j = i)
    BY <1>1, <1>3, <1>4, <2>1 DEF Filled
  <2>2. QED  BY <1>1, <1>2, <1>3, <2>1 DEF Filled
<1>6. PICK p : p = pipe[w]  OBVIOUS
<1>7. SameFiles(token, token)  BY DEF SameFiles
<1>8. Spared(p, token, msg, sent, token, msg, sent)  BY <1>7, SameFilesSpared
<1>9. PICK x : x = task[w]  OBVIOUS
<1>10. PICK x2 : x2 = task'[w]  OBVIOUS
<1>11. \A h \in Hashes : Taken(x2, h) = Taken(x, h)  BY <1>1, <1>2, <1>9, <1>10, IdleTakes DEF Taken
<1>12. AllHeld(p, token, token, msg, x, x2)  BY <1>7, <1>11, SameFilesHeld DEF Types
<1>13. QED  BY <1>1, <1>5, <1>6, <1>8, <1>9, <1>10, <1>12, HoldingEqual

(* A token whose message was not sent has none.                              *)
LEMMA NotSent ==
  ASSUME NEW p, NEW tk, NEW ms, NEW s, Backed(p, tk, ms, s), NEW t \in Tokens, s[t] = 0
  PROVE  ~Waiting(p, t) /\ (\A m \in Msgs : ms[m].token # t) /\ ~Underway(p, ms, t)
<1>1. ~Waiting(p, t)  BY DEF Backed, Waiting, Sure
<1>2. QED  BY <1>1, UnderwayIs DEF Backed, MsgsSent

(* The task's token: its message was not sent.                               *)
LEMMA TaskNotSent ==
  ASSUME Types, Counts, ~ub, NEW w \in Workers, NEW t \in Tokens, t = task[w].token
  PROVE  sent[t] = 0
BY DEF Sound, Counts

(* A place that was free is filled.                                          *)
LEMMA WhereFilled ==
  ASSUME NEW g \in [Index -> Hash], NEW i \in Index, g[i] = None, NEW f \in Hashes, NEW h \in Hashes,
         NEW g2, g2 = [g EXCEPT ![i] = f]
  PROVE  Cardinality(Where(g2, h)) = Cardinality(Where(g, h)) + (IF f = h THEN 1 ELSE 0)
<1>1. PICK S : S = Where(g, h)  OBVIOUS
<1>2. IsFiniteSet(S) /\ Cardinality(S) \in Nat  BY <1>1, FilesFinite
<1>3. h # None  BY NoneAssumption
<1>4. i \notin S  BY <1>1, <1>3 DEF Where
<1>5. CASE f = h
  <2>1. Where(g2, h) = S \cup {i}  BY <1>1, <1>5 DEF Where
  <2>2. Cardinality(S \cup {i}) = Cardinality(S) + 1  BY <1>2, <1>4, FS_AddElement
  <2>3. QED  BY <1>1, <1>5, <2>1, <2>2
<1>6. CASE f # h
  <2>1. Where(g2, h) = S  BY <1>1, <1>3, <1>6 DEF Where
  <2>2. QED  BY <1>1, <1>2, <1>6, <2>1
<1>7. QED  BY <1>5, <1>6

LEMMA SaveAttachEqual ==
  ASSUME Types, Types', Counts, EqualInv, OneWorker, NEW w \in Workers, SaveAttach(w)
  PROVE  EqualInv'
<1>1. CASE UsesFreed  BY <1>1, UsesFreedEqual
<1>2. CASE ~UsesFreed
  <2>1. PICK t : t = task[w].token  OBVIOUS
  <2>2. /\ ~ub /\ task[w].step = "save" /\ token[t].life = "live"
        /\ token' = [token EXCEPT ![t] =
                       [@ EXCEPT !.files = [token[t].files EXCEPT ![task[w].index] = task[w].hash]]]
        /\ task' = [task EXCEPT ![w] = [@ EXCEPT !.step = "count", !.read = token[t].current]]
        /\ UNCHANGED <<pipe, row, msg, cached, sent, doubt, posted>>
    BY <1>2, <2>1 DEF SaveAttach, db, hist, fault
  <2>3. PICK f : f = task[w].hash  OBVIOUS
  <2>4. PICK i : i = task[w].index  OBVIOUS
  <2>5. t \in Tokens /\ f \in Hashes /\ i \in Index /\ task[w] \in Task
    BY <2>1, <2>2, <2>3, <2>4, TaskFacts
  <2>6. token \in [Tokens -> GoodToken] /\ token[t].files \in [Index -> Hash]
    BY <2>5 DEF Types, GoodToken, Token
  <2>7. token'[t].files = [token[t].files EXCEPT ![i] = f] /\ token'[t].life = "live"
    BY <2>2, <2>3, <2>4, <2>5, <2>6 DEF GoodToken, Token
  <2>8. \A v \in Tokens : v # t => token'[v] = token[v]  BY <2>2, <2>5, <2>6
  <2>9. task'[w].step = "count" /\ task'[w].hash = f  BY <2>2, <2>3, <2>5 DEF Task, Types
  <2>10. Filled(token, posted, task[w]) /\ Backed(pipe[w], token, msg, sent)  BY <2>2, EqualFacts
  <2>11. token[t].files[i] = None /\ i \in posted[t]
    BY <2>1, <2>2, <2>4, <2>5, <2>10 DEF Filled
  <2>12. Filled(token', posted', task'[w])
    <3>1. ASSUME NEW v \in Tokens, NEW j \in Index, token'[v].life = "live", token'[v].files[j] # None
          PROVE  j \in posted[v]
      <4>1. CASE v # t  BY <2>8, <2>10, <3>1, <4>1 DEF Filled
      <4>2. CASE v = t /\ j = i  BY <2>11, <4>2
      <4>3. CASE v = t /\ j # i  BY <2>2, <2>5, <2>6, <2>7, <2>10, <3>1, <4>3 DEF Filled
      <4>4. QED  BY <4>1, <4>2, <4>3
    <3>2. QED  BY <2>2, <2>9, <3>1 DEF Filled
  <2>13. PICK p : p = pipe[w]  OBVIOUS
  <2>14. PICK tk \in [Tokens -> GoodToken] : tk = token'  BY DEF Types
  <2>15. ~Waiting(p, t) /\ ~Underway(p, msg, t)
    BY <2>1, <2>2, <2>5, <2>10, <2>13, NotSent, TaskNotSent
  <2>16. Spared(p, token, msg, sent, tk, msg, sent)  BY <2>8, <2>14, <2>15 DEF Spared
  <2>17. PICK x2 : x2 = task'[w]  OBVIOUS
  <2>18. ASSUME NEW h \in Hashes
         PROVE  Keeps(Size(KeptFiles(p, token, msg, h)), Taken(task[w], h),
                      Size(KeptFiles(p, tk, msg, h)), Taken(x2, h))
    <3>1. PICK g \in Nat : g = Size(KeptFiles(p, token, msg, h))  BY <2>6, KeptFamily
    <3>2. PICK g2 \in Nat : g2 = Size(KeptFiles(p, tk, msg, h))  BY KeptFamily
    <3>3. PICK e \in Nat : e = IF f = h THEN 1 ELSE 0  OBVIOUS
    <3>4. Exchanged(KeptFiles(p, token, msg, h), KeptFiles(p, tk, msg, h), t)
      BY <2>5, <2>6, <2>8, <2>14, KeptChanged DEF OthersKept
    <3>5. PICK b \in Nat : b = Cardinality(Where(token[t].files, h))  BY <2>6, FilesFinite
    <3>6. Cardinality(Where(tk[t].files, h)) = b + e
      BY <2>5, <2>6, <2>7, <2>11, <2>14, <3>3, <3>5, WhereFilled
    <3>7. g2 + b = g + (b + e)  BY <2>5, <2>15, <3>1, <3>2, <3>4, <3>5, <3>6 DEF Exchanged, KeptFiles
    <3>8. g2 + 0 = g + e  BY <3>7
    <3>9. QED  BY <2>2, <2>9, <2>17, <3>1, <3>2, <3>3, <3>8 DEF Keeps, Taken
  <2>19. AllHeld(p, token, tk, msg, task[w], x2)  BY <2>18 DEF AllHeld
  <2>20. QED  BY <2>2, <2>12, <2>13, <2>14, <2>16, <2>17, <2>19, HoldingEqual
<1>3. QED  BY <1>1, <1>2

LEMMA CountAttachEqual ==
  ASSUME Types, Types', EqualInv, OneWorker, NEW w \in Workers, CountAttach(w)
  PROVE  EqualInv'
<1>1. CASE UsesFreed  BY <1>1, UsesFreedEqual
<1>2. CASE ~UsesFreed
  <2>1. PICK t : t = task[w].token  OBVIOUS
  <2>2. /\ ~ub /\ task[w].step = "count" /\ token[t].life = "live"
        /\ token' = [token EXCEPT ![t] = [@ EXCEPT !.current = task[w].read + 1]]
        /\ task' = [task EXCEPT ![w] = [@ EXCEPT !.step = "test"]]
        /\ UNCHANGED <<pipe, row, msg, cached, sent, doubt, posted>>
    BY <1>2, <2>1 DEF CountAttach, db, hist, fault
  <2>3. t \in Tokens /\ task[w] \in Task  BY <2>1, <2>2, TaskFacts
  <2>4. token \in [Tokens -> GoodToken]  BY DEF Types
  <2>5. token'[t].files = token[t].files /\ token'[t].life = token[t].life
    BY <2>2, <2>3, <2>4 DEF GoodToken, Token
  <2>6. \A v \in Tokens : token'[v].files = token[v].files /\ token'[v].life = token[v].life
    BY <2>2, <2>3, <2>4, <2>5
  <2>7. task'[w].step = "test" /\ task'[w].hash = task[w].hash  BY <2>2, <2>3 DEF Task, Types
  <2>8. Filled(token', posted', task'[w])  BY <2>2, <2>6, <2>7, EqualFacts DEF Filled
  <2>9. PICK p : p = pipe[w]  OBVIOUS
  <2>10. PICK tk : tk = token'  OBVIOUS
  <2>11. SameFiles(token, tk)  BY <2>6, <2>10 DEF SameFiles
  <2>12. Spared(p, token, msg, sent, tk, msg, sent)  BY <2>11, SameFilesSpared
  <2>13. PICK x : x = task[w]  OBVIOUS
  <2>14. PICK x2 : x2 = task'[w]  OBVIOUS
  <2>15. AllHeld(p, token, tk, msg, x, x2)
    BY <2>2, <2>4, <2>7, <2>11, <2>13, <2>14, SameFilesHeld DEF Taken
  <2>16. QED  BY <2>2, <2>8, <2>9, <2>10, <2>12, <2>13, <2>14, <2>15, HoldingEqual
<1>3. QED  BY <1>1, <1>2

LEMMA QueuesEqual ==
  ASSUME Types, Types', EqualInv, OneWorker, ~ub, NEW w \in Workers, NEW ch \in Chains,
         pipe'[w] = Append(pipe[w], ch), UNCHANGED <<row, msg, cached, doubt>>,
         Filled(token', posted', task'[w]), Backed(pipe[w], token', msg, sent'),
         Joins(ch, pipe[w], token', msg, sent'),
         AllCharged(ch, pipe[w], pipe'[w], token, token', msg, task[w], task'[w])
  PROVE  EqualInv'
<1>1. PICK p \in Seq(Chains) : p = pipe[w]  BY DEF Types
<1>2. PICK q : q = Append(p, ch)  OBVIOUS
<1>3. PICK tk \in [Tokens -> GoodToken] : tk = token'  BY DEF Types
<1>4. PICK x2 : x2 = task'[w]  OBVIOUS
<1>5. PICK s2 : s2 = sent'  OBVIOUS
<1>6. Backed(q, tk, msg, s2)  BY <1>1, <1>2, <1>3, <1>5, BackedAppend
<1>7. AllCharged(ch, p, q, token, tk, msg, task[w], x2)  BY <1>1, <1>2, <1>3, <1>4
<1>8. ASSUME NEW h \in Hashes \ doubt
       PROVE  Balanced(q, h, Refs(msg, cached, h), row[h], Size(KeptFiles(q, tk, msg, h)), Taken(x2, h))
  <2>1. PICK g \in Nat : g = Size(KeptFiles(p, token, msg, h))  BY KeptFamily DEF Types
  <2>2. PICK g2 \in Nat : g2 = Size(KeptFiles(q, tk, msg, h))  BY KeptFamily
  <2>3. PICK a \in Nat : a = Refs(msg, cached, h)  BY RefsNat DEF Types
  <2>4. PICK r \in Nat : r = row[h]  BY DEF Types
  <2>5. PICK c \in Nat : c = Taken(task[w], h)  BY TakenNat
  <2>6. PICK c2 \in Nat : c2 = Taken(x2, h)  BY TakenNat
  <2>7. Balanced(p, h, a, r, g, c)  BY <1>1, <2>1, <2>3, <2>4, <2>5, EqualFacts DEF InBalance
  <2>8. PICK o \in Nat : o = Cardinality(Owed(ch, h))  BY ChainFinite
  <2>9. PICK d \in Nat : d = Cardinality(Due(ch, h))  BY ChainFinite
  <2>10. PICK e \in Nat : e = Cardinality(Coming(ch, h))  BY ChainFinite
  <2>11. o + d + g2 + c = g + e + c2
    BY <1>7, <2>1, <2>2, <2>5, <2>6, <2>8, <2>9, <2>10 DEF AllCharged, Charges
  <2>12. a + o + d + g2 + c = a + g + e + c2
    <3>1. a + (o + d + g2 + c) = a + (g + e + c2)  BY <2>11
    <3>2. QED  BY <3>1, SMTT(30)
  <2>13. Balanced(q, h, a, r, g2, c2)
    BY <1>2, <2>7, <2>8, <2>9, <2>10, <2>12, BalancedAppend
  <2>14. QED  BY <2>2, <2>3, <2>4, <2>6, <2>13
<1>9. pipe'[w] = q /\ row' = row /\ msg' = msg /\ cached' = cached /\ doubt' = doubt
  BY <1>1, <1>2
<1>10. QED  BY <1>3, <1>4, <1>5, <1>6, <1>8, <1>9, EqualConcludes DEF InBalance

LEMMA PlainJoins ==
  ASSUME NEW ch, AwaitsNone(ch), NEW p, NEW tk, NEW ms, NEW s
  PROVE  Joins(ch, p, tk, ms, s)
BY DEF AwaitsNone, Joins

LEMMA PlainKept ==
  ASSUME NEW p \in Seq(Chains), NEW ch \in Chains, AwaitsNone(ch), NEW q, q = Append(p, ch),
         NEW tk, NEW tk2, SameFiles(tk, tk2), NEW ms
  PROVE  AllKept(p, tk, ms, q, tk2, ms)
<1>1. ASSUME NEW v \in Tokens PROVE Underway(q, ms, v) <=> Underway(p, ms, v)
  BY WaitingAppend, UnderwayIs DEF AwaitsNone
<1>2. QED  BY <1>1 DEF AllKept, SameFiles

LEMMA BackedSameFiles ==
  ASSUME NEW p \in Seq(Chains), NEW tk, NEW tk2, NEW ms, NEW s, Backed(p, tk, ms, s), SameFiles(tk, tk2)
  PROVE  Backed(p, tk2, ms, s)
<1>1. MsgsSent(ms, s)  BY DEF Backed
<1>2. Len(p) \in Nat  BY LenProperties
<1>3. Spared(p, tk, ms, s, tk2, ms, s)  BY SameFilesSpared
<1>4. QED  BY <1>1, <1>2, <1>3, BackedStep, MovedSame

LEMMA PlainQueues ==
  ASSUME Types, Types', EqualInv, OneWorker, ~ub, NEW w \in Workers, NEW ch \in Chains, AwaitsNone(ch),
         pipe'[w] = Append(pipe[w], ch), UNCHANGED <<row, msg, cached, doubt, sent>>,
         Filled(token', posted', task'[w]), SameFiles(token, token'),
         \A h \in Hashes : Pays(ch, h, Taken(task[w], h), Taken(task'[w], h))
  PROVE  EqualInv'
<1>1. PICK p \in Seq(Chains) : p = pipe[w]  BY DEF Types
<1>2. PICK q : q = Append(p, ch)  OBVIOUS
<1>3. PICK tk : tk = token'  OBVIOUS
<1>4. PICK x2 : x2 = task'[w]  OBVIOUS
<1>5. SameFiles(token, tk) /\ Backed(p, token, msg, sent)  BY <1>1, <1>3, EqualFacts
<1>6. Backed(p, tk, msg, sent)  BY <1>5, BackedSameFiles
<1>7. Joins(ch, p, tk, msg, sent)  BY PlainJoins
<1>8. ASSUME NEW h \in Hashes
      PROVE  Charges(ch, h, Size(KeptFiles(p, token, msg, h)), Taken(task[w], h),
                     Size(KeptFiles(q, tk, msg, h)), Taken(x2, h))
  <2>1. KeptFiles(q, tk, msg, h) = KeptFiles(p, token, msg, h)
    <3>1. q = Append(p, ch) /\ SameFiles(token, tk)  BY <1>2, <1>5
    <3>2. AwaitsNone(ch) /\ ch \in Chains /\ p \in Seq(Chains)  OBVIOUS
    <3>3. AllKept(p, token, msg, q, tk, msg)  BY <3>1, <3>2, PlainKept
    <3>4. QED  BY <3>3, KeptSame
  <2>2. PICK g \in Nat : g = Size(KeptFiles(p, token, msg, h))  BY KeptFamily DEF Types
  <2>3. PICK c \in Nat : c = Taken(task[w], h)  BY TakenNat
  <2>4. PICK c2 \in Nat : c2 = Taken(x2, h)  BY TakenNat
  <2>5. PICK d \in Nat : d = Cardinality(Due(ch, h))  BY ChainFinite
  <2>6. PICK e \in Nat : e = Cardinality(Coming(ch, h))  BY ChainFinite
  <2>7. Cardinality(Owed(ch, h)) = 0  BY EmptyCardinality DEF Pays
  <2>8. 0 + d + g + c = g + e + c2
    <3>1. (d + c) + g = (e + c2) + g  BY <1>4, <2>3, <2>4, <2>5, <2>6 DEF Pays
    <3>2. QED  BY <3>1, SMTT(30)
  <2>9. QED  BY <2>1, <2>2, <2>3, <2>4, <2>5, <2>6, <2>7, <2>8 DEF Charges
<1>9. AllCharged(ch, p, q, token, tk, msg, task[w], x2)  BY <1>8 DEF AllCharged
<1>10. pipe'[w] = q /\ sent' = sent  BY <1>1, <1>2
<1>11. QED  BY <1>1, <1>3, <1>4, <1>6, <1>7, <1>9, <1>10, QueuesEqual

LEMMA ShortAwaitsNone ==
  ASSUME NEW ch, ~Ends(ch, "insert_msg")
  PROVE  AwaitsNone(ch)
BY DEF AwaitsNone, Awaits

(* A chain that will count nothing has no message.                           *)
LEMMA NothingComing ==
  ASSUME NEW ch \in Chains, Shape(ch), ch.done = 0, \A h : Coming(ch, h) = {}
  PROVE  AwaitsNone(ch)
<1>1. ch.cmds[1].op # "insert_file"  BY DEF Coming
<1>2. ~Ends(ch, "insert_msg")  BY <1>1 DEF Shape, Ends
<1>3. QED  BY <1>2, ShortAwaitsNone

LEMMA AskEqual ==
  ASSUME Types, Types', EqualInv, OneWorker, NEW w \in Workers,
         (\E m \in Msgs : server_delete_group_msg(w, m)) \/ db_async_delete_group(w)
  PROVE  EqualInv'
<1>1. /\ ~ub /\ task[w] = Idle /\ UNCHANGED <<row, msg, cached, doubt, sent>>
      /\ UNCHANGED <<token, posted, task>>
  BY DEF server_delete_group_msg, db_async_delete_group, Free, db, hist, fault
<1>2. PICK ch \in Chains :
        /\ Shape(ch) /\ ch.done = 0 /\ pipe'[w] = Append(pipe[w], ch)
        /\ \A h : Owed(ch, h) = {} /\ Due(ch, h) = {} /\ Coming(ch, h) = {}
  <2>1. CASE \E m \in Msgs : server_delete_group_msg(w, m)
    BY <2>1, QueuesChain, DeleteChain DEF server_delete_group_msg
  <2>2. CASE db_async_delete_group(w)
    BY <2>2, QueuesChain, DeleteGroupChain DEF db_async_delete_group
  <2>3. QED  BY <2>1, <2>2
<1>3. Filled(token', posted', task'[w])  BY <1>1, EqualFacts
<1>4. SameFiles(token, token')  BY <1>1 DEF SameFiles
<1>5. ASSUME NEW h \in Hashes PROVE Pays(ch, h, Taken(task[w], h), Taken(task'[w], h))
  BY <1>1, <1>2, IdleTakes, EmptyCardinality DEF Pays
<1>6. QED  BY <1>1, <1>2, <1>3, <1>4, <1>5, PlainQueues, NothingComing

(* The third query of a chain that begins by saving a file.                  *)
LEMMA SaveThird ==
  ASSUME NEW f \in Hashes, NEW cmd \in GoodQuery,
         NEW ch, ch = Chain(Append(server_save_file_img(f), cmd))
  PROVE  ch.cmds[3] = cmd /\ Len(ch.cmds) = 3 /\ ch.done = 0
<1>1. PICK s : s = server_save_file_img(f)  OBVIOUS
<1>2. s \in Seq(GoodQuery) /\ Len(s) = 2  BY <1>1, SaveTypes
<1>3. PICK l : l = Append(s, cmd)  OBVIOUS
<1>4. Len(l) = Len(s) + 1  BY <1>2, <1>3, AppendProperties
<1>5. l[Len(s) + 1] = cmd  BY <1>2, <1>3, AppendProperties
<1>6. Len(l) = 3 /\ l[3] = cmd  BY <1>2, <1>4, <1>5
<1>7. QED  BY <1>1, <1>3, <1>6 DEF Chain

LEMMA SaveAwaitsNone ==
  ASSUME NEW f \in Hashes, NEW ch, ch = Chain(server_save_file_img(f))
  PROVE  AwaitsNone(ch)
<1>1. Len(ch.cmds) = 2  BY SaveTypes DEF Chain
<1>2. QED  BY <1>1, ShortAwaitsNone DEF Ends

LEMMA IdleFilled ==
  ASSUME NEW tk, NEW po, NEW x, Filled(tk, po, x)
  PROVE  Filled(tk, po, Idle)
BY DEF Filled, Idle

LEMMA PostPfpEqual ==
  ASSUME Types, Types', EqualInv, OneWorker, NEW w \in Workers, NEW t \in Tokens, NEW f \in Hashes,
         PostPfp(w, t, f)
  PROVE  EqualInv'
<1>1. PICK cmd : cmd = Cmd("update_pfp", f, token[t].user, NoFiles)  OBVIOUS
<1>2. /\ ~ub /\ task[w] = Idle /\ UNCHANGED <<row, msg, cached, doubt, sent>>
      /\ UNCHANGED <<task, posted>>
      /\ token[t].life = "live" /\ token[t].type = "pfp"
      /\ token' = [token EXCEPT ![t] = [@ EXCEPT !.life = "freed"]]
      /\ Queue(w, Append(server_save_file_img(f), cmd)) \/ UNCHANGED pipe
  BY <1>1 DEF PostPfp, Free, db, hist, fault
<1>3. token \in [Tokens -> GoodToken]  BY DEF Types
<1>4. \A v \in Tokens : v # t => token'[v] = token[v]  BY <1>2, <1>3
<1>5. token'[t].life = "freed" /\ token'[t].files = token[t].files
  BY <1>2, <1>3 DEF GoodToken, Token
<1>6. SameFiles(token, token')  BY <1>4, <1>5 DEF SameFiles
<1>7. Filled(token', posted', task'[w])  BY <1>2, <1>4, <1>5, EqualFacts DEF Filled
<1>8. CASE UNCHANGED pipe
  <2>1. PICK p : p = pipe[w]  OBVIOUS
  <2>2. PICK tk : tk = token'  OBVIOUS
  <2>3. SameFiles(token, tk)  BY <1>6, <2>2
  <2>4. Spared(p, token, msg, sent, tk, msg, sent)  BY <2>3, SameFilesSpared
  <2>5. PICK x : x = task[w]  OBVIOUS
  <2>6. AllHeld(p, token, tk, msg, x, x)  BY <1>3, <2>3, SameFilesHeld
  <2>7. task'[w] = x  BY <1>2, <2>5
  <2>8. QED  BY <1>2, <1>7, <1>8, <2>1, <2>2, <2>4, <2>5, <2>6, <2>7, HoldingEqual
<1>9. CASE Queue(w, Append(server_save_file_img(f), cmd))
  <2>1. token[t].user \in Users  BY <1>2, <1>3 DEF GoodToken
  <2>2. cmd \in GoodQuery /\ cmd.op = "update_pfp"  BY <1>1, <2>1, IndexFacts, CmdTypes DEF Ops, Hash
  <2>3. cmd.hash = f  BY <1>1 DEF Cmd
  <2>4. PICK ch : ch = Chain(Append(server_save_file_img(f), cmd))  OBVIOUS
  <2>5. pipe'[w] = Append(pipe[w], ch)  BY <1>9, <2>4, QueuesChain
  <2>6. /\ ch \in Chains
        /\ \A h : /\ Owed(ch, h) = {} /\ Due(ch, h) = IF cmd.hash = h THEN {3} ELSE {}
                  /\ Coming(ch, h) = IF f = h THEN {1} ELSE {}
    BY <2>2, <2>4, SaveAndChain
  <2>7. AwaitsNone(ch)  BY <2>2, <2>4, SaveThird, ShortAwaitsNone DEF Ends
  <2>8. ASSUME NEW h \in Hashes PROVE Pays(ch, h, Taken(task[w], h), Taken(task'[w], h))
    BY <1>2, <2>3, <2>6, IdleTakes, EmptyCardinality DEF Pays
  <2>9. QED  BY <1>2, <1>6, <1>7, <2>5, <2>6, <2>7, <2>8, PlainQueues
<1>10. QED  BY <1>2, <1>8, <1>9

LEMMA TestAttachEqual ==
  ASSUME Types, Types', Counts, EqualInv, OneWorker, NEW w \in Workers, TestAttach(w)
  PROVE  EqualInv'
<1>1. CASE UsesFreed  BY <1>1, UsesFreedEqual
<1>2. CASE ~UsesFreed
  <2>1. PICK t : t = task[w].token  OBVIOUS
  <2>2. PICK f : f = task[w].hash  OBVIOUS
  <2>3. PICK save : save = server_save_file_img(f)  OBVIOUS
  <2>4. PICK cmd : cmd = Cmd("insert_msg", None, t, token[t].files)  OBVIOUS
  <2>5. /\ ~ub /\ task[w].step = "test" /\ token[t].life = "live"
        /\ \/ Queue(w, Append(save, cmd)) /\ sent' = [sent EXCEPT ![t] = @ + 1]
           \/ Queue(w, save) /\ UNCHANGED sent
        /\ task' = [task EXCEPT ![w] = Idle]
        /\ UNCHANGED <<row, msg, cached, doubt>> /\ UNCHANGED <<token, posted>>
    BY <1>2, <2>1, <2>2, <2>3, <2>4 DEF TestAttach, db, fault
  <2>6. t \in Tokens /\ f \in Hashes  BY <2>1, <2>2, <2>5, TaskFacts
  <2>7. task'[w] = Idle  BY <2>5 DEF Types
  <2>8. \A h \in Hashes : Taken(task'[w], h) = 0  BY <2>7, IdleTakes
  <2>9. Backed(pipe[w], token, msg, sent) /\ Filled(token, posted, task[w])  BY <2>5, EqualFacts
  <2>10. Filled(token', posted', task'[w])  BY <2>5, <2>7, <2>9, IdleFilled
  <2>11. token \in [Tokens -> GoodToken] /\ token[t].files \in [Index -> Hash]
    BY <2>6 DEF Types, GoodToken, Token
  <2>12. \A h : Taken(task[w], h) = IF f = h THEN 1 ELSE 0  BY <2>2, <2>5 DEF Taken
  <2>13. CASE Queue(w, save) /\ UNCHANGED sent
    <3>1. PICK ch : ch = Chain(server_save_file_img(f))  OBVIOUS
    <3>2. pipe'[w] = Append(pipe[w], ch)  BY <2>3, <2>13, <3>1, QueuesChain
    <3>3. /\ ch \in Chains
          /\ \A h : /\ Owed(ch, h) = {} /\ Due(ch, h) = {}
                    /\ Coming(ch, h) = IF f = h THEN {1} ELSE {}
      BY <2>6, <3>1, SaveChain
    <3>4. AwaitsNone(ch)  BY <2>6, <3>1, SaveAwaitsNone
    <3>5. ASSUME NEW h \in Hashes PROVE Pays(ch, h, Taken(task[w], h), Taken(task'[w], h))
      <4>1. PICK e \in Nat : e = IF f = h THEN 1 ELSE 0  OBVIOUS
      <4>2. Cardinality(Due(ch, h)) = 0 /\ Cardinality(Coming(ch, h)) = e /\ Taken(task[w], h) = e
        BY <2>12, <3>3, <4>1, EmptyCardinality
      <4>3. 0 + e = e + 0  OBVIOUS
      <4>4. QED  BY <2>8, <3>3, <4>2, <4>3 DEF Pays
    <3>6. SameFiles(token, token')  BY <2>5 DEF SameFiles
    <3>7. UNCHANGED <<row, msg, cached, doubt, sent>>  BY <2>5, <2>13
    <3>8. QED  BY <2>5, <2>10, <3>2, <3>3, <3>4, <3>5, <3>6, <3>7, PlainQueues
  <2>14. CASE Queue(w, Append(save, cmd)) /\ sent' = [sent EXCEPT ![t] = @ + 1]
    <3>1. cmd \in GoodQuery /\ cmd.op = "insert_msg"
      <4>1. "insert_msg" \in Ops /\ None \in Hash /\ t \in Tokens \cup Users \cup Msgs \cup {None}
        BY <2>6 DEF Ops, Hash
      <4>2. QED  BY <2>4, <2>6, <2>11, <4>1, CmdTypes
    <3>2. cmd.files = token[t].files /\ cmd.arg = t  BY <2>4 DEF Cmd
    <3>3. PICK ch : ch = Chain(Append(server_save_file_img(f), cmd))  OBVIOUS
    <3>4. pipe'[w] = Append(pipe[w], ch)  BY <2>3, <2>14, <3>3, QueuesChain
    <3>5. /\ ch \in Chains
          /\ \A h : /\ Owed(ch, h) = {} /\ Due(ch, h) = Where(cmd.files, h)
                    /\ Coming(ch, h) = IF f = h THEN {1} ELSE {}
      BY <2>6, <3>1, <3>3, SaveAndChain
    <3>6. ch.cmds[3] = cmd /\ Len(ch.cmds) = 3 /\ ch.done = 0  BY <2>6, <3>1, <3>3, SaveThird
    <3>7. \A v : Awaits(ch, v) <=> v = t  BY <3>1, <3>2, <3>6 DEF Awaits, Ends
    <3>8. sent[t] = 0  BY <2>1, <2>5, <2>6, TaskNotSent
    <3>9. sent'[t] = 1 /\ \A v \in Tokens : v # t => sent'[v] = sent[v]
      BY <2>6, <2>14, <3>8 DEF Types
    <3>10. PICK p \in Seq(Chains) : p = pipe[w]  BY DEF Types
    <3>11. PICK q : q = Append(p, ch)  OBVIOUS
    <3>12. PICK s2 : s2 = sent'  OBVIOUS
    <3>13. ~Waiting(p, t) /\ (\A m \in Msgs : msg[m].token # t) /\ ~Underway(p, msg, t)
      BY <2>6, <2>9, <3>8, <3>10, NotSent
    <3>14. Backed(p, token, msg, s2)
      <4>1. MsgsSent(msg, s2)  BY <2>9, <3>9, <3>12 DEF Backed, MsgsSent
      <4>2. Len(p) \in Nat  BY LenProperties
      <4>3. Spared(p, token, msg, sent, token, msg, s2)  BY <3>8, <3>9, <3>12 DEF Spared
      <4>4. Backed(p, token, msg, sent)  BY <2>9, <3>10
      <4>5. QED  BY <4>1, <4>2, <4>3, <4>4, BackedStep, MovedSame
    <3>15. Joins(ch, p, token, msg, s2)  BY <3>2, <3>6, <3>7, <3>9, <3>12, <3>13 DEF Sure, Joins
    <3>16. OthersKept(p, token, msg, q, token, msg, t)
      <4>1. ASSUME NEW v \in Tokens, v # t PROVE Underway(q, msg, v) <=> Underway(p, msg, v)
        BY <3>5, <3>7, <3>11, <4>1, WaitingAppend, UnderwayIs
      <4>2. QED  BY <4>1 DEF OthersKept
    <3>17. Underway(q, msg, t)  BY <3>5, <3>7, <3>11, WaitingAppend, UnderwayIs
    <3>18. ASSUME NEW h \in Hashes
           PROVE  Charges(ch, h, Size(KeptFiles(p, token, msg, h)), Taken(task[w], h),
                          Size(KeptFiles(q, token, msg, h)), Taken(Idle, h))
      <4>1. PICK g \in Nat : g = Size(KeptFiles(p, token, msg, h))  BY <2>11, KeptFamily
      <4>2. PICK g2 \in Nat : g2 = Size(KeptFiles(q, token, msg, h))  BY <2>11, KeptFamily
      <4>3. PICK e \in Nat : e = IF f = h THEN 1 ELSE 0  OBVIOUS
      <4>4. PICK b \in Nat : b = Cardinality(Where(token[t].files, h))  BY <2>11, FilesFinite
      <4>5. Exchanged(KeptFiles(p, token, msg, h), KeptFiles(q, token, msg, h), t)
        BY <2>6, <2>11, <3>16, KeptChanged
      <4>6. /\ KeptFiles(p, token, msg, h)[t] = Where(token[t].files, h)
            /\ KeptFiles(q, token, msg, h)[t] = {}
        BY <2>6, <3>13, <3>17 DEF KeptFiles
      <4>7. /\ Cardinality(Owed(ch, h)) = 0 /\ Cardinality(Due(ch, h)) = b
            /\ Cardinality(Coming(ch, h)) = e /\ Taken(task[w], h) = e
        BY <2>12, <3>2, <3>5, <4>3, <4>4, EmptyCardinality
      <4>8. 0 + b + g2 + e = g + e + 0
        BY <4>1, <4>2, <4>4, <4>5, <4>6, EmptyCardinality DEF Exchanged
      <4>9. QED  BY <4>1, <4>2, <4>7, <4>8, IdleTakes DEF Charges
    <3>19. AllCharged(ch, p, q, token, token, msg, task[w], Idle)  BY <3>18 DEF AllCharged
    <3>20. pipe'[w] = q /\ token' = token  BY <2>5, <3>4, <3>10, <3>11
    <3>21. QED
      BY <2>5, <2>7, <2>10, <3>4, <3>5, <3>10, <3>12, <3>14, <3>15, <3>19, <3>20, QueuesEqual
  <2>15. QED  BY <2>5, <2>13, <2>14
<1>3. QED  BY <1>1, <1>2

-----------------------------------------------------------------------------
(* Callbacks keep the balance.                                               *)

LEMMA RestBalanced ==
  ASSUME NEW p \in Seq(Chains), Sane(p), Ready(p), NEW q, q = RestOf(p), NEW h,
         NEW a \in Nat, NEW r \in Nat, NEW g \in Nat, NEW c \in Nat, Balanced(p, h, a, r, g, c),
         NEW a2 \in Nat, a2 + Cardinality(Left(p, h)) = a + Cardinality(Owed(p[1], h))
  PROVE  Balanced(q, h, a2, r, g, c)
<1>1. /\ p # <<>> /\ 1 \in 1 .. Len(p) /\ p[1] \in Chains /\ Shape(p[1])
      /\ Due(p[1], h) = {} /\ Coming(p[1], h) = {}
  BY ReadyFacts DEF Ready
<1>2. PICK o \in Nat : o = Cardinality(Owed(p[1], h))  BY <1>1, ChainFinite
<1>3. CASE LastRuns(p)
  <2>1. Cardinality(Left(p, h)) = 0  BY <1>3, EmptyCardinality DEF Left
  <2>2. a2 + 0 = a + o  BY <1>2, <2>1
  <2>3. a2 = a + Cardinality(Owed(p[1], h))  BY <1>2, <2>2
  <2>4. q = Tail(p)  BY <1>3 DEF RestOf
  <2>5. QED  BY <1>1, <2>3, <2>4, BalancedTail
<1>4. CASE ~LastRuns(p)
  <2>1. PICK s : s = CalledBack(p[1])  OBVIOUS
  <2>2. s \in Chains  BY <1>1, <1>4, <2>1, CalledBackTypes DEF LastRuns
  <2>3. Due(s, h) = {} /\ Coming(s, h) = {}  BY <1>1, <2>1, CalledBackChain
  <2>4. PICK o2 \in Nat : o2 = Cardinality(Owed(s, h))  BY <2>2, ChainFinite
  <2>5. a2 + o2 + 0 + g + r + 0 = a + o + 0 + g + r + 0  BY <1>2, <1>4, <2>1, <2>4 DEF Left
  <2>6. /\ Cardinality(Due(s, h)) = 0 /\ Cardinality(Coming(s, h)) = 0
        /\ Cardinality(Due(p[1], h)) = 0 /\ Cardinality(Coming(p[1], h)) = 0
    BY <1>1, <2>3, EmptyCardinality
  <2>7. q = [p EXCEPT ![1] = s]  BY <1>4, <2>1 DEF RestOf
  <2>8. a2 + Cardinality(Owed(s, h)) + Cardinality(Due(s, h)) + g + r + Cardinality(Coming(p[1], h))
          = a + Cardinality(Owed(p[1], h)) + Cardinality(Due(p[1], h)) + g + r
              + Cardinality(Coming(s, h))
    BY <1>2, <2>4, <2>5, <2>6
  <2>9. QED  BY <1>1, <2>2, <2>7, <2>8, BalancedReplace
<1>5. QED  BY <1>3, <1>4

LEMMA RestWaits ==
  ASSUME NEW p \in Seq(Chains), Sane(p), Ready(p), NEW q, q = RestOf(p)
  PROVE  /\ \A t : Waiting(q, t) <=> Waiting(p, t)
         /\ \E d \in Nat : Moved(p, q, d)
         /\ q \in Seq(Chains)
<1>1. p # <<>> /\ 1 \in 1 .. Len(p) /\ p[1] \in Chains /\ Shape(p[1]) /\ p[1].done = Len(p[1].cmds)
  BY ReadyFacts DEF Ready
<1>2. \A t : ~Awaits(p[1], t)  BY <1>1, DoneAwaits
<1>3. CASE LastRuns(p)  BY <1>1, <1>2, <1>3, WaitingTail, MovedTail, TailFacts DEF RestOf
<1>4. CASE ~LastRuns(p)
  <2>1. PICK s : s = CalledBack(p[1])  OBVIOUS
  <2>2. s \in Chains  BY <1>1, <1>4, <2>1, CalledBackTypes DEF LastRuns
  <2>3. q = [p EXCEPT ![1] = s]  BY <1>4, <2>1 DEF RestOf
  <2>4. \A t : (Awaits(s, t) <=> Awaits(p[1], t)) /\ s.cmds = p[1].cmds
    BY <1>1, <2>1, CalledBackAwaits
  <2>5. \A t : Waiting(q, t) <=> Waiting(p, t)  BY <1>1, <2>2, <2>3, <2>4, WaitingReplace
  <2>6. Follows(s, p[1])  BY <2>4 DEF Follows
  <2>7. Moved(p, q, 0)  BY <1>1, <2>2, <2>3, <2>6, MovedReplace
  <2>8. 0 \in Nat  OBVIOUS
  <2>9. q \in Seq(Chains)  BY <1>1, <2>2, <2>3, ExceptSeq
  <2>10. QED  BY <2>5, <2>7, <2>8, <2>9
<1>5. QED  BY <1>3, <1>4

LEMMA RestBacked ==
  ASSUME NEW p \in Seq(Chains), Sane(p), Ready(p), NEW q, q = RestOf(p), NEW tk, NEW tk2, NEW ms, NEW s,
         Backed(p, tk, ms, s), SameFiles(tk, tk2)
  PROVE  Backed(q, tk2, ms, s) /\ AllKept(p, tk, ms, q, tk2, ms)
<1>1. (\A t : Waiting(q, t) <=> Waiting(p, t)) /\ q \in Seq(Chains)  BY RestWaits
<1>2. PICK d \in Nat : Moved(p, q, d)  BY RestWaits
<1>3. Len(q) \in Nat  BY <1>1, LenProperties
<1>4. Spared(q, tk, ms, s, tk2, ms, s)  BY SameFilesSpared
<1>5. Backed(q, tk2, ms, s)  BY <1>2, <1>3, <1>4, BackedStep DEF Backed
<1>6. AllKept(p, tk, ms, q, tk2, ms)  BY <1>1, UnderwayIs DEF AllKept, SameFiles
<1>7. QED  BY <1>5, <1>6

LEMMA LeftFinite ==
  ASSUME NEW p \in Seq(Chains), Sane(p), Ready(p), NEW h
  PROVE  Cardinality(Left(p, h)) \in Nat
<1>1. p[1] \in Chains  BY ReadyFacts
<1>2. CASE LastRuns(p)  BY <1>2, EmptyCardinality DEF Left
<1>3. CASE ~LastRuns(p)  BY <1>1, <1>3, CalledBackTypes, ChainFinite DEF LastRuns, Left
<1>4. QED  BY <1>2, <1>3

LEMMA CallbackEqual ==
  ASSUME Types, Types', FilesInv, EqualInv, OneWorker, NEW w \in Workers, NEW op, Running(w, op),
         NEW more \in Seq(GoodQuery), Ran(w, more), more # <<>> => AwaitsNone(Chain(more)),
         UNCHANGED <<row, msg, sent, task, posted>>, doubt \subseteq doubt',
         SameFiles(token, token'), Filled(token', posted, task[w]),
         AllHand(pipe[w], more, msg, cached, cached', doubt')
  PROVE  EqualInv'
<1>1. PICK p : p = pipe[w]  OBVIOUS
<1>2. ~ub /\ Ready(p) /\ p \in Seq(Chains) /\ Sane(p)  BY <1>1, RunningFacts
<1>3. PICK q : q = RestOf(p)  OBVIOUS
<1>4. PICK tk \in [Tokens -> GoodToken] : tk = token'  BY DEF Types
<1>5. PICK c2 : c2 = cached'  OBVIOUS
<1>6. /\ Backed(p, token, msg, sent)
      /\ InBalance(p, token, row, msg, cached, task[w], doubt)
  BY <1>1, <1>2, EqualFacts
<1>7. Backed(q, tk, msg, sent) /\ AllKept(p, token, msg, q, tk, msg)
  BY <1>2, <1>3, <1>4, <1>6, RestBacked
<1>8. q \in Seq(Chains)  BY <1>2, <1>3, RestWaits
<1>9. PICK s : s = IF more = <<>> THEN q ELSE Append(q, Chain(more))  OBVIOUS
<1>10. pipe'[w] = s  BY <1>1, <1>3, <1>9, RanIs
<1>11. Backed(s, tk, msg, sent) /\ AllKept(q, tk, msg, s, tk, msg)
  <2>1. CASE more = <<>>  BY <1>7, <1>9, <2>1 DEF AllKept
  <2>2. CASE more # <<>>
    <3>1. PICK ch : ch = Chain(more)  OBVIOUS
    <3>2. ch \in Chains /\ AwaitsNone(ch) /\ s = Append(q, ch)  BY <1>9, <2>2, <3>1, ChainTypes
    <3>3. Backed(s, tk, msg, sent)  BY <1>7, <1>8, <3>2, BackedAppend, PlainJoins
    <3>4. AllKept(q, tk, msg, s, tk, msg)  BY <1>8, <3>2, PlainKept DEF SameFiles
    <3>5. QED  BY <3>3, <3>4
  <2>3. QED  BY <2>1, <2>2
<1>12. ASSUME NEW h \in Hashes \ doubt'
       PROVE  Balanced(s, h, Refs(msg, c2, h), row[h], Size(KeptFiles(s, tk, msg, h)), Taken(task[w], h))
  <2>1. PICK g \in Nat : g = Size(KeptFiles(p, token, msg, h))  BY KeptFamily DEF Types
  <2>2. Size(KeptFiles(s, tk, msg, h)) = g  BY <1>7, <1>11, <2>1, KeptSame
  <2>3. PICK a \in Nat : a = Refs(msg, cached, h)  BY RefsNat DEF Types
  <2>4. PICK a2 \in Nat : a2 = Refs(msg, c2, h)  BY RefsNat DEF Types
  <2>5. PICK r \in Nat : r = row[h]  BY DEF Types
  <2>6. PICK c \in Nat : c = Taken(task[w], h)  BY TakenNat
  <2>7. Balanced(p, h, a, r, g, c)  BY <1>6, <2>1, <2>3, <2>5, <2>6 DEF InBalance
  <2>8. Hands(p, more, h, a, a2)  BY <1>1, <1>5, <2>3, <2>4 DEF AllHand
  <2>9. Balanced(s, h, a2, r, g, c)
    <3>1. CASE more = <<>>  BY <1>2, <1>3, <1>9, <2>7, <2>8, <3>1, RestBalanced DEF Hands
    <3>2. CASE more # <<>>
      <4>1. PICK ch : ch = Chain(more)  OBVIOUS
      <4>2. ch \in Chains /\ s = Append(q, ch)  BY <1>9, <3>2, <4>1, ChainTypes
      <4>3. PICK o \in Nat : o = Cardinality(Owed(ch, h))  BY <4>2, ChainFinite
      <4>4. PICK l \in Nat : l = Cardinality(Left(p, h))  BY <1>2, LeftFinite
      <4>5. PICK o1 \in Nat : o1 = Cardinality(Owed(p[1], h))  BY <1>2, ChainFinite, ReadyFacts
      <4>6. a2 + o + l = a + o1 /\ Due(ch, h) = {} /\ Coming(ch, h) = {}
        BY <2>8, <3>2, <4>1, <4>3, <4>4, <4>5 DEF Hands
      <4>7. PICK a3 \in Nat : a3 = a2 + o  OBVIOUS
      <4>8. a3 + l = a + o1  BY <4>6, <4>7
      <4>9. Balanced(q, h, a3, r, g, c)  BY <1>2, <1>3, <2>7, <4>4, <4>5, <4>8, RestBalanced
      <4>10. Cardinality(Due(ch, h)) = 0 /\ Cardinality(Coming(ch, h)) = 0  BY <4>6, EmptyCardinality
      <4>11. a2 + Cardinality(Owed(ch, h)) + Cardinality(Due(ch, h)) + g + c
               = a3 + g + Cardinality(Coming(ch, h)) + c
        BY <4>3, <4>7, <4>10
      <4>12. QED  BY <1>8, <4>2, <4>9, <4>11, BalancedAppend
    <3>3. QED  BY <3>1, <3>2
  <2>10. QED  BY <2>2, <2>4, <2>5, <2>6, <2>9
<1>13. row' = row /\ msg' = msg /\ sent' = sent /\ task'[w] = task[w] /\ posted' = posted
  OBVIOUS
<1>14. QED  BY <1>4, <1>5, <1>10, <1>11, <1>12, <1>13, EqualConcludes DEF InBalance

LEMMA QuietLeft ==
  ASSUME Types, FilesInv, NEW w \in Workers, NEW op, Running(w, op), Quiet(w, op), NEW h
  PROVE  Left(pipe[w], h) = Owed(pipe[w][1], h)
<1>1. PICK ch, j : Calls(w, op, ch, j)  BY RunningFacts
<1>2. PICK q : q = CalledBack(ch)  OBVIOUS
<1>3. /\ ch = pipe[w][1] /\ ch \in Chains /\ Shape(ch) /\ ch.done = Len(ch.cmds)
      /\ j \in 1 .. Len(ch.cmds) /\ Place(ch, j) /\ ch.cmds[j].op = op /\ This(w) = ch.cmds[j]
      /\ LastRuns(pipe[w]) <=> j = Len(ch.cmds)
      /\ j = ch.ran + 1
  BY <1>1 DEF Calls
<1>4. /\ q.cmds = ch.cmds /\ q.done = ch.done /\ Owed(q, h) \subseteq Owed(ch, h)
  BY <1>2, <1>3, CalledBackChain
<1>5. Left(pipe[w], h) = {} \/ Left(pipe[w], h) = Owed(q, h)  BY <1>2, <1>3 DEF Left
<1>6. Owed(ch, h) = {} => Left(pipe[w], h) = Owed(ch, h)  BY <1>4, <1>5
<1>7. PICK n \in Nat : n = Len(ch.cmds) /\ ch.done = n  BY <1>3, InChain
<1>8. CASE ch.cmds[1].op = "release"
  <2>1. \A i \in 1 .. n : ~(n < i)  OBVIOUS
  <2>2. Owed(ch, h) = {}  BY <1>7, <1>8, <2>1 DEF Owed
  <2>3. QED  BY <1>3, <1>6, <2>2
<1>9. CASE ch.cmds[1].op = "delete_msg"
  <2>1. n = 1  BY <1>3, <1>7, <1>9 DEF Shape
  <2>2. j = 1  BY <1>3, <1>7, <2>1
  <2>3. ~ch.cmds[1].ok  BY <1>3, <1>9, <2>2 DEF Quiet
  <2>4. Owed(ch, h) = {}  BY <1>7, <1>9, <2>1, <2>3 DEF Owed, Ends
  <2>5. QED  BY <1>3, <1>6, <2>4
<1>10. CASE ch.cmds[1].op = "select_attachs"
  <2>1. n = 2  BY <1>3, <1>7, <1>10 DEF Shape
  <2>2. j # 1  BY <1>3, <1>10 DEF Quiet
  <2>3. PICK r \in Nat : r = ch.ran  BY <1>3, InChain
  <2>4. r # 0  BY <1>3, <2>2, <2>3
  <2>5. Owed(ch, h) = {}  BY <1>7, <1>10, <2>1, <2>3, <2>4 DEF Owed, Ends
  <2>6. QED  BY <1>3, <1>6, <2>5
<1>11. CASE ch.cmds[1].op = "insert_file"
  <2>1. Owed(q, h) = Owed(ch, h)  BY <1>4, <1>11 DEF Owed, Ends
  <2>2. CASE j # n
    <3>1. ~LastRuns(pipe[w])  BY <1>3, <1>7, <2>2
    <3>2. QED  BY <1>2, <1>3, <2>1, <3>1 DEF Left
  <2>3. CASE j = n
    <3>1. ~(Ends(ch, "update_pfp") /\ ch.cmds[3].ok)  BY <1>3, <1>7, <2>3 DEF Ends, Quiet
    <3>2. Owed(ch, h) = {}  BY <1>11, <3>1 DEF Owed
    <3>3. QED  BY <1>3, <1>6, <3>2
  <2>4. QED  BY <2>2, <2>3
<1>12. QED  BY <1>3, <1>8, <1>9, <1>10, <1>11 DEF Shape

LEMMA QuietEqual ==
  ASSUME Types, Types', FilesInv, EqualInv, OneWorker, NEW w \in Workers, NEW op, Running(w, op),
         Quiet(w, op), Ran(w, <<>>), UNCHANGED <<row, msg, sent, task, posted, cached>>,
         doubt \subseteq doubt', SameFiles(token, token'), Filled(token', posted, task[w])
  PROVE  EqualInv'
<1>1. PICK more \in Seq(GoodQuery) : more = <<>>  BY EmptyTypes
<1>2. PICK D : D = doubt'  OBVIOUS
<1>3. ASSUME NEW h \in Hashes \ D
      PROVE  Hands(pipe[w], more, h, Refs(msg, cached, h), Refs(msg, cached, h))
  BY <1>1, QuietLeft DEF Hands
<1>4. AllHand(pipe[w], more, msg, cached, cached', doubt')  BY <1>2, <1>3 DEF AllHand
<1>5. QED  BY <1>1, <1>4, CallbackEqual

LEMMA FileCallbackEqual ==
  ASSUME Types, Types', FilesInv, EqualInv, OneWorker, NEW w \in Workers,
         do_save_file_img(w) \/ do_delete_file(w) \/ DiskFails(w) \/ NoCallback(w)
  PROVE  EqualInv'
<1>1. /\ Ran(w, <<>>) /\ UNCHANGED <<row, msg, sent, task, posted, cached>> /\ token' = token
      /\ doubt \subseteq doubt'
  BY DEF do_save_file_img, do_delete_file, DiskFails, NoCallback, db, hist, fault
<1>2. PICK op : op \in {"insert_file", "release", "refcount", "delete_msgs"} /\ Running(w, op)
  BY DEF do_save_file_img, do_delete_file, DiskFails, NoCallback
<1>3. ~ub  BY <1>2 DEF Running
<1>4. Filled(token', posted, task[w])  BY <1>1, <1>3, EqualFacts
<1>5. SameFiles(token, token')  BY <1>1 DEF SameFiles
<1>6. QED  BY <1>1, <1>2, <1>4, <1>5, QuietEqual DEF Quiet

LEMMA InsertAfterEqual ==
  ASSUME Types, Types', FilesInv, EqualInv, OneWorker, NEW w \in Workers, do_insert_msg_after(w)
  PROVE  EqualInv'
<1>1. CASE UsesFreed  BY <1>1, UsesFreedEqual
<1>2. CASE ~UsesFreed
  <2>1. PICK t : t = This(w).arg  OBVIOUS
  <2>2. /\ Running(w, "insert_msg") /\ Ran(w, <<>>)
        /\ token' = [token EXCEPT ![t] = [@ EXCEPT !.life = "freed"]]
        /\ UNCHANGED <<row, msg, sent, task, posted, cached>> /\ doubt' = doubt
    BY <1>2, <2>1 DEF do_insert_msg_after, db, hist, fault
  <2>3. PICK op : op = "insert_msg"  OBVIOUS
  <2>4. token \in [Tokens -> GoodToken]  BY DEF Types
  <2>5. token'[t].life = "freed" /\ token'[t].files = token[t].files
    BY <2>1, <2>2, <2>4, ThisTypes DEF GoodToken, Token, GoodQuery
  <2>6. \A v \in Tokens : v # t => token'[v] = token[v]  BY <2>2, <2>4
  <2>7. SameFiles(token, token')  BY <2>5, <2>6 DEF SameFiles
  <2>8. Filled(token, posted, task[w])  BY <2>2, EqualFacts DEF Running
  <2>9. Filled(token', posted, task[w])  BY <2>5, <2>6, <2>8 DEF Filled
  <2>10. doubt \subseteq doubt'  BY <2>2
  <2>11. QED  BY <2>2, <2>3, <2>7, <2>9, <2>10, QuietEqual DEF Quiet
<1>3. QED  BY <1>1, <1>2

(* The files of the messages a chain has deleted are released.               *)
LEMMA ReleaseFilesEqual ==
  ASSUME Types, Types', FilesInv, EqualInv, OneWorker, NEW w \in Workers, NEW op, Running(w, op),
         NEW files \in Seq(Hash), Ran(w, server_delete_attachments_json(files)),
         LastRuns(pipe[w]) \/ pipe[w][1].cmds[1].op = "select_attachs",
         \A h \in Hashes : Owed(pipe[w][1], h) = Where(files, h),
         UNCHANGED <<row, msg, sent, task, posted, cached, doubt, token>>
  PROVE  EqualInv'
<1>1. ~ub /\ Ready(pipe[w]) /\ pipe[w] \in Seq(Chains) /\ Sane(pipe[w])  BY RunningFacts
<1>2. PICK more : more = server_delete_attachments_json(files)  OBVIOUS
<1>3. more \in Seq(GoodQuery) /\ Ran(w, more)  BY <1>2, DeleteAllTypes
<1>4. PICK ch : ch = pipe[w][1]  OBVIOUS
<1>5. ch \in Chains /\ Shape(ch)  BY <1>1, <1>4, ReadyFacts
<1>6. ASSUME NEW h PROVE Left(pipe[w], h) = {}
  <2>1. CASE LastRuns(pipe[w])  BY <2>1 DEF Left
  <2>2. CASE ~LastRuns(pipe[w])  BY <1>4, <1>5, <2>2, CalledBackChain DEF Left
  <2>3. QED  BY <2>1, <2>2
<1>7. ASSUME NEW h \in Hashes
      PROVE  Hands(pipe[w], more, h, Refs(msg, cached, h), Refs(msg, cached, h))
  <2>1. PICK a \in Nat : a = Refs(msg, cached, h)  BY RefsNat DEF Types
  <2>2. PICK x \in Nat : x = Cardinality(Where(files, h))  BY WhereFinite
  <2>3. Cardinality(Left(pipe[w], h)) = 0  BY <1>6, EmptyCardinality
  <2>4. Cardinality(Owed(ch, h)) = x  BY <1>4, <2>2
  <2>5. CASE more = <<>>
    <3>1. PICK n \in Nat : n = Len(files)  BY LenProperties
    <3>2. Len(more) = 2 * n  BY <1>2, <3>1, DeleteAllTypes
    <3>3. n = 0  BY <2>5, <3>2
    <3>4. DOMAIN files = 1 .. n  BY <3>1, LenProperties
    <3>5. \A i \in DOMAIN files : FALSE  BY <3>3, <3>4
    <3>6. x = 0  BY <2>2, <3>5, EmptyCardinality DEF Where
    <3>7. QED  BY <1>4, <2>1, <2>3, <2>4, <2>5, <3>6 DEF Hands
  <2>6. CASE more # <<>>
    <3>1. PICK q : q = Chain(more)  OBVIOUS
    <3>2. /\ Due(q, h) = {} /\ Coming(q, h) = {}
          /\ Cardinality(Owed(q, h)) = Cardinality(Where(files, h))
      BY <1>2, <2>6, <3>1, ReleaseAllChain
    <3>3. a + Cardinality(Owed(q, h)) + Cardinality(Left(pipe[w], h)) = a + Cardinality(Owed(ch, h))
      BY <2>2, <2>3, <2>4, <3>2
    <3>4. QED  BY <1>4, <2>1, <2>6, <3>1, <3>2, <3>3 DEF Hands
  <2>7. QED  BY <2>5, <2>6
<1>8. AllHand(pipe[w], more, msg, cached, cached', doubt')  BY <1>7 DEF AllHand
<1>9. more # <<>> => AwaitsNone(Chain(more))
  <2>1. SUFFICES ASSUME more # <<>> PROVE AwaitsNone(Chain(more))  OBVIOUS
  <2>2. PICK q : q = Chain(more)  OBVIOUS
  <2>3. AwaitsNone(q)  BY <1>2, <2>1, <2>2, NothingComing, ReleaseAllChain
  <2>4. QED  BY <2>2, <2>3
<1>10. Filled(token', posted, task[w])  BY <1>1, EqualFacts
<1>11. UNCHANGED <<row, msg, sent, task, posted>> /\ doubt \subseteq doubt'  OBVIOUS
<1>12. QED  BY <1>3, <1>8, <1>9, <1>10, <1>11, CallbackEqual DEF SameFiles

LEMMA DeleteResultEqual ==
  ASSUME Types, Types', FilesInv, EqualInv, OneWorker, NEW w \in Workers,
         delete_msg_result(w) \/ delete_group_result(w)
  PROVE  EqualInv'
<1>1. UNCHANGED <<row, msg, sent, task, posted, cached, doubt, token>>
  BY DEF delete_msg_result, delete_group_result, db, hist, fault
<1>2. CASE delete_msg_result(w)
  <2>1. PICK op : op = "delete_msg"  OBVIOUS
  <2>2. Running(w, op)  BY <1>2, <2>1 DEF delete_msg_result
  <2>3. CASE ~This(w).ok
    BY <1>1, <1>2, <2>1, <2>2, <2>3, EqualFacts, QuietEqual DEF delete_msg_result, Quiet, Running,
       SameFiles
  <2>4. CASE This(w).ok
    <3>1. PICK f : f = This(w).files  OBVIOUS
    <3>2. f \in Seq(Hash)  BY <2>2, <3>1, ThisTypes DEF GoodQuery, Query
    <3>3. Ran(w, server_delete_attachments_json(f))  BY <1>2, <2>4, <3>1 DEF delete_msg_result
    <3>4. PICK ch, j : Calls(w, op, ch, j)  BY <2>2, RunningFacts
    <3>5. j = 1 /\ Len(ch.cmds) = 1  BY <2>1, <3>4 DEF Calls, Place
    <3>6. LastRuns(pipe[w])  BY <3>4, <3>5 DEF Calls
    <3>7. \A h \in Hashes : Owed(pipe[w][1], h) = Where(f, h)
      BY <2>1, <2>4, <3>1, <3>4, <3>5 DEF Owed, Calls
    <3>8. QED  BY <1>1, <2>2, <3>2, <3>3, <3>6, <3>7, ReleaseFilesEqual
  <2>5. QED  BY <2>3, <2>4
<1>3. CASE delete_group_result(w)
  <2>1. PICK op : op = "select_attachs"  OBVIOUS
  <2>2. Running(w, op)  BY <1>3, <2>1 DEF delete_group_result
  <2>3. PICK f : f = This(w).files  OBVIOUS
  <2>4. f \in Seq(Hash)  BY <2>2, <2>3, ThisTypes DEF GoodQuery, Query
  <2>5. Ran(w, server_delete_attachments_json(f))  BY <1>3, <2>3 DEF delete_group_result
  <2>6. PICK ch, j : Calls(w, op, ch, j)  BY <2>2, RunningFacts
  <2>7. /\ ch = pipe[w][1] /\ ch.done = 2 /\ This(w) = ch.cmds[1] /\ ch.cmds[1].op = "select_attachs"
        /\ ch.ran + 1 = 1 /\ ch \in Chains
    BY <2>1, <2>6 DEF Calls, Place
  <2>8. ch.ran = 0  BY <2>7, InChain
  <2>9. \A h \in Hashes : Owed(pipe[w][1], h) = Where(f, h)  BY <2>3, <2>7, <2>8 DEF Owed
  <2>10. QED  BY <1>1, <2>2, <2>4, <2>5, <2>7, <2>9, ReleaseFilesEqual
<1>4. QED  BY <1>2, <1>3

LEMMA PfpResultEqual ==
  ASSUME Types, Types', FilesInv, EqualInv, OneWorker, NEW w \in Workers, OwnerTold(w)
  PROVE  EqualInv'
<1>1. /\ UNCHANGED <<row, msg, sent, task, posted>> /\ doubt \subseteq doubt'
      /\ token' = token /\ doubt' = doubt
  BY DEF OwnerTold, db, hist, fault
<1>2. PICK op : op = "update_pfp"  OBVIOUS
<1>3. Running(w, op)  BY <1>2 DEF OwnerTold
<1>4. Filled(token', posted, task[w])  BY <1>1, <1>3, EqualFacts, RunningFacts
<1>5. SameFiles(token, token')  BY <1>1 DEF SameFiles
<1>6. CASE ~This(w).ok
  BY <1>1, <1>2, <1>3, <1>4, <1>5, <1>6, QuietEqual DEF OwnerTold, Quiet
<1>7. CASE This(w).ok
  <2>1. PICK v : v = This(w).arg  OBVIOUS
  <2>2. PICK f : f = This(w).hash  OBVIOUS
  <2>3. /\ cached' = [cached EXCEPT ![v] = f] /\ Ran(w, server_delete_file(cached[v]))
    BY <1>7, <2>1, <2>2 DEF OwnerTold
  <2>4. v \in Users /\ f \in Hashes  BY <1>2, <1>3, <2>1, <2>2, ThisTypes DEF GoodQuery
  <2>5. cached \in [Users -> Hash] /\ cached[v] \in Hash  BY <2>4 DEF Types
  <2>6. PICK old : old = cached[v]  OBVIOUS
  <2>7. PICK first, j : Calls(w, op, first, j)  BY <1>3, RunningFacts
  <2>8. j = 3 /\ Len(first.cmds) = 3 /\ first.cmds[1].op = "insert_file"
    BY <1>2, <2>7 DEF Calls, Place
  <2>9. PICK more : more = server_delete_file(old)  OBVIOUS
  <2>10. more \in Seq(GoodQuery) /\ more # <<>>  BY <2>5, <2>6, <2>9, DeleteTypes
  <2>11. PICK ch : ch = Chain(more)  OBVIOUS
  <2>12. /\ ch \in Chains /\ Shape(ch) /\ ch.done = 0
         /\ \A h : /\ Due(ch, h) = {} /\ Coming(ch, h) = {}
                   /\ Owed(ch, h) = IF old = h THEN {1} ELSE {}
    BY <2>5, <2>6, <2>9, <2>11, ReleaseChain
  <2>13. PICK c2 : c2 = cached'  OBVIOUS
  <2>14. ASSUME NEW h \in Hashes
         PROVE  Hands(pipe[w], more, h, Refs(msg, cached, h), Refs(msg, c2, h))
    <3>1. PICK m \in Nat : m = Size(MsgFiles(msg, h))  BY MsgFamily DEF Types
    <3>2. PICK z \in Nat : z = Size(Pictures(cached, h))  BY PictureFamily
    <3>3. PICK z2 \in Nat : z2 = Size(Pictures(c2, h))  BY PictureFamily
    <3>4. PICK d \in Nat : d = IF old = h THEN 1 ELSE 0  OBVIOUS
    <3>5. PICK e \in Nat : e = IF f = h THEN 1 ELSE 0  OBVIOUS
    <3>6. OtherPicture(cached, c2, f, cached[v], h)  BY <2>3, <2>4, <2>5, <2>13, PictureChanged
    <3>7. (m + z2) + d + 0 = (m + z) + e  BY <2>6, <3>2, <3>3, <3>4, <3>5, <3>6 DEF OtherPicture
    <3>8. Refs(msg, cached, h) = m + z /\ Refs(msg, c2, h) = m + z2
      BY <3>1, <3>2, <3>3 DEF Refs
    <3>9. Owed(pipe[w][1], h) = IF f = h THEN {3} ELSE {}
      BY <1>2, <1>7, <2>2, <2>7, <2>8 DEF Owed, Ends, Calls
    <3>10. Cardinality(Owed(pipe[w][1], h)) = e /\ Cardinality(Owed(ch, h)) = d
      BY <2>12, <3>4, <3>5, <3>9, EmptyCardinality
    <3>11. Cardinality(Left(pipe[w], h)) = 0  BY <2>7, <2>8, EmptyCardinality DEF Left, Calls
    <3>12. QED  BY <2>10, <2>11, <2>12, <3>7, <3>8, <3>10, <3>11 DEF Hands
  <2>15. AllHand(pipe[w], more, msg, cached, cached', doubt')  BY <1>1, <2>13, <2>14 DEF AllHand
  <2>16. AwaitsNone(Chain(more))  BY <2>11, <2>12, NothingComing
  <2>17. Ran(w, more)  BY <2>3, <2>6, <2>9
  <2>18. QED  BY <1>1, <1>3, <1>4, <1>5, <2>10, <2>15, <2>16, <2>17, CallbackEqual
<1>8. QED  BY <1>6, <1>7

-----------------------------------------------------------------------------
(* A crash: the work that is lost was about the files in doubt.              *)

LEMMA SparesChain ==
  ASSUME NEW ch \in Chains, NEW h, Spares(ch, h)
  PROVE  Owed(ch, h) = {} /\ Due(ch, h) = {} /\ Coming(ch, h) = {}
<1>1. PICK n \in Nat : n = Len(ch.cmds) /\ 1 <= n  BY InChain
<1>2. 1 \in 1 .. n /\ 3 \in 1 .. 3  BY <1>1
<1>3. ch.cmds[1].hash # h /\ Where(ch.cmds[1].files, h) = {}  BY <1>1, <1>2 DEF Spares
<1>4. n = 3 => ch.cmds[3].hash # h /\ Where(ch.cmds[3].files, h) = {}  BY <1>1, <1>2 DEF Spares
<1>5. Owed(ch, h) = {}  BY <1>1, <1>3, <1>4 DEF Owed, Ends, Spares
<1>6. Coming(ch, h) = {}  BY <1>3 DEF Coming
<1>7. QED  BY <1>1, <1>4, <1>5, <1>6 DEF Due, Ends

LEMMA UnconcernedBalanced ==
  ASSUME NEW p \in Seq(Chains), NEW h, Unconcerned(p, h),
         NEW a \in Nat, NEW r \in Nat, NEW g \in Nat, NEW c \in Nat
  PROVE  Balanced(p, h, a, r, g, c) <=> a + g = r + c
<1>1. PICK n \in Nat : n = Len(p)  BY LenProperties
<1>2. \A k \in DOMAIN DueIn(p, h, n) : DueIn(p, h, n)[k] = {}  BY DEF DueIn, Unconcerned
<1>3. \A k \in DOMAIN ComingIn(p, h, n) : ComingIn(p, h, n)[k] = {}  BY DEF ComingIn, Unconcerned
<1>4. Size(OwedIn(p, h)) = 0 /\ Size(DueIn(p, h, n)) = 0 /\ Size(ComingIn(p, h, n)) = 0
  BY <1>2, <1>3, SizeEmpty DEF OwedIn, Unconcerned
<1>5. QED  BY <1>1, <1>4 DEF Balanced

LEMMA EmptyUnconcerned ==
  ASSUME NEW p, p = <<>>, NEW h
  PROVE  Unconcerned(p, h) /\ p \in Seq(Chains) /\ Len(p) = 0 /\ 1 .. 0 = {}
BY DEF Unconcerned

(* A file that is not in flight.                                             *)
LEMMA NotInFlight ==
  ASSUME Types, NEW w \in Workers, NEW h \in Hashes, h \notin InFlight(w)
  PROVE  /\ task[w].hash # h
         /\ \A k \in 1 .. Len(pipe[w]) : Spares(pipe[w][k], h)
<1>1. PICK p \in Seq(Chains) : p = pipe[w]  BY DEF Types
<1>2. ASSUME NEW k \in 1 .. Len(p) PROVE Spares(p[k], h)
  <2>1. PICK ch \in Chains : ch = p[k]  BY ElementOfSeq
  <2>2. ASSUME NEW j \in 1 .. Len(ch.cmds)
        PROVE  /\ ch.cmds[j].hash # h /\ Where(ch.cmds[j].files, h) = {}
               /\ ch.cmds[j].op = "update_pfp" => cached[ch.cmds[j].arg] # h
    <3>1. ch.cmds \in Seq(GoodQuery)  BY DEF Chains
    <3>2. k \in DOMAIN pipe[w] /\ j \in DOMAIN ch.cmds  BY <1>1, <3>1, LenProperties
    <3>3. ch.cmds[j] \in ToSet(pipe[w][k].cmds)  BY <1>1, <2>1, <3>2 DEF ToSet
    <3>4. Names(ch.cmds[j]) \subseteq InFlight(w)  BY <3>2, <3>3 DEF InFlight
    <3>5. h \notin Names(ch.cmds[j])  BY <3>4
    <3>6. h \notin ToSet(ch.cmds[j].files)  BY <3>5 DEF Names
    <3>7. Where(ch.cmds[j].files, h) = {}  BY <3>6 DEF ToSet, Where
    <3>8. QED  BY <3>5, <3>7 DEF Names
  <2>3. QED  BY <2>1, <2>2 DEF Spares
<1>3. QED  BY <1>1, <1>2 DEF InFlight

LEMMA CrashKept ==
  ASSUME NEW p \in Seq(Chains), NEW q, q = <<>>, NEW tk, NEW tk2, NEW ms, NEW s, NEW h,
         Backed(p, tk, ms, s), SameFiles(tk, tk2), \A k \in 1 .. Len(p) : Spares(p[k], h)
  PROVE  KeptFiles(q, tk2, ms, h) = KeptFiles(p, tk, ms, h)
<1>1. ASSUME NEW t \in Tokens
      PROVE  KeptFiles(q, tk2, ms, h)[t] = KeptFiles(p, tk, ms, h)[t]
  <2>1. ~Waiting(q, t)  BY EmptyUnconcerned DEF Waiting
  <2>2. tk2[t].files = tk[t].files  BY DEF SameFiles
  <2>3. CASE ~Waiting(p, t)  BY <2>1, <2>2, <2>3, UnderwayIs DEF KeptFiles
  <2>4. CASE Waiting(p, t)
    <3>1. PICK k \in 1 .. Len(p) : Awaits(p[k], t)  BY <2>4 DEF Waiting
    <3>2. 3 \in 1 .. 3  OBVIOUS
    <3>3. Where(p[k].cmds[3].files, h) = {}  BY <3>1, <3>2 DEF Spares, Awaits, Ends
    <3>4. Where(tk[t].files, h) = {}  BY <3>1, <3>3 DEF Backed, Sure
    <3>5. QED  BY <2>2, <3>4 DEF KeptFiles
  <2>5. QED  BY <2>3, <2>4
<1>2. QED  BY <1>1 DEF KeptFiles

LEMMA CrashPictures ==
  ASSUME NEW p \in Seq(Chains), NEW h, \A k \in 1 .. Len(p) : Spares(p[k], h), NEW f,
         \A u \in Users : Claimed(p, u, f[u], cached[u])
  PROVE  Pictures(f, h) = Pictures(cached, h)
<1>1. ASSUME NEW u \in Users PROVE f[u] = h <=> cached[u] = h
  <2>1. CASE f[u] = cached[u]  BY <2>1
  <2>2. CASE f[u] # cached[u]  BY <2>2 DEF Claimed, Pend, Ends, Spares
  <2>3. QED  BY <2>1, <2>2
<1>2. QED  BY <1>1 DEF Pictures

LEMMA CrashEqual ==
  ASSUME Types, Types', FilesInv, EqualInv, OneWorker, Crash
  PROVE  EqualInv'
<1>1. PICK w \in Workers : Workers = {w}  BY DEF OneWorker
<1>2. /\ ~ub /\ pipe'[w] = <<>> /\ task'[w] = Idle /\ cached' = pfp
      /\ UNCHANGED <<row, msg, pfp, sent>> /\ doubt' = doubt \cup Interrupted
      /\ token' = [t \in Tokens |-> [token[t] EXCEPT !.life = IF @ = "live" THEN "freed" ELSE @]]
  BY DEF Crash, db
<1>3. token \in [Tokens -> GoodToken]  BY DEF Types
<1>4. \A t \in Tokens : token'[t].life # "live" /\ token'[t].files = token[t].files
  BY <1>2, <1>3 DEF GoodToken, Token
<1>5. PICK tk \in [Tokens -> GoodToken] : tk = token'  BY DEF Types
<1>6. PICK po : po = posted'  OBVIOUS
<1>7. PICK x : x = Idle  OBVIOUS
<1>8. x.step = "idle"  BY <1>7 DEF Idle
<1>9. Filled(tk, po, x)  BY <1>4, <1>5, <1>8 DEF Filled
<1>10. SameFiles(token, tk)  BY <1>4, <1>5 DEF SameFiles
<1>11. PICK p : p = pipe[w]  OBVIOUS
<1>12. p \in Seq(Chains) /\ \A u \in Users : Claimed(p, u, pfp[u], cached[u])
  BY <1>2, <1>11, InvFacts
<1>13. /\ Backed(p, token, msg, sent)
       /\ InBalance(p, token, row, msg, cached, task[w], doubt)
  BY <1>2, <1>11, EqualFacts
<1>14. PICK q : q = <<>>  OBVIOUS
<1>15. Len(q) = 0 /\ 1 .. 0 = {} /\ q \in Seq(Chains)  BY <1>14, EmptyUnconcerned
<1>16. Backed(q, tk, msg, sent)  BY <1>13, <1>15 DEF Backed
<1>17. ASSUME NEW h \in Hashes \ doubt'
       PROVE  Balanced(q, h, Refs(msg, pfp, h), row[h], Size(KeptFiles(q, tk, msg, h)), Taken(x, h))
  <2>1. h \in Hashes \ doubt /\ h \notin InFlight(w)  BY <1>2 DEF Interrupted
  <2>2. task[w].hash # h /\ \A k \in 1 .. Len(p) : Spares(p[k], h)  BY <1>11, <2>1, NotInFlight
  <2>3. PICK g \in Nat : g = Size(KeptFiles(p, token, msg, h))  BY <1>3, KeptFamily
  <2>4. Size(KeptFiles(q, tk, msg, h)) = g  BY <1>10, <1>12, <1>13, <1>14, <2>2, <2>3, CrashKept
  <2>5. PICK a \in Nat : a = Refs(msg, cached, h)  BY RefsNat DEF Types
  <2>6. Refs(msg, pfp, h) = a  BY <1>12, <2>2, <2>5, CrashPictures DEF Refs
  <2>7. PICK r \in Nat : r = row[h]  BY DEF Types
  <2>8. Taken(task[w], h) = 0 /\ Taken(x, h) = 0  BY <1>8, <2>2 DEF Taken
  <2>9. Balanced(p, h, a, r, g, 0)  BY <1>13, <2>1, <2>3, <2>5, <2>7, <2>8 DEF InBalance
  <2>10. Unconcerned(p, h)  BY <1>12, <2>2, ElementOfSeq, SparesChain DEF Unconcerned
  <2>11. 0 \in Nat  OBVIOUS
  <2>12. a + g = r + 0  BY <1>12, <2>9, <2>10, <2>11, UnconcernedBalanced
  <2>13. Unconcerned(q, h)  BY <1>14, EmptyUnconcerned
  <2>14. Balanced(q, h, a, r, g, 0)  BY <1>15, <2>11, <2>12, <2>13, UnconcernedBalanced
  <2>15. QED  BY <2>4, <2>6, <2>7, <2>8, <2>14
<1>18. /\ pipe'[w] = q /\ task'[w] = x /\ cached' = pfp /\ row' = row /\ msg' = msg /\ sent' = sent
  BY <1>2, <1>7, <1>14
<1>19. QED  BY <1>5, <1>6, <1>9, <1>16, <1>17, <1>18, EqualConcludes DEF InBalance

LEMMA InitEqual == Init => EqualInv
<1> SUFFICES ASSUME Init PROVE EqualInv  OBVIOUS
<1>1. Types  BY InitTypes
<1>2. \A t \in Tokens : token[t].life = "none" /\ token[t].files = NoFiles  BY DEF Init
<1>3. \A m \in Msgs : msg[m].life = "none" /\ msg[m].token = None  BY DEF Init
<1>4. ASSUME NEW w \in Workers
      PROVE  /\ Backed(pipe[w], token, msg, sent) /\ Filled(token, posted, task[w])
             /\ InBalance(pipe[w], token, row, msg, cached, task[w], doubt)
  <2>1. PICK x : x = task[w]  OBVIOUS
  <2>2. x.step = "idle"  BY <2>1 DEF Init, Idle
  <2>3. PICK q : q = pipe[w]  OBVIOUS
  <2>4. q = <<>>  BY <2>3 DEF Init
  <2>5. Len(q) = 0 /\ 1 .. 0 = {} /\ q \in Seq(Chains)  BY <2>4, EmptyUnconcerned
  <2>6. Backed(q, token, msg, sent)  BY <1>3, <2>5, NoneAssumption DEF Backed, MsgsSent
  <2>7. ASSUME NEW h \in Hashes
        PROVE  Balanced(q, h, Refs(msg, cached, h), row[h], Size(KeptFiles(q, token, msg, h)),
                        Taken(x, h))
    <3>1. \A u \in DOMAIN Pictures(cached, h) : Pictures(cached, h)[u] = {}
      BY NoneAssumption DEF Pictures, Init
    <3>2. Refs(msg, cached, h) = 0  BY <1>3, <3>1, SizeEmpty DEF Refs, MsgFiles
    <3>3. Where(NoFiles, h) = {}  BY NoneAssumption DEF Where, NoFiles
    <3>4. Size(KeptFiles(q, token, msg, h)) = 0  BY <1>2, <3>3, SizeEmpty DEF KeptFiles
    <3>5. Taken(x, h) = 0  BY <2>2 DEF Taken
    <3>6. 0 \in Nat /\ 0 + 0 = 0 + 0  OBVIOUS
    <3>7. Unconcerned(q, h)  BY <2>4, EmptyUnconcerned
    <3>8. Balanced(q, h, 0, 0, 0, 0)  BY <2>5, <3>6, <3>7, UnconcernedBalanced
    <3>9. QED  BY <3>2, <3>4, <3>5, <3>8 DEF Init
  <2>8. InBalance(q, token, row, msg, cached, x, doubt)  BY <2>7 DEF InBalance
  <2>9. QED  BY <1>2, <2>1, <2>2, <2>3, <2>6, <2>8 DEF Filled
<1>5. QED  BY <1>4 DEF EqualInv

LEMMA NextEqual ==
  OneWorker /\ Types /\ Types' /\ Counts /\ FilesInv /\ DiskInv /\ EqualInv /\ [Next]_vars => EqualInv'
<1> SUFFICES ASSUME OneWorker, Types, Types', Counts, FilesInv, DiskInv, EqualInv, [Next]_vars
             PROVE  EqualInv'
  OBVIOUS
<1>1. CASE Crash  BY <1>1, CrashEqual
<1>2. CASE UNCHANGED vars  BY <1>2 DEF vars, EqualInv
<1>3. ASSUME NEW w \in Workers, NEW t \in Tokens,
             \/ server_new_upload_token(w, t) \/ timer_ut(w, t)
             \/ \E h \in Hashes : PostPfp(w, t, h) \/ \E i \in Index : PostAttach(w, t, i, h)
      PROVE  EqualInv'
  BY <1>3, TokenEqual, PostPfpEqual, PostAttachEqual
<1>4. ASSUME NEW w \in Workers, SaveAttach(w) \/ CountAttach(w) \/ TestAttach(w)
      PROVE  EqualInv'
  BY <1>4, SaveAttachEqual, CountAttachEqual, TestAttachEqual
<1>5. ASSUME NEW w \in Workers,
             (\E m \in Msgs : server_delete_group_msg(w, m)) \/ db_async_delete_group(w)
      PROVE  EqualInv'
  BY <1>5, AskEqual
<1>6. ASSUME NEW w \in Workers,
             \/ db_async_insert_userfile(w) \/ db_async_userfile_refcount(w)
             \/ db_async_delete_userfile(w) \/ db_async_insert_group_msg(w)
             \/ db_async_update_user(w) \/ db_async_delete_msg(w)
             \/ SelectAttachs(w) \/ DeleteMsgs(w)
      PROVE  EqualInv'
  BY <1>6, InsertFileEqual, RefcountEqual, ReleaseEqual, InsertMsgEqual, UpdatePfpEqual,
     DeleteMsgEqual, SelectEqual, DeleteMsgsEqual
<1>7. ASSUME NEW w \in Workers,
             \/ do_save_file_img(w) \/ do_delete_file(w) \/ NoCallback(w) \/ DiskFails(w)
             \/ do_insert_msg_after(w) \/ update_pfp_result(w)
             \/ delete_msg_result(w) \/ delete_group_result(w)
      PROVE  EqualInv'
  BY <1>7, FileCallbackEqual, InsertAfterEqual, PfpResultEqual, DeleteResultEqual, UsesFreedEqual
  DEF update_pfp_result, OwnerGone
<1>8. QED  BY <1>1, <1>2, <1>3, <1>4, <1>5, <1>6, <1>7 DEF Next

LEMMA HeldIs ==
  ASSUME Types, NEW h, NEW p, p = <<>>
  PROVE  Held(h) = Size(KeptFiles(p, token, msg, h))
<1>1. PICK S : S = {x \in Tokens \X Index : /\ token[x[1]].files[x[2]] = h
                                            /\ \A m \in Msgs : msg[m].token # x[1]}
  OBVIOUS
<1>2. PICK G : G = KeptFiles(p, token, msg, h)  OBVIOUS
<1>3. DOMAIN G = Tokens  BY <1>2 DEF KeptFiles
<1>4. \A t \in Tokens : Underway(p, msg, t) <=> \E m \in Msgs : msg[m].token = t
  BY EmptyUnconcerned DEF Underway
<1>5. \A t \in Tokens : \A i : i \in G[t] <=> /\ i \in Index /\ token[t].files[i] = h
                                              /\ \A m \in Msgs : msg[m].token # t
  BY <1>2, <1>4 DEF KeptFiles, Where, Types, GoodToken, Token
<1>6. ASSUME NEW z \in S PROVE z \in Pairs(G)  BY <1>1, <1>3, <1>5, InPairs
<1>7. ASSUME NEW z \in Pairs(G) PROVE z \in S  BY <1>1, <1>3, <1>5, InPairs
<1>8. QED  BY <1>1, <1>2, <1>6, <1>7 DEF Held, Size

(* When nothing is queued nothing is owed, and memory has the pictures of    *)
(* the database.                                                             *)
LEMMA CountFollows ==
  ASSUME OneWorker, Types, FilesInv, EqualInv, Drained, NEW h \in Hashes \ doubt
  PROVE  row[h] = References(h) + Held(h)
<1>1. PICK w \in Workers : TRUE  BY DEF OneWorker
<1>2. ~ub /\ pipe[w] = <<>> /\ task[w] = Idle  BY DEF Drained
<1>3. PICK p : p = pipe[w]  OBVIOUS
<1>4. p = <<>> /\ p \in Seq(Chains) /\ Len(p) = 0 /\ 1 .. 0 = {} /\ Unconcerned(p, h)
  BY <1>2, <1>3, EmptyUnconcerned
<1>5. \A u \in Users : Claimed(p, u, pfp[u], cached[u])  BY <1>2, <1>3, InvFacts
<1>6. pfp \in [Users -> Hash] /\ cached \in [Users -> Hash]  BY DEF Types
<1>7. pfp = cached  BY <1>4, <1>5, <1>6 DEF Claimed
<1>8. PICK n \in Nat : /\ n = Cardinality({u \in Users : pfp[u] = h})
                      /\ n <= Size(Pictures(cached, h)) + Size(OwedIn(p, h))
  BY <1>4, <1>5, <1>6, PicturesCovered DEF Sane
<1>9. PICK z \in Nat : z = Size(Pictures(cached, h))  BY PictureFamily
<1>10. Size(OwedIn(p, h)) = 0  BY <1>4, SizeEmpty DEF OwedIn
<1>11. n <= z + 0  BY <1>8, <1>9, <1>10
<1>12. n = z  BY <1>7, <1>8, <1>9, <1>11, PicturesCount
<1>13. PICK m \in Nat : m = Size(MsgFiles(msg, h))  BY MsgFamily DEF Types
<1>14. PICK g \in Nat : g = Size(KeptFiles(p, token, msg, h))  BY KeptFamily DEF Types
<1>15. PICK r \in Nat : r = row[h]  BY DEF Types
<1>16. PICK a \in Nat : a = m + z  OBVIOUS
<1>17. Refs(msg, cached, h) = a  BY <1>9, <1>13, <1>16 DEF Refs
<1>18. Balanced(p, h, a, r, g, 0)
  BY <1>2, <1>3, <1>14, <1>15, <1>17, EqualFacts DEF InBalance, Taken, Idle
<1>19. 0 \in Nat /\ p \in Seq(Chains) /\ Unconcerned(p, h)  BY <1>4
<1>20. a + g = r + 0  BY <1>18, <1>19, UnconcernedBalanced
<1>21. References(h) = m + n  BY <1>8, <1>13, ReferencesAre
<1>22. Held(h) = g  BY <1>4, <1>14, HeldIs
<1>23. QED  BY <1>12, <1>15, <1>16, <1>20, <1>21, <1>22

(* With one worker, FilesMatchReferences holds for every number of users,    *)
(* tokens, messages, attachments, chains and faults.  The counted references *)
(* of a file are those that exist, that a queued chain will make or has      *)
(* still to release, and those kept for tokens without a message; callbacks  *)
(* hand over what their chain owed to the chain they send.  The counts by    *)
(* which do_save_file_img and do_delete_file write and unlink were read      *)
(* right behind the query that changed them, so the last queued write or     *)
(* unlink of a file is the one its row asks for.  What a crash loses, or a   *)
(* failing disk, is in doubt.                                                *)
THEOREM FilesMatchReferencesHolds == ASSUME OneWorker PROVE Spec => []FilesMatchReferences
<1>1. Init => Types /\ Counts /\ FilesInv /\ DiskInv /\ EqualInv
  BY InitTypes, InitCounts, InitFiles, InitDisk, InitEqual
<1>2. Types /\ Counts /\ FilesInv /\ DiskInv /\ EqualInv /\ [Next]_vars
        => Types' /\ Counts' /\ FilesInv' /\ DiskInv' /\ EqualInv'
  BY NextTypes, NextCounts, NextFiles, NextDisk, NextEqual
<1>3. Types /\ Counts /\ FilesInv /\ DiskInv /\ EqualInv => FilesMatchReferences
  BY CountFollows, DiskFollows DEF FilesMatchReferences
<1>4. QED  BY <1>1, <1>2, <1>3, PTL DEF Spec

=============================================================================
