----------------------------- MODULE QueryFifo -----------------------------
(***************************************************************************)
(* What the handlers of a worker can rely on when they send queries          *)
(* (include/chat/db_pipeline.h): a queue of chains.  The queries of one      *)
(* handler or callback form a chain; results come one by one, for the        *)
(* queries in the order of their sending; with its last result the chain at  *)
(* the head of the queue is run.  Nothing is promised once the queue has     *)
(* overflowed.  Sessions, Presence, Groups and Uploads use a worker's        *)
(* pipeline in this form.                                                    *)
(***************************************************************************)
EXTENDS Naturals, Sequences

VARIABLES
  building,  \* queries of the chain that the current handler is sending
  queue,     \* the number of queries of each chain that waits
  got,       \* results of the chain at the head
  ran,       \* queries whose chains have been run
  broken     \* the queue has overflowed

vars == <<building, queue, got, ran, broken>>

Init == building = 0 /\ queue = <<>> /\ got = 0 /\ ran = 0 /\ broken = FALSE

Send ==
  /\ ~broken
  /\ building' = building + 1
  /\ UNCHANGED <<queue, got, ran, broken>>

HandlerReturns ==
  /\ building > 0
  /\ queue' = Append(queue, building)
  /\ building' = 0
  /\ UNCHANGED <<got, ran, broken>>

Result ==
  /\ queue # <<>>
  /\ IF got + 1 < Head(queue)
     THEN /\ got' = got + 1
          /\ UNCHANGED <<queue, ran>>
     ELSE /\ got' = 0
          /\ queue' = Tail(queue)
          /\ ran' = ran + Head(queue)
  /\ UNCHANGED <<building, broken>>

Overflow ==
  /\ building > 0
  /\ building' = 0 /\ queue' = <<>> /\ got' = 0 /\ ran' = 0 /\ broken' = TRUE

Next == Send \/ HandlerReturns \/ Result \/ Overflow

Spec == Init /\ [][Next]_vars
=============================================================================
