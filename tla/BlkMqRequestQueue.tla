------------------------- MODULE BlkMqRequestQueue -------------------------
(***************************************************************************)
(* What the blk-mq core promises for the requests of one queue, whatever  *)
(* the software queues, hctx->dispatch and the dispatchers do in between   *)
(* (spec.md sections 3 to 5):                                              *)
(*   - a submitter enters the queue (blk_queue_enter) and then allocates  *)
(*     one request, which is queued or handed to the driver at once;      *)
(*     otherwise a request reaches the driver only from the queue, and is *)
(*     freed only by its completion or by queue_rq failing it;            *)
(*   - a requeued request goes back to the queue, never straight to free; *)
(*   - a frozen queue is empty: blk_mq_freeze_queue returns only once     *)
(*     every request is freed and no submitter is inside, and nobody       *)
(*     enters until blk_mq_unfreeze_queue;                                 *)
(*   - between blk_mq_quiesce_queue and blk_mq_unquiesce_queue nothing is  *)
(*     handed to the driver.                                               *)
(***************************************************************************)
CONSTANTS Tag, Submitter

VARIABLES
  entered, \* submitters inside the queue that have not allocated yet
  status,  \* per request: "free", "queued" or "driver"
  frozen,  \* a freeze has drained the queue and not yet been undone
  quiet    \* blk_mq_quiesce_queue has returned and not yet been undone

vars == <<entered, status, frozen, quiet>>

Init ==
  /\ entered = {}
  /\ status = [t \in Tag |-> "free"]
  /\ frozen = FALSE
  /\ quiet = FALSE

Enter(c) ==
  /\ c \notin entered
  /\ ~frozen
  /\ entered' = entered \cup {c}
  /\ UNCHANGED <<status, frozen, quiet>>

\* Allocation by a submitter that has entered; the request is issued
\* directly unless the queue is quiesced, and may fail there at once.
Submit(c, t) ==
  /\ c \in entered
  /\ status[t] = "free"
  /\ entered' = entered \ {c}
  /\ \E s \in IF quiet THEN {"queued"} ELSE {"queued", "driver", "free"} :
       status' = [status EXCEPT ![t] = s]
  /\ UNCHANGED <<frozen, quiet>>

\* queue_rq accepts the request, or fails it and it is ended.
Issue(t) ==
  /\ status[t] = "queued"
  /\ ~quiet
  /\ \E s \in {"driver", "free"} : status' = [status EXCEPT ![t] = s]
  /\ UNCHANGED <<entered, frozen, quiet>>

Complete(t) ==
  /\ status[t] = "driver"
  /\ status' = [status EXCEPT ![t] = "free"]
  /\ UNCHANGED <<entered, frozen, quiet>>

Requeue(t) ==
  /\ status[t] = "driver"
  /\ status' = [status EXCEPT ![t] = "queued"]
  /\ UNCHANGED <<entered, frozen, quiet>>

Freeze ==
  /\ ~frozen
  /\ entered = {}
  /\ \A t \in Tag : status[t] = "free"
  /\ frozen' = TRUE
  /\ UNCHANGED <<entered, status, quiet>>

Unfreeze ==
  /\ frozen
  /\ frozen' = FALSE
  /\ UNCHANGED <<entered, status, quiet>>

Quiesce ==
  /\ ~quiet
  /\ quiet' = TRUE
  /\ UNCHANGED <<entered, status, frozen>>

Unquiesce ==
  /\ quiet
  /\ quiet' = FALSE
  /\ UNCHANGED <<entered, status, frozen>>

Next ==
  \/ \E c \in Submitter : Enter(c) \/ \E t \in Tag : Submit(c, t)
  \/ \E t \in Tag : Issue(t) \/ Complete(t) \/ Requeue(t)
  \/ Freeze \/ Unfreeze \/ Quiesce \/ Unquiesce

Spec == Init /\ [][Next]_vars

=============================================================================
