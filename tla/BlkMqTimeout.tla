---------------------------- MODULE BlkMqTimeout ----------------------------
(***************************************************************************)
(* The life of one request slot, tags->static_rqs[tag], across its reuses,  *)
(* against the timeout scanner, as in block/blk-mq.c. The request's state  *)
(* is its REQ_ATOM_STARTED and REQ_ATOM_COMPLETE bits and whether its      *)
(* deadline has passed. blk_mq_rq_ctx_init does not touch the atomic       *)
(* flags, so COMPLETE survives from one use of the slot to the next until  *)
(* blk_mq_start_request clears it.                                         *)
(*                                                                         *)
(* Two threads: the request's owner (allocation, blk_mq_start_request      *)
(* inside queue_rq, the driver's answer, completion and the finish that    *)
(* puts the tag) and the timeout work (blk_mq_timeout_work ->              *)
(* blk_mq_check_expired -> blk_mq_rq_timed_out). Each of the scanner's     *)
(* reads and its compare-and-set is a step of its own, as they are in the  *)
(* code. Time is abstracted to "the deadline has passed".                  *)
(*                                                                         *)
(* A third thread freezes the queue (blk_freeze_queue_start,              *)
(* blk_mq_freeze_queue_wait, blk_mq_unfreeze_queue). The request holds a   *)
(* reference on q_usage_counter from blk_queue_enter to the blk_queue_exit *)
(* of __blk_mq_finish_request, and the timeout work holds one for its scan *)
(* (percpu_ref_tryget). The device may never complete a command it        *)
(* accepted: then only the timeout handler ends the request.              *)
(***************************************************************************)
EXTENDS Naturals

CONSTANTS
  TimeoutResults   \* what the driver's ->timeout may return

ASSUME TimeoutResults \subseteq {"HANDLED", "RESET_TIMER"}

VARIABLES
  allocated, \* the slot's tag is set in the tag bitmap
  started,   \* REQ_ATOM_STARTED
  complete,  \* REQ_ATOM_COMPLETE
  expired,   \* time_after_eq(jiffies, rq->deadline)
  rpc,       \* where the request's owner is
  spc,       \* where the timeout work is
  ends,      \* completions of the current start (auxiliary)
  killed,    \* q_usage_counter killed: mq_freeze_depth > 0
  fpc        \* where the freezer is

vars == <<allocated, started, complete, expired, rpc, spc, ends, killed, fpc>>

\* Owner states: "free"; "alloc" (allocated, not started); "timer" and "set"
\* (inside blk_mq_start_request); "issuing" (queue_rq has not returned);
\* "inflight" (the driver owns the command); "dropped" (the driver's
\* completion lost the race for COMPLETE); "lost" (the device will never
\* complete the command); "ending" (finalized, not yet freed).
OwnerStates == {"free", "alloc", "timer", "set", "issuing", "inflight",
                "dropped", "lost", "ending"}
ScanStates == {"idle", "iter", "deadline", "mark", "timedout", "handler",
               "reset", "exit"}
FreezerStates == {"none", "wait", "frozen"}

\* The references held on q_usage_counter besides the initial one that
\* percpu_ref_kill drops: the request's, from blk_queue_enter to the
\* blk_queue_exit in __blk_mq_finish_request, and the timeout work's.
UsageRefs == (IF allocated THEN 1 ELSE 0) + (IF spc = "idle" THEN 0 ELSE 1)

\* percpu_ref_tryget: refused only once the ref is killed and has dropped
\* to zero.
percpu_ref_tryget == ~killed \/ UsageRefs > 0

-----------------------------------------------------------------------------
(* The owner                                                               *)

\* blk_mq_alloc_request: blk_queue_enter takes a reference unless the
\* queue is frozen (it waits), and __blk_mq_alloc_request takes the free
\* tag of this slot. A driver whose completion was dropped for a request
\* the timeout already finished holds nothing either.
blk_mq_get_request ==
  /\ ~killed
  /\ ~allocated
  /\ rpc \in {"free", "dropped"}
  /\ allocated' = TRUE
  /\ rpc' = "alloc"
  /\ UNCHANGED <<started, complete, expired, spc, ends, killed, fpc>>

\* blk_mq_start_request, first part: blk_add_timer sets a new deadline.
blk_mq_start_request_timer ==
  /\ rpc = "alloc"
  /\ expired' = FALSE
  /\ ends' = 0
  /\ rpc' = "timer"
  /\ UNCHANGED <<allocated, started, complete, spc, killed, fpc>>

\* blk_mq_start_request, after smp_mb__before_atomic: set STARTED.
blk_mq_start_request_started ==
  /\ rpc = "timer"
  /\ started' = TRUE
  /\ rpc' = "set"
  /\ UNCHANGED <<allocated, complete, expired, spc, ends, killed, fpc>>

\* blk_mq_start_request, last: clear COMPLETE (left set by the previous
\* use of the slot or by a timeout that raced a requeue).
blk_mq_start_request_clear ==
  /\ rpc = "set"
  /\ complete' = FALSE
  /\ rpc' = "issuing"
  /\ UNCHANGED <<allocated, started, expired, spc, ends, killed, fpc>>

\* queue_rq returns OK: the driver owns the command.
queue_rq_ok ==
  /\ rpc = "issuing"
  /\ rpc' = "inflight"
  /\ UNCHANGED <<allocated, started, complete, expired, spc, ends, killed, fpc>>

\* The device never completes the command (environment).
device_hangs ==
  /\ rpc = "inflight"
  /\ rpc' = "lost"
  /\ UNCHANGED <<allocated, started, complete, expired, spc, ends, killed, fpc>>

\* queue_rq returns BUSY: __blk_mq_requeue_request clears STARTED and the
\* request goes back to be dispatched and started again.
__blk_mq_requeue_request ==
  /\ rpc = "issuing"
  /\ started' = FALSE
  /\ rpc' = "alloc"
  /\ UNCHANGED <<allocated, complete, expired, spc, ends, killed, fpc>>

\* queue_rq returns ERROR: blk_mq_end_request finalizes the request
\* without touching COMPLETE.
blk_mq_end_request ==
  /\ rpc = "issuing"
  /\ ends' = ends + 1
  /\ rpc' = "ending"
  /\ UNCHANGED <<allocated, started, complete, expired, spc, killed, fpc>>

\* blk_mq_complete_request from the driver's interrupt: the
\* blk_mark_rq_complete test-and-set decides whether this completion
\* finalizes the request or is ignored.
blk_mq_complete_request ==
  /\ rpc = "inflight"
  /\ IF complete
       THEN /\ rpc' = "dropped"
            /\ UNCHANGED <<complete, ends>>
       ELSE /\ complete' = TRUE
            /\ ends' = ends + 1
            /\ rpc' = "ending"
  /\ UNCHANGED <<allocated, started, expired, spc, killed, fpc>>

\* __blk_mq_finish_request: clear STARTED and put the tag.
__blk_mq_finish_request ==
  /\ rpc = "ending"
  /\ started' = FALSE
  /\ allocated' = FALSE
  /\ rpc' = "free"
  /\ UNCHANGED <<complete, expired, spc, ends, killed, fpc>>

\* Time passes the deadline. The timeout is long enough that it does not
\* pass between blk_mq_start_request in queue_rq and queue_rq's return
\* (the timing the comment above __blk_mq_requeue_request relies on), nor
\* between an end and its finish, nor between blk_mq_check_expired's
\* STARTED test and its deadline read. It passes while the driver holds the
\* command, while a requeued request waits to be dispatched again, and
\* while the slot is free.
DeadlinePasses ==
  /\ ~expired
  /\ rpc \in {"free", "alloc", "inflight", "dropped", "lost"}
  /\ spc # "deadline"
  /\ expired' = TRUE
  /\ UNCHANGED <<allocated, started, complete, rpc, spc, ends, killed, fpc>>

-----------------------------------------------------------------------------
(* The timeout work                                                        *)

\* The freeze-safe scan as blk_queue_enter would take it
\* (percpu_ref_tryget_live): refused as soon as the ref is killed.
blk_mq_timeout_work_live ==
  /\ spc = "idle"
  /\ allocated
  /\ started
  /\ spc' = IF ~killed THEN "iter" ELSE "idle"
  /\ UNCHANGED <<allocated, started, complete, expired, rpc, ends, killed, fpc>>

\* The timer of a started request fires and blk_mq_timeout_work runs: it
\* takes a reference with percpu_ref_tryget, which a freeze does not
\* refuse while references are left, or returns at once.
blk_mq_timeout_work ==
  /\ spc = "idle"
  /\ allocated
  /\ started
  /\ spc' = IF percpu_ref_tryget THEN "iter" ELSE "idle"
  /\ UNCHANGED <<allocated, started, complete, expired, rpc, ends, killed, fpc>>

\* blk_mq_queue_tag_busy_iter visits the tag if it is still set, and
\* blk_mq_check_expired goes on only if REQ_ATOM_STARTED is set.
blk_mq_check_expired_started ==
  /\ spc = "iter"
  /\ spc' = IF allocated /\ started THEN "deadline" ELSE "exit"
  /\ UNCHANGED <<allocated, started, complete, expired, rpc, ends, killed, fpc>>

\* blk_mq_check_expired compares rq->deadline with jiffies.
blk_mq_check_expired_deadline ==
  /\ spc = "deadline"
  /\ spc' = IF expired THEN "mark" ELSE "exit"
  /\ UNCHANGED <<allocated, started, complete, expired, rpc, ends, killed, fpc>>

\* blk_mq_check_expired: blk_mark_rq_complete, the test-and-set it races
\* against blk_mq_complete_request.
blk_mq_check_expired_mark ==
  /\ spc = "mark"
  /\ IF complete
       THEN /\ spc' = "exit"
            /\ UNCHANGED complete
       ELSE /\ complete' = TRUE
            /\ spc' = "timedout"
  /\ UNCHANGED <<allocated, started, expired, rpc, ends, killed, fpc>>

\* blk_mq_rq_timed_out re-checks STARTED and calls the driver's ->timeout.
blk_mq_rq_timed_out ==
  /\ spc = "timedout"
  /\ spc' = IF started THEN "handler" ELSE "exit"
  /\ UNCHANGED <<allocated, started, complete, expired, rpc, ends, killed, fpc>>

\* ->timeout returned BLK_EH_HANDLED: the driver gave up the command, and
\* __blk_mq_complete_request ends the request and __blk_mq_finish_request
\* clears STARTED and puts the tag from the timeout's context. The owner
\* no longer holds a command it gave up; an owner still inside queue_rq
\* goes on with the request.
blk_mq_rq_timed_out_handled ==
  /\ spc = "handler"
  /\ "HANDLED" \in TimeoutResults
  /\ ends' = ends + 1
  /\ started' = FALSE
  /\ allocated' = FALSE
  /\ rpc' = IF rpc \in {"inflight", "dropped", "lost"} THEN "free" ELSE rpc
  /\ spc' = "exit"
  /\ UNCHANGED <<complete, expired, killed, fpc>>

\* ->timeout returned BLK_EH_RESET_TIMER: blk_add_timer ...
blk_mq_rq_timed_out_reset ==
  /\ spc = "handler"
  /\ "RESET_TIMER" \in TimeoutResults
  /\ expired' = FALSE
  /\ spc' = "reset"
  /\ UNCHANGED <<allocated, started, complete, rpc, ends, killed, fpc>>

\* A reset that leaves COMPLETE set.
blk_clear_rq_complete_noclear ==
  /\ spc = "reset"
  /\ spc' = "exit"
  /\ UNCHANGED <<allocated, started, complete, expired, rpc, ends, killed, fpc>>

\* ... then blk_clear_rq_complete.
blk_clear_rq_complete ==
  /\ spc = "reset"
  /\ complete' = FALSE
  /\ spc' = "exit"
  /\ UNCHANGED <<allocated, started, expired, rpc, ends, killed, fpc>>

\* The end of blk_mq_timeout_work: mod_timer for the next deadline, or
\* blk_mq_tag_idle, then blk_queue_exit drops the scan's reference.
blk_mq_timeout_work_exit ==
  /\ spc = "exit"
  /\ spc' = "idle"
  /\ UNCHANGED <<allocated, started, complete, expired, rpc, ends, killed, fpc>>

-----------------------------------------------------------------------------
(* The freezer                                                             *)

\* blk_freeze_queue_start: mq_freeze_depth 0 -> 1 and percpu_ref_kill.
blk_freeze_queue_start ==
  /\ fpc = "none"
  /\ killed' = TRUE
  /\ fpc' = "wait"
  /\ UNCHANGED <<allocated, started, complete, expired, rpc, spc, ends>>

\* blk_mq_freeze_queue_wait returns once q_usage_counter is zero.
blk_mq_freeze_queue_wait ==
  /\ fpc = "wait"
  /\ UsageRefs = 0
  /\ fpc' = "frozen"
  /\ UNCHANGED <<allocated, started, complete, expired, rpc, spc, ends, killed>>

\* blk_mq_unfreeze_queue: mq_freeze_depth back to 0, percpu_ref_reinit.
blk_mq_unfreeze_queue ==
  /\ fpc = "frozen"
  /\ killed' = FALSE
  /\ fpc' = "none"
  /\ UNCHANGED <<allocated, started, complete, expired, rpc, spc, ends>>

-----------------------------------------------------------------------------
(* Specification                                                           *)

\* A fresh slot: atomic_flags zero, tag free.
Init ==
  /\ allocated = FALSE
  /\ started = FALSE
  /\ complete = FALSE
  /\ expired = FALSE
  /\ rpc = "free"
  /\ spc = "idle"
  /\ ends = 0
  /\ killed = FALSE
  /\ fpc = "none"

OwnerStep ==
  \/ blk_mq_start_request_timer
  \/ blk_mq_start_request_started
  \/ blk_mq_start_request_clear
  \/ __blk_mq_requeue_request
  \/ blk_mq_end_request
  \/ blk_mq_complete_request
  \/ __blk_mq_finish_request

ScanStep ==
  \/ blk_mq_timeout_work
  \/ blk_mq_check_expired_started
  \/ blk_mq_check_expired_deadline
  \/ blk_mq_check_expired_mark
  \/ blk_mq_rq_timed_out
  \/ blk_mq_rq_timed_out_handled
  \/ blk_mq_rq_timed_out_reset
  \/ blk_clear_rq_complete
  \/ blk_mq_timeout_work_exit

FreezerStep ==
  \/ blk_freeze_queue_start
  \/ blk_mq_freeze_queue_wait
  \/ blk_mq_unfreeze_queue

Next ==
  \/ blk_mq_get_request
  \/ OwnerStep
  \/ queue_rq_ok
  \/ device_hangs
  \/ DeadlinePasses
  \/ ScanStep
  \/ FreezerStep

\* The owner and the timeout work keep running once they have started
\* (the timer fires again while a started request is outstanding). Time
\* passes whatever the scan is doing, so a deadline that can pass
\* infinitely often does (strong fairness: the scan's own steps disable it
\* briefly). A driver does not answer BUSY forever, nor keep resetting the
\* timer of a command it will never complete. Allocating the slot again is
\* never forced. A freezer waits until the queue drains and unfreezes
\* when its update is done (every caller of blk_mq_freeze_queue does);
\* freezing is never forced.
Fairness ==
  /\ WF_vars(OwnerStep)
  /\ SF_vars(queue_rq_ok)
  /\ SF_vars(DeadlinePasses)
  /\ WF_vars(ScanStep)
  /\ SF_vars(blk_mq_rq_timed_out_handled)
  /\ WF_vars(blk_mq_freeze_queue_wait)
  /\ WF_vars(blk_mq_unfreeze_queue)

Spec == Init /\ [][Next]_vars /\ Fairness

-----------------------------------------------------------------------------
(* Properties                                                              *)

\* Completion idempotence (spec 8): each start of the request is finalized
\* at most once, whichever of the driver's completion, the timeout handler
\* and the error path gets there: the COMPLETE test-and-set in
\* blk_mq_complete_request and blk_mq_check_expired is the linearization
\* point.
CompleteOnce == ends <= 1

\* Every allocated request is eventually finalized and its tag put, even
\* when the driver's completion loses the COMPLETE race to a timeout that
\* then resets the timer.
EveryRequestEnds == allocated ~> ~allocated

\* A freeze drains even while the device holds a command it will never
\* complete: blk_mq_freeze_queue_wait waits for the request's reference,
\* only the timeout handler can end the request, and the timeout work
\* must still get its own reference on the killed q_usage_counter
\* (the percpu_ref_tryget of blk_mq_timeout_work, not blk_queue_enter).
FreezeCompletes == fpc = "wait" ~> fpc = "frozen"

=============================================================================
