--------------------------- MODULE BlkMqDispatch ---------------------------
(***************************************************************************)
(* One blk-mq hardware queue (blk_mq_hw_ctx) fed by the software queues   *)
(* (blk_mq_ctx) of NCPU CPUs, without an I/O scheduler (q->elevator is     *)
(* NULL) and without plugging, as in block/blk-mq.c.                       *)
(*                                                                         *)
(* A request is named by its tag: __blk_mq_alloc_request takes the request *)
(* tags->static_rqs[tag], so allocating a tag allocates the request. The   *)
(* actors are the submitting CPUs (blk_mq_make_request, and the queue run  *)
(* they do synchronously after a busy direct issue), the kblockd worker    *)
(* that executes hctx->run_work and q->requeue_work, the driver            *)
(* (queue_rq results, completion interrupts, requeues), the callers of     *)
(* blk_mq_update_nr_requests (freeze, quiesce, resize) and a driver reset  *)
(* path that quiesces the queue on its own.                                *)
(***************************************************************************)
EXTENDS Integers, Sequences, FiniteSets, SequencesExt

CONSTANTS
  NCPU,       \* CPUs; CPU i owns software queue i (ctx->index_hw = i)
  NTags,      \* set->queue_depth: the tags and requests of the hctx
  Depths,     \* values that blk_mq_update_nr_requests may set
  Kblockd,    \* the kblockd worker thread
  Resizers,   \* threads calling blk_mq_update_nr_requests
  Quiescers,  \* threads calling blk_mq_quiesce_queue/blk_mq_unquiesce_queue
  MaxCycles,  \* bound on the freeze or quiesce cycles the callers start
  DriverResults, \* the results this driver's queue_rq may return
  DriverRequeues \* whether this driver calls blk_mq_requeue_request

ASSUME /\ NCPU \in Nat \ {0}
       /\ NTags \in Nat \ {0}
       /\ Depths \subseteq 1..NTags
       /\ Resizers \cap Quiescers = {}
       /\ MaxCycles \in Nat
       /\ "OK" \in DriverResults
       /\ DriverRequeues \in BOOLEAN

CPU == 1..NCPU
Tag == 1..NTags
Disp == CPU \cup {Kblockd}          \* threads that can run the hw queue
Ctl == Resizers \cup Quiescers

\* Results of q->mq_ops->queue_rq.
QueueRet == {"OK", "BUSY", "DEV_BUSY", "ERROR"}
ASSUME DriverResults \subseteq QueueRet

\* BLK_MQ_DISPATCH_BUSY_EWMA_WEIGHT and BLK_MQ_DISPATCH_BUSY_EWMA_FACTOR.
EWMA_WEIGHT == 8
EWMA_FACTOR == 4

VARIABLES
  allocated,    \* tags set in hctx->tags->bitmap_tags
  owner,        \* rq->mq_ctx->cpu of the request of each tag
  ctxList,      \* ctx->rq_list of each CPU
  ctxPending,   \* the ctx's bit in hctx->ctx_map
  dispatchList, \* hctx->dispatch
  inflight,     \* requests the driver accepted and has not completed
  restart,      \* BLK_MQ_S_SCHED_RESTART in hctx->state
  runPending,   \* hctx->run_work queued on kblockd
  dispatchBusy, \* hctx->dispatch_busy
  dispatchFrom, \* hctx->dispatch_from, round-robin start of do_dispatch_ctx
  requeueList,  \* q->requeue_list
  requeueKick,  \* q->requeue_work queued on kblockd
  pc,           \* where each CPU and kblockd is
  local,        \* the rq_list a running dispatcher holds
  batch,        \* where that rq_list came from: "list", "flush" or "ctx"
  lastRet,      \* ret of the last queue_rq of blk_mq_dispatch_rq_list
  progress,     \* queued + errors != 0 in blk_mq_dispatch_rq_list
  freezeDepth,  \* q->mq_freeze_depth
  refDead,      \* q->q_usage_counter killed by percpu_ref_kill
  quiesced,     \* QUEUE_FLAG_QUIESCED
  depth,        \* usable depth of the tag bitmap (q->nr_requests)
  cpc,          \* where each resizer and quiescer is
  cycles        \* freeze or quiesce cycles started so far (bounded)

queueVars == <<ctxList, ctxPending, dispatchList, requeueList, requeueKick>>
hctxVars == <<restart, runPending, dispatchBusy, dispatchFrom>>
dispVars == <<local, batch, lastRet, progress>>
ctlVars == <<freezeDepth, refDead, quiesced, depth, cpc, cycles>>
vars == <<allocated, owner, inflight, pc, queueVars, hctxVars, dispVars,
          ctlVars>>

-----------------------------------------------------------------------------
(* Helpers                                                                 *)

\* blk_mq_hctx_has_pending: the dispatch list or a ctx bit (no scheduler).
blk_mq_hctx_has_pending(dl, pend) ==
  dl # <<>> \/ \E c \in CPU : pend[c]

\* need_run of blk_mq_run_hw_queue for the given queue contents.
NeedRun(q, dl, pend) == ~q /\ blk_mq_hctx_has_pending(dl, pend)

\* blk_mq_run_hw_queue(hctx, true): queue run_work on kblockd when needed.
RunHwQueueAsync(q, dl, pend) == runPending' = (runPending \/ NeedRun(q, dl, pend))

\* Variant: the old estimate weighed by 8/8, so it never decays.
UpdateDispatchBusy_noDecay(ewma, busy) ==
  IF ewma = 0 /\ ~busy THEN 0
  ELSE (ewma * EWMA_WEIGHT + (IF busy THEN 2^EWMA_FACTOR ELSE 0))
         \div EWMA_WEIGHT

\* blk_mq_update_dispatch_busy: EWMA in fixed point, weight 7/8.
UpdateDispatchBusy(ewma, busy) ==
  IF ewma = 0 /\ ~busy THEN 0
  ELSE (ewma * (EWMA_WEIGHT - 1) + (IF busy THEN 2^EWMA_FACTOR ELSE 0))
         \div EWMA_WEIGHT

\* Tags blk_mq_get_tag may hand out (no reserved tags on this path).
FreeTags == (1..depth) \ allocated

\* A driver returns DEV_BUSY only while it has requests of this queue in
\* flight, whose completion reruns the queue.
DriverRet(infl) ==
  IF infl = {} THEN DriverResults \ {"DEV_BUSY"} ELSE DriverResults

\* blk_mq_sched_restart, called from __blk_mq_finish_request.
SchedRestart(dl, pend) ==
  IF restart THEN /\ restart' = FALSE
                  /\ RunHwQueueAsync(quiesced, dl, pend)
  ELSE UNCHANGED <<restart, runPending>>

\* Variant: the tag is put but blk_mq_sched_restart is not called.
blk_mq_free_request_norestart(alloc, t) ==
  /\ allocated' = alloc \ {t}
  /\ UNCHANGED <<restart, runPending>>

\* blk_mq_free_request -> __blk_mq_finish_request: put the tag (alloc is
\* the allocation before the free) and rerun on SCHED_RESTART.
blk_mq_free_request(alloc, t) ==
  /\ allocated' = alloc \ {t}
  /\ SchedRestart(dispatchList, ctxPending)

\* Variant: the request is queued without blk_mq_hctx_mark_pending.
InsertRequest_nomark(c, t) ==
  /\ ctxList' = [ctxList EXCEPT ![c] = Append(@, t)]
  /\ UNCHANGED ctxPending

\* Variant: at_head taken the wrong way round, list_add instead of
\* list_add_tail.
InsertRequest_head(c, t) ==
  /\ ctxList' = [ctxList EXCEPT ![c] = <<t>> \o @]
  /\ ctxPending' = [ctxPending EXCEPT ![c] = TRUE]

\* __blk_mq_insert_request: add to the tail of the ctx's rq_list and
\* blk_mq_hctx_mark_pending.
InsertRequest(c, t) ==
  /\ ctxList' = [ctxList EXCEPT ![c] = Append(@, t)]
  /\ ctxPending' = [ctxPending EXCEPT ![c] = TRUE]

\* Variant: list_add instead of list_add_tail.
blk_mq_request_bypass_insert_head(t) == dispatchList' = <<t>> \o dispatchList

\* blk_mq_request_bypass_insert: add to the tail of hctx->dispatch.
blk_mq_request_bypass_insert(t) == dispatchList' = Append(dispatchList, t)

\* Threads that hold a q_usage_counter reference: every allocated request
\* and every CPU between blk_queue_enter and blk_queue_exit.
HoldsRef == {"tag", "waitTag", "run", "loop", "fin", "ctx"}
Usage == Cardinality(allocated) + Cardinality({c \in CPU : pc[c] \in HoldsRef})

\* Dispatchers inside hctx_lock (the RCU read section).
Readers == {d \in Disp : pc[d] \in {"loop", "fin", "ctx"}}

\* First set bit of hctx->ctx_map at or after index off, wrapping around,
\* as __sbitmap_for_each_set visits them.
NextPendingCtx(off, pend) ==
  LET set == {c \in CPU : pend[c]}
      dist(c) == (c - off) % NCPU
  IN CHOOSE c \in set : \A o \in set : dist(c) <= dist(o)

-----------------------------------------------------------------------------
(* Submission: blk_queue_enter and blk_mq_make_request                     *)

\* blk_queue_enter: percpu_ref_tryget_live, or sleep while frozen.
blk_queue_enter(c) ==
  /\ pc[c] \in {"idle", "enter"}
  /\ pc[c] = "enter" => ~refDead
  /\ pc' = [pc EXCEPT ![c] = IF refDead THEN "enter" ELSE "tag"]
  /\ UNCHANGED <<allocated, owner, inflight, queueVars, hctxVars, dispVars,
                 ctlVars>>

\* blk_mq_get_tag finds the bitmap full: it runs the queue and sleeps.
blk_mq_get_tag_sleep(c) ==
  /\ pc[c] = "tag"
  /\ FreeTags = {}
  /\ RunHwQueueAsync(quiesced, dispatchList, ctxPending)
  /\ pc' = [pc EXCEPT ![c] = "waitTag"]
  /\ UNCHANGED <<allocated, owner, inflight, queueVars, restart, dispatchBusy,
                 dispatchFrom, dispVars, ctlVars>>

\* A tag release wakes the sleeper, which retries the allocation.
blk_mq_get_tag_wake(c) ==
  /\ pc[c] = "waitTag"
  /\ FreeTags # {}
  /\ pc' = [pc EXCEPT ![c] = "tag"]
  /\ UNCHANGED <<allocated, owner, inflight, queueVars, hctxVars, dispVars,
                 ctlVars>>

\* blk_mq_queue_io then blk_mq_run_hw_queue(hctx, true).
blk_mq_queue_io(c, t) ==
  /\ InsertRequest(c, t)
  /\ RunHwQueueAsync(quiesced, dispatchList, ctxPending')
  /\ allocated' = allocated \cup {t}
  /\ pc' = [pc EXCEPT ![c] = "idle"]
  /\ UNCHANGED <<inflight, dispatchList, requeueList, requeueKick, restart,
                 dispatchBusy, dispatchFrom>>

\* blk_mq_try_issue_directly with __blk_mq_try_issue_directly and
\* __blk_mq_issue_directly; r is what queue_rq returns.
blk_mq_try_issue_directly(c, t, r) ==
  \/ /\ quiesced
     /\ blk_mq_request_bypass_insert(t)   \* run_queue = false
     /\ allocated' = allocated \cup {t}
     /\ pc' = [pc EXCEPT ![c] = "idle"]
     /\ UNCHANGED <<inflight, restart, runPending, dispatchBusy>>
  \/ /\ ~quiesced
     /\ r = "OK"
     /\ inflight' = inflight \cup {t}
     /\ allocated' = allocated \cup {t}
     /\ dispatchBusy' = UpdateDispatchBusy(dispatchBusy, FALSE)
     /\ pc' = [pc EXCEPT ![c] = "idle"]
     /\ UNCHANGED <<dispatchList, restart, runPending>>
  \/ /\ ~quiesced
     /\ r \in {"BUSY", "DEV_BUSY"}
     \* requeue, then blk_mq_request_bypass_insert(rq, true): append to
     \* hctx->dispatch and run the queue from this CPU.
     /\ dispatchBusy' = UpdateDispatchBusy(dispatchBusy, TRUE)
     /\ blk_mq_request_bypass_insert(t)
     /\ allocated' = allocated \cup {t}
     /\ pc' = [pc EXCEPT ![c] = "run"]
     /\ UNCHANGED <<inflight, restart, runPending>>
  \/ /\ ~quiesced
     /\ r = "ERROR"
     \* blk_mq_end_request frees the request at once.
     /\ dispatchBusy' = UpdateDispatchBusy(dispatchBusy, FALSE)
     /\ blk_mq_free_request(allocated \cup {t}, t)
     /\ pc' = [pc EXCEPT ![c] = "idle"]
     /\ UNCHANGED <<inflight, dispatchList>>

\* blk_mq_make_request after blk_queue_enter: take a free tag
\* (__blk_mq_alloc_request), then issue directly while the queue is not
\* busy, otherwise insert into this CPU's software queue.
blk_mq_make_request(c) ==
  /\ pc[c] = "tag"
  /\ \E t \in FreeTags, r \in DriverRet(inflight) :
       /\ owner' = [owner EXCEPT ![t] = c]
       /\ IF dispatchBusy = 0
            THEN /\ blk_mq_try_issue_directly(c, t, r)
                 /\ UNCHANGED <<ctxList, ctxPending, requeueList, requeueKick,
                                dispatchFrom>>
            ELSE blk_mq_queue_io(c, t)
  /\ UNCHANGED <<dispVars, ctlVars>>

-----------------------------------------------------------------------------
(* Running the hardware queue                                              *)

\* blk_mq_run_work_fn: kblockd executes hctx->run_work.
blk_mq_run_work_fn ==
  /\ pc[Kblockd] = "idle"
  /\ runPending
  /\ runPending' = FALSE
  /\ pc' = [pc EXCEPT ![Kblockd] = "run"]
  /\ UNCHANGED <<allocated, owner, inflight, queueVars, restart, dispatchBusy,
                 dispatchFrom, dispVars, ctlVars>>

\* Variant: list_splice without the _init, the ctx lists stay as they were.
blk_mq_flush_busy_ctxs_noinit(d) ==
  /\ local' = [local EXCEPT ![d] = FlattenSeq(ctxList)]
  /\ UNCHANGED ctxList
  /\ ctxPending' = [c \in CPU |-> FALSE]

\* blk_mq_flush_busy_ctxs: splice the rq_list of every ctx whose bit is
\* set, in bit order, onto the dispatcher's list and clear the bits.
blk_mq_flush_busy_ctxs(d) ==
  /\ local' = [local EXCEPT ![d] = FlattenSeq(ctxList)]
  /\ ctxList' = [c \in CPU |-> <<>>]
  /\ ctxPending' = [c \in CPU |-> FALSE]

\* __blk_mq_run_hw_queue -> blk_mq_sched_dispatch_requests, entered under
\* hctx_lock: leave when quiesced, else take hctx->dispatch (marking
\* SCHED_RESTART), else dequeue one by one while busy, else flush all ctxs.
blk_mq_sched_dispatch_requests(d) ==
  /\ pc[d] = "run"
  /\ progress' = [progress EXCEPT ![d] = FALSE]
  /\ lastRet' = [lastRet EXCEPT ![d] = "OK"]
  /\ \/ /\ quiesced
        /\ pc' = [pc EXCEPT ![d] = "idle"]
        /\ UNCHANGED <<queueVars, restart, local, batch>>
     \/ /\ ~quiesced
        /\ dispatchList # <<>>
        /\ local' = [local EXCEPT ![d] = dispatchList]
        /\ dispatchList' = <<>>
        /\ restart' = TRUE
        /\ batch' = [batch EXCEPT ![d] = "list"]
        /\ pc' = [pc EXCEPT ![d] = "loop"]
        /\ UNCHANGED <<ctxList, ctxPending, requeueList, requeueKick>>
     \/ /\ ~quiesced
        /\ dispatchList = <<>>
        /\ dispatchBusy > 0
        /\ batch' = [batch EXCEPT ![d] = "ctx"]
        /\ pc' = [pc EXCEPT ![d] = "ctx"]
        /\ UNCHANGED <<queueVars, restart, local>>
     \/ /\ ~quiesced
        /\ dispatchList = <<>>
        /\ dispatchBusy = 0
        /\ blk_mq_flush_busy_ctxs(d)
        /\ batch' = [batch EXCEPT ![d] = "flush"]
        /\ pc' = [pc EXCEPT ![d] = IF FlattenSeq(ctxList) = <<>> THEN "idle"
                                                                ELSE "loop"]
        /\ UNCHANGED <<dispatchList, requeueList, requeueKick, restart>>
  /\ UNCHANGED <<allocated, owner, inflight, runPending, dispatchBusy,
                 dispatchFrom, ctlVars>>

\* blk_mq_do_dispatch_ctx: while a ctx bit is set, blk_mq_dequeue_from_ctx
\* takes one request round-robin from hctx->dispatch_from and
\* blk_mq_dispatch_rq_list issues it.
blk_mq_do_dispatch_ctx(d) ==
  /\ pc[d] = "ctx"
  /\ \/ /\ \A c \in CPU : ~ctxPending[c]
        /\ pc' = [pc EXCEPT ![d] = "idle"]
        /\ UNCHANGED <<ctxList, ctxPending, local, progress, dispatchFrom>>
     \/ /\ \E c \in CPU : ctxPending[c]
        /\ LET c == NextPendingCtx(dispatchFrom, ctxPending)
           IN /\ local' = [local EXCEPT ![d] = <<Head(ctxList[c])>>]
              /\ ctxList' = [ctxList EXCEPT ![c] = Tail(@)]
              /\ ctxPending' = [ctxPending EXCEPT ![c] = Tail(ctxList[c]) # <<>>]
              /\ dispatchFrom' = (c % NCPU) + 1
        /\ progress' = [progress EXCEPT ![d] = FALSE]
        /\ pc' = [pc EXCEPT ![d] = "loop"]
  /\ UNCHANGED <<allocated, owner, inflight, dispatchList, requeueList,
                 requeueKick, restart, runPending, dispatchBusy, batch,
                 lastRet, ctlVars>>

\* One pass of the do-while loop of blk_mq_dispatch_rq_list: queue_rq on
\* the first request of the list returns r.
blk_mq_dispatch_rq_list_issue(d, r) ==
  /\ pc[d] = "loop"
  /\ local[d] # <<>>
  /\ r \in DriverRet(inflight)
  /\ LET rq == Head(local[d])
         rest == Tail(local[d])
     IN \/ /\ r = "OK"
           /\ inflight' = inflight \cup {rq}
           /\ local' = [local EXCEPT ![d] = rest]
           /\ progress' = [progress EXCEPT ![d] = TRUE]
           /\ pc' = [pc EXCEPT ![d] = IF rest = <<>> THEN "fin" ELSE "loop"]
           /\ UNCHANGED <<allocated, restart, runPending>>
        \/ /\ r \in {"BUSY", "DEV_BUSY"}
           \* list_add back to the head and __blk_mq_requeue_request
           /\ pc' = [pc EXCEPT ![d] = "fin"]
           /\ UNCHANGED <<allocated, inflight, local, progress, restart,
                          runPending>>
        \/ /\ r = "ERROR"
           \* errors++ and blk_mq_end_request: the request is freed.
           /\ blk_mq_free_request(allocated, rq)
           /\ local' = [local EXCEPT ![d] = rest]
           /\ progress' = [progress EXCEPT ![d] = TRUE]
           /\ pc' = [pc EXCEPT ![d] = IF rest = <<>> THEN "fin" ELSE "loop"]
           /\ UNCHANGED inflight
  /\ lastRet' = [lastRet EXCEPT ![d] = r]
  /\ UNCHANGED <<owner, queueVars, dispatchBusy, dispatchFrom, batch, ctlVars>>

\* Variant: the requeue work takes q->requeue_list without emptying it.
blk_mq_requeue_work_noinit ==
  /\ requeueKick
  /\ LET mine(c) == SelectSeq(requeueList, LAMBDA t : owner[t] = c)
     IN /\ ctxList' = [c \in CPU |-> Reverse(mine(c)) \o ctxList[c]]
        /\ ctxPending' = [c \in CPU |-> ctxPending[c] \/ mine(c) # <<>>]
  /\ requeueKick' = FALSE
  /\ RunHwQueueAsync(quiesced, dispatchList, ctxPending')
  /\ UNCHANGED <<allocated, owner, inflight, pc, dispatchList, requeueList,
                 restart, dispatchBusy, dispatchFrom, dispVars, ctlVars>>

\* Variant: leftovers are left to SCHED_RESTART or the delayed run only.
DispatchRerun_restartOnly(d, dl) ==
  IF restart /\ lastRet[d] = "BUSY" THEN runPending' = TRUE
  ELSE UNCHANGED runPending

\* How blk_mq_dispatch_rq_list reruns the queue after putting requests
\* back on hctx->dispatch (dl): at once unless SCHED_RESTART is set, after
\* BLK_MQ_RESOURCE_DELAY if the driver said BUSY, else on a completion.
DispatchRerun(d, dl) ==
  IF ~restart THEN RunHwQueueAsync(quiesced, dl, ctxPending)
  ELSE IF lastRet[d] = "BUSY"
         THEN runPending' = TRUE   \* blk_mq_delay_run_hw_queue
         ELSE UNCHANGED runPending

\* The tail of blk_mq_dispatch_rq_list: splice what is left to the head of
\* hctx->dispatch and rerun now, after BLK_MQ_RESOURCE_DELAY, or on the next
\* completion (SCHED_RESTART); update dispatch_busy; return to the caller,
\* which keeps dequeuing from the ctxs after a batch that made progress.
blk_mq_dispatch_rq_list_finish(d) ==
  /\ pc[d] = "fin"
  /\ \/ /\ local[d] # <<>>
        /\ dispatchList' = local[d] \o dispatchList
        /\ local' = [local EXCEPT ![d] = <<>>]
        /\ DispatchRerun(d, dispatchList')
        /\ dispatchBusy' = UpdateDispatchBusy(dispatchBusy, TRUE)
        /\ pc' = [pc EXCEPT ![d] = "idle"]
     \/ /\ local[d] = <<>>
        /\ dispatchBusy' = UpdateDispatchBusy(dispatchBusy, FALSE)
        /\ pc' = [pc EXCEPT ![d] =
                    IF progress[d] /\ batch[d] \in {"list", "ctx"}
                      THEN "ctx" ELSE "idle"]
        /\ UNCHANGED <<dispatchList, runPending, local>>
  /\ batch' = [batch EXCEPT ![d] = IF pc'[d] = "ctx" THEN "ctx" ELSE @]
  /\ UNCHANGED <<allocated, owner, inflight, ctxList, ctxPending, requeueList,
                 requeueKick, restart, dispatchFrom, lastRet, progress,
                 ctlVars>>

-----------------------------------------------------------------------------
(* Completion and requeue                                                  *)

\* blk_mq_complete_request -> __blk_mq_complete_request -> blk_mq_end_request
\* -> blk_mq_free_request -> __blk_mq_finish_request: put the tag, rerun
\* on SCHED_RESTART, blk_queue_exit.
blk_mq_complete_request(t) ==
  /\ t \in inflight
  /\ inflight' = inflight \ {t}
  /\ blk_mq_free_request(allocated, t)
  /\ UNCHANGED <<owner, pc, queueVars, dispatchBusy, dispatchFrom, dispVars,
                 ctlVars>>

\* blk_mq_requeue_request(rq, true): clear STARTED, add to the head of the
\* requeue list (REQ_SOFTBARRIER) and kick q->requeue_work.
blk_mq_requeue_request(t) ==
  /\ DriverRequeues
  /\ t \in inflight
  /\ inflight' = inflight \ {t}
  /\ requeueList' = <<t>> \o requeueList
  /\ requeueKick' = TRUE
  /\ UNCHANGED <<allocated, owner, pc, ctxList, ctxPending, dispatchList,
                 hctxVars, dispVars, ctlVars>>

\* blk_mq_requeue_work: insert every REQ_SOFTBARRIER request at the head of
\* its ctx, in list order, then run the hardware queues.
blk_mq_requeue_work ==
  /\ requeueKick
  /\ LET mine(c) == SelectSeq(requeueList, LAMBDA t : owner[t] = c)
     IN /\ ctxList' = [c \in CPU |-> Reverse(mine(c)) \o ctxList[c]]
        /\ ctxPending' = [c \in CPU |-> ctxPending[c] \/ mine(c) # <<>>]
  /\ requeueList' = <<>>
  /\ requeueKick' = FALSE
  /\ RunHwQueueAsync(quiesced, dispatchList, ctxPending')
  /\ UNCHANGED <<allocated, owner, inflight, pc, dispatchList, restart,
                 dispatchBusy, dispatchFrom, dispVars, ctlVars>>

-----------------------------------------------------------------------------
(* Freeze and quiesce                                                      *)

\* Variant: the first freezer does not percpu_ref_kill q_usage_counter.
blk_freeze_queue_start_nokill(a) ==
  /\ a \in Resizers
  /\ cpc[a] = "idle"
  /\ cycles < MaxCycles
  /\ cycles' = cycles + 1
  /\ freezeDepth' = freezeDepth + 1
  /\ IF freezeDepth = 0
       THEN RunHwQueueAsync(quiesced, dispatchList, ctxPending)
       ELSE UNCHANGED runPending
  /\ cpc' = [cpc EXCEPT ![a] = "freezeWait"]
  /\ UNCHANGED <<allocated, owner, inflight, pc, queueVars, restart, refDead,
                 dispatchBusy, dispatchFrom, dispVars, quiesced, depth>>

\* blk_freeze_queue_start: the first freezer kills q_usage_counter and runs
\* the hardware queues.
blk_freeze_queue_start(a) ==
  /\ a \in Resizers
  /\ cpc[a] = "idle"
  /\ cycles < MaxCycles
  /\ cycles' = cycles + 1
  /\ freezeDepth' = freezeDepth + 1
  /\ IF freezeDepth = 0
       THEN /\ refDead' = TRUE
            /\ RunHwQueueAsync(quiesced, dispatchList, ctxPending)
       ELSE UNCHANGED <<refDead, runPending>>
  /\ cpc' = [cpc EXCEPT ![a] = "freezeWait"]
  /\ UNCHANGED <<allocated, owner, inflight, pc, queueVars, restart,
                 dispatchBusy, dispatchFrom, dispVars, quiesced, depth>>

\* Variant: the freeze returns without waiting for the drain.
blk_mq_freeze_queue_wait_nowait(a) ==
  /\ cpc[a] = "freezeWait"
  /\ cpc' = [cpc EXCEPT ![a] = "quiesce"]
  /\ UNCHANGED <<allocated, owner, inflight, pc, queueVars, hctxVars,
                 dispVars, freezeDepth, refDead, quiesced, depth, cycles>>

\* blk_mq_freeze_queue_wait: wait until q_usage_counter is zero.
blk_mq_freeze_queue_wait(a) ==
  /\ cpc[a] = "freezeWait"
  /\ Usage = 0
  /\ cpc' = [cpc EXCEPT ![a] = "quiesce"]
  /\ UNCHANGED <<allocated, owner, inflight, pc, queueVars, hctxVars,
                 dispVars, freezeDepth, refDead, quiesced, depth, cycles>>

\* blk_mq_quiesce_queue_nowait: set QUEUE_FLAG_QUIESCED.
blk_mq_quiesce_queue_nowait(a) ==
  /\ \/ a \in Resizers /\ cpc[a] = "quiesce"
     \/ a \in Quiescers /\ cpc[a] = "idle" /\ cycles < MaxCycles
  /\ cycles' = IF a \in Quiescers THEN cycles + 1 ELSE cycles
  /\ quiesced' = TRUE
  /\ cpc' = [cpc EXCEPT ![a] = "quiesceWait"]
  /\ UNCHANGED <<allocated, owner, inflight, pc, queueVars, hctxVars,
                 dispVars, freezeDepth, refDead, depth>>

\* Variant: blk_mq_quiesce_queue without synchronize_rcu.
blk_mq_quiesce_queue_norcu(a) ==
  /\ cpc[a] = "quiesceWait"
  /\ cpc' = [cpc EXCEPT ![a] = IF a \in Resizers THEN "update" ELSE "quiet"]
  /\ UNCHANGED <<allocated, owner, inflight, pc, queueVars, hctxVars,
                 dispVars, freezeDepth, refDead, quiesced, depth, cycles>>

\* The rest of blk_mq_quiesce_queue: synchronize_rcu waits for every
\* dispatcher inside hctx_lock.
blk_mq_quiesce_queue(a) ==
  /\ cpc[a] = "quiesceWait"
  /\ Readers = {}
  /\ cpc' = [cpc EXCEPT ![a] = IF a \in Resizers THEN "update" ELSE "quiet"]
  /\ UNCHANGED <<allocated, owner, inflight, pc, queueVars, hctxVars,
                 dispVars, freezeDepth, refDead, quiesced, depth, cycles>>

\* The body of blk_mq_update_nr_requests: blk_mq_tag_update_depth on the
\* frozen and quiesced queue.
blk_mq_update_nr_requests(a) ==
  /\ cpc[a] = "update"
  /\ \E nr \in Depths : depth' = nr
  /\ cpc' = [cpc EXCEPT ![a] = "unquiesce"]
  /\ UNCHANGED <<allocated, owner, inflight, pc, queueVars, hctxVars,
                 dispVars, freezeDepth, refDead, quiesced, cycles>>

\* blk_mq_unquiesce_queue: clear QUEUE_FLAG_QUIESCED and run the queues.
blk_mq_unquiesce_queue(a) ==
  /\ \/ a \in Resizers /\ cpc[a] = "unquiesce"
     \/ a \in Quiescers /\ cpc[a] = "quiet"
  /\ quiesced' = FALSE
  /\ RunHwQueueAsync(FALSE, dispatchList, ctxPending)
  /\ cpc' = [cpc EXCEPT ![a] = IF a \in Resizers THEN "unfreeze" ELSE "idle"]
  /\ UNCHANGED <<allocated, owner, inflight, pc, queueVars, restart,
                 dispatchBusy, dispatchFrom, dispVars, freezeDepth, refDead,
                 depth, cycles>>

\* blk_mq_unfreeze_queue: the last unfreezer revives q_usage_counter and
\* wakes the threads sleeping in blk_queue_enter.
blk_mq_unfreeze_queue(a) ==
  /\ cpc[a] = "unfreeze"
  /\ freezeDepth' = freezeDepth - 1
  /\ IF freezeDepth = 1 THEN refDead' = FALSE ELSE UNCHANGED refDead
  /\ cpc' = [cpc EXCEPT ![a] = "idle"]
  /\ UNCHANGED <<allocated, owner, inflight, pc, queueVars, hctxVars,
                 dispVars, quiesced, depth, cycles>>

-----------------------------------------------------------------------------
(* Specification                                                           *)

Init ==
  /\ allocated = {}
  /\ owner = [t \in Tag |-> 1]
  /\ ctxList = [c \in CPU |-> <<>>]
  /\ ctxPending = [c \in CPU |-> FALSE]
  /\ dispatchList = <<>>
  /\ inflight = {}
  /\ restart = FALSE
  /\ runPending = FALSE
  /\ dispatchBusy = 0
  /\ dispatchFrom = 1
  /\ requeueList = <<>>
  /\ requeueKick = FALSE
  /\ pc = [d \in Disp |-> "idle"]
  /\ local = [d \in Disp |-> <<>>]
  /\ batch = [d \in Disp |-> "flush"]
  /\ lastRet = [d \in Disp |-> "OK"]
  /\ progress = [d \in Disp |-> FALSE]
  /\ freezeDepth = 0
  /\ refDead = FALSE
  /\ quiesced = FALSE
  /\ depth = NTags
  /\ cpc = [a \in Ctl |-> "idle"]
  /\ cycles = 0

Next ==
  \/ \E c \in CPU : \/ blk_queue_enter(c)
                    \/ blk_mq_get_tag_sleep(c)
                    \/ blk_mq_get_tag_wake(c)
                    \/ blk_mq_make_request(c)
  \/ blk_mq_run_work_fn
  \/ \E d \in Disp : \/ blk_mq_sched_dispatch_requests(d)
                     \/ blk_mq_do_dispatch_ctx(d)
                     \/ \E r \in QueueRet : blk_mq_dispatch_rq_list_issue(d, r)
                     \/ blk_mq_dispatch_rq_list_finish(d)
  \/ \E t \in Tag : blk_mq_complete_request(t) \/ blk_mq_requeue_request(t)
  \/ blk_mq_requeue_work
  \/ \E a \in Ctl : \/ blk_freeze_queue_start(a)
                    \/ blk_mq_freeze_queue_wait(a)
                    \/ blk_mq_quiesce_queue_nowait(a)
                    \/ blk_mq_quiesce_queue(a)
                    \/ blk_mq_update_nr_requests(a)
                    \/ blk_mq_unquiesce_queue(a)
                    \/ blk_mq_unfreeze_queue(a)

\* The steps of a thread running the hardware queue.
DispatcherStep(d) ==
  \/ blk_mq_sched_dispatch_requests(d)
  \/ blk_mq_do_dispatch_ctx(d)
  \/ \E r \in QueueRet : blk_mq_dispatch_rq_list_issue(d, r)
  \/ blk_mq_dispatch_rq_list_finish(d)

\* The steps of a resizer or quiescer after it has started a cycle.
ControlStep(a) ==
  \/ blk_mq_freeze_queue_wait(a)
  \/ a \in Resizers /\ blk_mq_quiesce_queue_nowait(a)
  \/ blk_mq_quiesce_queue(a)
  \/ blk_mq_update_nr_requests(a)
  \/ blk_mq_unquiesce_queue(a)
  \/ blk_mq_unfreeze_queue(a)

\* Threads that have work keep running and kblockd executes queued work
\* (weak fairness). A tag sleeper is woken by a release even if the tag
\* is taken again later, and the driver does not answer busy forever nor
\* hold an accepted request forever (strong fairness: both are enabled
\* only now and then). Submitting a new request and starting a freeze or
\* quiesce cycle are never forced.
Fairness ==
  /\ \A c \in CPU : /\ WF_vars(blk_mq_make_request(c) \/ blk_mq_get_tag_sleep(c))
                    /\ SF_vars(blk_mq_get_tag_wake(c))
  /\ WF_vars(blk_mq_run_work_fn)
  /\ WF_vars(blk_mq_requeue_work)
  /\ \A d \in Disp : /\ WF_vars(DispatcherStep(d))
                     /\ SF_vars(blk_mq_dispatch_rq_list_issue(d, "OK"))
  /\ \A t \in Tag : SF_vars(blk_mq_complete_request(t))
  /\ \A a \in Ctl : WF_vars(ControlStep(a))

Spec == Init /\ [][Next]_vars /\ Fairness

-----------------------------------------------------------------------------
(* Properties                                                              *)

TypeOK ==
  /\ allocated \subseteq Tag
  /\ owner \in [Tag -> CPU]
  /\ ctxList \in [CPU -> Seq(Tag)]
  /\ ctxPending \in [CPU -> BOOLEAN]
  /\ dispatchList \in Seq(Tag)
  /\ inflight \subseteq allocated
  /\ restart \in BOOLEAN /\ runPending \in BOOLEAN
  /\ dispatchBusy \in 0..(2^EWMA_FACTOR)
  /\ dispatchFrom \in CPU
  /\ requeueList \in Seq(Tag) /\ requeueKick \in BOOLEAN
  /\ pc \in [Disp -> {"idle", "enter", "tag", "waitTag", "run", "loop", "fin",
                      "ctx"}]
  /\ local \in [Disp -> Seq(Tag)]
  /\ batch \in [Disp -> {"list", "flush", "ctx"}]
  /\ lastRet \in [Disp -> QueueRet]
  /\ progress \in [Disp -> BOOLEAN]
  /\ freezeDepth \in 0..Cardinality(Resizers)
  /\ refDead = (freezeDepth > 0)
  /\ quiesced \in BOOLEAN
  /\ depth \in Depths \cup {NTags}
  /\ cpc \in [Ctl -> {"idle", "freezeWait", "quiesce", "quiesceWait",
                      "update", "unquiesce", "unfreeze", "quiet"}]
  /\ cycles \in 0..MaxCycles

\* How often a tag occurs in the ctx lists, hctx->dispatch, the requeue
\* list, the dispatchers' local lists and the driver.
Occurrences(t) ==
  LET n(s) == Cardinality({i \in DOMAIN s : s[i] = t})
  IN  n(FlattenSeq(ctxList)) + n(dispatchList) + n(requeueList)
      + n(FlattenSeq([i \in 1..NCPU + 1 |->
                        IF i <= NCPU THEN local[i] ELSE local[Kblockd]]))
      + (IF t \in inflight THEN 1 ELSE 0)

\* Request accounting across all the lists blk_mq_dispatch_rq_list,
\* blk_mq_flush_busy_ctxs, the requeue work and direct issue move requests
\* between: every allocated request is in exactly one place, and a freed
\* one is in none. A lost request never completes; a duplicated one is
\* issued twice.
RequestAccounting ==
  \A t \in Tag : Occurrences(t) = IF t \in allocated THEN 1 ELSE 0

\* The pending bit of a ctx in hctx->ctx_map is set exactly when its
\* rq_list is non-empty (spec 3, Software Queue), across insertion,
\* flush, dequeue-one and requeue.
PendingMatchesList ==
  \A c \in CPU : ctxPending[c] <=> ctxList[c] # <<>>

\* blk_mq_update_nr_requests shrinks the tag bitmap only after freeze has
\* drained every request, so no allocated request ever holds a tag beyond
\* the current depth.
AllocatedWithinDepth ==
  \A t \in allocated : t <= depth

\* After blk_mq_quiesce_queue returns, and until its caller calls
\* blk_mq_unquiesce_queue, no request is handed to the driver (by the
\* dispatcher or by direct issue).
QuiesceNoDispatch ==
  [][(\E a \in Ctl : cpc[a] \in {"quiet", "update", "unquiesce"})
       => inflight' \subseteq inflight]_vars

\* The driver requeues a request it had accepted.
RequeueStep == \E t \in Tag : blk_mq_requeue_request(t)

\* Every allocated request is eventually completed and its tag freed, as
\* long as the driver eventually accepts and completes requests and
\* requeues only finitely often (a requeued request goes to the head of
\* its ctx and may overtake the others forever): no combination of busy
\* answers, SCHED_RESTART decisions and concurrent runs strands a request
\* on hctx->dispatch or a ctx list.
EveryRequestCompletes ==
  <>[][~RequeueStep]_vars =>
    \A t \in Tag : t \in allocated ~> t \notin allocated

\* A freeze started by blk_mq_update_nr_requests eventually drains: the
\* requests already allocated, and the submitters sleeping for a tag with
\* a queue reference, all leave.
FreezeDrains ==
  \A a \in Resizers : cpc[a] = "freezeWait" ~> cpc[a] = "quiesce"

-----------------------------------------------------------------------------
(* Refinement of BlkMqRequestQueue                                         *)

\* A request is at the driver once queue_rq accepted it, queued while its
\* tag is allocated, free otherwise.
AbsStatus ==
  [t \in Tag |-> IF t \in inflight THEN "driver"
                 ELSE IF t \in allocated THEN "queued" ELSE "free"]

\* The freeze holds from the return of blk_mq_freeze_queue_wait to
\* blk_mq_unfreeze_queue; the quiesce from the return of
\* blk_mq_quiesce_queue to blk_mq_unquiesce_queue.
AbsFrozen == \E a \in Resizers :
               cpc[a] \in {"quiesce", "quiesceWait", "update", "unquiesce",
                           "unfreeze"}
AbsQuiet == \E a \in Ctl : cpc[a] \in {"quiet", "update", "unquiesce"}

\* The CPUs past blk_queue_enter that have not taken a tag yet.
AbsEntered == {c \in CPU : pc[c] \in {"tag", "waitTag"}}

Abs == INSTANCE BlkMqRequestQueue
         WITH Submitter <- CPU, entered <- AbsEntered, status <- AbsStatus,
              frozen <- AbsFrozen, quiet <- AbsQuiet

\* Every step of the submission path, the dispatchers, the driver, the
\* requeue work and the freeze/quiesce callers is a step of the abstract
\* queue or leaves it unchanged: no request reaches the driver but from
\* the queue or while quiesced, none is freed but by completion or a
\* failed queue_rq, a requeue puts it back, and a frozen queue stays empty.
BlkMqRequestQueueSpec == Abs!Spec

=============================================================================
