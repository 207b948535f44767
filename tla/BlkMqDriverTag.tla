--------------------------- MODULE BlkMqDriverTag ---------------------------
(***************************************************************************)
(* Driver tags with an I/O scheduler attached, in block/blk-mq.c. A        *)
(* request holds a scheduler tag from submission and takes a driver tag    *)
(* (rq->tag) only in blk_mq_dispatch_rq_list, just before queue_rq. When   *)
(* none is free, blk_mq_mark_tag_wait either sets SCHED_RESTART (tags of   *)
(* one queue) or hooks hctx->dispatch_wait into the tag wait queue (tags   *)
(* shared by several queues, BLK_MQ_F_TAG_SHARED), so that the put of a    *)
(* driver tag runs the queue again through blk_mq_dispatch_wake.           *)
(*                                                                         *)
(* HCtx are the hardware queues sharing one driver tag set (one per        *)
(* request queue, as on a SCSI host); each has one dispatcher, its         *)
(* run_work. Requests come back to be submitted again once completed.      *)
(***************************************************************************)
EXTENDS Naturals, Sequences, FiniteSets

CONSTANTS
  HCtx,           \* hardware queues sharing the driver tag set
  TagList,        \* set->tag_list: the queues of the HCtx, in list order
  Req,            \* requests (their scheduler tags)
  Home,           \* Home[r]: the hctx request r is submitted on
  SyncReq,        \* requests submitted sync on a queue of several hctxs
  NrHw,           \* set->nr_hw_queues; the HCtx are hctxs of index 0
  QueueDepth,     \* set->queue_depth as the driver asks for it
  ReservedTags,   \* set->reserved_tags
  NrCpu,          \* nr_cpu_ids
  SetMap,         \* the CPU to hctx map of blk_mq_update_queue_map
  MaxHotplug,     \* bound on the CPU hotplug events
  DriverResults,  \* what queue_rq may return
  DriverStops,    \* the driver stops its hctx before answering BUSY
  NBudget,        \* the driver's dispatch budget per request queue
  MaxSubmit       \* bound on the submissions of the whole behaviour

ASSUME /\ Home \in [Req -> HCtx]
       /\ SyncReq \subseteq Req
       /\ TagList \in [1..Cardinality(HCtx) -> HCtx]
       /\ \A h \in HCtx : \E i \in DOMAIN TagList : TagList[i] = h
       /\ "OK" \in DriverResults
       /\ DriverResults \subseteq {"OK", "BUSY", "DEV_BUSY", "ERROR"}
       /\ DriverStops \in BOOLEAN
       /\ NBudget \in Nat \ {0}
       /\ MaxSubmit \in Nat


QueueRet == {"OK", "BUSY", "DEV_BUSY", "ERROR"}

\* BLK_MQ_F_TAG_SHARED: set once more than one queue uses the tag set.
TAG_SHARED == Cardinality(HCtx) > 1

VARIABLES
  schedQ,     \* schedQ[h]: requests the I/O scheduler holds for h
  dispatch,   \* hctx->dispatch
  local,      \* the dispatcher's rq_list
  dpc,        \* where h's dispatcher is
  noTag,      \* blk_mq_dispatch_rq_list's no_tag
  lastRet,    \* its ret
  tagged,     \* requests holding a driver tag (rq->tag != -1)
  inflight,   \* requests the driver accepted
  restart,    \* BLK_MQ_S_SCHED_RESTART
  waiting,    \* hctx->dispatch_wait is on the tag wait queue
  runPending, \* run_work is queued
  stopped,    \* BLK_MQ_S_STOPPED
  budget,     \* dispatch budget taken from the driver, per queue
  submits,    \* submissions so far, bounded by MaxSubmit
  refused,    \* the driver has refused the queue a budget since its last put
  tset, hi, queueDepth, tags, pageLists, failedAt,  \* of BlkMqTagSet
  qstate, online, mqMap, hctxTags, hotplugs

dtVars == <<schedQ, dispatch, local, dpc, noTag, lastRet, tagged, inflight,
            restart, waiting, runPending, stopped, budget, submits, refused>>

tsVars == <<tset, hi, queueDepth, tags, pageLists, failedAt,
            qstate, online, mqMap, hctxTags, hotplugs>>

vars == <<dtVars, tsVars>>

\* The tag set whose set->tags[0] holds the driver tags of every HCtx.
TS == INSTANCE BlkMqTagSet

Range(s) == {s[i] : i \in DOMAIN s}

\* Requests not submitted (completed, or never issued).
Idle == Req \ (UNION {schedQ[h] \cup Range(dispatch[h]) \cup Range(local[h])
                       : h \in HCtx} \cup inflight)

\* blk_mq_init_tags(set->queue_depth, set->reserved_tags): the tags of
\* the bitmap that blk_mq_get_driver_tag allocates from.
NDriverTags == queueDepth - ReservedTags

FreeDriverTags == NDriverTags - Cardinality(tagged)

\* blk_mq_hctx_has_pending with a scheduler: hctx->dispatch or the
\* scheduler's has_work.
HasPending(h, sq, dl) == dl[h] # <<>> \/ sq[h] # {}

\* blk_mq_hctx_stopped
blk_mq_hctx_stopped(h) == stopped[h]

\* The hctxs whose dispatch_wait a put of the driver tags in `freed` wakes:
\* sbitmap_queue_clear wakes, once wake_batch tags are freed (1 for a small
\* tag set), every entry of one sbq_wait_state. add_wait_queue adds
\* non-exclusive entries, and bt_wait_ptr places each hctx on the wait
\* state of its own rotating hctx->wait_index, so the woken set is any
\* nonempty set of the waiting hctxs.
Woken(freed) ==
  IF freed = {} \/ \A h \in HCtx : ~waiting[h]
    THEN {{}}
    ELSE {W \in SUBSET {h \in HCtx : waiting[h]} : W # {}}

\* Of the driver tags `held`, put those of `freed`; blk_mq_dispatch_wake takes each woken
\* hctx off the wait queue and runs it asynchronously; the hctxs of
\* `restarted` are run by blk_mq_sched_restart. Runs are queued only when
\* blk_mq_run_hw_queue finds pending work, and __blk_mq_delay_run_hw_queue
\* returns early on a stopped hctx; the hctxs of `started` have just had
\* STOPPED cleared and are run after the put.
PutDriverTags(held, freed, restarted, started, sq, dl) ==
  /\ tagged' = held \ freed
  /\ \E W \in Woken(freed) :
       /\ waiting' = [h \in HCtx |-> waiting[h] /\ h \notin W]
       /\ runPending' = [h \in HCtx |->
                           runPending[h]
                           \/ (h \in W \cup restarted /\ ~blk_mq_hctx_stopped(h)
                                /\ HasPending(h, sq, dl))
                           \/ (h \in started /\ HasPending(h, sq, dl))]

\* What queue_rq on h may return: DEV_BUSY only while h has requests in
\* the driver, whose completion runs it again (the driver contract).
DriverRet(h) ==
  IF \E r \in inflight : Home[r] = h THEN DriverResults
                                     ELSE DriverResults \ {"DEV_BUSY"}

\* blk_mq_put_dispatch_budget: the driver's put_budget.
blk_mq_put_dispatch_budget(h) == budget' = [budget EXCEPT ![h] = @ - 1]

\* The driver's side of a refused budget (not in this tree): SCSI's
\* scsi_end_request runs the queue again when it gives a budget back, so a
\* completion on a queue that was refused one reruns its hctx.
BudgetRerun(h) == IF refused[h] THEN {h} ELSE {}

\* The dispatcher leaves the loop keeping the budget.
PutBudgetOnNoTag_leak(h) == UNCHANGED budget

\* blk_mq_mark_tag_wait has failed (the dispatcher leaves the loop): put
\* the budget taken for the request.
PutBudgetOnNoTag(h) ==
  IF dpc'[h] = "fin" THEN blk_mq_put_dispatch_budget(h) ELSE UNCHANGED budget

\* The hctxs blk_mq_sched_restart tries for a completion on h with shared
\* tags: list_for_each_entry_rcu_rr over set->tag_list, the queues after
\* h's first, wrapping round, then h's own queue.
RestartOrder(h) ==
  LET n == Len(TagList)
      i == CHOOSE i \in 1..n : TagList[i] = h
  IN [k \in 1..n |-> TagList[((i + k - 1) % n) + 1]]

\* blk_mq_sched_restart_hctx over the hctxs of `order` until one returns
\* true: a hctx with SCHED_RESTART has it cleared (and its queue's
\* shared_hctx_restart decremented) and is run; blk_mq_run_hw_queue returns
\* true when the hctx has pending work, even on a stopped hctx whose run
\* __blk_mq_delay_run_hw_queue then drops. The walk stops there.
RECURSIVE RestartWalk(_, _, _)
RestartWalk(order, sq, dl) ==
  IF order = <<>> THEN [cleared |-> {}, run |-> {}]
  ELSE LET g == Head(order)
           w == RestartWalk(Tail(order), sq, dl)
       IN CASE ~restart[g] -> w
            [] HasPending(g, sq, dl) -> [cleared |-> {g}, run |-> {g}]
            [] OTHER -> [w EXCEPT !.cleared = @ \cup {g}]

\* blk_mq_sched_restart for a request of h freed (blk-mq-sched.c, not in
\* this tree): with tags of one queue, restart h itself; with shared tags,
\* nothing unless h's queue has a hctx marked (q->shared_hctx_restart,
\* which queue_set_hctx_shared keeps equal to the marked hctxs), else the
\* round-robin walk. Each HCtx is its queue's only hctx, so the counter
\* of h's queue is positive exactly when restart[h].
Restarted(h, sq, dl) ==
  CASE ~TAG_SHARED -> RestartWalk(<<h>>, sq, dl)
    [] restart[h] -> RestartWalk(RestartOrder(h), sq, dl)
    [] OTHER -> [cleared |-> {}, run |-> {}]

\* SCHED_RESTART after the walk w.
RestartAfter(w) == [g \in HCtx |-> restart[g] /\ g \notin w.cleared]

\* blk_mq_start_stopped_hw_queues(q, true) on the queue of hctx h: a stopped
\* hctx has STOPPED cleared and is run; one not stopped is skipped.
blk_mq_start_stopped_hw_queues(h) ==
  IF blk_mq_hctx_stopped(h) THEN {h} ELSE {}

-----------------------------------------------------------------------------
(* Submission and completion                                               *)

\* blk_mq_sched_insert_request with run_queue and async: the scheduler
\* takes the request and the queue is run from kblockd.
blk_mq_sched_insert_request(r) ==
  /\ qstate = "live"   \* blk_mq_init_queue(set) ran, blk_cleanup_queue not
  /\ r \in Idle \ SyncReq
  /\ submits < MaxSubmit
  /\ submits' = submits + 1
  /\ schedQ' = [schedQ EXCEPT ![Home[r]] = @ \cup {r}]
  /\ runPending' = [runPending EXCEPT ![Home[r]] = @ \/ ~blk_mq_hctx_stopped(Home[r])]
  /\ UNCHANGED <<tsVars, dispatch, local, dpc, noTag, lastRet, tagged,
                 inflight, restart, waiting, stopped, budget, refused>>

\* The driver completes r: __blk_mq_finish_request puts the driver tag and
\* the scheduler tag, then blk_mq_sched_restart; a driver that stops its
\* queue then restarts it with blk_mq_start_stopped_hw_queues. The driver
\* gives back the dispatch budget the request held.
blk_mq_complete_request(r) ==
  /\ r \in inflight
  /\ inflight' = inflight \ {r}
  /\ blk_mq_put_dispatch_budget(Home[r])
  /\ stopped' = [stopped EXCEPT ![Home[r]] = FALSE]
  /\ refused' = [refused EXCEPT ![Home[r]] = FALSE]
  /\ LET w == Restarted(Home[r], schedQ, dispatch) IN
       /\ restart' = RestartAfter(w)
       /\ PutDriverTags(tagged, {r}, w.run \cup BudgetRerun(Home[r]),
                        blk_mq_start_stopped_hw_queues(Home[r]), schedQ, dispatch)
  /\ UNCHANGED <<tsVars, schedQ, dispatch, local, dpc, noTag, lastRet, submits>>

\* blk_mq_make_request for a sync request on a queue with several hardware
\* queues, or one the plug path issues (same_queue_rq):
\* blk_mq_try_issue_directly, which on a queue with a scheduler inserts
\* the request past it at the tail of hctx->dispatch
\* (blk_mq_request_bypass_insert) and runs the hctx; on a stopped hctx it
\* inserts without a run.
blk_mq_try_issue_directly(r) ==
  /\ qstate = "live"
  /\ r \in Idle \cap SyncReq
  /\ submits < MaxSubmit
  /\ submits' = submits + 1
  /\ dispatch' = [dispatch EXCEPT ![Home[r]] = Append(@, r)]
  /\ runPending' = [runPending EXCEPT ![Home[r]] = @ \/ ~blk_mq_hctx_stopped(Home[r])]
  /\ UNCHANGED <<tsVars, schedQ, local, dpc, noTag, lastRet, tagged,
                 inflight, restart, waiting, stopped, budget, refused>>

-----------------------------------------------------------------------------
(* The dispatcher of h                                                     *)

\* blk_mq_run_work_fn -> blk_mq_sched_dispatch_requests: take the whole of
\* hctx->dispatch and mark SCHED_RESTART, or go to the scheduler.
blk_mq_run_work_fn(h) ==
  /\ runPending[h]
  /\ dpc[h] = "idle"
  /\ runPending' = [runPending EXCEPT ![h] = FALSE]
  /\ noTag' = [noTag EXCEPT ![h] = FALSE]
  /\ lastRet' = [lastRet EXCEPT ![h] = "OK"]
  /\ \/ /\ dispatch[h] # <<>>
        /\ local' = [local EXCEPT ![h] = dispatch[h]]
        /\ dispatch' = [dispatch EXCEPT ![h] = <<>>]
        /\ restart' = [restart EXCEPT ![h] = TRUE]
        /\ dpc' = [dpc EXCEPT ![h] = "loop"]
     \/ /\ dispatch[h] = <<>>
        /\ dpc' = [dpc EXCEPT ![h] = "sched"]
        /\ UNCHANGED <<local, dispatch, restart>>
  /\ UNCHANGED <<tsVars, schedQ, tagged, inflight, waiting, stopped, budget, submits, refused>>

\* One turn of blk_mq_do_dispatch_sched with a budget: the scheduler's
\* dispatch_request hands out r, and blk_mq_dispatch_rq_list(q, &rq_list,
\* true) gets the single-request list with its budget already taken
\* (the WARN_ON at its top), so it goes straight to the driver tag.
DispatchRequest(h, r) ==
  /\ dpc[h] = "sched"
  /\ r \in schedQ[h]
  /\ budget[h] < NBudget
  /\ budget' = [budget EXCEPT ![h] = @ + 1]
  /\ schedQ' = [schedQ EXCEPT ![h] = @ \ {r}]
  /\ local' = [local EXCEPT ![h] = <<r>>]
  /\ noTag' = [noTag EXCEPT ![h] = FALSE]
  /\ lastRet' = [lastRet EXCEPT ![h] = "OK"]
  /\ dpc' = [dpc EXCEPT ![h] = "tag"]
  /\ UNCHANGED <<tsVars, dispatch, tagged, inflight, restart, waiting, runPending,
                 stopped, submits, refused>>

\* blk_mq_do_dispatch_sched: stop when the scheduler has no work or the
\* driver refuses the budget; otherwise dispatch one request.
blk_mq_do_dispatch_sched(h) ==
  \/ /\ dpc[h] = "sched"
     /\ schedQ[h] = {}
     /\ dpc' = [dpc EXCEPT ![h] = "idle"]
     /\ UNCHANGED <<tsVars, schedQ, dispatch, local, noTag, lastRet, tagged, inflight,
                    restart, waiting, runPending, stopped, budget, submits, refused>>
  \/ /\ dpc[h] = "sched"
     /\ schedQ[h] # {}
     /\ budget[h] = NBudget
     /\ dpc' = [dpc EXCEPT ![h] = "idle"]
     /\ refused' = [refused EXCEPT ![h] = TRUE]
     /\ UNCHANGED <<tsVars, schedQ, dispatch, local, noTag, lastRet, tagged, inflight,
                    restart, waiting, runPending, stopped, budget, submits>>
  \/ \E r \in Req : DispatchRequest(h, r)

\* Top of the dispatch loop for a list taken from hctx->dispatch:
\* blk_mq_get_dispatch_budget (got_budget is false); when the driver refuses, break out of
\* the loop with ret and no_tag as they are.
blk_mq_get_dispatch_budget(h) ==
  /\ dpc[h] = "loop"
  /\ IF budget[h] < NBudget
       THEN /\ budget' = [budget EXCEPT ![h] = @ + 1]
            /\ dpc' = [dpc EXCEPT ![h] = "tag"]
       ELSE /\ dpc' = [dpc EXCEPT ![h] = "fin"]
            /\ UNCHANGED budget
  /\ refused' = [refused EXCEPT ![h] = @ \/ budget[h] = NBudget]
  /\ UNCHANGED <<tsVars, schedQ, dispatch, local, noTag, lastRet, tagged,
                 inflight, restart, waiting, runPending, stopped, submits>>

\* blk_mq_get_driver_tag for the first request (kept if it already has one).
blk_mq_get_driver_tag(h) ==
  /\ dpc[h] = "tag"
  /\ LET rq == Head(local[h]) IN
       IF rq \in tagged \/ FreeDriverTags > 0
         THEN /\ tagged' = tagged \cup {rq}
              /\ dpc' = [dpc EXCEPT ![h] = "issue"]
         ELSE /\ dpc' = [dpc EXCEPT ![h] = "wait"]
              /\ UNCHANGED tagged
  /\ UNCHANGED <<tsVars, submits, refused, schedQ, dispatch, local, noTag, lastRet,
                 inflight, restart, waiting, runPending, stopped, budget, submits, refused>>

\* The retry of blk_mq_mark_tag_wait, left out.
blk_mq_mark_tag_wait_noretry(h) ==
  /\ dpc[h] = "wait"
  /\ \/ /\ ~TAG_SHARED
        /\ restart' = [restart EXCEPT ![h] = TRUE]
        /\ dpc' = [dpc EXCEPT ![h] = "fin"]
        /\ UNCHANGED <<tagged, noTag, waiting>>
     \/ /\ TAG_SHARED
        /\ noTag' = [noTag EXCEPT ![h] = TRUE]
        /\ waiting' = [waiting EXCEPT ![h] = TRUE]
        /\ dpc' = [dpc EXCEPT ![h] = "fin"]
        /\ UNCHANGED <<tagged, restart>>
  /\ PutBudgetOnNoTag(h)
  /\ UNCHANGED <<tsVars, submits, refused, schedQ, dispatch, local, lastRet, inflight,
                 runPending, stopped>>

\* blk_mq_mark_tag_wait. Tags of one queue: set SCHED_RESTART and try the
\* driver tag again. Shared tags: give up if dispatch_wait is already
\* queued; otherwise add it to the wait queue (under hctx->lock) and go on
\* to try again.
blk_mq_mark_tag_wait(h) ==
  /\ dpc[h] = "wait"
  /\ \/ /\ ~TAG_SHARED
        /\ restart' = [restart EXCEPT ![h] = TRUE]
        /\ IF FreeDriverTags > 0
             THEN /\ tagged' = tagged \cup {Head(local[h])}
                  /\ dpc' = [dpc EXCEPT ![h] = "issue"]
             ELSE /\ dpc' = [dpc EXCEPT ![h] = "fin"]
                  /\ UNCHANGED tagged
        /\ UNCHANGED <<noTag, waiting>>
     \/ /\ TAG_SHARED
        /\ waiting[h]
        /\ noTag' = [noTag EXCEPT ![h] = TRUE]
        /\ dpc' = [dpc EXCEPT ![h] = "fin"]
        /\ UNCHANGED <<tagged, restart, waiting>>
     \/ /\ TAG_SHARED
        /\ ~waiting[h]
        /\ waiting' = [waiting EXCEPT ![h] = TRUE]
        /\ dpc' = [dpc EXCEPT ![h] = "retry"]
        /\ UNCHANGED <<tagged, restart, noTag>>
  /\ PutBudgetOnNoTag(h)
  /\ UNCHANGED <<tsVars, submits, refused, schedQ, dispatch, local, lastRet, inflight,
                 runPending, stopped>>

\* blk_mq_mark_tag_wait, shared tags, after add_wait_queue: try the driver
\* tag again; on success take dispatch_wait off the wait queue.
blk_mq_mark_tag_wait_retry(h) ==
  /\ dpc[h] = "retry"
  /\ IF FreeDriverTags > 0
       THEN /\ tagged' = tagged \cup {Head(local[h])}
            /\ waiting' = [waiting EXCEPT ![h] = FALSE]
            /\ dpc' = [dpc EXCEPT ![h] = "issue"]
            /\ UNCHANGED noTag
       ELSE /\ noTag' = [noTag EXCEPT ![h] = TRUE]
            /\ dpc' = [dpc EXCEPT ![h] = "fin"]
            /\ UNCHANGED <<tagged, waiting>>
  /\ PutBudgetOnNoTag(h)
  /\ UNCHANGED <<tsVars, submits, refused, schedQ, dispatch, local, lastRet, inflight,
                 restart, runPending, stopped>>

\* The driver tag taken for the next request (bd.last), if it has none.
Prefetched(h) ==
  IF Len(local[h]) > 1 /\ local[h][2] \notin tagged /\ FreeDriverTags > 0
    THEN {local[h][2]} ELSE {}

\* Inside queue_rq, a driver short of resources (a full ring, with requests
\* of h in flight whose completion restarts it) calls blk_mq_stop_hw_queue:
\* the queued run_work and delay_work are cancelled and STOPPED is set;
\* queue_rq then answers BUSY.
blk_mq_stop_hw_queue(h) ==
  /\ dpc[h] = "issue"
  /\ DriverStops
  /\ ~blk_mq_hctx_stopped(h)
  /\ \E r \in inflight : Home[r] = h
  /\ stopped' = [stopped EXCEPT ![h] = TRUE]
  /\ runPending' = [runPending EXCEPT ![h] = FALSE]
  /\ dpc' = [dpc EXCEPT ![h] = "busy"]
  /\ UNCHANGED <<tsVars, schedQ, dispatch, local, noTag, lastRet, tagged, inflight,
                 restart, waiting, budget, submits, refused>>

\* BUSY without giving back the next request's driver tag.
blk_mq_dispatch_rq_list_issue_keepnext(h, r) ==
  /\ dpc[h] \in {"issue", "busy"}
  /\ r \in DriverRet(h)
  /\ dpc[h] = "busy" => r \in {"BUSY", "DEV_BUSY"}
  /\ LET rq == Head(local[h])
         held == tagged \cup Prefetched(h)
         rest == Tail(local[h])
     IN \/ /\ r = "OK"
           /\ inflight' = inflight \cup {rq}
           /\ tagged' = held
           /\ local' = [local EXCEPT ![h] = rest]
           /\ dpc' = [dpc EXCEPT ![h] = IF rest = <<>> THEN "fin" ELSE "loop"]
           /\ UNCHANGED <<restart, waiting, runPending, budget, submits, refused>>
        \/ /\ r \in {"BUSY", "DEV_BUSY"}
           /\ PutDriverTags(held, {rq}, {}, {}, schedQ, dispatch)
           /\ dpc' = [dpc EXCEPT ![h] = "fin"]
           /\ blk_mq_put_dispatch_budget(h)
           /\ UNCHANGED <<inflight, local, restart>>
        \/ /\ r = "ERROR"
           /\ LET w == Restarted(h, schedQ, dispatch) IN
                /\ restart' = RestartAfter(w)
                /\ PutDriverTags(held, {rq}, w.run, {}, schedQ, dispatch)
           /\ local' = [local EXCEPT ![h] = rest]
           /\ dpc' = [dpc EXCEPT ![h] = IF rest = <<>> THEN "fin" ELSE "loop"]
           /\ blk_mq_put_dispatch_budget(h)
           /\ UNCHANGED inflight
  /\ lastRet' = [lastRet EXCEPT ![h] = r]
  /\ UNCHANGED <<tsVars, submits, refused, schedQ, dispatch, noTag, stopped>>

\* One pass of the dispatch loop with the driver tag held: take a driver
\* tag for the next request too (bd.last), then queue_rq. OK: the driver
\* owns the request. BUSY or DEV_BUSY: put the next request's driver tag,
\* and __blk_mq_requeue_request puts this one's; the request stays at the
\* head and the loop stops. ERROR: blk_mq_end_request frees the request
\* (driver tag, scheduler tag, blk_mq_sched_restart). A driver with a
\* budget keeps it for an accepted request until its completion and puts
\* it itself before answering anything else.
blk_mq_dispatch_rq_list_issue(h, r) ==
  /\ dpc[h] \in {"issue", "busy"}
  /\ r \in DriverRet(h)
  /\ dpc[h] = "busy" => r \in {"BUSY", "DEV_BUSY"}
  /\ LET rq == Head(local[h])
         held == tagged \cup Prefetched(h)
         rest == Tail(local[h])
     IN \/ /\ r = "OK"
           /\ inflight' = inflight \cup {rq}
           /\ tagged' = held
           /\ local' = [local EXCEPT ![h] = rest]
           /\ dpc' = [dpc EXCEPT ![h] = IF rest = <<>> THEN "fin" ELSE "loop"]
           /\ UNCHANGED <<restart, waiting, runPending, budget, submits, refused>>
        \/ /\ r \in {"BUSY", "DEV_BUSY"}
           /\ PutDriverTags(held, {rq} \cup (held \cap Range(rest)), {}, {},
                            schedQ, dispatch)
           /\ dpc' = [dpc EXCEPT ![h] = "fin"]
           /\ blk_mq_put_dispatch_budget(h)
           /\ UNCHANGED <<inflight, local, restart>>
        \/ /\ r = "ERROR"
           /\ LET w == Restarted(h, schedQ, dispatch) IN
                /\ restart' = RestartAfter(w)
                /\ PutDriverTags(held, {rq}, w.run, {}, schedQ, dispatch)
           /\ local' = [local EXCEPT ![h] = rest]
           /\ dpc' = [dpc EXCEPT ![h] = IF rest = <<>> THEN "fin" ELSE "loop"]
           /\ blk_mq_put_dispatch_budget(h)
           /\ UNCHANGED inflight
  /\ lastRet' = [lastRet EXCEPT ![h] = r]
  /\ UNCHANGED <<tsVars, submits, refused, schedQ, dispatch, noTag, stopped>>

\* After the loop (blk_mq_dispatch_rq_list, from list_splice_init on): put
\* what is left back at the head of hctx->dispatch and run the queue again
\* unless SCHED_RESTART is set, or the hctx lost its tag wait entry to a
\* wakeup while no_tag; after BUSY with SCHED_RESTART set, run it after
\* BLK_MQ_RESOURCE_DELAY; none of these runs is queued on a stopped hctx.
\* An emptied list means progress: the dispatcher goes on with the
\* scheduler (blk_mq_do_dispatch_sched).
blk_mq_dispatch_rq_list_finish(h) ==
  /\ dpc[h] = "fin"
  /\ IF local[h] # <<>>
       THEN /\ dispatch' = [dispatch EXCEPT ![h] = local[h] \o @]
            /\ local' = [local EXCEPT ![h] = <<>>]
            /\ runPending' =
                 [runPending EXCEPT ![h] =
                    @ \/ (/\ ~blk_mq_hctx_stopped(h)
                           /\ \/ ~restart[h] \/ (noTag[h] /\ ~waiting[h])
                              \/ lastRet[h] = "BUSY")]
            /\ dpc' = [dpc EXCEPT ![h] = "idle"]
       ELSE /\ dpc' = [dpc EXCEPT ![h] = "sched"]
            /\ UNCHANGED <<dispatch, local, runPending>>
  /\ UNCHANGED <<tsVars, schedQ, noTag, lastRet, tagged, inflight, restart, waiting,
                 stopped, budget, submits, refused>>

-----------------------------------------------------------------------------
(* Specification                                                           *)

Init ==
  /\ schedQ = [h \in HCtx |-> {}]
  /\ dispatch = [h \in HCtx |-> <<>>]
  /\ local = [h \in HCtx |-> <<>>]
  /\ dpc = [h \in HCtx |-> "idle"]
  /\ noTag = [h \in HCtx |-> FALSE]
  /\ lastRet = [h \in HCtx |-> "OK"]
  /\ tagged = {}
  /\ inflight = {}
  /\ restart = [h \in HCtx |-> FALSE]
  /\ waiting = [h \in HCtx |-> FALSE]
  /\ runPending = [h \in HCtx |-> FALSE]
  /\ stopped = [h \in HCtx |-> FALSE]
  /\ budget = [h \in HCtx |-> 0]
  /\ submits = 0
  /\ refused = [h \in HCtx |-> FALSE]
  /\ TS!TSInit

DispatcherStep(h) ==
  \/ blk_mq_run_work_fn(h)
  \/ blk_mq_do_dispatch_sched(h)
  \/ blk_mq_get_dispatch_budget(h)
  \/ blk_mq_get_driver_tag(h)
  \/ blk_mq_stop_hw_queue(h)
  \/ blk_mq_mark_tag_wait(h)
  \/ blk_mq_mark_tag_wait_retry(h)
  \/ \E r \in QueueRet : blk_mq_dispatch_rq_list_issue(h, r)
  \/ blk_mq_dispatch_rq_list_finish(h)

QueueStep ==
  \/ \E r \in Req \ SyncReq : blk_mq_sched_insert_request(r)
  \/ \E r \in SyncReq : blk_mq_try_issue_directly(r)
  \/ \E r \in Req : blk_mq_complete_request(r)
  \/ \E h \in HCtx : DispatcherStep(h)

\* The tag set's own steps, which leave the queues alone.
blk_mq_alloc_tag_set == TS!blk_mq_alloc_tag_set /\ UNCHANGED dtVars

__blk_mq_alloc_rq_map == TS!__blk_mq_alloc_rq_map /\ UNCHANGED dtVars

blk_mq_alloc_rq_maps_retry == TS!blk_mq_alloc_rq_maps_retry /\ UNCHANGED dtVars

TSStopped == TS!TSStopped /\ UNCHANGED dtVars

blk_mq_init_allocated_queue == TS!blk_mq_init_allocated_queue /\ UNCHANGED dtVars

\* A hotplug event remaps the queues once blk_mq_freeze_queue_wait has seen
\* every request of them freed; a freeze blocks new requests meanwhile.
Frozen == qstate = "live" => Idle = Req

CPU_DEAD(c) == Frozen /\ TS!CPU_DEAD(c) /\ UNCHANGED dtVars

CPU_UP_PREPARE(c) == Frozen /\ TS!CPU_UP_PREPARE(c) /\ UNCHANGED dtVars

\* The driver's remove: blk_cleanup_queue of every queue of the set (no
\* request left, no dispatcher running), then blk_mq_free_tag_set.
blk_mq_free_queue ==
  /\ Idle = Req
  /\ \A h \in HCtx : dpc[h] = "idle" /\ ~runPending[h]
  /\ TS!blk_mq_free_queue
  /\ UNCHANGED dtVars

blk_mq_free_tag_set == TS!blk_mq_free_tag_set /\ UNCHANGED dtVars

TagSetStep ==
  \/ blk_mq_alloc_tag_set
  \/ __blk_mq_alloc_rq_map
  \/ blk_mq_alloc_rq_maps_retry
  \/ blk_mq_init_allocated_queue
  \/ \E c \in TS!Cpu : CPU_DEAD(c) \/ CPU_UP_PREPARE(c)
  \/ blk_mq_free_queue
  \/ blk_mq_free_tag_set
  \/ TSStopped

Next ==
  \/ QueueStep
  \/ TagSetStep

\* A dispatcher in the middle of a run finishes it and a queued run_work
\* runs (kblockd); the driver completes what it accepted; a driver that
\* answers BUSY accepts again when offered the request often enough; the
\* scheduler does not pass over a request for ever (mq-deadline's FIFO
\* expiry).
Fairness ==
  /\ \A h \in HCtx : WF_vars(DispatcherStep(h))
  /\ \A h \in HCtx, r \in Req : SF_vars(DispatchRequest(h, r))
  /\ \A h \in HCtx : SF_vars(blk_mq_dispatch_rq_list_issue(h, "OK"))
  /\ \A r \in Req : WF_vars(blk_mq_complete_request(r))

Spec == Init /\ [][Next]_vars /\ Fairness

-----------------------------------------------------------------------------
(* Properties                                                              *)

\* A driver tag is held only by a request the driver owns, by the first
\* two requests of a dispatcher's list (the one being issued and the next,
\* whose tag decides bd.last), or by the head of hctx->dispatch: a budget
\* refusal after the prefetch sends the next request back with its tag,
\* which it keeps until it is issued. A tag anywhere else (the second
\* request of hctx->dispatch, or the scheduler) keeps the shared tag set
\* short for nothing: the BUSY path must put both tags.
DriverTagsOnlyAtDriver ==
  /\ Cardinality(tagged) <= NDriverTags
  /\ \A r \in tagged :
       \/ r \in inflight
       \/ \E h \in HCtx : \/ \E i \in 1..2 : i <= Len(local[h]) /\ local[h][i] = r
                          \/ dispatch[h] # <<>> /\ Head(dispatch[h]) = r

\* Every submitted request is eventually completed: a dispatcher that runs
\* out of driver tags is always run again, by blk_mq_dispatch_wake from a
\* put on the shared tag set or by blk_mq_sched_restart, and no wakeup is
\* lost between the failed allocation and the wait entry.
EveryRequestCompletes == \A r \in Req : r \notin Idle ~> r \in Idle

\* The dispatch budget a queue has taken from the driver is exactly one
\* per request the driver accepted and has not completed, plus one while
\* its dispatcher is between blk_mq_get_dispatch_budget and queue_rq, and
\* never more than the driver grants. A path out of the dispatch loop
\* that skips blk_mq_put_dispatch_budget (a blk_mq_mark_tag_wait whose
\* recheck finds no tag) leaks a unit, and a device with a small budget
\* then refuses every dispatch for good.
BudgetAccounting ==
  \A h \in HCtx :
    /\ budget[h] = Cardinality({r \in inflight : Home[r] = h})
                   + (IF dpc[h] \in {"tag", "wait", "retry", "issue", "busy"}
                        THEN 1 ELSE 0)
    /\ budget[h] <= NBudget

\* The tag set the queues run on is the one BlkMqTagSet's TagSetAllocated
\* describes: a map of the final set->queue_depth at every index, that
\* depth the largest of the halving sequence that did not fail.
TagSetAllocated == TS!TagSetAllocated

\* The queues' CPU map as BlkMqTagSet's OnlineCpusHaveTags and
\* MapPagesTracked state it, across hotplug events between bursts of I/O.
OnlineCpusHaveTags == TS!OnlineCpusHaveTags

MapPagesTracked == TS!MapPagesTracked

=============================================================================
