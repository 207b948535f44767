----------------------------- MODULE BlkMqPlug ------------------------------
(***************************************************************************)
(* A task's plug list and CPU hotplug on a queue with one hardware queue,  *)
(* in block/blk-mq.c. blk_mq_make_request puts each request on            *)
(* current->plug; the request keeps the software queue of the CPU that    *)
(* allocated it (rq->mq_ctx) while the task is preempted and migrates,    *)
(* since preemption does not flush the plug. blk_mq_flush_plug_list sorts  *)
(* the plug by ctx and sector and hands it over one ctx at a time: issued  *)
(* directly to the driver, put on hctx->dispatch after a BUSY answer, or   *)
(* inserted into the ctx list. CPU hotplug runs two notifiers: the hctx's *)
(* CPU_DEAD handler blk_mq_hctx_cpu_offline, and                           *)
(* blk_mq_queue_reinit_notify, which freezes the queue, waits for it to    *)
(* drain and remaps the CPUs to the hctx.                                  *)
(* The hctx is run by kblockd, which flushes every busy ctx it maps; there *)
(* the driver accepts every request (BlkMqDispatch models its other        *)
(* answers).                                                               *)
(***************************************************************************)
EXTENDS Naturals, Sequences, SequencesExt, FiniteSets

CONSTANTS
  CPU,          \* CPU numbers; a ctx is named by its CPU
  Req,
  Pos,          \* sectors, as blk_rq_pos
  MaxPlugged,   \* BLK_MAX_REQUEST_COUNT
  MaxHotplug    \* CPU up and down events

ASSUME CPU \subseteq Nat /\ Pos \subseteq Nat /\ MaxPlugged >= 1

NoCtx == 0

VARIABLES
  tcpu,       \* the CPU the plugging task runs on
  plug,       \* current->plug->mq_list
  mqCtx,      \* rq->mq_ctx
  pos,        \* blk_rq_pos(rq)
  rstate,     \* "free", "in" (holds q_usage_counter) or "done"
  ctxList,    \* ctx->rq_list
  indexHw,    \* ctx->index_hw
  hctxCtxs,   \* hctx->ctxs[0 .. nr_ctx - 1]
  ctxMap,     \* the bits set in hctx->ctx_map
  dispatch,   \* hctx->dispatch
  runPending, \* hctx->run_work is queued
  online,     \* cpu_online_mask
  frozen,     \* q->mq_freeze_depth > 0
  hpCpu,      \* the CPU being brought up or down, or NoCtx
  hpUp,       \* TRUE when it is coming up
  hpTodo,     \* the notifiers still to run for it
  hpFrozen,   \* blk_mq_queue_reinit_notify waits for the drain
  events      \* hotplug events so far

vars == <<tcpu, plug, mqCtx, pos, rstate, ctxList, indexHw, hctxCtxs, ctxMap,
          dispatch, runPending, online, frozen, hpCpu, hpUp, hpTodo,
          hpFrozen, events>>

hpVars == <<online, indexHw, hctxCtxs, frozen, hpCpu, hpUp, hpTodo, hpFrozen,
            events>>

\* The ctx that bit b of hctx->ctx_map stands for: sbitmap_resize made the
\* map nr_ctx bits long, so a bit beyond it is not visited.
Visible(b) == b < Len(hctxCtxs)
CtxOfBit(b) == hctxCtxs[b + 1]

\* blk_mq_hctx_has_pending: a visible ctx bit or a non-empty dispatch list.
HasPending == dispatch # <<>> \/ \E b \in ctxMap : Visible(b)

\* blk_mq_run_hw_queues: the hctx is run if it has pending work (no hctx
\* is stopped in this model).
blk_mq_run_hw_queues == runPending \/ HasPending

\* percpu_ref_is_zero(&q->q_usage_counter)
Drained == \A r \in Req : rstate[r] # "in"

-----------------------------------------------------------------------------
(* blk_mq_flush_plug_list                                                  *)

\* plug_ctx_cmp without its sector comparison.
plug_ctx_cmp_ctxonly(a, b) == IF mqCtx[a] < mqCtx[b] THEN 0 ELSE 1

\* plug_ctx_cmp: 0 when a sorts before b by ctx, then by sector; 1
\* otherwise, equal keys included.
plug_ctx_cmp(a, b) ==
  IF \/ mqCtx[a] < mqCtx[b]
     \/ mqCtx[a] = mqCtx[b] /\ pos[a] < pos[b]
  THEN 0 ELSE 1

\* lib/list_sort.c: a merge sort that takes from the first list while cmp
\* returns <= 0.
RECURSIVE Merge(_, _)
Merge(a, b) ==
  IF a = <<>> THEN b
  ELSE IF b = <<>> THEN a
  ELSE IF plug_ctx_cmp(Head(a), Head(b)) <= 0
       THEN <<Head(a)>> \o Merge(Tail(a), b)
       ELSE <<Head(b)>> \o Merge(a, Tail(b))

RECURSIVE ListSort(_)
ListSort(s) ==
  IF Len(s) <= 1 THEN s
  ELSE LET h == Len(s) \div 2
       IN Merge(ListSort(SubSeq(s, 1, h)), ListSort(SubSeq(s, h + 1, Len(s))))

\* The batch left on ctx_list when the loop ends, if any.
Batch(thisCtx, ctxRqs) ==
  IF thisCtx # NoCtx THEN <<[ctx |-> thisCtx, rqs |-> ctxRqs]>> ELSE <<>>

\* The loop without the insert of the last batch after it.
RECURSIVE FlushLoop_nolast(_, _, _)
FlushLoop_nolast(list, thisCtx, ctxRqs) ==
  IF list = <<>> THEN <<>>
  ELSE LET rq == Head(list) IN
       IF mqCtx[rq] # thisCtx
         THEN Batch(thisCtx, ctxRqs) \o FlushLoop_nolast(Tail(list), mqCtx[rq], <<rq>>)
         ELSE FlushLoop_nolast(Tail(list), thisCtx, Append(ctxRqs, rq))

\* The loop of blk_mq_flush_plug_list: consecutive requests of one ctx go
\* on ctx_list; a request of another ctx first hands ctx_list to
\* blk_mq_sched_insert_requests; after the loop the last ctx_list is.
RECURSIVE FlushLoop(_, _, _)
FlushLoop(list, thisCtx, ctxRqs) ==
  IF list = <<>> THEN Batch(thisCtx, ctxRqs)
  ELSE LET rq == Head(list) IN
       IF mqCtx[rq] # thisCtx
         THEN Batch(thisCtx, ctxRqs) \o FlushLoop(Tail(list), mqCtx[rq], <<rq>>)
         ELSE FlushLoop(Tail(list), thisCtx, Append(ctxRqs, rq))

\* The effect of a flush, built batch by batch: the ctx lists, the ctx_map
\* bits, hctx->dispatch, the requests the driver took or that were ended,
\* and whether the hctx is to be run.
\* blk_mq_hctx_mark_pending / blk_mq_hctx_clear_pending: the bit at the
\* ctx's index_hw.
blk_mq_hctx_mark_pending(bits, c) == bits \cup {indexHw[c]}
blk_mq_hctx_clear_pending(bits, c) == bits \ {indexHw[c]}

\* blk_mq_insert_requests: splice the batch to the tail of ctx->rq_list and
\* mark the ctx pending.
blk_mq_insert_requests(st, c, rqs) ==
  [st EXCEPT !.lists[c] = @ \o rqs,
             !.bits = blk_mq_hctx_mark_pending(@, c)]

\* blk_mq_try_issue_list_directly: blk_mq_request_issue_directly issues the
\* requests in order; the first k are taken by the driver or ended with an
\* error; a BUSY answer for the next puts it on hctx->dispatch
\* (blk_mq_request_bypass_insert) and ends the loop.
blk_mq_try_issue_list_directly(st, rqs, k) ==
  LET issued == [st EXCEPT !.done = @ \cup ToSet(SubSeq(rqs, 1, k))]
  IN IF k = Len(rqs) THEN issued
     ELSE [issued EXCEPT !.disp = Append(@, rqs[k + 1]), !.run = TRUE]

\* blk_mq_sched_insert_requests(q, ctx, list) without an elevator: while the
\* hctx is not dispatch_busy the list is first issued directly, and a list
\* left empty returns; the rest goes to the ctx and the hctx is run. The
\* dispatch_busy EWMA is not kept here, so both branches are open.
SchedInsertOutcomes(st, b) ==
  LET insert(s, rest) ==
        IF rest = <<>> THEN s
        ELSE [blk_mq_insert_requests(s, b.ctx, rest) EXCEPT !.run = TRUE]
  IN {insert(st, b.rqs)} \cup
     {insert(blk_mq_try_issue_list_directly(st, b.rqs, k),
             SubSeq(b.rqs, k + 2, Len(b.rqs))) : k \in 0..Len(b.rqs)}

\* The batches in loop order.
RECURSIVE FlushOutcomes(_, _)
FlushOutcomes(st, batches) ==
  IF batches = <<>> THEN {st}
  ELSE UNION {FlushOutcomes(s, Tail(batches)) :
                s \in SchedInsertOutcomes(st, Head(batches))}

\* blk_mq_flush_plug_list(plug), on top of the request states rs.
FlushPlug(list, rs) ==
  LET start == [lists |-> ctxList, bits |-> ctxMap, disp |-> dispatch,
                done |-> {}, run |-> runPending]
  IN \E o \in FlushOutcomes(start, FlushLoop(ListSort(list), NoCtx, <<>>)) :
       /\ ctxList' = o.lists
       /\ ctxMap' = o.bits
       /\ dispatch' = o.disp
       /\ runPending' = o.run
       /\ rstate' = [r \in Req |-> IF r \in o.done THEN "done" ELSE rs[r]]

-----------------------------------------------------------------------------
(* The plugging task                                                       *)

\* blk_mq_make_request on a queue with one hardware queue and a plug:
\* blk_mq_sched_get_request takes a reference and a request whose mq_ctx
\* is the current CPU's; a plug holding BLK_MAX_REQUEST_COUNT requests is
\* flushed first; the request goes to the tail of the plug.
blk_mq_make_request(r, p) ==
  /\ rstate[r] = "free"
  /\ ~frozen
  /\ mqCtx' = [mqCtx EXCEPT ![r] = tcpu]
  /\ pos' = [pos EXCEPT ![r] = p]
  /\ IF Len(plug) >= MaxPlugged
       THEN /\ FlushPlug(plug, [rstate EXCEPT ![r] = "in"])
            /\ plug' = <<r>>
       ELSE /\ plug' = Append(plug, r)
            /\ rstate' = [rstate EXCEPT ![r] = "in"]
            /\ UNCHANGED <<ctxList, ctxMap, dispatch, runPending>>
  /\ UNCHANGED <<tcpu, hpVars>>

\* The task is preempted and runs on another CPU; the plug stays.
Migrate(c) ==
  /\ c \in online \ {tcpu}
  /\ tcpu' = c
  /\ UNCHANGED <<plug, mqCtx, pos, rstate, ctxList, ctxMap, dispatch,
                 runPending, hpVars>>

\* blk_finish_plug, or schedule() before the task sleeps:
\* blk_flush_plug_list -> blk_mq_flush_plug_list.
blk_mq_flush_plug_list ==
  /\ plug # <<>>
  /\ plug' = <<>>
  /\ FlushPlug(plug, rstate)
  /\ UNCHANGED <<tcpu, mqCtx, pos, hpVars>>

-----------------------------------------------------------------------------
(* kblockd                                                                  *)

\* blk_mq_run_work_fn without an elevator: hctx->dispatch, then
\* blk_mq_flush_busy_ctxs splices hctx->ctxs[b] for every set bit b and
\* clears it; the driver accepts the requests, and they complete and drop
\* their reference.
blk_mq_run_work_fn ==
  /\ runPending
  /\ LET bits == {b \in ctxMap : Visible(b)}
         busy == {CtxOfBit(b) : b \in bits}
         taken == ToSet(dispatch) \cup UNION {ToSet(ctxList[c]) : c \in busy}
     IN /\ rstate' = [r \in Req |-> IF r \in taken THEN "done" ELSE rstate[r]]
        /\ ctxList' = [c \in CPU |-> IF c \in busy THEN <<>> ELSE ctxList[c]]
        /\ ctxMap' = ctxMap \ bits
  /\ dispatch' = <<>>
  /\ runPending' = FALSE
  /\ UNCHANGED <<tcpu, plug, mqCtx, pos, hpVars>>

-----------------------------------------------------------------------------
(* CPU hotplug                                                             *)

\* The position of each online CPU's ctx in hctx->ctxs.
MapIndex(onlineNew) == SetToSortSeq(onlineNew, <)

\* blk_mq_map_swqueue(q, online_new): hctx->ctxs lists the online CPUs'
\* ctxs in CPU order, each gets its index_hw; an offline CPU's ctx keeps
\* the index_hw it had.
blk_mq_map_swqueue(onlineNew) ==
  LET m == MapIndex(onlineNew)
  IN /\ hctxCtxs' = m
     /\ indexHw' = [c \in CPU |-> IF c \in onlineNew
                                   THEN CHOOSE i \in 0..Len(m) - 1 : m[i + 1] = c
                                   ELSE indexHw[c]]

\* _cpu_down: the CPU leaves cpu_online_mask and its tasks move to other
\* CPUs (the plug goes with the task); then the CPU_DEAD notifiers run.
cpu_down(c) ==
  /\ hpCpu = NoCtx
  /\ events < MaxHotplug
  /\ c \in online /\ online # {c}
  /\ online' = online \ {c}
  /\ \E t \in online \ {c} : tcpu' = IF tcpu = c THEN t ELSE tcpu
  /\ hpCpu' = c
  /\ hpUp' = FALSE
  /\ hpTodo' = {"hctx", "reinit"}
  /\ events' = events + 1
  /\ UNCHANGED <<plug, mqCtx, pos, rstate, ctxList, indexHw, hctxCtxs, ctxMap,
                 dispatch, runPending, frozen, hpFrozen>>

\* _cpu_up: the CPU_UP_PREPARE notifiers run before the CPU is online.
cpu_up(c) ==
  /\ hpCpu = NoCtx
  /\ events < MaxHotplug
  /\ c \in CPU \ online
  /\ hpCpu' = c
  /\ hpUp' = TRUE
  /\ hpTodo' = {"reinit"}
  /\ events' = events + 1
  /\ UNCHANGED <<tcpu, plug, mqCtx, pos, rstate, ctxList, indexHw, hctxCtxs,
                 ctxMap, dispatch, runPending, online, frozen, hpFrozen>>

\* blk_mq_hctx_notify(CPU_DEAD) -> blk_mq_hctx_cpu_offline: splice the dead
\* CPU's ctx list to hctx->dispatch, clear its bit, run the hctx.
blk_mq_hctx_cpu_offline ==
  /\ "hctx" \in hpTodo
  /\ ~hpFrozen
  /\ IF ctxList[hpCpu] # <<>>
       THEN /\ dispatch' = dispatch \o ctxList[hpCpu]
            /\ ctxList' = [ctxList EXCEPT ![hpCpu] = <<>>]
            /\ ctxMap' = blk_mq_hctx_clear_pending(ctxMap, hpCpu)
            /\ runPending' = TRUE
       ELSE UNCHANGED <<dispatch, ctxList, ctxMap, runPending>>
  /\ hpTodo' = hpTodo \ {"hctx"}
  /\ UNCHANGED <<tcpu, plug, mqCtx, pos, rstate, online, indexHw, hctxCtxs,
                 frozen, hpCpu, hpUp, hpFrozen, events>>

\* blk_mq_queue_reinit_notify: take all_q_mutex and start the freeze;
\* blk_freeze_queue_start kills the reference and runs a hctx that has
\* pending work (blk_mq_run_hw_queues).
blk_mq_queue_reinit_notify ==
  /\ "reinit" \in hpTodo
  /\ ~hpFrozen
  /\ frozen' = TRUE
  /\ hpFrozen' = TRUE
  /\ runPending' = blk_mq_run_hw_queues
  /\ UNCHANGED <<tcpu, plug, mqCtx, pos, rstate, ctxList, indexHw, hctxCtxs,
                 ctxMap, dispatch, online, hpCpu, hpUp, hpTodo, events>>

\* The online mask of CPU_UP_PREPARE without the CPU coming up.
OnlineNew_current == online

\* online_new: cpu_online_mask, with the CPU coming up set in it.
OnlineNew == IF hpUp THEN online \cup {hpCpu} ELSE online

\* ... wait for the drain, blk_mq_queue_reinit(q, &online_new), unfreeze.
blk_mq_queue_reinit ==
  /\ hpFrozen
  /\ Drained
  /\ blk_mq_map_swqueue(OnlineNew)
  /\ frozen' = FALSE
  /\ hpFrozen' = FALSE
  /\ hpTodo' = hpTodo \ {"reinit"}
  /\ UNCHANGED <<tcpu, plug, mqCtx, pos, rstate, ctxList, ctxMap, dispatch,
                 runPending, online, hpCpu, hpUp, events>>

\* The notifiers have run; a CPU coming up is now online.
cpu_hotplug_done ==
  /\ hpCpu # NoCtx
  /\ hpTodo = {}
  /\ online' = IF hpUp THEN online \cup {hpCpu} ELSE online
  /\ hpCpu' = NoCtx
  /\ UNCHANGED <<tcpu, plug, mqCtx, pos, rstate, ctxList, indexHw, hctxCtxs,
                 ctxMap, dispatch, runPending, frozen, hpUp, hpTodo, hpFrozen,
                 events>>

-----------------------------------------------------------------------------
(* Specification                                                           *)

\* Some CPUs are online and mapped by blk_mq_map_swqueue; the ctx of a CPU
\* that has never been online has index_hw 0 (kzalloc). The task runs on
\* an online CPU with an empty plug.
Init ==
  /\ online \in SUBSET CPU \ {{}}
  /\ hctxCtxs = MapIndex(online)
  /\ indexHw = [c \in CPU |-> IF c \in online
                                THEN CHOOSE i \in 0..Len(hctxCtxs) - 1 :
                                       hctxCtxs[i + 1] = c
                                ELSE 0]
  /\ tcpu \in online
  /\ plug = <<>>
  /\ mqCtx = [r \in Req |-> NoCtx]
  /\ pos = [r \in Req |-> CHOOSE p \in Pos : TRUE]
  /\ rstate = [r \in Req |-> "free"]
  /\ ctxList = [c \in CPU |-> <<>>]
  /\ ctxMap = {}
  /\ dispatch = <<>>
  /\ runPending = FALSE
  /\ frozen = FALSE
  /\ hpCpu = NoCtx
  /\ hpUp = FALSE
  /\ hpTodo = {}
  /\ hpFrozen = FALSE
  /\ events = 0

TaskStep ==
  \/ \E r \in Req, p \in Pos : blk_mq_make_request(r, p)
  \/ \E c \in CPU : Migrate(c)
  \/ blk_mq_flush_plug_list

HotplugStep ==
  \/ blk_mq_hctx_cpu_offline
  \/ blk_mq_queue_reinit_notify
  \/ blk_mq_queue_reinit
  \/ cpu_hotplug_done

Next ==
  \/ TaskStep
  \/ blk_mq_run_work_fn
  \/ \E c \in CPU : cpu_down(c) \/ cpu_up(c)
  \/ HotplugStep

\* The task finishes its plug (blk_finish_plug) or sleeps, which flushes
\* it; queued run_work runs; the hotplug thread runs its notifiers to the
\* end. New requests, migrations and hotplug events are never forced.
\* WF_vars(blk_mq_flush_plug_list) with its ENABLED written out: the flush
\* is enabled exactly when the plug is not empty (FlushOutcomes is never
\* empty), and a state predicate spares TLC the outcomes in every state.
FlushFairness ==
  <>[](plug # <<>>) => []<><<blk_mq_flush_plug_list>>_vars

Fairness ==
  /\ FlushFairness
  /\ WF_vars(blk_mq_run_work_fn)
  /\ WF_vars(HotplugStep)

Spec == Init /\ [][Next]_vars /\ Fairness

-----------------------------------------------------------------------------
(* Properties                                                              *)

\* A request on a ctx list is reachable by blk_mq_flush_busy_ctxs: the bit
\* at its ctx's index_hw is set, inside the map, and hctx->ctxs has the ctx
\* there. The comment in blk_mq_queue_reinit_notify describes the request
\* a CPU coming up would strand otherwise, and the comment in
\* blk_mq_insert_requests the plug flushed to the ctx of a CPU that went
\* offline.
NoStrandedRequest ==
  \A c \in CPU : ctxList[c] # <<>> =>
      /\ indexHw[c] \in ctxMap
      /\ Visible(indexHw[c])
      /\ CtxOfBit(indexHw[c]) = c

\* A step that flushes the plug hands every plugged request to exactly one
\* place: the driver (or its end with an error), hctx->dispatch, or the
\* tail of its own ctx list, behind what was queued there; what each ctx
\* list gains is in sector order. This is the reference definition of
\* list_sort with plug_ctx_cmp, the batching loop of
\* blk_mq_flush_plug_list and the direct issue of each batch.
FlushInsertsSorted ==
  [][plug # <<>> /\ ~(ToSet(plug) \subseteq ToSet(plug')) =>
       /\ \A c \in CPU :
            LET n == Len(ctxList[c])
                added == SubSeq(ctxList'[c], n + 1, Len(ctxList'[c]))
            IN /\ SubSeq(ctxList'[c], 1, n) = ctxList[c]
               /\ \A r \in ToSet(added) : r \in ToSet(plug) /\ mqCtx[r] = c
               /\ Len(added) = Cardinality(ToSet(added))
               /\ IsSorted(added, LAMBDA x, y : pos[x] <= pos[y])
       /\ \A r \in ToSet(plug) :
            \/ rstate'[r] = "done"
            \/ r \in ToSet(ctxList'[mqCtx[r]]) \ ToSet(ctxList[mqCtx[r]])
            \/ r \in ToSet(dispatch') \ ToSet(dispatch)]_vars

\* Every request that is allocated completes: plugging, migration,
\* CPU hotplug and the remap never leave a request behind.
EveryRequestCompletes ==
  \A r \in Req : rstate[r] = "in" ~> rstate[r] = "done"

====
