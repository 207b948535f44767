# TLA+ models of the blk-mq dispatch core (linux-3.10.96 tree, RHEL-style backport)

This directory holds TLA+ models of the multi-queue block layer core in
`src/linux-3.10.96/block/blk-mq.c` and `blk-mq.h`, and the TLC
configurations that check them. Each module is translated from the C source.
Three files that the core calls are not in `src/`: `blk-mq-tag.c` (tag
bitmap), `blk-mq-sched.c` (`blk_mq_sched_dispatch_requests`,
`blk_mq_do_dispatch_ctx`, `blk_mq_sched_restart`) and `blk-core.c`
(`blk_queue_enter`, `blk_mark_rq_complete`). Those pieces are modelled from
`spec.md`, and PROJECT.json marks them `spec_modelled`.

## 1. Inventory

### Components

| Component | Source | State kept | Operations |
|---|---|---|---|
| Tag pool | `blk-mq-tag.c` (not in src), used via `__blk_mq_alloc_request`, `blk_mq_get_driver_tag`, `__blk_mq_finish_request` | bitmap of held tags, `nr_reserved_tags`, depth, sleeping allocators | get tag (waits when none is free), put tag, update depth |
| Software queue (`blk_mq_ctx`) | `blk-mq.h` struct, `__blk_mq_insert_request`, `blk_mq_insert_requests`, `flush_busy_ctx`, `dispatch_rq_from_ctx` | per-CPU `rq_list`, `index_hw` | insert at head or tail, flush all, dequeue one |
| Hardware queue (`blk_mq_hw_ctx`) | `blk_mq_hctx_mark_pending`, `blk_mq_run_hw_queue`, `__blk_mq_delay_run_hw_queue`, `blk_mq_stop/start_hw_queue` | `ctx_map` pending bitmap, `dispatch` list, `state` bits STOPPED and SCHED_RESTART, `dispatch_busy` EWMA, `run_work` | mark pending, run (sync or by kblockd), delayed run, stop, start |
| Dispatcher | `blk_mq_dispatch_rq_list`, `blk_mq_flush_busy_ctxs`, `blk_mq_dequeue_from_ctx`, `blk_mq_sched_dispatch_requests` (not in src) | a dispatcher's local `rq_list`, its last `queue_rq` result | take the dispatch list or flush the ctxs, issue one request, put the rest back and decide how to rerun |
| Submission path | `blk_mq_make_request`, `blk_mq_try_issue_directly`, `__blk_mq_try_issue_directly`, `__blk_mq_issue_directly`, `blk_mq_queue_io`, `blk_mq_request_bypass_insert` | the submitting CPU's progress | allocate, issue directly or insert into the ctx, run the queue |
| Request lifecycle | `blk_mq_start_request`, `blk_mq_complete_request`, `__blk_mq_complete_request`, `blk_mq_end_request`, `__blk_mq_finish_request`, `blk_mq_requeue_request`, `blk_mq_requeue_work`, `blk_mq_add_to_requeue_list` | `atomic_flags` STARTED and COMPLETE, `deadline`, `tag`, requeue list | start, complete, finish, requeue |
| Timeout scanner | `blk_mq_timeout_work`, `blk_mq_check_expired`, `blk_mq_rq_timed_out` | the scan's next deadline | scan busy tags, mark complete, call the driver's timeout handler |
| Freeze / quiesce | `blk_freeze_queue_start`, `blk_mq_freeze_queue_wait`, `blk_mq_unfreeze_queue`, `blk_mq_quiesce_queue(_nowait)`, `blk_mq_unquiesce_queue`, `blk_mq_update_nr_requests` | `mq_freeze_depth`, `q_usage_counter` (percpu ref, live or killed), QUEUE_FLAG_QUIESCED | freeze, wait for drain, unfreeze, quiesce, unquiesce |
| CPU hotplug and queue map | `blk_mq_hctx_cpu_offline`, `blk_mq_map_swqueue`, `blk_mq_queue_reinit_notify`, `blk_mq_freeze_queue_list`, `__blk_mq_update_nr_hw_queues` | `mq_map`, `hctx->ctxs`, `index_hw` | move a dead CPU's requests, remap CPUs to hardware queues under freeze |
| Setup and teardown | `blk_mq_alloc_rqs`, `blk_mq_init_hctx`, `blk_mq_init_allocated_queue`, `blk_mq_alloc_tag_set`, `blk_mq_free_*`, sysfs/debugfs | memory, kobjects | allocate and free structures |
| Merging | `blk_mq_attempt_merge`, `blk_mq_merge_bio` | none beyond the ctx list | merge a bio into a queued request |
| Mount namespaces | `fs/namespace.c`, `fs/mount.h`, `include/linux/path.h` | mount tree | mount, umount, propagation |

### How the components interact

A submitting CPU enters the queue (takes a `q_usage_counter` reference, or
sleeps while the queue is frozen), allocates a request together with its tag
(sleeping when the pool is empty), and then either issues it straight to the
driver (`blk_mq_try_issue_directly`, when `dispatch_busy` is 0) or inserts it
into its own CPU's software queue and sets that ctx's bit in the hardware
queue's `ctx_map`. A dispatcher runs either synchronously in the caller or as
`run_work` on kblockd. It takes the whole `hctx->dispatch` list, or flushes
every pending ctx, or dequeues one request at a time round-robin when the
queue has been busy. It hands the requests to the driver's `queue_rq` one at a
time. A busy answer stops the batch. The rest goes back to the head of
`hctx->dispatch`, and a rerun is arranged: immediately, after
`BLK_MQ_RESOURCE_DELAY`, or left to the next completion through
SCHED_RESTART. Completion comes from the driver's interrupt. It marks the
request COMPLETE, frees its tag and queue reference, and clears SCHED_RESTART
to rerun the queue. The timeout work scans started requests concurrently and
races completion for the COMPLETE bit. Freeze stops new entries and waits for
the reference count to drain. Quiesce stops new dispatches and waits (RCU)
for those already running.

### What is hard

* Several dispatchers run at once on one hardware queue: kblockd and every
  CPU that runs the queue synchronously. Each holds requests in a local list
  that no other dispatcher sees.
* The decision to rerun is made from `SCHED_RESTART`, which a completion on
  another CPU may clear at any moment. A lost rerun leaves requests on
  `hctx->dispatch` forever.
* Completion, requeue and the timeout scanner race on the request's
  STARTED/COMPLETE bits. A request can be freed and reused while the
  scanner is looking at it.
* Freeze must drain requests that sleep for tags while holding a reference.
  Quiesce is a flag, not a counter, so it does not nest.

### Properties that make each component correct

* Dispatch: no request is lost or duplicated between the ctx lists,
  `hctx->dispatch`, the dispatchers' local lists, the requeue list and the
  driver. Every allocated request is eventually completed when the driver
  eventually accepts and completes work.
* Freeze: once the freeze wait returns, no request is allocated until
  unfreeze, so the tag depth may be changed. The wait eventually returns.
* Quiesce: after `blk_mq_quiesce_queue` returns, no request reaches the
  driver until `blk_mq_unquiesce_queue`.
* Lifecycle and timeout: a request is finalized at most once per start. The
  timeout handler is called only for a started request whose deadline has
  passed.

## 2. Plan

1. `BlkMqDispatch` (done in the first sitting): one hardware queue, its
   per-CPU software queues, the submission path, the dispatcher, driver
   completion and requeue, freeze and quiesce driven by
   `blk_mq_update_nr_requests` and by a quiesce-only caller (a driver
   reset). The tag pool is a set of tags. `MCBlkMqDispatch` runs it.
2. `BlkMqTimeout` (done in the first sitting): the request's atomic flags, deadline and reuse, with the
   timeout scanner taken apart into the reads and the compare-and-set it
   really performs. It checks that completion happens once and that the
   handler sees only expired requests.
   In the fifth sitting it gained a freezer, the references on
   `q_usage_counter` and a device that never completes a command.
3. `BlkMqTags`: the tag pool with a reserved range and waiters, modelled from
   spec.md. It is refined by the tag handling in `BlkMqDispatch`: an
   abstract allocator specification and a refinement mapping.
4. `BlkMqDriverTag` (done in the first sitting): driver tags with an I/O
   scheduler (`blk_mq_get_driver_tag`, `blk_mq_mark_tag_wait`, shared
   tags), and the STOPPED bit with `blk_mq_stop_hw_queue` and
   `blk_mq_start_stopped_hw_queues` (second sitting), and the driver's
   dispatch budget (third sitting).
   `blk_mq_delay_work_fn` is dead code in this tree: nothing queues
   `delay_work`.
5. `BlkMqReinit` (done in the first sitting): the remap under freeze by
   the CPU hotplug notifier and by `blk_mq_update_nr_hw_queues`, and (second
   sitting) a queue joining and leaving the tag set.
7. `BlkMqPlug` (done in the second sitting): the plug list, its flush, and
   CPU_DEAD / CPU_UP_PREPARE on one hardware queue, including
   `blk_mq_hctx_cpu_offline` and the remap of `hctx->ctxs`, `index_hw` and
   the `ctx_map` depth.
6. `BlkMqRequestQueue` (done in the third sitting): an abstract queue
   specification that `BlkMqDispatch` refines (§3.6).
8. `BlkMqTagSet` (done in the fourth sitting): `blk_mq_alloc_tag_set`
   with the depth halving and unwind of `blk_mq_alloc_rq_maps`, and
   `blk_mq_free_tag_set`, composed into `BlkMqDriverTag` (§3.7). The
   sixth sitting added the CPU to hctx map: `blk_mq_map_swqueue`'s lazy
   allocation, its fallback to hctx 0 and its unmapping, on queue creation
   and on CPU hotplug.

## 3. Modules, runs and results

### 3.1 `BlkMqDispatch` (with `MCBlkMqDispatch`)

One hardware queue (`hctx`) with `NCPU` software queues, a tag pool
`1..depth`, kblockd (`Kblockd`), and controller threads. `Resizers` run
`blk_mq_update_nr_requests`. `Quiescers` quiesce and unquiesce, as a driver
reset does.

| State | Code |
|---|---|
| `allocated`, `owner` | tags held and the CPU that allocated each (`rq->mq_ctx`) |
| `ctxList[c]`, `ctxPending` | `ctx->rq_list` and the ctx's bit in `hctx->ctx_map` |
| `dispatchList` | `hctx->dispatch` |
| `inflight` | requests the driver accepted (`queue_rq` returned OK) |
| `restart`, `runPending`, `dispatchBusy`, `dispatchFrom` | `BLK_MQ_S_SCHED_RESTART`, a queued `run_work`, `hctx->dispatch_busy`, `hctx->dispatch_from` |
| `requeueList`, `requeueKick` | `q->requeue_list` and a queued `requeue_work` |
| `pc[d]`, `local[d]`, `batch[d]`, `lastRet[d]`, `progress[d]` | where a CPU or kblockd is, its local `rq_list`, the batch it is issuing, the last `queue_rq` result, and whether it queued or ended anything |
| `freezeDepth`, `refDead`, `quiesced`, `depth` | `mq_freeze_depth`, the killed `q_usage_counter`, `QUEUE_FLAG_QUIESCED`, `tags->nr_tags` |
| `cpc[a]`, `cycles` | where a controller is, and how many freeze or quiesce cycles have started |

Each action is one handler, or one step of a handler up to the point where
the code sleeps, takes a lock, or hands work to another thread. A submitter
goes `blk_queue_enter` → tag allocation (`blk_mq_get_tag_sleep`/`_wake`
when no tag is free) → `blk_mq_make_request`. The last step either issues
directly through `blk_mq_try_issue_directly`, with its four outcomes, or
calls `blk_mq_queue_io` and then runs the queue. A dispatcher runs
`blk_mq_sched_dispatch_requests` (take the dispatch list, dequeue one ctx
when busy, or `blk_mq_flush_busy_ctxs`). It then runs
`blk_mq_dispatch_rq_list_issue` once per request and
`blk_mq_dispatch_rq_list_finish` (splice back, choose the rerun, update the
EWMA). Completion, `blk_mq_requeue_request` and `blk_mq_requeue_work` come
from the driver side. Controllers step through freeze start, wait,
quiesce, update, unquiesce and unfreeze.

Runs (all use `VIEW MCView`, which drops locals that the code no longer
reads):

* `dispatch_ctx` (2 CPUs, 2 tags, driver answers OK or BUSY, one
  quiescer with one cycle). Checks:
  * `RequestAccounting`: every allocated request is in exactly one place.
  * `PendingMatchesList`: a ctx bit is set exactly when its list is
    non-empty.
  * `QuiesceNoDispatch`: nothing reaches the driver while the quiescer is
    between quiesce and unquiesce.
  * `TypeOK`.
* `dispatch_live` (1 CPU plus kblockd, 2 tags, all four driver answers
  including requeue; 56,129 states). Checks `EveryRequestCompletes`: every
  allocated request is eventually completed, provided the driver stops
  requeueing. It also checks `BlkMqRequestQueueSpec`, the refinement of
  §3.6.
* `resize` (one resizer, depth 2 or 1; 184,760 states). Checks
  `AllocatedWithinDepth`: no tag is held at or beyond the depth. It also
  checks `FreezeDrains` (the resize's freeze wait returns) and
  `BlkMqRequestQueueSpec`.
* `quiesce_nesting` (a resizer and a quiescer at once). `QuiesceNoDispatch`
  is violated; see §5.

**Bounds.**
* Two tags: a request can be held back by a busy answer while another is
  in flight.
* Two CPUs for the safety run: two submitters, plus kblockd, race on the
  ctx bits and on the dispatch list.
* One CPU, plus kblockd, for the temporal and controller runs, to keep
  them under a few minutes. These runs still have two concurrent
  dispatchers.
* `MaxCycles` bounds how many freeze/quiesce cycles the controllers
  start. Without the bound a quiescer that never stops starves every
  liveness property.
* `DriverResults` and `DriverRequeues` choose which driver answers a run
  admits.

**Fairness.**
* Weak fairness for each thread's steps: a CPU or kblockd that is in the
  middle of a handler finishes it.
* Strong fairness for:
  * the driver accepting (`queue_rq` OK),
  * a completion,
  * a woken tag sleeper.

  The driver may say BUSY again and again, so each of these is enabled
  only intermittently, and a driver that never accepts is outside any
  guarantee.

**Approximations.**
* The synchronous runs made by `blk_freeze_queue_start` and by
  `blk_mq_requeue_work` (`blk_mq_run_hw_queues(q, false)`) are modelled
  as a queued kblockd run. This only delays them, and kblockd is a
  dispatcher like any other.
* `blk_mq_requeue_request` always kicks the requeue work.
* Not modelled in this module:
  * plugging;
  * flush/FUA requests;
  * the STOPPED bit (see `BlkMqDriverTag`) and `delay_work` (dead code);
  * driver tags and an I/O scheduler (see `BlkMqDriverTag`);
  * several hardware queues.

### 3.2 `BlkMqTimeout`

One request slot (`tags->static_rqs[tag]`) is allocated, started, ended and
reused over and over, against `blk_mq_timeout_work`. Its state:
* `started` and `complete` are `REQ_ATOM_STARTED` and `REQ_ATOM_COMPLETE`.
  `blk_mq_rq_ctx_init` does not touch them, so COMPLETE carries over from
  one use of the slot to the next until the next start.
* `expired` is `time_after_eq(jiffies, rq->deadline)`.
* `allocated` is the tag bit.
* `rpc` is the owner's phase: allocation, the three steps of
  `blk_mq_start_request`, then `queue_rq` answering OK, BUSY
  (`__blk_mq_requeue_request`) or ERROR (`blk_mq_end_request`).
  After OK come the driver's `blk_mq_complete_request` and
  `__blk_mq_finish_request`, or the device never completes the command
  (`device_hangs`, state `"lost"`): then only the timeout handler ends
  the request.
* `spc` is the scan's phase. It has one step each for:
  * `blk_mq_timeout_work`'s `percpu_ref_tryget` on `q_usage_counter`;
  * the STARTED test;
  * the deadline read;
  * the COMPLETE test-and-set;
  * the STARTED re-check in `blk_mq_rq_timed_out`;
  * the handler's answer: HANDLED runs the end and finish from the
    timeout's context, and RESET_TIMER calls `blk_add_timer` and, as a
    separate step, `blk_clear_rq_complete`.
  * the end of the work (`mod_timer` or `blk_mq_tag_idle`, then
    `blk_queue_exit`).
* `ends` counts finalizations of the current start. It is an auxiliary
  variable.
* `killed` and `fpc` are the freezer: `blk_freeze_queue_start` kills
  `q_usage_counter`, `blk_mq_freeze_queue_wait` waits for it to reach
  zero, and `blk_mq_unfreeze_queue` reinits it. The references are
  derived (`UsageRefs`): the request's, from `blk_queue_enter` in
  `blk_mq_alloc_request` to `blk_queue_exit` in `__blk_mq_finish_request`,
  and the scan's. `blk_queue_enter` refuses a killed counter;
  `percpu_ref_tryget` refuses it only once it is zero.

The timer itself (`blk_add_timer`, `q->timeout`) is in blk-timeout.c,
outside the tree. The model lets the timeout work run whenever a started
request is outstanding, so the timer's own arming and firing are not
part of the model.

The only timing the model assumes is the one the code's comments rely on:
the timeout is far longer than the few instructions
* from `blk_mq_start_request` to `queue_rq`'s return,
* from an end to its finish,
* from the scan's STARTED test to its deadline read.

So the deadline passes only while the driver holds the command, while a
requeued request waits, or while the slot is free. Fairness:
* Strong fairness for time passing: the scan's own steps disable it
  briefly.
* Strong fairness for the driver accepting and for a HANDLED answer: a
  driver does not reset the timer forever on a command it will never
  complete.
* Weak fairness for each thread's steps, and for the freezer's wait and
  unfreeze (every caller of `blk_mq_freeze_queue` unfreezes after its
  update). Freezing itself is never forced.

Runs:

* `timeout_live` (pass, 741 states). Checks:
  * `EveryRequestEnds`: every allocated request is eventually freed.
    This includes the case where a completion arriving between
    `blk_add_timer` and `blk_clear_rq_complete` is dropped and the
    request must wait for a second timeout, and a command the device
    never completes.
  * `FreezeCompletes`: a freeze drains even when the device holds a
    command it will never complete. The request's reference keeps the
    freeze waiting; only the timeout handler ends it, so the timeout
    work must take its own reference on the killed counter. The comment
    at blk-mq.c:876-888 explains why it uses `percpu_ref_tryget` rather
    than `blk_queue_enter`; the mutant that uses the live variant
    deadlocks.
* `timeout_double` (violation). `CompleteOnce`: a stale scan times out
  a request the driver already completed, after it was reallocated and
  started again, so the old lifetime ends twice (once by the driver's
  completion, once by HANDLED) and the new one is ended both by HANDLED
  and by queue_rq's ERROR. See §5.

`BLK_EH_NOT_HANDLED` is not offered. It leaves the request to a device
reset that is not in this code.

### 3.3 `BlkMqDriverTag` (with `MCBlkMqDriverTag`)

With an I/O scheduler, a request holds a scheduler tag from submission and
takes a driver tag only inside `blk_mq_dispatch_rq_list`. The module has
several hctxs (`HCtx`), each owning requests (`Home`), and one pool of
`NDriverTags` driver tags: `queueDepth - ReservedTags`, the unreserved
tags `blk_mq_init_tags` makes of the depth the tag set was allocated at
(§3.7). The pool is shared (`BLK_MQ_F_TAG_SHARED`) when
there is more than one hctx. Its state:
* `schedQ[h]` is what the scheduler holds.
* `dispatch[h]` is `hctx->dispatch`, and `local[h]` is the dispatcher's
  list.
* `dpc[h]` is where the dispatcher is.
* `noTag`, `lastRet` and `restart` are `no_tag`, `ret` and
  `BLK_MQ_S_SCHED_RESTART`.
* `tagged` holds the requests with a driver tag, and `inflight` those
  the driver owns.
* `waiting[h]` says the hctx's `dispatch_wait` entry is queued.
* `runPending[h]` is a queued `run_work`.
* `budget[h]` is the dispatch budget the queue holds from the driver
  (at most `NBudget`; a SCSI device's queue depth), and `refused[h]` says
  the driver has refused it one since its last completion.
* `submits` counts submissions, up to `MaxSubmit`.

The dispatcher's actions follow the code:
* `blk_mq_run_work_fn` takes `hctx->dispatch` and sets SCHED_RESTART, or
  goes to the scheduler.
* `blk_mq_do_dispatch_sched` stops when the scheduler is empty or the
  driver refuses the budget. Otherwise it takes the budget and hands out
  one request (`DispatchRequest`), a list with `got_budget` true.
* `blk_mq_get_dispatch_budget` at the top of the loop (blk-mq.c:1241)
  serves lists taken from `hctx->dispatch`, which arrive with `got_budget`
  false. It takes a unit of budget, or breaks out of the loop when the
  driver refuses.
* `blk_mq_get_driver_tag` either succeeds or leads to
  `blk_mq_mark_tag_wait`. Unshared, that sets SCHED_RESTART and retries.
  Shared, it gives up when the entry is already queued, or adds the entry
  and retries (`_retry`). When the retry fails, the budget is put
  (`PutBudgetOnNoTag`, blk-mq.c:1257).
* `blk_mq_dispatch_rq_list_issue` prefetches the next request's tag for
  `bd.last`. On BUSY it puts both tags, and on ERROR it ends the request.
* `blk_mq_dispatch_rq_list_finish` is the splice and the rerun decision
  of blk-mq.c:1374-1382.

Submissions take two routes. An async request goes to the scheduler
(`blk_mq_sched_insert_request`). A request of `SyncReq` takes
`blk_mq_make_request`'s direct-issue route. With an elevator,
`__blk_mq_try_issue_directly` goes straight to `insert` and
`blk_mq_request_bypass_insert` appends it to `hctx->dispatch`
(`blk_mq_try_issue_directly`, blk-mq.c:1873-1945). On a stopped hctx it
does so without a run. This is how `hctx->dispatch` gets lists of
several requests, and so how the `bd.last` prefetch happens.

A completion puts the driver tag and the budget. That wakes the waiters
of one sbitmap wait state and runs `blk_mq_sched_restart`. Unshared,
that restarts the completing hctx if it is marked. Shared, it does
nothing unless the completing queue has a marked hctx
(`shared_hctx_restart`). Otherwise it walks `set->tag_list` round-robin,
starting at the queue after the completing one (`RestartOrder`,
`RestartWalk`). At each marked hctx it clears the mark and calls
`blk_mq_run_hw_queue`, and it stops at the first hctx with work. Each
`HCtx` is its queue's only hctx, so a queue's `shared_hctx_restart` is
positive exactly when its hctx is marked. The queues' order in
`tag_list` is `TagList`.

The driver keeps the budget of an accepted request until its completion,
and puts it itself before any other answer, as SCSI's queue_rq does. A
driver that refused a budget runs the queue again when a completion gives
one back (`BudgetRerun`), as SCSI's `scsi_end_request` does. That run,
like every run, is queued only when the hctx has pending work. The
driver's side is not in the source tree. spec.md §4.3 and §6 only say
the budget is optional and independent of tags.

When `DriverStops` is TRUE, a driver may stop its hctx while a request is
in flight and answer BUSY (`blk_mq_stop_hw_queue`, as drivers do when
their ring is full; `stopped[h]` is `BLK_MQ_S_STOPPED`). The stop cancels
`run_work`. While stopped, `__blk_mq_delay_run_hw_queue` returns early
(blk-mq.c:1451), so neither the insert nor the finish's rerun queues a
run. The completion restarts the queue with
`blk_mq_start_stopped_hw_queues`, which clears the bit and runs the hctx.

blk-mq-sched.c is not in the source tree. So the scheduler's insert and
dispatch, `blk_mq_do_dispatch_sched` and `blk_mq_sched_restart` are
modelled from spec.md §6 and the 4.15-era code this backport follows,
and marked so in PROJECT.json. The driver may answer DEV_BUSY only while
the hctx has requests in flight, as in `BlkMqDispatch`.

Fairness:
* Weak fairness for each dispatcher and for completions.
* Strong fairness for the driver accepting.
* Strong fairness for the scheduler handing out each request, as
  mq-deadline's FIFO expiry guarantees.

Submissions are bounded by `MaxSubmit`, so every behaviour ends in a
quiet device. Without the bound, TLC finds a starvation that is real but
not about lost wakeups. `blk_mq_do_dispatch_sched` loops for as long as
the scheduler has work, and never looks at `hctx->dispatch`. So a
bypass-inserted request waits there for as long as async submissions
keep the scheduler busy. Later kernels cap the loop for this reason.
`EveryRequestCompletes` asks whether a quiet device still finishes every
request.

Runs:
* `drivertag_single` (pass, 94,534 states, about 100 s): one hctx, three
  requests (one of them sync), a tag set of two hardware queue indices at
  depth 2 (two driver tags, or one after a halving), all four answers, a
  driver that stops the queue, and a budget of two, which the driver
  refuses when two requests hold it. Three CPUs (CPUs 1 and 2 on hctx 1)
  and up to three hotplug events between bursts of I/O. Five submissions.
  Checks:
  * `TagSetAllocated` (§3.7) of the tag set the queue runs on.
  * `OnlineCpusHaveTags` and `MapPagesTracked` (§3.7): the remaps keep
    every online CPU on an hctx with a live map, and free or allocate the
    request pages with the maps.
  * `DriverTagsOnlyAtDriver`: a driver tag is held only by a request at
    the driver, by one of the first two of a dispatcher's list, or by the
    head of `hctx->dispatch`. A budget refusal right after the `bd.last`
    prefetch (blk-mq.c:1241, 1286) sends the next request back with its
    tag, which nothing puts. The BUSY path must put both tags, so no
    request further down the list holds one. Two tags make the prefetch
    and its put on BUSY happen.
  * `BudgetAccounting`: the budget a queue holds is one per request at
    the driver, plus one while its dispatcher is between the budget and
    `queue_rq`. A put skipped on a failed `blk_mq_mark_tag_wait` breaks
    it.
  * `EveryRequestCompletes`, on the SCHED_RESTART path, across budget
    refusals, and across a stop and the restart from the completion.
* `drivertag_lost` (violation): two queues sharing one tag, six
  submissions. `EveryRequestCompletes` fails through a lost wakeup. See
  §5.
* `drivertag_shared` (pass, 45,840 states, a few seconds): two queues
  sharing two driver tags, a sync request bypass-inserted on h1, and a
  budget of one per queue, six submissions. This is the shared path of
  `blk_mq_mark_tag_wait` (the `dispatch_wait` entry, the recheck, and the
  budget put when it fails), wakeups of one queue's waiter by the other
  queue's puts, the restart walk, and refusals right after a prefetch.
  Checks `DriverTagsOnlyAtDriver` and `BudgetAccounting`. The budget
  stall of §5 item 5 is reachable here and is a state with no step
  enabled, so the deadlock check is off. This run checks safety only.

In `drivertag_lost` too the stall is a state where no step is enabled, so
its configuration turns the deadlock check off and lets the liveness
property report it. EveryRequestCompletes is not checked on a pass run
with shared tags. Both stalls of §5 are reachable there, and the model
has no fairness between queues racing for a shared tag (no `nr_active`
sharing), so one queue can win every race.

### 3.4 `BlkMqReinit` (with `MCBlkMqReinit`)

Two threads remap software queues to hardware queues:
* The CPU hotplug notifier `blk_mq_queue_reinit_notify` (`hp`, `hpGroup`)
  holds `all_q_mutex`. It freezes the front list, then all other
  queues, then the tail list. For each list it starts every freeze and
  then waits on each queue. Next it runs `blk_mq_queue_reinit` on every
  queue and finally unfreezes them all.
* `blk_mq_update_nr_hw_queues` (`nrp`, `nri`) holds `tag_list_lock`. It
  freezes and waits on the queues of `set->tag_list` one at a time,
  remaps them, and unfreezes them.

`blk_mq_map_swqueue` has two halves, and each is a step:
* `MapLocked` runs under `q->sysfs_lock`.
* `MapTags` runs after the unlock and sets `hctx->tags`.

`inMap[t]` is the queue that thread `t` is remapping.

A third thread is the life of one more queue of the tag set, `AddQueue`
(`lq`):
* `blk_mq_init_allocated_queue` takes the CPU hotplug lock and
  `all_q_mutex`, and adds the queue to `all_q_list` (`allQ`).
* `blk_mq_add_queue_tag_set` takes `tag_list_lock` (`tagLock`). Going
  from one queue to two, it sets `BLK_MQ_F_TAG_SHARED` in the set
  (`setShared`), and `blk_mq_update_tag_set_depth` freezes, waits on,
  flips (`shared[q]`) and unfreezes each queue already on `tag_list`
  (`tagList`, `ui`). The new queue is then marked if the set is shared and
  appended, and the lock is dropped.
* `blk_mq_map_swqueue` maps the new queue (`inMap["add"]`), and the locks
  are released.
* `blk_mq_free_queue`, called once the queue is dying and drained, takes
  it off `all_q_list`. `blk_mq_del_queue_tag_set` takes it off `tag_list`
  and, when one queue is left (`list_is_singular`), clears the set's flag
  and updates that queue the same way.

The resize holds `tag_list_lock` from start to end, and the hotplug
notifier does not start while the new queue's init holds `all_q_mutex`.

Requests (`rstate`) hold `q_usage_counter` from `blk_queue_enter` until
they are freed. `Parent` says which request waits on which:
* a DM request waits on its clone on the queue below;
* a timed-out NVMe I/O waits on the admin command of the reset.

A child is sent only while its parent holds its reference. It enters only
while its queue's `mq_freeze_depth` (`depth`) is zero.

Fairness:
* Weak fairness for each thread's steps, for each request's exit, and for
  each child's entry.
* New events and top-level requests are not forced.

`MCBlkMqReinit` has three queues: `dm` (front), `ns` and `adm` (tail).
There are four requests: `d1` on `dm` waits on `n1` on `ns`, and `n2` on
`ns` waits on `a1` on `adm`. There is one hotplug event, and one resize
of the tag set `<<ns>>`. A fourth queue `ns2`, with no requests, is the
queue that joins the set and leaves it again, which takes the set from
one queue to two and back. Deadlock is not checked, because the
environment is bounded and the model stops once every request is done.

Runs:
* `reinit_live` (pass, 11,476 states, 5 s) checks four properties:
  * `RemapOnlyDrained`: a live queue being remapped is frozen and holds
    no request.
  * `TagSharedConsistent`: whenever `tag_list_lock` is free, the set is
    marked shared exactly when it has two queues or more, and every queue
    on the list carries the same flag.
  * `SharedFlipOnlyFrozen` (an action property): a live queue's flag
    changes only while it is frozen and drained.
  * `ReinitCompletes`: all three threads finish.

  `ReinitCompletes` shows that the front/tail
  freeze order avoids waiting on a request that waits on an already
  frozen queue. Freezing all three queues as one list deadlocks (the
  `Groups_onelist` mutant).
* `reinit_overlap` (violation): `ExclusiveRemap` fails. See §5.

### 3.5 `BlkMqPlug` (with `MCBlkMqPlug`)

One task plugs requests on a queue with one hardware queue. kblockd runs
that queue, and a CPU goes down or comes up.

| State | Code |
|---|---|
| `tcpu`, `plug` | the CPU the task runs on, `plug->mq_list` |
| `mqCtx[r]`, `pos[r]`, `rstate[r]` | `rq->mq_ctx`, `blk_rq_pos(rq)`, and whether the request is free, holds its queue reference, or is done |
| `ctxList[c]`, `ctxMap` | `ctx->rq_list`, the set bits of `hctx->ctx_map` |
| `hctxCtxs`, `indexHw[c]` | `hctx->ctxs[0..nr_ctx-1]` (its length is the `ctx_map` depth after `sbitmap_resize`), `ctx->index_hw` |
| `dispatch`, `runPending` | `hctx->dispatch`, a queued `run_work` |
| `online`, `frozen` | `cpu_online_mask`, the queue's killed `q_usage_counter` |
| `hpCpu`, `hpUp`, `hpTodo`, `hpFrozen`, `events` | the hotplug event in progress, the notifiers it still has to run, and the number of events so far |

Actions:
* `blk_mq_make_request`: the plug branch (blk-mq.c:2065-2096). The
  request's ctx is the current CPU's. A plug holding `MaxPlugged`
  (`BLK_MAX_REQUEST_COUNT`) requests is flushed first.
* `Migrate`: preemption moves the task. As the comment at 1683-1684 says,
  the plug is not flushed.
* `blk_mq_flush_plug_list`: one step covers the whole flush. That is
  `list_sort` with `plug_ctx_cmp` (the merge of `lib/list_sort.c`), the
  batching loop, and `blk_mq_sched_insert_requests` for every batch.
  Without an elevator, that first tries `blk_mq_try_issue_list_directly`
  when the hctx is not `dispatch_busy`. Each request is issued in turn
  and is done on OK or error, and a BUSY request goes to `hctx->dispatch`
  and ends the loop. The rest of the batch goes through
  `blk_mq_insert_requests`, which splices it and marks the bit at the
  ctx's `index_hw`, and the queue is run. The `dispatch_busy` EWMA is not
  modelled, so every outcome (no direct issue, or a BUSY after any number
  of requests) is a nondeterministic choice. blk-mq-sched.c is not in the
  source tree, so that branching is modelled from spec.md.
* `blk_mq_run_work_fn`: the dispatch list and `blk_mq_flush_busy_ctxs`,
  which takes `hctx->ctxs[b]` for each set bit `b` below the depth. The
  driver accepts everything.
* `cpu_down` / `cpu_up`, then the notifiers:
  * `blk_mq_hctx_cpu_offline` (CPU_DEAD only);
  * `blk_mq_queue_reinit_notify`, which freezes the queue and runs the
    hctx if it has pending work;
  * `blk_mq_queue_reinit`, which waits for the drain, then runs
    `blk_mq_map_swqueue(online_new)` and unfreezes.

  `cpu_hotplug_done` then adds a CPU that came up to the online mask. A
  CPU that is offline keeps its ctx's old `index_hw`.

Fairness:
* Weak fairness for the flush, for kblockd and for the hotplug steps.
  The flush's fairness is written out as `FlushFairness` with the state
  predicate `plug # <<>>` in place of `ENABLED`. That is equivalent
  because the flush has an outcome whenever the plug is not empty, and
  it keeps TLC from evaluating the flush's outcomes for `ENABLED` in every
  state.
* The task eventually finishes its plug (`blk_finish_plug`, or
  `schedule`), and kblockd and the hotplug thread run queued work.
* New requests, migrations and hotplug events are not forced.

`MCBlkMqPlug_live.cfg` has:
* two CPUs and three requests;
* two sector positions, so the sort has a key to order by within a ctx;
* `MaxPlugged = 2`, so a full plug is flushed by the third request;
* one hotplug event.

`Init` lets either CPU start offline (its `index_hw` is the 0 of
`kzalloc`), so the single event covers both a CPU going down and a CPU
that has never been online coming up. Deadlock is not checked, because
the model stops once all three requests are done.

Run:
* `plug_live` (pass, 98,742 states, about 40 s) checks three properties:
  * `NoStrandedRequest`: a non-empty ctx list has its bit set at an
    `index_hw` below the depth whose `hctx->ctxs` entry is that ctx.
  * `FlushInsertsSorted`: a flush keeps each ctx list as a prefix. What
    it appends to a ctx are plugged requests of that ctx, each once, in
    sector order. Every plugged request ends up done, on its ctx list, or
    on `hctx->dispatch`.
  * `EveryRequestCompletes`.

What the run shows:
* The CPU_DEAD case is safe only because each plugged request holds its
  queue reference. A plug with a request on the dead CPU's ctx keeps the
  freeze from draining. So the remap waits until the task flushes, and
  the flushed requests are found through the old mapping.
* The CPU_UP_PREPARE case is the one the comment at 3076-3091 describes.
  It is safe because online_new includes the CPU coming up.

### 3.6 `BlkMqRequestQueue`: what the queue promises, and its refinement

`BlkMqRequestQueue` states what spec.md §4.4 and §4.5 promise of one
queue, with none of the queues and threads in between. Its state:
* `entered`: the submitters inside the queue that have not allocated yet.
* `status[t]`: whether request `t` is `"free"`, `"queued"` or at the
  `"driver"`.
* `frozen` and `quiet`: a freeze has drained the queue, and a quiesce has
  returned, and neither is undone yet.

Its actions:
* `Enter` (not while frozen), and `Submit`, which consumes the entry. A
  submission is queued, or issued at once (accepted or failed), unless
  the queue is quiesced.
* `Issue`: queued to the driver or freed, never while quiesced.
* `Complete` and `Requeue`: a requeued request goes back to the queue,
  never straight to free.
* `Freeze`: only with nobody inside and every request free. `Unfreeze`,
  `Quiesce` and `Unquiesce` are the other control actions.

`BlkMqDispatch` implements it through `Abs == INSTANCE BlkMqRequestQueue
WITH ...`:
* `AbsStatus`: `"driver"` for `inflight`, `"queued"` for the rest of
  `allocated`, and `"free"` otherwise.
* `AbsEntered`: the CPUs at the tag allocation (`pc` `"tag"` or
  `"waitTag"`).
* `AbsFrozen`: a resizer between the return of
  `blk_mq_freeze_queue_wait` and `blk_mq_unfreeze_queue`.
* `AbsQuiet`: a controller between the return of `blk_mq_quiesce_queue`
  and `blk_mq_unquiesce_queue`.

`BlkMqRequestQueueSpec == Abs!Spec` is a `PROPERTY` of `dispatch_live`
(driver requeues) and of `resize` (a freeze). It is safety only: the
liveness that matters is stated directly, as `EveryRequestCompletes` and
`FreezeDrains`.

It is not checked in `dispatch_ctx`, which already takes about 4.5
minutes. The quiesce part is `QuiesceNoDispatch` there.

The mutants show what the mapping catches:
* A requeue work that splices without `_init` issues an already
  re-inserted request again: an `Issue` from `"driver"`.
* A freeze start that does not kill the usage counter lets a submitter
  enter a frozen queue.

### 3.7 `BlkMqTagSet`: a tag set's maps and the CPU to hctx map

`blk_mq_alloc_tag_set` (blk-mq.c:3208) gives each hardware queue index a
`struct blk_mq_tags` (`blk_mq_alloc_rq_map`) and the pages of its static
requests, each set up by the driver's `init_request`
(`blk_mq_alloc_rqs`). When an index fails, `__blk_mq_alloc_rq_maps`
unwinds and `blk_mq_alloc_rq_maps` halves `set->queue_depth` and tries
again from index 0, until the depth falls below `reserved_tags +
BLK_MQ_TAG_MIN`. `blk_mq_free_tag_set` frees every map and its requests.

State: `tset` (where allocation or free is), `hi` (the loop index),
`queueDepth`, `tags[i]` (`NULL`, the depth of the map, or `STALE` for a
pointer `out_unwind` freed but did not clear; integers 0 and -1, so that
TLC compares them with depths), `pageLists` (the
request pages allocated and not freed, as `<<i, depth>>`) and `failedAt`
(a history variable: the depths an attempt failed at). Every allocation
may fail, so `blk_mq_alloc_rq_maps_retry` is enabled beside each
successful `__blk_mq_alloc_rq_map`. `Halvings(d)` (RECURSIVE) is the
sequence of depths the loop can try.

The queues of the set map CPUs to hctxs through `set->mq_map`, which
`blk_mq_update_queue_map` fills in `blk_mq_alloc_tag_set` (the map
itself, `blk_mq_map_queues` or the driver's `->map_queues`, is not in
this file and is the constant `SetMap`); `q->mq_map` points at the same
array (blk-mq.c:2888). State: `qstate` (`none`, `live` on `all_q_list`,
`dead` after `blk_mq_free_queue`), `online` (`cpu_online_mask`), `mqMap`,
`hctxTags` (`hctx->tags` of each index) and `hotplugs` (events so far,
bounded by `MaxHotplug`). `blk_mq_map_swqueue(on)` is the whole function:
`MapCpus` (RECURSIVE, CPU by CPU in order, as the first loop) allocates
the map of an online CPU's hctx when `set->tags[idx]` is NULL, or, when
that allocation fails (an existential choice of the failing CPUs),
writes 0 into `set->mq_map[cpu]`; `UnmapHctxs` is the second loop, giving
hctxs without CPUs NULL tags and freeing their map and requests unless
the index is 0 ("Never unmap queue 0"). It runs from
`blk_mq_init_allocated_queue` and from `CPU_DEAD(c)` and
`CPU_UP_PREPARE(c)` (`blk_mq_queue_reinit_notify`; the last online CPU
never goes down). Several queues of one set compute the same map from
the shared `set->mq_map` and `set->tags`, so one `hctxTags` stands for
all of them.

`BlkMqDriverTag` composes it by `INSTANCE`: requests are only inserted
while `qstate = "live"`, the driver's depth is `queueDepth -
ReservedTags`, a hotplug remap of a live queue happens only when every
request is back (`Frozen`: the freeze of `blk_mq_queue_reinit_notify`
has drained it, and blocks new requests until the remap is done, which
is why the remap is one step), and the driver's remove is
`blk_mq_free_queue` (every request back, every dispatcher idle) followed
by `blk_mq_free_tag_set`. The failed and freed states are terminal
(`TSStopped` stutters).

`TagSetAllocated` (run in `drivertag_single`): a set that
`blk_mq_alloc_tag_set` returns has a map at every index of the final
depth (never a stale pointer), that depth is in `Halvings(QueueDepth)`,
and every larger depth of the sequence failed; a set it fails tried
every depth down to the floor. Once a queue is mapped, an index may
also be NULL.

`OnlineCpusHaveTags` (run in `drivertag_single`, three CPUs with CPUs 1
and 2 on hctx 1, three hotplug events): every online CPU maps to an hctx
with tags, and an hctx's tags are the set's live map of its index, so
the `WARN_ON(!hctx->tags)` at 2659 never fires. It takes a CPU going
down (freeing hctx 1's map), coming back with a failing allocation and
falling back on hctx 0 to exercise it; dropping the `i &&` of
`if (i && set->tags[i])` breaks it in four events (CPU 0 down, hctx 0
unmapped; CPU 0 up, allocation fails, CPU 0 falls back on the hctx 0
that has no map).

`MapPagesTracked` (same run): the request pages at the set's depth are
exactly those of the maps `set->tags` holds; a map unmapped by a remap
takes its requests with it, and two CPUs returning to the same hctx
allocate its map once. The property looks only at the current depth
because the pages `out_unwind` leaks (below) are of larger depths.

Not checked by a run, but visible in the model: `out_unwind` calls only
`blk_mq_free_rq_map` (blk-mq.c:3131-3132), not `blk_mq_free_rqs`. With
two indices, "map 0 at depth 2, fail at index 1, map 0 and 1 at depth 1,
free" leaves `<<0, 2>>` in `pageLists` after `blk_mq_free_tag_set`: the
first attempt's request pages and the driver state in them are never
freed, although allocation succeeded. PROJECT.json lists it as a
hazard.

## 4. Mutants

Every property of a passing run has a mutant in PROJECT.json. A mutant is
a plausible bug in a mapped definition, and the run's own configuration
catches it:

| Run | Property | Mutant |
|---|---|---|
| `dispatch_ctx` | `TypeOK` | the EWMA without its decay-to-zero early return |
| `dispatch_ctx` | `RequestAccounting` | the flush that does not initialise the local list |
| `dispatch_ctx` | `PendingMatchesList` | insertion without marking the ctx pending |
| `dispatch_live` | `EveryRequestCompletes` | rerun only when SCHED_RESTART is clear |
| `dispatch_ctx` | `QuiesceNoDispatch` | quiesce without `synchronize_rcu` |
| `resize` | `AllocatedWithinDepth` | a freeze wait that does not wait |
| `resize` | `FreezeDrains` | freeze start without `percpu_ref_kill` |
| `timeout_live` | `EveryRequestEnds` | RESET_TIMER that leaves COMPLETE set |
| `timeout_live` | `FreezeCompletes` | the timeout work taking its reference with `percpu_ref_tryget_live`, as `blk_queue_enter` does |
| `drivertag_single` | `DriverTagsOnlyAtDriver` | BUSY that does not put the prefetched tag of the next request |
| `drivertag_shared` | `DriverTagsOnlyAtDriver` | the same |
| `drivertag_shared` | `BudgetAccounting` | the same as for `drivertag_single` |
| `drivertag_single` | `BudgetAccounting` | a failed `blk_mq_mark_tag_wait` that leaves the loop without `blk_mq_put_dispatch_budget` |
| `dispatch_live` | `BlkMqRequestQueueSpec` | requeue work that splices `requeue_list` without `_init` |
| `resize` | `BlkMqRequestQueueSpec` | freeze start without `percpu_ref_kill` |
| `drivertag_single` | `EveryRequestCompletes` | `blk_mq_mark_tag_wait` without the recheck after marking |
| `drivertag_single` | `TagSetAllocated` | `blk_mq_alloc_rq_maps` giving up at `<=` the floor instead of `<` |
| `drivertag_single` | `OnlineCpusHaveTags` | `blk_mq_map_swqueue` unmapping hctx 0 too (`if (set->tags[i])` without `i &&`) |
| `drivertag_single` | `MapPagesTracked` | the unmap freeing the map but not its requests |
| `reinit_live` | `ReinitCompletes` | every queue frozen as one list, without front and tail lists |
| `reinit_live` | `RemapOnlyDrained` | `blk_mq_freeze_queue_list` without its wait loop |
| `reinit_live` | `TagSharedConsistent` | `blk_mq_del_queue_tag_set` testing `list_empty` for `list_is_singular` |
| `reinit_live` | `SharedFlipOnlyFrozen` | `queue_set_hctx_shared` before the freeze |
| `plug_live` | `NoStrandedRequest` | online_new without the CPU coming up |
| `plug_live` | `FlushInsertsSorted` | `plug_ctx_cmp` comparing ctx only |
| `plug_live` | `EveryRequestCompletes` | the flush loop without the insert after the loop |

## 5. Findings

1. **Quiesce does not nest** (`quiesce_nesting`). `QUEUE_FLAG_QUIESCED`
   is a flag, so `blk_mq_unquiesce_queue` (blk-mq.c:248) ends every
   caller's quiesced window. Suppose `blk_mq_update_nr_requests` overlaps
   a driver reset that quiesces. Then the resize's unquiesce lets a
   directly issued request reach the driver inside the reset's window.
   This contradicts the comment at blk-mq.c:213-220 and spec.md §4.5.
2. **A stale scan finalizes a request twice** (`timeout_double`).
   `blk_mq_check_expired` (blk-mq.c:841-858) reads STARTED, reads the
   deadline, and does the COMPLETE test-and-set as three separate steps.
   TLC's trace:
   1. The request is started and the driver accepts it (`queue_rq` OK).
      Its deadline passes.
   2. The driver completes it: `blk_mq_complete_request` wins COMPLETE
      and ends the request. The timeout work starts and the scan reads
      STARTED, which is still set.
   3. The request is finished, its tag is freed, and the tag is
      reallocated to a new use of the same request.
   4. The scan reads the old, expired deadline.
   5. The new use is started: new deadline, STARTED set, COMPLETE
      cleared. The model counts the ends of each use from the timer
      arm, so the new use has none yet.
   6. `queue_rq` answers ERROR, and `blk_mq_end_request` ends the new
      use. It does not set COMPLETE.
   7. The scan's test-and-set on COMPLETE succeeds, and `->timeout` is
      called for a request the driver already completed.
   8. A HANDLED answer ends it again, so the new use is ended twice.

   The comment at 844-856 argues that a reallocated request cannot be
   timed out. The barrier in `blk_mq_start_request` orders the writes,
   but it cannot order them against reads that the scan has already
   made. The double end contradicts the completion idempotence of
   spec.md §8 and §7.
3. **Lost tag wakeup on a shared tag set** (`drivertag_lost`). TLC's
   trace:
   1. hctx h2 fails to get a driver tag. `blk_mq_mark_tag_wait` adds its
      non-exclusive `dispatch_wait` entry, and the recheck fails.
   2. h2 is run again by other means and gets a tag. Its entry stays
      queued.
   3. hctx h1 fails in the same way, adds its own entry, and the recheck
      fails.
   4. The only busy tag is put. sbitmap wakes the entries of one wait
      state, and `bt_wait_ptr` placed h1 and h2 on different ones, so
      only h2's stale entry is woken.
   5. The completion's `blk_mq_sched_restart` does nothing: the
      completing queue's `shared_hctx_restart` is 0 (h2 is not marked),
      so the walk over `tag_list` never starts. h1's finish
      (blk-mq.c:1375) saw `no_tag` and its own entry still queued, so
      it did not rerun, and h1 has no request in flight whose
      completion could restart it.

   h1's request stays on `hctx->dispatch` until unrelated I/O runs the
   queue. The comment at 1360-1363 promises a rerun in this case.

4. **Two remaps of one queue overlap** (`reinit_overlap`). The hotplug
   notifier serialises on `all_q_mutex`. `blk_mq_update_nr_hw_queues`
   serialises on `set->tag_list_lock` (blk-mq.c:3370). Neither takes the
   other's lock. Both freeze the namespace queue, since freezes nest
   through `mq_freeze_depth`, and both wait for it to drain. Both then run
   `blk_mq_map_swqueue` on it. `sysfs_lock` covers only the first half of
   that function. TLC finds a state where the hotplug thread is in the
   unlocked half, which frees the tags of unmapped hctxs and sets
   `hctx->tags`, while the resize thread is in the same half on the same
   queue (blk-mq.c:3359). The comment on `blk_mq_map_swqueue` assumes it
   is the only writer of the hctx mapping of a frozen queue. The model
   also reaches a second route to the overlap. `blk_mq_add_queue_tag_set`
   drops `tag_list_lock` (blk-mq.c:2748) before
   `blk_mq_init_allocated_queue` maps the new queue (2940), so a resize can freeze and remap the
   half-initialised queue at the same time.
5. **A refused budget hangs a queue on a shared tag set** (no run of its
   own; see §6). TLC finds it as a violation of `EveryRequestCompletes`
   under `MCBlkMqDriverTag_lost.cfg` with `QueueDepth = 3`,
   `NBudget = 1` and `MaxSubmit = 5`: two queues with a budget of one
   each, and tags to spare. TLC's trace:
   1. Queue h1's sync request is bypass-inserted on `hctx->dispatch`
      while h1's other request holds the budget at the driver. A run of
      h1 takes the list, and `blk_mq_get_dispatch_budget` (blk-mq.c:1241)
      is refused. The loop breaks with the request still on the list.
   2. Before the finish splices the list back, the driver completes h1's
      other request. That gives the budget back, and the driver's rerun
      finds nothing pending, so it queues no run.
   3. The completion's `blk_mq_sched_restart` walks `tag_list` from the
      queue after h1, finds h2 marked with work, runs h2, and stops
      there.
   4. h1's finish splices the request back. SCHED_RESTART is set on h1,
      so the finish (blk-mq.c:1374-1379) does not rerun, and BUSY was
      not the answer, so there is no delayed run.

   h1 now has a request on `hctx->dispatch`, no run queued, and nothing
   in flight whose completion would restart it. Without a shared tag set
   this cannot happen: the restart of the completing hctx clears
   SCHED_RESTART when nothing is pending, and the finish then reruns.

## 6. Not modelled

The PROJECT.json components list every part and why. In short:
* CPU_UP_CANCELED, and the plug on a queue with several hardware queues.
  With several, every hctx's CPU_DEAD notifier runs
  `blk_mq_hctx_cpu_offline` on the dead CPU's ctx (blk-mq.c:2335) without
  checking that the CPU was mapped to it: the first to run takes the
  requests onto its own dispatch list and clears another ctx's pending
  bit. This is a hazard in PROJECT.json; it would need a plug model with
  two hctxs and a run of its own.
* Failures of `blk_mq_init_allocated_queue` and
  `blk_mq_realloc_hw_ctxs`: the model's queue creation always succeeds.
  When `blk_mq_realloc_hw_ctxs` fails part-way while growing, it sets
  `q->nr_hw_queues` to the hctxs it got, while `set->mq_map` can still
  name the missing ones (blk-mq.c:2863). `blk_mq_init_hctx`'s error path
  `kfree`s `hctx->fq` but not its `flush_rq` (2495). Neither has a run.
* `delay_work`: dead code, since nothing in this tree queues it.
  `blk_mq_start_hw_queue(s)` (unconditional restart) is not modelled.
* The scheduler's own loop: `blk_mq_do_dispatch_sched` never looks at
  `hctx->dispatch` while the scheduler has work, so a bypass-inserted
  request starves under endless async submissions. `MaxSubmit` bounds
  submissions to keep this out of the liveness runs (§3.3).
* `nr_active` fair sharing of a shared tag set, and with it any fairness
  between queues racing for a shared driver tag.
* The dispatch budget in `BlkMqDispatch`: its driver has no `aux_ops`,
  so the direct-issue budget (blk-mq.c:1896-1905) always succeeds there.
  The budget is modelled in `BlkMqDriverTag`.
* In-flight accounting and statistics: no effect on control.
* Setup and teardown: the allocation of hctxs, ctxs and the queue,
  except the locked part of queue init and free, which `BlkMqReinit`
  models, and the tag set's maps, which `BlkMqTagSet` models.
* The tag set's page leak on a halved retry (§3.7) has no run: every
  run slot the checker allows (twelve) is taken, and the four violation
  runs each show a finding of their own. The same holds for the budget
  stall of §5 item 5. It is listed as a liveness hazard at blk-mq.c:1374,
  and the constants above reproduce its trace.
* Mount namespaces: outside the scope of spec.md.
