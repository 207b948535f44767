---------------------------- MODULE BlkMqReinit -----------------------------
(***************************************************************************)
(* Remapping software to hardware queues under a freeze, in               *)
(* block/blk-mq.c. Two threads remap: the CPU hotplug notifier             *)
(* blk_mq_queue_reinit_notify, over every queue on all_q_list under        *)
(* all_q_mutex, and blk_mq_update_nr_hw_queues, over the queues of one     *)
(* tag set under tag_list_lock. Each freezes its queues, waits until they  *)
(* are drained, runs blk_mq_queue_reinit -> blk_mq_map_swqueue on each,    *)
(* and unfreezes them.                                                     *)
(*                                                                         *)
(* A request holds q_usage_counter of its queue from blk_queue_enter to    *)
(* its free. Some requests complete only after a request on another queue  *)
(* does (Parent): a DM request after the clone it sends to the queue       *)
(* below, an NVMe I/O that timed out after the admin commands of the       *)
(* reset. blk_queue_enter blocks while the queue is frozen, which is why   *)
(* __blk_mq_freeze_all_queue_list freezes front queues first and tail      *)
(* queues last.                                                            *)
(*                                                                         *)
(* A third thread is the life of one more queue of the tag set (a new      *)
(* namespace): blk_mq_init_allocated_queue adds it to all_q_list and, by   *)
(* blk_mq_add_queue_tag_set, to the tag set, then maps it; blk_mq_free_queue *)
(* later takes it off both lists. Going from one queue to two, or back,    *)
(* blk_mq_update_tag_set_depth freezes each queue of the set in turn and   *)
(* flips BLK_MQ_F_TAG_SHARED on its hctxs.                                 *)
(***************************************************************************)
EXTENDS Naturals, FiniteSets, Sequences

CONSTANTS
  Queue,         \* the queues on all_q_list
  FrontQueue,    \* q->front_queue (stacked queues such as DM)
  TailQueue,     \* q->tail_queue (such as the NVMe admin queue)
  TagList,       \* set->tag_list of the tag set being resized, in order
  Req,
  QueueOf,       \* the queue a request enters
  Parent,        \* the request that waits for this one, or NoParent
  NoParent,
  NoQueue,
  MaxHotplug,    \* CPU hotplug events
  MaxResize,     \* calls of blk_mq_update_nr_hw_queues
  AddQueue       \* the queue blk_mq_init_allocated_queue adds to the set

ASSUME /\ FrontQueue \subseteq Queue /\ TailQueue \subseteq Queue
       /\ FrontQueue \cap TailQueue = {}
       /\ QueueOf \in [Req -> Queue]
       /\ Parent \in [Req -> Req \cup {NoParent}]
       /\ AddQueue \in Queue \ (FrontQueue \cup TailQueue)
       /\ \A i \in DOMAIN TagList : TagList[i] # AddQueue
       /\ \A r \in Req : QueueOf[r] # AddQueue

VARIABLES
  rstate,   \* "new", "in" (holds q_usage_counter) or "done"
  depth,    \* q->mq_freeze_depth
  hp,       \* where blk_mq_queue_reinit_notify is
  hpGroup,  \* the freeze list it is working on (front, all, tail)
  nrp,      \* where blk_mq_update_nr_hw_queues is
  nri,      \* its position in TagList
  todo,     \* per thread, the queues still to reinit
  inMap,    \* per thread, the queue whose unlocked half of
            \* blk_mq_map_swqueue it is running, or NoQueue
  events,   \* per thread, the hotplug events or resizes so far
  allQ,     \* all_q_list
  tagList,  \* set->tag_list
  tagLock,  \* the holder of set->tag_list_lock, or "none"
  setShared,\* BLK_MQ_F_TAG_SHARED in set->flags
  shared,   \* BLK_MQ_F_TAG_SHARED in the hctx->flags of each queue
  lq,       \* where the life of AddQueue is
  ui,       \* blk_mq_update_tag_set_depth's position in tag_list
  updVal    \* the value it sets (TRUE when adding, FALSE when deleting)

vars == <<rstate, depth, hp, hpGroup, nrp, nri, todo, inMap, events,
          allQ, tagList, tagLock, setShared, shared, lq, ui, updVal>>

tsVars == <<allQ, tagList, tagLock, setShared, shared, lq, ui, updVal>>

Threads == {"hotplug", "resize", "add"}

\* Every queue frozen in one list.
Groups_onelist == <<{}, Queue, {}>>

\* __blk_mq_freeze_all_queue_list: front queues, then the rest, then tail.
Groups == <<FrontQueue, Queue \ (FrontQueue \cup TailQueue), TailQueue>>

SetOf(s) == {s[i] : i \in DOMAIN s}

Children(r) == {c \in Req : Parent[c] = r}

\* percpu_ref_is_zero(&q->q_usage_counter)
Drained(q) == \A r \in Req : QueueOf[r] = q => rstate[r] # "in"

\* blk_mq_init_allocated_queue holds all_q_mutex (and get_online_cpus)
\* from adding AddQueue to all_q_list until it has mapped it.
HoldsAllQMutex ==
  lq \in {"add", "map"} \/ (lq \in {"upd_start", "upd_wait"} /\ updVal)

\* A queue whose requests may be dispatched: AddQueue only between the
\* return of blk_mq_init_allocated_queue and blk_mq_free_queue.
Live(q) == q # AddQueue \/ lq = "live"

-----------------------------------------------------------------------------
(* Requests                                                                *)

\* blk_queue_enter: wait until the queue is not frozen, then take a
\* reference. A request with a parent is sent by the parent's owner.
blk_queue_enter(r) ==
  /\ rstate[r] = "new"
  /\ Parent[r] # NoParent => rstate[Parent[r]] = "in"
  /\ depth[QueueOf[r]] = 0
  /\ rstate' = [rstate EXCEPT ![r] = "in"]
  /\ UNCHANGED <<depth, hp, hpGroup, nrp, nri, todo, inMap, events, tsVars>>

\* The request completes once what it waits for has, and its free drops
\* the reference (blk_queue_exit).
blk_queue_exit(r) ==
  /\ rstate[r] = "in"
  /\ \A c \in Children(r) : rstate[c] = "done"
  /\ rstate' = [rstate EXCEPT ![r] = "done"]
  /\ UNCHANGED <<depth, hp, hpGroup, nrp, nri, todo, inMap, events, tsVars>>

-----------------------------------------------------------------------------
(* blk_mq_queue_reinit: blk_mq_map_swqueue in two halves                  *)

\* The first half, under q->sysfs_lock: rebuild hctx->cpumask, hctx->ctxs
\* and ctx->index_hw.
MapLocked(t, q) ==
  /\ q \in todo[t]
  /\ inMap[t] = NoQueue
  /\ todo' = [todo EXCEPT ![t] = @ \ {q}]
  /\ inMap' = [inMap EXCEPT ![t] = q]

\* The second half, after mutex_unlock(&q->sysfs_lock): free the tags of
\* unmapped hctxs, set hctx->tags, resize ctx_map.
MapTags(t) ==
  /\ inMap[t] # NoQueue
  /\ inMap' = [inMap EXCEPT ![t] = NoQueue]
  /\ UNCHANGED todo

-----------------------------------------------------------------------------
(* The CPU hotplug notifier                                                *)

\* blk_mq_queue_reinit_notify on CPU_DEAD, CPU_UP_CANCELED or
\* CPU_UP_PREPARE: take all_q_mutex.
blk_mq_queue_reinit_notify ==
  /\ hp = "idle"
  /\ ~HoldsAllQMutex
  /\ events["hotplug"] < MaxHotplug
  /\ hp' = "start"
  /\ hpGroup' = 1
  /\ events' = [events EXCEPT !["hotplug"] = @ + 1]
  /\ UNCHANGED <<rstate, depth, nrp, nri, todo, inMap, tsVars>>

\* blk_mq_freeze_queue_list, first loop: blk_freeze_queue_start on every
\* queue of the list.
blk_mq_freeze_queue_list_start ==
  /\ hp = "start"
  /\ depth' = [q \in Queue |->
                 IF q \in Groups[hpGroup] \cap allQ THEN depth[q] + 1
                                                   ELSE depth[q]]
  /\ hp' = "wait"
  /\ UNCHANGED <<rstate, hpGroup, nrp, nri, todo, inMap, events, tsVars>>

\* The second loop without blk_mq_freeze_queue_wait.
blk_mq_freeze_queue_list_wait_nowait ==
  /\ hp = "wait"
  /\ IF hpGroup < 3
       THEN /\ hpGroup' = hpGroup + 1
            /\ hp' = "start"
            /\ UNCHANGED todo
       ELSE /\ hp' = "remap"
            /\ todo' = [todo EXCEPT !["hotplug"] = allQ]
            /\ UNCHANGED hpGroup
  /\ UNCHANGED <<rstate, depth, nrp, nri, inMap, events, tsVars>>

\* blk_mq_freeze_queue_list, second loop: blk_mq_freeze_queue_wait on
\* every queue of the list; then the next list, or the reinit loop.
blk_mq_freeze_queue_list_wait ==
  /\ hp = "wait"
  /\ \A q \in Groups[hpGroup] \cap allQ : Drained(q)
  /\ IF hpGroup < 3
       THEN /\ hpGroup' = hpGroup + 1
            /\ hp' = "start"
            /\ UNCHANGED todo
       ELSE /\ hp' = "remap"
            /\ todo' = [todo EXCEPT !["hotplug"] = allQ]
            /\ UNCHANGED hpGroup
  /\ UNCHANGED <<rstate, depth, nrp, nri, inMap, events, tsVars>>

\* blk_mq_queue_reinit(q, &online_new) for each queue.
blk_mq_queue_reinit_hotplug(q) ==
  /\ hp = "remap"
  /\ MapLocked("hotplug", q)
  /\ UNCHANGED <<rstate, depth, hp, hpGroup, nrp, nri, events, tsVars>>

blk_mq_map_swqueue_tags_hotplug ==
  /\ hp = "remap"
  /\ MapTags("hotplug")
  /\ hp' = IF todo["hotplug"] = {} THEN "unfreeze" ELSE "remap"
  /\ UNCHANGED <<rstate, depth, hpGroup, nrp, nri, events, tsVars>>

\* blk_mq_unfreeze_queue on every queue; drop all_q_mutex.
blk_mq_unfreeze_all ==
  /\ hp = "unfreeze"
  /\ depth' = [q \in Queue |-> IF q \in allQ THEN depth[q] - 1 ELSE depth[q]]
  /\ hp' = "idle"
  /\ UNCHANGED <<rstate, hpGroup, nrp, nri, todo, inMap, events, tsVars>>

-----------------------------------------------------------------------------
(* blk_mq_update_nr_hw_queues                                              *)

\* Take tag_list_lock; a new, different nr_hw_queues.
blk_mq_update_nr_hw_queues ==
  /\ nrp = "idle"
  /\ events["resize"] < MaxResize
  /\ tagLock = "none"
  /\ tagList # <<>>
  /\ nrp' = "start"
  /\ nri' = 1
  /\ events' = [events EXCEPT !["resize"] = @ + 1]
  /\ tagLock' = "resize"
  /\ UNCHANGED <<rstate, depth, hp, hpGroup, todo, inMap, allQ, tagList,
                 setShared, shared, lq, ui, updVal>>

\* blk_mq_freeze_queue on each queue of the tag set in turn: start ...
blk_mq_freeze_queue_start ==
  /\ nrp = "start"
  /\ depth' = [depth EXCEPT ![tagList[nri]] = @ + 1]
  /\ nrp' = "wait"
  /\ UNCHANGED <<rstate, hp, hpGroup, nri, todo, inMap, events, tsVars>>

\* ... and wait, before the next queue is frozen.
blk_mq_freeze_queue_wait ==
  /\ nrp = "wait"
  /\ Drained(tagList[nri])
  /\ IF nri < Len(tagList)
       THEN /\ nri' = nri + 1
            /\ nrp' = "start"
            /\ UNCHANGED todo
       ELSE /\ nrp' = "remap"
            /\ todo' = [todo EXCEPT !["resize"] = SetOf(tagList)]
            /\ UNCHANGED nri
  /\ UNCHANGED <<rstate, depth, hp, hpGroup, inMap, events, tsVars>>

\* blk_mq_update_queue_map, then blk_mq_realloc_hw_ctxs and
\* blk_mq_queue_reinit(q, cpu_online_mask) for each queue.
blk_mq_queue_reinit_resize(q) ==
  /\ nrp = "remap"
  /\ MapLocked("resize", q)
  /\ UNCHANGED <<rstate, depth, hp, hpGroup, nrp, nri, events, tsVars>>

blk_mq_map_swqueue_tags_resize ==
  /\ nrp = "remap"
  /\ MapTags("resize")
  /\ nrp' = IF todo["resize"] = {} THEN "unfreeze" ELSE "remap"
  /\ UNCHANGED <<rstate, depth, hp, hpGroup, nri, events, tsVars>>

\* blk_mq_unfreeze_queue on each queue of the tag set; drop tag_list_lock.
blk_mq_unfreeze_tag_set ==
  /\ nrp = "unfreeze"
  /\ depth' = [q \in Queue |->
                 IF q \in SetOf(tagList) THEN depth[q] - 1 ELSE depth[q]]
  /\ nrp' = "idle"
  /\ tagLock' = "none"
  /\ UNCHANGED <<rstate, hp, hpGroup, nri, todo, inMap, events, allQ,
                 tagList, setShared, shared, lq, ui, updVal>>

-----------------------------------------------------------------------------
(* The tag set gains and loses AddQueue                                   *)

\* blk_mq_init_allocated_queue: get_online_cpus, all_q_mutex, list_add to
\* all_q_list.
blk_mq_init_allocated_queue ==
  /\ lq = "none"
  /\ hp = "idle"
  /\ lq' = "add"
  /\ allQ' = allQ \cup {AddQueue}
  /\ todo' = [todo EXCEPT !["add"] = {AddQueue}]
  /\ UNCHANGED <<rstate, depth, hp, hpGroup, nrp, nri, inMap, events,
                 tagList, tagLock, setShared, shared, ui, updVal>>

\* queue_set_hctx_shared(q, true) if the set is shared, list_add_tail_rcu
\* to tag_list, unlock tag_list_lock; then blk_mq_map_swqueue.
AddTail(sh) ==
  /\ shared' = IF setShared THEN [sh EXCEPT ![AddQueue] = TRUE] ELSE sh
  /\ tagList' = Append(tagList, AddQueue)
  /\ tagLock' = "none"
  /\ lq' = "map"

\* blk_mq_add_queue_tag_set: under tag_list_lock, going from one queue to
\* two sets the set's flag and updates the existing queues first.
blk_mq_add_queue_tag_set ==
  /\ lq = "add"
  /\ tagLock = "none"
  /\ IF tagList # <<>> /\ ~setShared
       THEN /\ setShared' = TRUE
            /\ tagLock' = "add"
            /\ lq' = "upd_start"
            /\ ui' = 1
            /\ updVal' = TRUE
            /\ UNCHANGED <<tagList, shared>>
       ELSE /\ AddTail(shared)
            /\ UNCHANGED <<setShared, ui, updVal>>
  /\ UNCHANGED <<rstate, depth, hp, hpGroup, nrp, nri, todo, inMap, events,
                 allQ>>

\* queue_set_hctx_shared before the freeze.
blk_mq_update_tag_set_depth_start_flipfirst ==
  /\ lq = "upd_start"
  /\ depth' = [depth EXCEPT ![tagList[ui]] = @ + 1]
  /\ shared' = [shared EXCEPT ![tagList[ui]] = updVal]
  /\ lq' = "upd_wait"
  /\ UNCHANGED <<rstate, hp, hpGroup, nrp, nri, todo, inMap, events, allQ,
                 tagList, tagLock, setShared, ui, updVal>>

\* blk_mq_update_tag_set_depth: blk_mq_freeze_queue on each queue of
\* tag_list in turn: start ...
blk_mq_update_tag_set_depth_start ==
  /\ lq = "upd_start"
  /\ depth' = [depth EXCEPT ![tagList[ui]] = @ + 1]
  /\ lq' = "upd_wait"
  /\ UNCHANGED <<rstate, hp, hpGroup, nrp, nri, todo, inMap, events, allQ,
                 tagList, tagLock, setShared, shared, ui, updVal>>

\* ... wait, queue_set_hctx_shared, blk_mq_unfreeze_queue. After the last
\* queue, the rest of blk_mq_add_queue_tag_set, or the unlock of
\* blk_mq_del_queue_tag_set.
blk_mq_update_tag_set_depth_wait ==
  /\ lq = "upd_wait"
  /\ Drained(tagList[ui])
  /\ depth' = [depth EXCEPT ![tagList[ui]] = @ - 1]
  /\ LET sh == [shared EXCEPT ![tagList[ui]] = updVal] IN
     IF ui < Len(tagList)
       THEN /\ ui' = ui + 1
            /\ lq' = "upd_start"
            /\ shared' = sh
            /\ UNCHANGED <<tagList, tagLock>>
     ELSE IF updVal
       THEN /\ AddTail(sh)
            /\ UNCHANGED ui
       ELSE /\ shared' = sh
            /\ tagLock' = "none"
            /\ lq' = "dead"
            /\ UNCHANGED <<tagList, ui>>
  /\ UNCHANGED <<rstate, hp, hpGroup, nrp, nri, todo, inMap, events, allQ,
                 setShared, updVal>>

\* blk_mq_map_swqueue(q, cpu_online_mask) on the new queue, in its two
\* halves; then all_q_mutex and the CPU hotplug lock are dropped.
blk_mq_map_swqueue_init ==
  /\ lq = "map"
  /\ MapLocked("add", AddQueue)
  /\ UNCHANGED <<rstate, depth, hp, hpGroup, nrp, nri, events, tsVars>>

blk_mq_map_swqueue_tags_init ==
  /\ lq = "map"
  /\ MapTags("add")
  /\ lq' = "live"
  /\ UNCHANGED <<rstate, depth, hp, hpGroup, nrp, nri, events, allQ,
                 tagList, tagLock, setShared, shared, ui, updVal>>

\* blk_mq_free_queue, called by blk_cleanup_queue once the queue is dying
\* and drained: list_del_init from all_q_list under all_q_mutex.
blk_mq_free_queue ==
  /\ lq = "live"
  /\ hp = "idle"
  /\ Drained(AddQueue)
  /\ allQ' = allQ \ {AddQueue}
  /\ lq' = "del"
  /\ UNCHANGED <<rstate, depth, hp, hpGroup, nrp, nri, todo, inMap, events,
                 tagList, tagLock, setShared, shared, ui, updVal>>

list_is_singular_empty(l) == Len(l) = 0

list_is_singular(l) == Len(l) = 1

\* blk_mq_del_queue_tag_set: under tag_list_lock, list_del_rcu; going back
\* to one queue clears the set's flag and updates the remaining queue.
blk_mq_del_queue_tag_set ==
  /\ lq = "del"
  /\ tagLock = "none"
  /\ tagList' = SelectSeq(tagList, LAMBDA q : q # AddQueue)
  /\ IF list_is_singular(tagList')
       THEN /\ setShared' = FALSE
            /\ tagLock' = "del"
            /\ lq' = "upd_start"
            /\ ui' = 1
            /\ updVal' = FALSE
       ELSE /\ lq' = "dead"
            /\ UNCHANGED <<setShared, tagLock, ui, updVal>>
  /\ UNCHANGED <<rstate, depth, hp, hpGroup, nrp, nri, todo, inMap, events,
                 allQ, shared>>

-----------------------------------------------------------------------------
(* Specification                                                           *)

Init ==
  /\ rstate = [r \in Req |-> "new"]
  /\ depth = [q \in Queue |-> 0]
  /\ hp = "idle"
  /\ hpGroup = 1
  /\ nrp = "idle"
  /\ nri = 1
  /\ todo = [t \in Threads |-> {}]
  /\ inMap = [t \in Threads |-> NoQueue]
  /\ events = [t \in Threads |-> 0]
  /\ allQ = Queue \ {AddQueue}
  /\ tagList = TagList
  /\ tagLock = "none"
  /\ setShared = (Len(TagList) > 1)
  /\ shared = [q \in Queue |-> q \in SetOf(TagList) /\ Len(TagList) > 1]
  /\ lq = "none"
  /\ ui = 1
  /\ updVal = TRUE

HotplugStep ==
  \/ blk_mq_freeze_queue_list_start
  \/ blk_mq_freeze_queue_list_wait
  \/ \E q \in Queue : blk_mq_queue_reinit_hotplug(q)
  \/ blk_mq_map_swqueue_tags_hotplug
  \/ blk_mq_unfreeze_all

\* The steps of blk_mq_init_allocated_queue and blk_mq_free_queue after
\* they have started.
TagSetStep ==
  \/ blk_mq_add_queue_tag_set
  \/ blk_mq_update_tag_set_depth_start
  \/ blk_mq_update_tag_set_depth_wait
  \/ blk_mq_map_swqueue_init
  \/ blk_mq_map_swqueue_tags_init
  \/ blk_mq_del_queue_tag_set

ResizeStep ==
  \/ blk_mq_freeze_queue_start
  \/ blk_mq_freeze_queue_wait
  \/ \E q \in Queue : blk_mq_queue_reinit_resize(q)
  \/ blk_mq_map_swqueue_tags_resize
  \/ blk_mq_unfreeze_tag_set

Next ==
  \/ \E r \in Req : blk_queue_enter(r) \/ blk_queue_exit(r)
  \/ blk_mq_queue_reinit_notify
  \/ HotplugStep
  \/ blk_mq_update_nr_hw_queues
  \/ ResizeStep
  \/ blk_mq_init_allocated_queue
  \/ blk_mq_free_queue
  \/ TagSetStep

\* A started remap keeps running; a request that has entered completes
\* once what it waits for has; the owner of a request that waits for
\* another sends it when the queue below lets it in. New hotplug events,
\* resizes and top-level requests are never forced.
Fairness ==
  /\ WF_vars(HotplugStep)
  /\ WF_vars(ResizeStep)
  /\ WF_vars(TagSetStep)
  /\ \A r \in Req : WF_vars(blk_queue_exit(r))
  /\ \A r \in Req : Parent[r] # NoParent => WF_vars(blk_queue_enter(r))

Spec == Init /\ [][Next]_vars /\ Fairness

-----------------------------------------------------------------------------
(* Properties                                                              *)

\* blk_mq_queue_reinit warns unless the queue is frozen, and
\* blk_mq_map_swqueue requires it frozen or not yet live: no request holds
\* a reference to a live queue while any thread remaps it.
RemapOnlyDrained ==
  \A t \in Threads : inMap[t] # NoQueue /\ Live(inMap[t]) =>
      depth[inMap[t]] > 0 /\ Drained(inMap[t])

\* Every CPU hotplug event and every resize finishes its remap and
\* unfreezes its queues, and blk_mq_init_allocated_queue and
\* blk_mq_free_queue return: freezing in the order of
\* __blk_mq_freeze_all_queue_list never waits on a request that waits on a
\* queue already frozen, and the per-queue freezes of the tag set under
\* tag_list_lock and all_q_mutex never wait on each other.
ReinitCompletes ==
  /\ hp # "idle" ~> hp = "idle"
  /\ nrp # "idle" ~> nrp = "idle"
  /\ lq \notin {"none", "live", "dead"} ~> lq \in {"live", "dead"}

\* blk_mq_map_swqueue rewrites hctx->ctxs, nr_ctx and hctx->tags and may
\* free the tags of an unmapped hctx: two remaps of the same queue must not
\* overlap.
ExclusiveRemap ==
  ~(inMap["hotplug"] # NoQueue /\ inMap["hotplug"] = inMap["resize"])

\* hctx_may_queue and blk_mq_tag_busy act on BLK_MQ_F_TAG_SHARED of the
\* hctx: whenever tag_list_lock is free, the set is marked shared exactly
\* when it has two queues or more, and every queue on tag_list has its
\* hctxs marked the same way, across adds and deletes of a queue.
TagSharedConsistent ==
  tagLock = "none" =>
    /\ setShared = (Len(tagList) > 1)
    /\ \A i \in DOMAIN tagList : shared[tagList[i]] = setShared

\* queue_set_hctx_shared may only run on a queue that is frozen and
\* drained, or not yet live (the comment above it): the TAG_SHARED flag of
\* a live queue never flips while one of its requests is in flight.
SharedFlipOnlyFrozen ==
  [][\A q \in Queue :
       shared'[q] # shared[q] /\ Live(q) => depth[q] > 0 /\ Drained(q)]_vars

=============================================================================
