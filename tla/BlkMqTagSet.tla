----------------------------- MODULE BlkMqTagSet ----------------------------
(***************************************************************************)
(* The request maps of a tag set, in block/blk-mq.c: blk_mq_alloc_tag_set  *)
(* gives every hardware queue index a struct blk_mq_tags with its rqs and  *)
(* static_rqs arrays (blk_mq_alloc_rq_map) and the pages that hold the     *)
(* requests themselves, each initialised by the driver's init_request      *)
(* (blk_mq_alloc_rqs). When memory is short, blk_mq_alloc_rq_maps halves   *)
(* set->queue_depth and tries again, down to reserved_tags +              *)
(* BLK_MQ_TAG_MIN. blk_mq_free_tag_set frees every map and its requests.   *)
(*                                                                         *)
(* A map is abstracted to the depth it was allocated at; the pages of one  *)
(* blk_mq_alloc_rqs call (with the driver state init_request set up in    *)
(* them) to the pair <<hctx index, depth>>. Every allocation may fail.     *)
(*                                                                         *)
(* The queues of the set map CPUs to hardware queues through set->mq_map  *)
(* (q->mq_map is the same array): blk_mq_map_swqueue, run when a queue is *)
(* created and, with the queues frozen, on every CPU hotplug event         *)
(* (blk_mq_queue_reinit_notify), gives an hctx that has lost all its CPUs  *)
(* NULL tags and frees its map, except hctx 0, and allocates the map of an *)
(* hctx that gains a CPU again; when that allocation fails the CPU is      *)
(* moved to hctx 0 in set->mq_map. The queues of the set are remapped      *)
(* together and compute the same map, so one hctxTags stands for all.      *)
(***************************************************************************)
EXTENDS Integers, FiniteSets, FiniteSetsExt

CONSTANTS
  NrHw,          \* set->nr_hw_queues
  QueueDepth,    \* set->queue_depth as the driver asks for it
  ReservedTags,  \* set->reserved_tags
  NrCpu,         \* nr_cpu_ids: the possible CPUs are 0..NrCpu-1
  SetMap,        \* the map blk_mq_update_queue_map computes: blk_mq_map_queues
                 \* or the driver's ->map_queues (not in this file)
  MaxHotplug     \* bound on the CPU hotplug events

\* BLK_MQ_TAG_MIN (block/blk-mq-tag.h).
BLK_MQ_TAG_MIN == 1

ASSUME /\ NrHw \in Nat \ {0}
       /\ QueueDepth \in Nat
       /\ ReservedTags \in Nat
       \* The -EINVAL checks at the top of blk_mq_alloc_tag_set pass.
       /\ QueueDepth >= ReservedTags + BLK_MQ_TAG_MIN

Hw == 0..(NrHw - 1)

Cpu == 0..(NrCpu - 1)

ASSUME /\ NrCpu \in Nat \ {0}
       /\ SetMap \in [Cpu -> Hw]
       /\ MaxHotplug \in Nat

\* The depths blk_mq_alloc_rq_maps may try: set->queue_depth >>= 1 from
\* the driver's depth, as long as reserved_tags + BLK_MQ_TAG_MIN fit.
RECURSIVE Halvings(_)
Halvings(d) ==
  IF d < ReservedTags + BLK_MQ_TAG_MIN THEN {} ELSE {d} \cup Halvings(d \div 2)

VARIABLES
  tset,        \* where blk_mq_alloc_tag_set / blk_mq_free_tag_set are
  hi,          \* the loop index i of __blk_mq_alloc_rq_maps
  queueDepth,  \* set->queue_depth
  tags,        \* set->tags[i]: NULL, the depth of its map, or STALE
  pageLists,   \* request pages allocated and not freed: <<i, depth>>
  failedAt,    \* history: the depths an attempt of __blk_mq_alloc_rq_maps
               \* failed at
  qstate,      \* the set's queues: "none" yet, "live" (on all_q_list), "dead"
  online,      \* cpu_online_mask
  mqMap,       \* set->mq_map, which every queue's q->mq_map points to
  hctxTags,    \* hctx->tags of the hctx of each index
  hotplugs     \* CPU hotplug events so far

tsVars == <<tset, hi, queueDepth, tags, pageLists, failedAt,
            qstate, online, mqMap, hctxTags, hotplugs>>

\* set->tags[i] without a map, and a pointer to a map already freed.
NULL == 0
STALE == -1

IsMap(t) == t > 0

mapVars == <<qstate, online, mqMap, hctxTags, hotplugs>>

NoTags == [i \in Hw |-> NULL]

TSInit ==
  /\ tset = "init"
  /\ hi = 0
  /\ queueDepth = QueueDepth
  /\ tags = NoTags
  /\ pageLists = {}
  /\ failedAt = {}
  /\ qstate = "none"
  /\ online = Cpu
  /\ mqMap = [c \in Cpu |-> 0]
  /\ hctxTags = NoTags
  /\ hotplugs = 0

\* blk_mq_alloc_tag_set up to blk_mq_alloc_rq_maps: kzalloc of set->tags
\* and set->mq_map, blk_mq_update_queue_map (which fills set->mq_map). Any of them may fail, and
\* the error path frees what was allocated.
blk_mq_alloc_tag_set ==
  /\ tset = "init"
  /\ \/ /\ tset' = "maps"
        /\ hi' = 0
     \/ /\ tset' = "failed"
        /\ UNCHANGED hi
  /\ mqMap' = SetMap
  /\ UNCHANGED <<queueDepth, tags, pageLists, failedAt, qstate, online,
                 hctxTags, hotplugs>>

\* __blk_mq_alloc_rq_map(set, i) succeeds: blk_mq_alloc_rq_map, then
\* blk_mq_alloc_rqs for every request of the depth. After the last index,
\* blk_mq_alloc_tag_set returns 0.
__blk_mq_alloc_rq_map ==
  /\ tset = "maps"
  /\ tags' = [tags EXCEPT ![hi] = queueDepth]
  /\ pageLists' = pageLists \cup {<<hi, queueDepth>>}
  /\ hi' = hi + 1
  /\ tset' = IF hi + 1 = NrHw THEN "ready" ELSE "maps"
  /\ UNCHANGED <<queueDepth, failedAt, mapVars>>

\* The out_unwind of __blk_mq_alloc_rq_maps: blk_mq_free_rq_map of the
\* maps of the indices below i, with the pointers left as they are.
out_unwind(t, i) == [j \in Hw |-> IF j < i THEN STALE ELSE t[j]]

\* The retry giving up one halving early: reserved_tags + BLK_MQ_TAG_MIN
\* itself taken as too small.
blk_mq_alloc_rq_maps_retry_floor ==
  /\ tset = "maps"
  /\ failedAt' = failedAt \cup {queueDepth}
  /\ queueDepth' = queueDepth \div 2
  /\ IF queueDepth \div 2 <= ReservedTags + BLK_MQ_TAG_MIN
       THEN /\ tset' = "failed"
            /\ tags' = NoTags
            /\ UNCHANGED hi
       ELSE /\ tags' = out_unwind([tags EXCEPT ![hi] = NULL], hi)
            /\ hi' = 0
            /\ UNCHANGED tset
  /\ UNCHANGED <<pageLists, mapVars>>

\* __blk_mq_alloc_rq_map(set, i) fails: blk_mq_alloc_rq_map returns NULL
\* (its own allocations undone), or blk_mq_alloc_rqs fails at a page or at
\* init_request and frees its pages with blk_mq_free_rqs, and the map is
\* freed and set->tags[i] set to NULL. __blk_mq_alloc_rq_maps unwinds;
\* blk_mq_alloc_rq_maps halves set->queue_depth and tries again from
\* index 0, or gives up below reserved_tags + BLK_MQ_TAG_MIN, and
\* blk_mq_alloc_tag_set frees set->mq_map and the set->tags array.
blk_mq_alloc_rq_maps_retry ==
  /\ tset = "maps"
  /\ failedAt' = failedAt \cup {queueDepth}
  /\ queueDepth' = queueDepth \div 2
  /\ IF queueDepth \div 2 < ReservedTags + BLK_MQ_TAG_MIN
       THEN /\ tset' = "failed"
            /\ tags' = NoTags
            /\ UNCHANGED hi
       ELSE /\ tags' = out_unwind([tags EXCEPT ![hi] = NULL], hi)
            /\ hi' = 0
            /\ UNCHANGED tset
  /\ UNCHANGED <<pageLists, mapVars>>

\* blk_mq_free_rqs: exit_request on every request, then the pages.
blk_mq_free_rqs(pl, i, d) == pl \ {<<i, d>>}

\* blk_mq_free_tag_set: blk_mq_free_map_and_requests on every index with a
\* map (blk_mq_free_rqs, blk_mq_free_rq_map, NULL), then set->mq_map and
\* the set->tags array.
blk_mq_free_tag_set ==
  /\ tset = "ready"
  /\ qstate # "live"   \* the driver cleaned its queues up first
  /\ pageLists' = FoldSet(LAMBDA i, pl : IF IsMap(tags[i])
                                          THEN blk_mq_free_rqs(pl, i, tags[i])
                                          ELSE pl,
                          pageLists, Hw)
  /\ tags' = NoTags
  /\ tset' = "freed"
  /\ UNCHANGED <<hi, queueDepth, failedAt, mapVars>>

-----------------------------------------------------------------------------
(* The CPU to hardware queue map                                           *)

\* The unmap freeing the map but leaving its requests' pages.
blk_mq_free_rq_map_only(pl, i, d) == pl

\* blk_mq_free_map_and_requests: blk_mq_free_rqs and blk_mq_free_rq_map of
\* set->tags[i], which becomes NULL.
blk_mq_free_map_and_requests(pl, i, d) == blk_mq_free_rqs(pl, i, d)

\* The first loop of blk_mq_map_swqueue, from CPU c on, over the state s
\* (set->mq_map, set->tags, the request pages). An online CPU whose hctx
\* index has no map allocates it (__blk_mq_alloc_rq_map at
\* set->queue_depth); when that fails (c \in fail) the CPU is remapped to
\* hctx 0, in set->mq_map itself. Offline CPUs are skipped.
RECURSIVE MapCpus(_, _, _, _)
MapCpus(c, on, fail, s) ==
  IF c = NrCpu THEN s
  ELSE LET i == s.map[c]
           t == IF c \notin on \/ IsMap(s.tags[i]) THEN s
                ELSE IF c \in fail THEN [s EXCEPT !.map[c] = 0]
                ELSE [s EXCEPT !.tags[i] = queueDepth,
                               !.pl = @ \cup {<<i, queueDepth>>}]
       IN MapCpus(c + 1, on, fail, t)

\* The CPUs blk_mq_map_swqueue gives to hctx i (hctx->cpumask, whose size
\* is hctx->nr_ctx).
CtxsOf(i, on, map) == {c \in on : map[c] = i}

\* The unmap without the "i &&" of "if (i && set->tags[i])".
UnmappableAny(i) == TRUE

\* "Never unmap queue 0": the hctx whose map may be freed when it has no
\* software queue left.
Unmappable(i) == i # 0

\* The second loop of blk_mq_map_swqueue: an hctx without software queues
\* gets NULL tags and, if Unmappable, its map and requests freed; any other
\* takes set->tags[i].
UnmapHctxs(on, s) ==
  LET idle == {i \in Hw : CtxsOf(i, on, s.map) = {}}
      freed == {i \in idle : Unmappable(i) /\ IsMap(s.tags[i])}
  IN [map |-> s.map,
      tags |-> [i \in Hw |-> IF i \in freed THEN NULL ELSE s.tags[i]],
      pl |-> FoldSet(LAMBDA i, pl : blk_mq_free_map_and_requests(pl, i, s.tags[i]),
                     s.pl, freed),
      hctx |-> [i \in Hw |-> IF i \in idle THEN NULL ELSE s.tags[i]]]

\* blk_mq_map_swqueue(q, on), each allocation it tries failing or not.
blk_mq_map_swqueue(on) ==
  \E fail \in SUBSET Cpu :
    LET s == UnmapHctxs(on, MapCpus(0, on, fail, [map |-> mqMap, tags |-> tags,
                                                 pl |-> pageLists]))
    IN /\ mqMap' = s.map
       /\ tags' = s.tags
       /\ pageLists' = s.pl
       /\ hctxTags' = s.hctx

\* blk_mq_init_allocated_queue, once blk_mq_init_cpu_queues and the hctxs
\* (hctx->tags = set->tags[i]) are set up: q->mq_map = set->mq_map, the
\* queue joins all_q_list and is mapped over cpu_online_mask.
blk_mq_init_allocated_queue ==
  /\ tset = "ready"
  /\ qstate = "none"
  /\ qstate' = "live"
  /\ blk_mq_map_swqueue(online)
  /\ UNCHANGED <<tset, hi, queueDepth, failedAt, online, hotplugs>>

\* blk_mq_queue_reinit_notify for CPU_DEAD of c (never the last CPU):
\* every queue on all_q_list, frozen, is mapped over the remaining CPUs.
CPU_DEAD(c) ==
  /\ hotplugs < MaxHotplug
  /\ c \in online
  /\ online # {c}
  /\ online' = online \ {c}
  /\ hotplugs' = hotplugs + 1
  /\ IF qstate = "live" THEN blk_mq_map_swqueue(online')
                        ELSE UNCHANGED <<mqMap, tags, pageLists, hctxTags>>
  /\ UNCHANGED <<tset, hi, queueDepth, failedAt, qstate>>

\* blk_mq_queue_reinit_notify for CPU_UP_PREPARE of c, mapping over
\* cpu_online_mask plus c, followed by c coming online.
CPU_UP_PREPARE(c) ==
  /\ hotplugs < MaxHotplug
  /\ c \notin online
  /\ online' = online \cup {c}
  /\ hotplugs' = hotplugs + 1
  /\ IF qstate = "live" THEN blk_mq_map_swqueue(online')
                        ELSE UNCHANGED <<mqMap, tags, pageLists, hctxTags>>
  /\ UNCHANGED <<tset, hi, queueDepth, failedAt, qstate>>

\* blk_cleanup_queue's blk_mq_free_queue: the queue leaves all_q_list and
\* its hctxs are exited and freed.
blk_mq_free_queue ==
  /\ qstate = "live"
  /\ qstate' = "dead"
  /\ hctxTags' = NoTags
  /\ UNCHANGED <<tset, hi, queueDepth, tags, pageLists, failedAt, online,
                 mqMap, hotplugs>>

\* The driver's probe gave up, or the tag set is freed: nothing follows.
TSStopped == tset \in {"failed", "freed"} /\ UNCHANGED tsVars

-----------------------------------------------------------------------------
(* Properties                                                              *)

\* A tag set blk_mq_alloc_tag_set returns is usable by blk_mq_init_queue:
\* every hardware queue index has a map (never a pointer an unwound
\* attempt freed) of the final set->queue_depth, until blk_mq_map_swqueue
\* unmaps an hctx without CPUs, which is the largest
\* depth of the halving sequence that did not fail. A tag set it fails
\* after trying maps failed at every depth down to reserved_tags +
\* BLK_MQ_TAG_MIN.
TagSetAllocated ==
  /\ tset = "ready" =>
       /\ \A i \in Hw : \/ tags[i] = queueDepth
                        \/ qstate # "none" /\ tags[i] = NULL
       /\ queueDepth \in Halvings(QueueDepth)
       /\ {d \in Halvings(QueueDepth) : d > queueDepth} = failedAt
  /\ tset = "failed" /\ failedAt # {} => failedAt = Halvings(QueueDepth)

\* Every online CPU's software queue maps to an hctx with tags, and an
\* hctx's tags are the set's live map of its index: the WARN_ON(!hctx->tags)
\* of blk_mq_map_swqueue never fires. A CPU whose hctx lost its map while
\* the CPU was offline and whose allocation fails when it comes back falls
\* back on hctx 0, which keeps its map even when it has no CPU left.
OnlineCpusHaveTags ==
  qstate = "live" =>
    /\ \A c \in online : IsMap(hctxTags[mqMap[c]])
    /\ \A i \in Hw : IsMap(hctxTags[i]) => IsMap(tags[i]) /\ hctxTags[i] = tags[i]

\* The request pages of the current set->queue_depth are exactly those of
\* the maps set->tags holds: a map blk_mq_map_swqueue unmaps takes its
\* requests with it, and a map allocated again when a CPU returns is not
\* allocated twice for two CPUs of the same hctx.
MapPagesTracked ==
  tset = "ready" =>
    {p \in pageLists : p[2] = queueDepth}
      = {<<i, tags[i]>> : i \in {j \in Hw : IsMap(tags[j])}}

=============================================================================
