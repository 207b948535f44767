-------------------------- MODULE MCBlkMqDispatch --------------------------
(* Instances of BlkMqDispatch for TLC: two CPUs, kblockd, and a small tag  *)
(* set that a resize can shrink.                                           *)
EXTENDS BlkMqDispatch

CONSTANTS k, r1, q1

\* One driver-reset path quiescing the queue, no resize.
MCResizersQuiesce == {}
MCQuiescersQuiesce == {q1}

\* One blk_mq_update_nr_requests caller, no other quiescer.
MCResizersResize == {r1}
MCQuiescersResize == {}

\* Both: the resize unquiesces while the reset path still relies on it.
MCResizersBoth == {r1}
MCQuiescersBoth == {q1}

\* The state TLC tells apart. The owner of a free tag, and the batch,
\* progress of a dispatcher outside blk_mq_dispatch_rq_list, and its last
\* queue_rq result before the loop ends, are dead: every path writes them
\* before it reads them again.
MCView ==
  <<allocated, [t \in allocated |-> owner[t]], inflight, pc, queueVars,
    hctxVars, local,
    [d \in Disp |-> IF pc[d] \in {"loop", "fin"}
                      THEN <<batch[d], progress[d]>> ELSE 0],
    [d \in Disp |-> IF pc[d] = "fin" THEN lastRet[d] ELSE "OK"],
    ctlVars>>
=============================================================================
