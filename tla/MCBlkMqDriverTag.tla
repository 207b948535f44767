-------------------------- MODULE MCBlkMqDriverTag --------------------------
(* Model values for BlkMqDriverTag: two queues sharing one driver tag set  *)
(* (a SCSI host with two devices), or one queue on its own whose driver    *)
(* stops it when short of resources.                                       *)
EXTENDS BlkMqDriverTag, TLC

CONSTANTS h1, h2, a1, a2, a3, b1

MCHCtxShared == {h1, h2}
MCReqShared == {a1, a2, b1}
MCHomeShared == (a1 :> h1) @@ (a2 :> h1) @@ (b1 :> h2)
MCTagListShared == <<h1, h2>>

MCHCtxSingle == {h1}
MCReqSingle == {a1, a2, a3}
MCHomeSingle == (a1 :> h1) @@ (a2 :> h1) @@ (a3 :> h1)
MCTagListSingle == <<h1>>

\* blk_mq_map_queues on one CPU; on three CPUs and two hctxs, with CPUs 1
\* and 2 siblings sharing hctx 1.
MCSetMapOne == 0 :> 0
MCSetMapThree == (0 :> 0) @@ (1 :> 1) @@ (2 :> 1)
=============================================================================
