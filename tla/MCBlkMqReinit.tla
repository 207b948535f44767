--------------------------- MODULE MCBlkMqReinit ----------------------------
(* A DM queue stacked on an NVMe namespace queue, and the NVMe admin       *)
(* queue: d1 on DM completes after its clone n1 on the namespace; n2 on    *)
(* the namespace timed out and completes after the reset's admin command   *)
(* a1. The namespace queue is the one queue of the tag set that is        *)
(* resized. A second namespace queue ns2 joins the tag set, making it    *)
(* shared, and is later freed, making it unshared again.                  *)
EXTENDS BlkMqReinit, TLC

CONSTANTS dm, ns, ns2, adm, d1, n1, n2, a1

MCQueue == {dm, ns, ns2, adm}
MCReq == {d1, n1, n2, a1}
MCQueueOf == (d1 :> dm) @@ (n1 :> ns) @@ (n2 :> ns) @@ (a1 :> adm)
MCParent == (d1 :> NoParent) @@ (n1 :> d1) @@ (n2 :> NoParent) @@ (a1 :> n2)
MCTagList == <<ns>>
=============================================================================
