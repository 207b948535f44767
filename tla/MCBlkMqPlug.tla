---------------------------- MODULE MCBlkMqPlug -----------------------------
(* Two CPUs, three requests at two sectors, a plug flushed at two          *)
(* requests, and one hotplug event: a CPU goes down, or a CPU that starts *)
(* offline (index_hw 0) comes up.                                          *)
EXTENDS BlkMqPlug

CONSTANTS r1, r2, r3

MCReq == {r1, r2, r3}
=============================================================================
