---------------------------- MODULE MCSeedOrder ----------------------------
(* Every seed list of up to four distinct addresses, in every input order, *)
(* against every choice of the node's own address.                         *)
EXTENDS SeedOrder

MCAddrs == 1 .. 4
=============================================================================
