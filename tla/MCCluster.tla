----------------------------- MODULE MCCluster -----------------------------
(* Three node ids on two hosts: one host may come back under another id.   *)
EXTENDS Cluster, TLC
CONSTANTS a, b, b2, hostA, hostB
MCPeerUrl == a :> hostA @@ b :> hostB @@ b2 :> hostB
=============================================================================
