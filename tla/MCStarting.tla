----------------------------- MODULE MCStarting -----------------------------
(* Nodes that roll out a series version and a seriesfirst version; a container
   with two callers of JoinAndStop and two requests at a time. *)
EXTENDS Starting, TLC

CONSTANTS n1, n2, s1, s2, v1, v2

MCParaOf == v1 :> "series" @@ v2 :> "seriesfirst"
MCHealth == v1 :> 2 @@ v2 :> 1
=============================================================================
