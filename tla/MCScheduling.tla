---------------------------- MODULE MCScheduling ----------------------------
(* MCScheduling.cfg has rollouts from up to four containers to up to four, and the
   autoscaler on three nodes, one with room for three units of memory and two with
   room for two, with two components: c1 takes one unit, at most twice per node,
   and may go to zero; the other takes two (or states none), and runs at least
   once; and two placements on two nodes.  A part that a
   configuration leaves out has no initial state: it gets no versions, no loads or
   no arrivals. *)
EXTENDS Scheduling
CONSTANTS n1, c1, p1

Memory == [n \in Nodes |-> IF n = n1 THEN 3 ELSE 2]
Reserve == [c \in Comps |-> IF c = c1 THEN 1 ELSE 2]
Unstated == [c \in Comps |-> IF c = c1 THEN 1 ELSE 0]
PerNode == [c \in Comps |-> IF c = c1 THEN 2 ELSE 0]
AtLeast == [c \in Comps |-> IF c = c1 THEN 0 ELSE 1]
AtMost == [c \in Comps |-> IF c = c1 THEN 3 ELSE 0]
Three == [n \in Placers |-> 3]
Two == [c \in Comps |-> 2]
NoLimit == [c \in Comps |-> 0]
\* Up to the names of calls, nodes and components: the first call is any.
MCArrivals == {at \in [Calls -> Placers \X Comps] : at[p1] = <<n1, c1>>}

(* No two placements overfill a node (idl/maelstrom.idl:903).  Placement has the
   statement; MCPlacementOvercommit.cfg shows where it fails. *)
NeverOvercommitted == part = "placement" => Placing!NeverOvercommitted

(* What runs fits its node, with the memory that is reserved for components that
   state none (idl/maelstrom.idl:352-353, docker.go:379).  Scale has the statement;
   the autoscaler does not keep it (scale.go:187). *)
FitsWithDefault == part = "autoscale" => Scaling!FitsWithDefault
=============================================================================
