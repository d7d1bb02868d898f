--------------------------- MODULE MCMaelService ---------------------------
(* A project has up to two components and event sources.  Either two       *)
(* clients call, or one does, with definitions that differ, or one does,   *)
(* and a node other than the called one gets requests for a component.  In *)
(* all of these there is one event source, and everything fits on a page;  *)
(* or there are two, and a page has one row.  The definition z names the   *)
(* project otherwise than in lower case.                                   *)
EXTENDS MaelService
CONSTANTS a, k1, x, y, z, s
NoRequests == [n \in Members |-> {}]
Scene(clients, contents, served) ==
    [clients |-> clients, contents |-> contents, sources |-> {s}, served |-> served, page |-> 2]
MCScenes == {Scene(Clients, {x}, NoRequests), Scene({k1}, {x, y}, NoRequests),
             Scene({k1}, {x}, [n \in Members |-> IF n = Here THEN {} ELSE {a}]),
             Scene({k1}, {x, z}, NoRequests),
             [clients |-> {k1}, contents |-> {x}, sources |-> Sources, served |-> NoRequests,
              page |-> 1]}
\* The project is always put under a name with a capital.
NameScenes == {Scene({k1}, {z}, NoRequests)}
=============================================================================
