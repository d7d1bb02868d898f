-------------------------- MODULE PlacementOptions --------------------------
(***************************************************************************)
(* Where to start and stop containers (pkg/maelstrom/placement.go): an     *)
(* option is a node, the containers its status showed ("has") and the      *)
(* counts it shall run ("to"), each with the memory one instance is        *)
(* charged; components without a count keep their containers.              *)
(*                                                                         *)
(* The code picks the first of the sorted options; options that differ     *)
(* only in the load average of their nodes, which the model leaves open,   *)
(* may come in any order.  Memory is in units of the 128 MiB charged to a  *)
(* component that states none.                                             *)
(***************************************************************************)
EXTENDS Integers, FiniteSets, FiniteSetsExt, Functions

CONSTANTS Nodes, Comps,
          TotalMemory,          \* [Nodes -> Nat]
          ReserveMemory,        \* [Comps -> Nat]: zero when not configured
          MaxInstancesPerNode   \* [Comps -> Nat]: zero for no limit

PlacementAssumption ==
    /\ IsFiniteSet(Nodes) /\ IsFiniteSet(Comps)
    /\ TotalMemory \in [Nodes -> Nat]
    /\ {ReserveMemory, MaxInstancesPerNode} \subseteq [Comps -> Nat]

DefaultMemory == 1

\* What f says, and what g says of the rest.
Over(f, g) == [x \in DOMAIN f \cup DOMAIN g |-> IF x \in DOMAIN f THEN f[x] ELSE g[x]]

AreTargets(to) == DOMAIN to \subseteq Comps /\ to \in [DOMAIN to -> [count : Nat, ram : Nat]]
NoTargets == [c \in {} |-> [count |-> 0, ram |-> 0]]
NewOption(n, has) == [node |-> n, has |-> has, to |-> NoTargets]

\* ContainerCountByComponent, and its total.
Count(o, c) == IF c \in DOMAIN o.to THEN o.to[c].count ELSE o.has[c]
After(o) == [c \in Comps |-> Count(o, c)]
Containers(o) == SumFunction(After(o))

\* What the containers of a node reserve that say how much.
StatedMemory(counts) == SumFunction([c \in Comps |-> counts[c] * ReserveMemory[c]])

RamUsed(o) == SumFunction([c \in Comps |-> IF c \in DOMAIN o.to THEN o.to[c].count * o.to[c].ram
                                           ELSE o.has[c] * ReserveMemory[c]])

RamForComponent(o, c) ==
    LET known == {ReserveMemory[d] : d \in {d \in {c} : o.has[d] > 0}}
                 \cup {o.to[d].ram : d \in {c} \cap DOMAIN o.to}
        most == Max(known \cup {0})
    IN  IF most = 0 THEN DefaultMemory ELSE most

WithTargetDelta(o, c, delta, ram) ==
    [o EXCEPT !.to = Over([d \in {c} |-> [count |-> Count(o, d) + delta, ram |-> ram]], @)]

ScaledDown(o) == Cardinality({c \in DOMAIN o.to : o.to[c].count < o.has[c]})
ScaledUp(o) == Cardinality({c \in DOMAIN o.to : o.to[c].count > o.has[c]})

\* PlacementOptionByCostDesc: fewest instances of the component, then fewest
\* components scaled down, then nodes with at most one container.
Cost(o, c) == <<Count(o, c), ScaledDown(o), IF Containers(o) <= 1 THEN 0 ELSE 1>>
Less(x, y) == \E i \in 1..3 : x[i] < y[i] /\ \A j \in 1..(i-1) : x[j] = y[j]
Cheapest(S, c) == {o \in S : ~\E p \in S : Less(Cost(p, c), Cost(o, c))}
Dearest(S, c) == {o \in S : ~\E p \in S : Less(Cost(o, c), Cost(p, c))}

\* Mutant: containers planned to start are not counted yet.
Free_Shown(o) == TotalMemory[o.node] - RamUsed([o EXCEPT !.to = NoTargets])
Free(o) == TotalMemory[o.node] - RamUsed(o)

\* Containers of other components to stop, by component, until ram is free:
\* the last one stopped was needed.  Which ones go first depends on the times
\* of their last requests.
Displacements(o, c, ram) ==
    LET others == Comps \ {c}
        freed(d) == Free(o) + SumFunction([x \in others |-> d[x] * ReserveMemory[x]])
    IN  {d \in [others -> 0..Max({0} \cup {o.has[x] : x \in others})] :
            /\ \A x \in others : d[x] <= o.has[x] /\ d[x] <= Max({0, Count(o, x)})
            /\ freed(d) >= ram
            /\ \E x \in others : d[x] > 0 /\ freed(d) - ReserveMemory[x] < ram}

Displaced(o, d) ==
    LET stopped == {x \in DOMAIN d : d[x] > 0} IN
    [o EXCEPT !.to = Over([x \in stopped |-> [count |-> Count(o, x) - d[x],
                                              ram |-> ReserveMemory[x]]], @)]

HasRoom(o, c, ram) ==
    /\ MaxInstancesPerNode[c] = 0 \/ Count(o, c) < MaxInstancesPerNode[c]
    /\ TotalMemory[o.node] >= ram

\* An option with one more instance of c at each node where it fits, by
\* stopping others where that is allowed.
StartOptions(o, c, ram, displaceOK) ==
    IF ~HasRoom(o, c, ram) THEN {}
    ELSE IF Free(o) >= ram THEN {WithTargetDelta(o, c, 1, ram)}
    ELSE IF ~displaceOK THEN {}
    ELSE {WithTargetDelta(Displaced(o, d), c, 1, ram) : d \in Displacements(o, c, ram)}

\* One of these is BestStartComponentOption's answer; with none it is nil.  A node
\* has one option, which the times of requests choose, and the cheapest is taken.
BestStarts(options, c, ram, displaceOK) ==
    LET at == {StartOptions(o, c, ram, displaceOK) : o \in options} \ {{}}
    IN  {p \in UNION at : \A S \in at : \E q \in S : ~Less(Cost(q, c), Cost(p, c))}

BestStops(options, c) ==
    Dearest({WithTargetDelta(o, c, -1, RamForComponent(o, c)) : o \in {p \in options : Count(p, c) > 0}}, c)
=============================================================================
