------------------------------- MODULE Scale -------------------------------
(***************************************************************************)
(* The autoscaler (pkg/maelstrom/scale.go, and autoscale in node_svc.go):  *)
(* from the containers of the nodes and the concurrency of the components  *)
(* it derives how many instances to start or stop, spreads them over the   *)
(* nodes, moves one to each empty node, and sends each node the counts it  *)
(* shall run: nodes that only start first, those that only stop last.  One *)
(* node scales at a time and nobody else changes containers (Placement has *)
(* the rest) but a node's convergers, which try a failed start again; what *)
(* the nodes run is what their statuses show.                              *)
(*                                                                         *)
(* Concurrency is in percent of what one instance takes.                   *)
(***************************************************************************)
EXTENDS PlacementOptions

CONSTANTS MinInstances, MaxInstances,   \* [Comps -> Nat]
          Loads,            \* concurrency a component may have
          MaxPerComp,       \* bound: containers of a component at the start
          MaxUpsets         \* bound: changes of the load, failing calls and starts

ScaleUpPct == 75
ScaleDownPct == 25

ScaleAssumption ==
    /\ {MinInstances, MaxInstances} \subseteq [Comps -> Nat]
    /\ Loads \subseteq Nat /\ {MaxPerComp, MaxUpsets} \subseteq Nat

VARIABLES running,      \* containers of each component on each node
          load,         \* concurrency of each component
          recent,       \* components without a minimum used within their idle timeout
          phase,        \* "plan", "rebalance", or the group to apply
          opts,         \* placement option of each node
          done,         \* instances of each component's delta handled
          left,         \* nodes the rebalancing, or the group, has not come to
          owed,         \* instances a node was told to start and has not started
          aborted,      \* whether a call of the group failed
          unstarted,    \* components of which a node did not start an instance in
                        \* this pass, while its call succeeded
          late,         \* nodes that started an instance after they had answered
          upsets

Idling == {c \in Comps : MinInstances[c] = 0}

planVars == <<opts, done>>
callVars == <<owed, aborted, unstarted, late>>
vars == <<running, load, recent, phase, planVars, left, callVars, upsets>>

\* Mutant: nodes that only stop come first.
Groups_StopFirst == <<"stopOnly", "startOnly", "startStop">>
Groups == <<"startOnly", "startStop", "stopOnly">>

TypeOK ==
    /\ running \in [Nodes -> [Comps -> Nat]]
    /\ load \in [Comps -> Loads] /\ recent \subseteq Idling
    /\ phase \in {"plan", "rebalance"} \cup {Groups[i] : i \in 1..3}
    /\ \A n \in Nodes : opts[n].node = n /\ AreTargets(opts[n].to)
    /\ done \in [Comps -> Nat] /\ owed \in [Nodes -> [Comps -> Nat]]
    /\ left \cup late \subseteq Nodes /\ unstarted \subseteq Comps
    /\ aborted \in BOOLEAN /\ upsets \in 0..MaxUpsets

(***************************************************************************)
(* How many instances a component should have.                             *)
(***************************************************************************)
Ceil(a, b) == (a + b - 1) \div b
Instances(c) == SumFunction([n \in Nodes |-> running[n][c]])

\* One instance of what runs and was used within the idle timeout stays.
MinTarget(c) == IF c \in recent /\ Instances(c) > 0 THEN 1 ELSE MinInstances[c]

\* The average and the maximum of a component's concurrency are the same here.
Wanted(c) == IF load[c] > ScaleUpPct * Instances(c) \/ load[c] < ScaleDownPct * Instances(c)
             THEN Ceil(load[c], ScaleUpPct) ELSE Instances(c)

CalcScaleTarget(c) ==
    LET wanted == IF Instances(c) > 0 THEN Wanted(c) ELSE 0
        target == Max({wanted, MinTarget(c)})
    IN  IF MaxInstances[c] > 0 /\ MaxInstances[c] >= MinTarget(c)
        THEN Min({target, MaxInstances[c]}) ELSE target

Delta(c) == CalcScaleTarget(c) - Instances(c)

(***************************************************************************)
(* Planning: the components in the order of their deltas, one instance at  *)
(* a time; then the empty nodes.                                           *)
(***************************************************************************)
AbsDelta(c) == IF Delta(c) < 0 THEN -Delta(c) ELSE Delta(c)
Unfinished == {c \in Comps : done[c] < AbsDelta(c)}
Options == {opts[n] : n \in Nodes}

\* The counts an option already had stay: of the instances of a component to
\* start (or stop) on a node in one pass, only the first counts.
MergeOption(o) == [o EXCEPT !.to = Over(opts[o.node].to, @)]

ScaleComponent(c) ==
    /\ phase = "plan" /\ c \in Unfinished
    /\ \A d \in Unfinished : Delta(c) <= Delta(d)
    /\ LET best == IF Delta(c) < 0 THEN BestStops(Options, c)
                   ELSE BestStarts(Options, c, ReserveMemory[c], FALSE) IN
       \/ /\ best = {}
          /\ done' = [done EXCEPT ![c] = AbsDelta(c)] /\ UNCHANGED opts
       \/ \E o \in best : /\ opts' = [opts EXCEPT ![o.node] = MergeOption(o)]
                          /\ done' = [done EXCEPT ![c] = @ + 1]
    /\ UNCHANGED <<running, load, recent, phase, left, callVars, upsets>>

StartRebalance ==
    /\ phase = "plan" /\ Unfinished = {}
    /\ phase' = "rebalance" /\ left' = Nodes
    /\ UNCHANGED <<running, load, recent, planVars, callVars, upsets>>

\* Mutant: a node's only container may move, too.
Movable_Single(n, memory) ==
    {q \in {o \in Options : o.node # n} \X Comps :
        Count(q[1], q[2]) > 0 /\ RamForComponent(q[1], q[2]) <= memory}
\* What findCompToMove may answer for a node with this much memory: of a node
\* with several containers, a running component, or else a planned one.
Movable(n, memory) ==
    LET fits(o, S) == {<<o, c>> : c \in {d \in S : Count(o, d) > 0 /\ RamForComponent(o, d) <= memory}}
        from(o) == LET shown == fits(o, {c \in Comps : o.has[c] > 0})
                   IN  IF shown # {} THEN shown ELSE fits(o, DOMAIN o.to)
    IN  UNION {from(o) : o \in {p \in Options : p.node # n /\ Containers(p) > 1}}

\* Mutant: the node it moves from keeps its container.
Moved_Copies(pair, n) ==
    [opts EXCEPT ![n] = WithTargetDelta(@, pair[2], 1, RamForComponent(pair[1], pair[2]))]

Moved(pair, n) ==
    LET o == pair[1] c == pair[2] ram == RamForComponent(pair[1], pair[2])
    IN  [opts EXCEPT ![o.node] = WithTargetDelta(o, c, -1, ram),
                     ![n] = WithTargetDelta(@, c, 1, ram)]

Rebalance(n) ==
    /\ phase = "rebalance" /\ n \in left
    /\ left' = left \ {n}
    /\ LET movable == IF RamUsed(opts[n]) = 0 THEN Movable(n, TotalMemory[n]) ELSE {} IN
       IF movable = {} THEN UNCHANGED opts ELSE \E pair \in movable : opts' = Moved(pair, n)
    /\ UNCHANGED <<running, load, recent, phase, done, callVars, upsets>>

(***************************************************************************)
(* Applying the plan: the calls of a group are made at the same time and   *)
(* wait for the nodes' convergers; the rest is given up when one fails.    *)
(***************************************************************************)
Group(o) == IF ScaledUp(o) > 0 /\ ScaledDown(o) > 0 THEN "startStop"
            ELSE IF ScaledUp(o) > 0 THEN "startOnly" ELSE "stopOnly"
InGroup(g) == {n \in Nodes : DOMAIN opts[n].to # {} /\ Group(opts[n]) = g}

StartApplying ==
    /\ phase = "rebalance" /\ left = {}
    /\ phase' = Groups[1] /\ left' = InGroup(Groups[1])
    /\ UNCHANGED <<running, load, recent, planVars, callVars, upsets>>

Applying == phase \in {Groups[i] : i \in 1..3}
Upset == upsets < MaxUpsets /\ upsets' = upsets + 1
Calm == UNCHANGED upsets

\* Instances of c that n is to start, and how many of them may fail to: with the
\* first that fails, by Docker, its health check or the start lock, the converger
\* leaves the others too.
ToStart(n, c) == IF c \in DOMAIN opts[n].to THEN Max({0, opts[n].to[c].count - running[n][c]}) ELSE 0
Failures(n) == {short \in [Comps -> 0..SumFunction([c \in Comps |-> ToStart(n, c)])] :
                  \A c \in Comps : short[c] <= ToStart(n, c)}
NoFailure == [c \in Comps |-> 0]

\* SetTargets: stops succeed, and instances that fail to start stay owed.
Takes(n, short) ==
    LET told == DOMAIN opts[n].to IN
    /\ running' = [running EXCEPT ![n] =
                     [c \in Comps |-> IF c \in told THEN opts[n].to[c].count - short[c] ELSE @[c]]]
    /\ owed' = [owed EXCEPT ![n] = [c \in Comps |-> IF c \in told THEN short[c] ELSE @[c]]]

\* The call succeeds; whether the node started what it was to, or refused the
\* counts as out of date, nobody looks at.
Answers(n) ==
    \/ \E short \in Failures(n) :
          /\ Takes(n, short)
          /\ unstarted' = unstarted \cup {c \in Comps : short[c] > 0}
          /\ IF short = NoFailure THEN Calm ELSE Upset
    \/ /\ unstarted' = unstarted \cup {c \in Comps : ToStart(n, c) > 0}
       /\ Upset /\ UNCHANGED <<running, owed>>

\* The call fails before the node sets its targets, or its answer is lost.
Fails(n) ==
    /\ \/ \E short \in Failures(n) : Takes(n, short)
       \/ UNCHANGED <<running, owed>>
    /\ Upset /\ UNCHANGED unstarted

Apply(n) ==
    /\ Applying /\ n \in left
    /\ left' = left \ {n}
    /\ \/ Answers(n) /\ UNCHANGED aborted
       \/ Fails(n) /\ aborted' = TRUE
    /\ UNCHANGED <<load, recent, phase, planVars, late>>

\* A new pass starts from what the nodes then run.
NewPass ==
    /\ phase' = "plan" /\ done' = [c \in Comps |-> 0]
    /\ opts' = [n \in Nodes |-> NewOption(n, running[n])]
    /\ left' = {} /\ aborted' = FALSE /\ unstarted' = {}

\* The next group is told unless a call failed or the role is lost.
EndGroup(i) ==
    /\ phase = Groups[i] /\ left = {}
    /\ \/ /\ ~aborted /\ i < 3 /\ Calm
          /\ phase' = Groups[i + 1] /\ left' = InGroup(Groups[i + 1])
          /\ UNCHANGED <<planVars, aborted, unstarted>>
       \/ (IF aborted \/ i = 3 THEN Calm ELSE Upset) /\ NewPass
    /\ UNCHANGED <<running, load, recent, owed, late>>

Unplanned ==
    phase = "plan" /\ opts = [n \in Nodes |-> NewOption(n, running[n])] /\ done = [c \in Comps |-> 0]

\* The converger's ticker tries again (converger.go:266).  A pass that has looked at
\* the nodes plans at once.
StartsLate(n, c) ==
    /\ owed[n][c] > 0 /\ (Applying \/ Unplanned)
    /\ running' = [running EXCEPT ![n][c] = @ + 1] /\ owed' = [owed EXCEPT ![n][c] = @ - 1]
    /\ late' = late \cup {n}
    /\ opts' = IF Applying THEN opts ELSE [opts EXCEPT ![n] = NewOption(n, running'[n])]
    /\ UNCHANGED <<load, recent, phase, done, left, aborted, unstarted, upsets>>

\* Requests come and go between two passes.
LoadChanges ==
    /\ Unplanned /\ Upset
    /\ \E c \in Comps, l \in Loads : /\ load' = [load EXCEPT ![c] = l]
                                     /\ recent' \in {recent \cup ({c} \cap Idling), recent \ {c}}
    /\ UNCHANGED <<running, phase, planVars, left, callVars>>

\* Nodes run what fits them.
Init ==
    /\ running \in {r \in [Nodes -> [Comps -> 0..MaxPerComp]] :
                      \A n \in Nodes : /\ StatedMemory(r[n]) <= TotalMemory[n]
                                       /\ \A c \in Comps : MaxInstancesPerNode[c] > 0 => r[n][c] <= MaxInstancesPerNode[c]}
    /\ load \in [Comps -> Loads] /\ recent \in SUBSET Idling
    /\ phase = "plan" /\ upsets = 0
    /\ opts = [n \in Nodes |-> NewOption(n, running[n])] /\ done = [c \in Comps |-> 0]
    /\ left = {} /\ late = {} /\ unstarted = {} /\ aborted = FALSE
    /\ owed = [n \in Nodes |-> NoFailure]

Pass == \/ \E c \in Comps : ScaleComponent(c)
        \/ \E n \in Nodes : Rebalance(n) \/ Apply(n)
        \/ \E i \in 1..3 : EndGroup(i)
        \/ StartRebalance \/ StartApplying

Next == Pass \/ LoadChanges \/ \E n \in Nodes, c \in Comps : StartsLate(n, c)

Spec == Init /\ [][Next]_vars /\ WF_vars(Pass)

(***************************************************************************)
(* Properties                                                              *)
(***************************************************************************)
\* No pass, with calls and starts that fail at any point of it, leaves a node with
\* more memory stated by its containers than it has, or plans to, unless the node
\* started an instance after the pass had taken it for missing; and whatever
\* happens none runs, or is to run, more of a component that states its memory
\* than the component's limit (scale_test.go:65, TestPropertyNeverExceedsTotalMemory).
Fits == \A n \in Nodes :
    /\ n \notin late => /\ StatedMemory(running[n]) <= TotalMemory[n]
                       /\ StatedMemory(After(opts[n])) <= TotalMemory[n]
    /\ \A c \in Comps : ReserveMemory[c] > 0 /\ MaxInstancesPerNode[c] > 0 =>
          {running[n][c], Count(opts[n], c)} \subseteq 0..MaxInstancesPerNode[c]

\* Neither the planning nor the moves to empty nodes overshoot: what is planned
\* lies between what runs and what the concurrency calls for.
Planned(c) == SumFunction([n \in Nodes |-> Count(opts[n], c)])
WithinTarget == phase \in {"plan", "rebalance"} =>
    \A c \in Comps : Planned(c) \in Min({Instances(c), CalcScaleTarget(c)})..Max({Instances(c), CalcScaleTarget(c)})

\* A component that has a minimum, or was used lately, and of which the pass saw an
\* instance, loses its last one only when a node that was to start one in the same
\* pass has not, though its call succeeded: a call that fails costs none
\* (scale_test.go:276, TestOnlyScaleToZeroIfIdle).  Where both nodes start and stop
\* something they are told at the same time, and the one it leaves may do as told
\* before the other does, or while the call to it fails.
Kept == recent \cup (Comps \ Idling)
Seen(c) == \E n \in Nodes : opts[n].has[c] > 0
RecentStays == \A c \in Kept : Seen(c) /\ Instances(c) > 0 =>
    \/ Instances(c)' > 0
    \/ c \in unstarted
    \/ phase = "startStop" /\ \E n \in InGroup(phase) : running[n][c] = 0 /\ Count(opts[n], c) > 0

\* When the load stays, containers stop being moved about, at a point where
\* each component has its target or no node takes one more, and no node is
\* idle while another has a container to spare (scale_test.go:327).
AtRest ==
    /\ \A c \in Comps : Delta(c) # 0 =>
          /\ Delta(c) > 0
          /\ \A n \in Nodes : StartOptions(NewOption(n, running[n]), c, ReserveMemory[c], FALSE) = {}
    /\ \A n \in Nodes : RamUsed(NewOption(n, running[n])) = 0 => Movable(n, TotalMemory[n]) = {}
PlansRest == Unplanned => AtRest

\* maelstrom.idl:352-353 has it that of a component that does not say how much is to
\* be reserved 128 MiB are, which docker.go:379 reserves: counted so, what runs
\* fits its node.
FitsWithDefault == \A n \in Nodes :
    SumFunction([c \in Comps |-> running[n][c] * Max({ReserveMemory[c], DefaultMemory})]) <= TotalMemory[n]
=============================================================================
