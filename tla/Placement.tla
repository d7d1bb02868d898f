------------------------------ MODULE Placement ------------------------------
(***************************************************************************)
(* Starting the first container of a component (PlaceComponent in          *)
(* pkg/maelstrom/node_svc.go).  A call takes the placement role, or goes   *)
(* to the node that has it; of the calls on a node for one component the   *)
(* first places it and the others wait for its answer.  To place it is to  *)
(* ask the nodes that seem to run it, or else to send the counts of the    *)
(* best option to its node, with the version of the status the option was  *)
(* made from.  The node accepts the counts if that is still its version    *)
(* and then changes its containers.  What a node knows of another comes    *)
(* late (Cluster has how).                                                 *)
(*                                                                         *)
(* A version is compared with the node's own and with nothing else: a      *)
(* status is "current" until the node's version changes.                   *)
(***************************************************************************)
EXTENDS PlacementOptions

CONSTANTS Calls, Nobody,
          Arrivals,         \* nodes and components the calls may start with
          MaxFailures       \* bound: calls to nodes that fail

PlacementCallsAssumption ==
    MaxFailures \in Nat /\ Nobody \notin Nodes \cup Calls /\ Arrivals \subseteq [Calls -> Nodes \X Comps]

VARIABLES role,         \* holder of the placement role
          call,         \* each PlaceComponent call
          waiters,      \* calls waiting on each node for each component, or no queue
          goal, runs,   \* target and actual counts of each node
          view,         \* each node's view of each node
          failures

placementVars == <<role, call, waiters, goal, runs, view, failures>>

NoQueue == {Nobody}
StatusOf(n) == [current |-> TRUE, has |-> runs[n]]
Outdated(status) == [status EXCEPT !.current = FALSE]
Goes(p, pc) == call' = [call EXCEPT ![p].pc = pc]
At(p) == call[p].at
Comp(p) == call[p].comp

PlacementTypeOK ==
    /\ role \in Nodes \cup {Nobody} /\ failures \in 0..MaxFailures
    /\ \A p \in Calls : call[p].pc \in {"acquire", "locked", "wait", "try", "apply", "started", "done"}
    /\ waiters \in [Nodes -> [Comps -> {NoQueue} \cup SUBSET Calls]]
    /\ goal \in [Nodes -> [Comps -> Nat]] /\ runs \in [Nodes -> [Comps -> Nat]]
    /\ view \in [Nodes -> [Nodes -> [current : BOOLEAN, has : [Comps -> Nat]]]]

(***************************************************************************)
(* The role and the queue of a node.                                       *)
(***************************************************************************)
PlaceComponent(n, c) == [pc |-> "acquire", at |-> n, comp |-> c, option |-> Nobody]
Done == [pc |-> "done", at |-> Nobody, comp |-> Nobody, option |-> Nobody]
Retry(p) == call' = [call EXCEPT ![p].pc = "try", ![p].option = Nobody]

\* It is delegated to the node that has the role.
Acquire(p) ==
    /\ call[p].pc = "acquire"
    /\ IF role \in {Nobody, At(p)}
       THEN role' = At(p) /\ Goes(p, "locked")
       ELSE call' = [call EXCEPT ![p].at = role] /\ UNCHANGED role
    /\ UNCHANGED <<waiters, goal, runs, view, failures>>

\* The argument of the deferred call is the release itself: the role is given
\* up here.  Then the call waits, or opens the queue and places the component.
Release(p) ==
    LET n == At(p) c == Comp(p) IN
    /\ call[p].pc = "locked"
    /\ role' = IF role = n THEN Nobody ELSE role
    /\ IF waiters[n][c] = NoQueue
       THEN Goes(p, "try") /\ waiters' = [waiters EXCEPT ![n][c] = {}]
       ELSE Goes(p, "wait") /\ waiters' = [waiters EXCEPT ![n][c] = @ \cup {p}]
    /\ UNCHANGED <<goal, runs, view, failures>>

\* Mutant: a placement that fails leaves the queue behind.
Finish_LeavesQueue(p, ok) ==
    /\ call' = [q \in Calls |-> IF q = p \/ (ok /\ q \in waiters[At(p)][Comp(p)]) THEN Done ELSE call[q]]
    /\ waiters' = IF ok THEN [waiters EXCEPT ![At(p)][Comp(p)] = NoQueue] ELSE waiters
\* Mutant: the waiting calls are forgotten.
Finish_ForgetsWaiters(p, ok) ==
    call' = [call EXCEPT ![p] = Done] /\ waiters' = [waiters EXCEPT ![At(p)][Comp(p)] = NoQueue]
\* The waiting calls get the same answer.
Finish(p, ok) ==
    /\ call' = [q \in Calls |-> IF q \in {p} \cup waiters[At(p)][Comp(p)] THEN Done ELSE call[q]]
    /\ waiters' = [waiters EXCEPT ![At(p)][Comp(p)] = NoQueue]

(***************************************************************************)
(* Placing, again and again until the deadline.                            *)
(***************************************************************************)
Ram(c) == Max({ReserveMemory[c], DefaultMemory})
Candidates(n, c) == {NewOption(t, view[n][t].has) : t \in {t \in Nodes : TotalMemory[t] > Ram(c)}}
Seem(n, c) == {t \in Nodes : view[n][t].has[c] > 0}
Learn(n, S) == view' = [view EXCEPT ![n] = [t \in Nodes |-> IF t \in S THEN StatusOf(t) ELSE @[t]]]

\* A node that seems to run it does.
FindRunning(p) ==
    /\ call[p].pc = "try"
    /\ \E t \in Seem(At(p), Comp(p)) : runs[t][Comp(p)] > 0 /\ Learn(At(p), {t})
    /\ Finish(p, TRUE)
    /\ UNCHANGED <<role, goal, runs, failures>>

\* Of those that answer none does: the option is made from the statuses read
\* before.  A node that does not answer is passed over.
Choose(p) ==
    LET n == At(p) c == Comp(p) IN
    /\ call[p].pc = "try"
    /\ \E silent \in SUBSET Seem(n, c) :
          /\ IF silent = {} THEN UNCHANGED failures
             ELSE failures < MaxFailures /\ failures' = failures + 1
          /\ \A t \in Seem(n, c) \ silent : runs[t][c] = 0
          /\ Learn(n, Seem(n, c) \ silent)
    /\ \E best \in {BestStarts(Candidates(n, c), c, Ram(c), TRUE)} :
          \/ best = {} /\ Finish(p, FALSE)
          \/ \E o \in best :
                /\ call' = [call EXCEPT ![p].pc = "apply",
                      ![p].option = [node |-> o.node, to |-> o.to, current |-> view[n][o.node].current]]
                /\ UNCHANGED waiters
    /\ UNCHANGED <<role, goal, runs>>

\* StartStopComponents, which blocks until the node has converged.
StartStop(p) ==
    LET o == call[p].option t == call[p].option.node IN
    /\ call[p].pc = "apply"
    /\ IF o.current
       THEN /\ goal' = [goal EXCEPT ![t] =
                          [c \in Comps |-> IF c \in DOMAIN o.to THEN o.to[c].count ELSE @[c]]]
            /\ view' = [n \in Nodes |-> [view[n] EXCEPT ![t] = Outdated(@)]]
            /\ call' = [q \in Calls |->
                          IF q = p THEN [call[p] EXCEPT !.pc = "started", !.option.to = NoTargets]
                                        ELSE IF call[q].pc = "apply" /\ call[q].option.node = t
                                        THEN [call[q] EXCEPT !.option = Outdated(@)] ELSE call[q]]
       ELSE Retry(p) /\ Learn(At(p), {t}) /\ UNCHANGED goal
    /\ UNCHANGED <<role, waiters, runs, failures>>

\* The call, or its answer, is lost, or the node does not say what it started.
StartStopFails(p) ==
    /\ call[p].pc \in {"apply", "started"} /\ failures < MaxFailures /\ failures' = failures + 1
    /\ Retry(p)
    /\ UNCHANGED <<role, waiters, goal, runs, view>>

\* waitUntilComponentRunning.
Started(p) ==
    LET t == call[p].option.node IN
    /\ call[p].pc = "started" /\ runs[t] = goal[t]
    /\ IF runs[t][Comp(p)] > 0 THEN Finish(p, TRUE) ELSE Retry(p) /\ UNCHANGED waiters
    /\ Learn(At(p), {t})
    /\ UNCHANGED <<role, goal, runs, failures>>

GiveUp(p) ==
    /\ \/ call[p].pc = "try" /\ Finish(p, FALSE)
       \/ call[p].pc \in {"wait", "acquire"} /\ call' = [call EXCEPT ![p] = Done] /\ UNCHANGED waiters
    /\ UNCHANGED <<role, goal, runs, view, failures>>

(***************************************************************************)
(* The nodes.                                                              *)
(***************************************************************************)
Converge(t) ==
    /\ runs[t] # goal[t] /\ runs' = [runs EXCEPT ![t] = goal[t]]
    /\ UNCHANGED <<role, call, waiters, goal, view, failures>>

HearOf(n, t) ==
    /\ view[n][t] # StatusOf(t) /\ Learn(n, {t})
    /\ UNCHANGED <<role, call, waiters, goal, runs, failures>>

PlacementInit ==
    /\ role = Nobody /\ call \in {[p \in Calls |-> PlaceComponent(at[p][1], at[p][2])] : at \in Arrivals}
    /\ waiters = [n \in Nodes |-> [c \in Comps |-> NoQueue]]
    /\ goal \in {[n \in Nodes |-> has] :
                    has \in {[c \in Comps |-> 0]}
                             \cup {[c \in Comps |-> IF c = d THEN 1 ELSE 0] : d \in Comps}}
    /\ runs = goal
    /\ view = [n \in Nodes |-> [t \in Nodes |-> StatusOf(t)]] /\ failures = 0

Step(p) == Acquire(p) \/ Release(p) \/ FindRunning(p) \/ Choose(p) \/ StartStop(p) \/ Started(p)

PlacementNext ==
    \/ \E p \in Calls : Step(p) \/ StartStopFails(p) \/ GiveUp(p)
    \/ \E n, t \in Nodes : HearOf(n, t)
    \/ \E t \in Nodes : Converge(t)

PlacementSpec ==
    /\ PlacementInit /\ [][PlacementNext]_placementVars
    /\ \A p \in Calls : WF_placementVars(Step(p))
    /\ \A t \in Nodes : WF_placementVars(Converge(t))
    /\ \A n, t \in Nodes : WF_placementVars(HearOf(n, t))

(***************************************************************************)
(* Properties                                                              *)
(***************************************************************************)
\* A node has a queue for a component exactly while one of its calls places it:
\* a queue left behind would have every later call wait for nobody, and with
\* two placements one of them would answer the other's callers
\* (node_svc.go:329-356).
Places(p, n, c) == call[p].pc \in {"try", "apply", "started"} /\ At(p) = n /\ Comp(p) = c
QueueHasPlacer == \A n \in Nodes, c \in Comps :
    /\ Cardinality({p \in Calls : Places(p, n, c)}) = IF waiters[n][c] = NoQueue THEN 0 ELSE 1
    /\ \A p \in Calls : call[p].pc = "wait" /\ At(p) = n /\ Comp(p) = c => p \in waiters[n][c]

\* Every call is answered, without its deadline when the nodes answer and hear of
\* each other: neither the role that moves on, nor versions that change under a
\* placement, nor placements that displace each other's containers keep it busy
\* for ever.
CallsAnswered == <>[](\A p \in Calls : call[p].pc = "done")

\* idl/maelstrom.idl:903: the version "allows multiple nodes to optimistically
\* attempt to schedule concurrent scaling operations without central
\* coordination": what they schedule fits the node.
NeverOvercommitted ==
    \A t \in Nodes : SumFunction([c \in Comps |-> runs[t][c] * Ram(c)]) <= TotalMemory[t]
=============================================================================
