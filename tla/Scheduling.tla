----------------------------- MODULE Scheduling -----------------------------
(***************************************************************************)
(* Who runs what: the rollout of one converger, the passes of the          *)
(* autoscaler, and the placement of a component's first container.  They   *)
(* share no variable here, so a behaviour follows one of them: the         *)
(* variables of the others are off.                                        *)
(***************************************************************************)
EXTENDS Integers

CONSTANTS MaxBefore, MaxCount, Versions, Reasons,
          Nodes, Comps, TotalMemory, ReserveMemory, MaxInstancesPerNode,
          MinInstances, MaxInstances, Loads, MaxPerComp, MaxUpsets,
          Placers, PlacerMemory, PlacedReserve, Unlimited, Calls, Arrivals, Nobody, MaxFailures

VARIABLES part,
          target, before, containers, steps, started, failed,
          running, load, recent, phase, opts, done, left, owed, aborted, unstarted, late, upsets,
          role, call, waiters, goal, runs, view, failures

rolloutVars == <<target, before, containers, steps, started, failed>>
scaleVars == <<running, load, recent, phase, opts, done, left, owed, aborted, unstarted, late, upsets>>
placementVars == <<role, call, waiters, goal, runs, view, failures>>
vars == <<part, rolloutVars, scaleVars, placementVars>>

Rolling == INSTANCE Rollout
Scaling == INSTANCE Scale
Placing == INSTANCE Placement
  WITH Nodes <- Placers, TotalMemory <- PlacerMemory,
       ReserveMemory <- PlacedReserve, MaxInstancesPerNode <- Unlimited

ASSUME SchedulingAssumption ==
  /\ Rolling!RolloutAssumption
  /\ Scaling!PlacementAssumption /\ Scaling!ScaleAssumption
  /\ Placing!PlacementAssumption /\ Placing!PlacementCallsAssumption

Off == {}
RolloutOff == target = Off /\ before = Off /\ containers = Off /\ steps = Off /\ started = Off /\ failed = Off
ScaleOff ==
  /\ running = Off /\ load = Off /\ recent = Off /\ phase = Off
  /\ opts = Off /\ done = Off /\ left = Off /\ owed = Off /\ aborted = Off
  /\ unstarted = Off /\ late = Off /\ upsets = Off
PlacementOff ==
  /\ role = Off /\ call = Off /\ waiters = Off /\ goal = Off
  /\ runs = Off /\ view = Off /\ failures = Off

Init ==
  \/ part = "rollout" /\ Rolling!Init /\ ScaleOff /\ PlacementOff
  \/ part = "autoscale" /\ RolloutOff /\ Scaling!Init /\ PlacementOff
  \/ part = "placement" /\ RolloutOff /\ ScaleOff /\ Placing!PlacementInit

RolloutOnly == part = "rollout" /\ UNCHANGED <<part, scaleVars, placementVars>>
ScaleOnly == part = "autoscale" /\ UNCHANGED <<part, rolloutVars, placementVars>>
PlacementOnly == part = "placement" /\ UNCHANGED <<part, rolloutVars, scaleVars>>

Next ==
  \/ RolloutOnly /\ Rolling!Next
  \/ ScaleOnly /\ Scaling!Next
  \/ PlacementOnly /\ Placing!PlacementNext

(* The autoscaler's pass goes on; calls and nodes do their next step, and nodes
   tell each other their status again and again (node_svc.go:857-884). *)
Fairness ==
  /\ WF_vars(ScaleOnly /\ Scaling!Pass)
  /\ \A p \in Calls : WF_vars(PlacementOnly /\ Placing!Step(p))
  /\ \A t \in Placers : WF_vars(PlacementOnly /\ Placing!Converge(t))
  /\ \A n, t \in Placers : WF_vars(PlacementOnly /\ Placing!HearOf(n, t))

Spec == Init /\ [][Next]_vars /\ Fairness
-----------------------------------------------------------------------------
(* The rollout (converger.go:387-493): a plan carried out leaves exactly the
   target, containers that fit are kept, and startstop keeps the capacity.
   Rollout has the statements. *)
ReachesTarget == part = "rollout" => Rolling!ReachesTarget
KeepsWhatFits == part = "rollout" => Rolling!KeepsWhatFits
StartStopKeepsCapacity == part = "rollout" => Rolling!StartStopKeepsCapacity

(* The autoscaler (scale.go): nodes are never overfull, no plan overshoots, the
   last instance of a component in use stays, and containers come to rest where
   the targets are met or nothing fits.  Scale has the statements. *)
Fits == part = "autoscale" => Scaling!Fits
WithinTarget == part = "autoscale" => Scaling!WithinTarget
KeepsRecent == [][part = "autoscale" => Scaling!RecentStays]_vars
Settles == <>[][part = "autoscale" => UNCHANGED running /\ Scaling!PlansRest]_vars

(* Placement (node_svc.go:287-544): a queue has exactly one placer, and every
   call is answered.  Placement has the statements. *)
QueueHasPlacer == part = "placement" => Placing!QueueHasPlacer
CallsAnswered == <>[](part = "placement" => \A p \in Calls : call[p].pc = "done")
=============================================================================
