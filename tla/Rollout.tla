------------------------------- MODULE Rollout -------------------------------
(***************************************************************************)
(* One converge() of an undisturbed converger: the plan is made and its    *)
(* steps are applied in order; the first one that fails ends it            *)
(* (pkg/converge/converger.go:275-313, 342-385).  Converger adds the other *)
(* goroutines that touch the list meanwhile.                               *)
(***************************************************************************)
EXTENDS ConvergePlan, FiniteSets

CONSTANTS MaxBefore,  \* containers at the start, at most
          MaxCount,   \* bound of the model on a target's count
          Versions,   \* versions of the component
          Reasons     \* why a container may be marked for termination

RolloutAssumption ==
  /\ MaxBefore \in Nat /\ MaxCount \in Nat
  /\ Reasons \subseteq STRING \ {Unset}

VARIABLES target,      \* the target converge() read
          before,      \* the containers the plan was made from
          containers,  \* Converger.containers
          steps,       \* steps of the plan still to apply
          started,     \* start steps applied
          failed       \* a step failed

vars == <<target, before, containers, steps, started, failed>>

Target == [ver : Versions, count : 0 .. MaxCount, para : Parallelisms,
           order : RestartOrders]
Container == [id : Nat, ver : Versions, reason : Reasons \cup {Unset}]
Ids(cs) == {cs[i].id : i \in DOMAIN cs}

TypeOK ==
  /\ target \in Target
  /\ containers \in Seq(Container)
  /\ Cardinality(Ids(containers)) = Len(containers)
  /\ started \in 0 .. MaxCount
  /\ failed \in BOOLEAN

Lists(n) ==
  {[i \in 1 .. n |-> [id |-> i, ver |-> v[i], reason |-> m[i]]] :
     v \in [1 .. n -> Versions], m \in [1 .. n -> Reasons \cup {Unset}]}

Init ==
  /\ target \in Target
  /\ before \in UNION {Lists(n) : n \in 0 .. MaxBefore}
  /\ containers = before
  /\ steps = Plan(before, target).steps
  /\ started = 0
  /\ failed = FALSE

(* Ids come from the registry's counter and are never used again. *)
Start ==
  /\ steps # <<>> /\ Head(steps).op = "start"
  /\ containers' = Append(containers,
       [id |-> Len(before) + started + 1, ver |-> Head(steps).ver, reason |-> Unset])
  /\ started' = started + 1
  /\ steps' = Tail(steps)
  /\ UNCHANGED <<target, before, failed>>

(* Mutant: the error is logged and the plan goes on. *)
StartFails_GoesOn ==
  /\ steps # <<>> /\ Head(steps).op = "start"
  /\ steps' = Tail(steps)
  /\ UNCHANGED <<target, before, containers, started, failed>>

StartFails ==
  /\ steps # <<>> /\ Head(steps).op = "start"
  /\ failed' = TRUE
  /\ steps' = <<>>
  /\ UNCHANGED <<target, before, containers, started>>

Stop ==
  /\ steps # <<>> /\ Head(steps).op = "stop"
  /\ containers' = RemoveFirstMatch(containers, LAMBDA cn : cn.id = Head(steps).id)
  /\ steps' = Tail(steps)
  /\ UNCHANGED <<target, before, started, failed>>

Next == Start \/ StartFails \/ Stop

Spec == Init /\ [][Next]_vars
-----------------------------------------------------------------------------
Fits(cn) == cn.ver = target.ver /\ cn.reason = Unset
Fitting(cs) == {cs[i].id : i \in {j \in DOMAIN cs : Fits(cs[j])}}
Least(a, b) == IF a < b THEN a ELSE b

(* A plan that was carried out leaves exactly the target: as many containers
   as asked for, all of the version asked for, none of those that were to be
   terminated (converger.go:387-477). *)
ReachesTarget ==
  steps = <<>> /\ ~failed =>
    /\ Len(containers) = target.count
    /\ \A i \in DOMAIN containers : Fits(containers[i])

(* No container that fits is stopped unless there are more of them than the
   target asks for (converger.go:395-418). *)
KeepsWhatFits ==
  Cardinality(Fitting(containers) \cap Fitting(before)) >=
    Least(target.count, Cardinality(Fitting(before)))

(* With startstop a rolling deploy never takes capacity away: at every moment,
   and after a failed start too, no fewer containers run than before or than
   asked for (converger.go:436-465; docs/gitbook/appendix/project_yaml_ref.md:131). *)
StartStopKeepsCapacity ==
  target.order = "startstop" =>
    Len(containers) >= Least(Len(before), target.count)
=============================================================================
