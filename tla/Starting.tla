------------------------------ MODULE Starting ------------------------------
(***************************************************************************)
(* How a container starts and ends: the start lock that convergers hold     *)
(* while they start one, and the life of a container that was started.     *)
(* The two share no variable, so a behaviour follows one of them while the  *)
(* other stays where it begins.                                             *)
(***************************************************************************)
EXTENDS StartLock, ContainerLife

VARIABLE part   \* the one this behaviour follows

startingVars == <<part, vars, lifeVars>>

StartingInit == Init /\ LifeInit /\ part \in {"lock", "life"}

LockOnly == part = "lock" /\ UNCHANGED <<part, lifeVars>>
LifeOnly == part = "life" /\ UNCHANGED <<part, vars>>

StartingNext == (LockOnly /\ Next) \/ (LifeOnly /\ LifeNext)

(* Goroutines go on, a health check ends, and so does a proxied request, by its
   deadline. *)
Fairness ==
  /\ WF_startingVars(LifeOnly /\ Start)
  /\ WF_startingVars(LifeOnly /\ (TakeStat \/ LoopExits))
  /\ WF_startingVars(LifeOnly /\ StopAccepting)
  /\ WF_startingVars(LifeOnly /\ (Drained \/ DispenserBegins \/ RemovesItself \/ Unregister))
  /\ WF_startingVars(LifeOnly /\ ProxyEnds)
  /\ WF_startingVars(LifeOnly /\ Report)
  /\ WF_startingVars(LifeOnly /\ TakeDone)
  /\ WF_startingVars(LifeOnly /\ Propagate)
  /\ \A s \in Stoppers : WF_startingVars(LifeOnly /\ Stopping(s))

StartingSpec == StartingInit /\ [][StartingNext]_startingVars /\ Fairness
-----------------------------------------------------------------------------
(* JoinAndStop lets requests finish (container.go:130-149): ContainerLife has
   the statement. *)
RemovedDrained == [][LifeOnly => \A s \in Stoppers : RemovesDrained(s)]_startingVars

(* The same for calls that come before run() has begun; it fails. *)
AlwaysRemovedDrained == [][LifeOnly => \A s \in Stoppers : AnyRemovesDrained(s)]_startingVars

(* A container that was told to stop, by its converger, an exit event, a health
   check or the end of the converger, ends: none of its goroutines waits for
   another for ever, whatever was told first and however full statCh is
   (container.go:130-237, dispenser.go:53-88, revproxy.go:62-71). *)
StopEnds == Told ~> Over
=============================================================================
