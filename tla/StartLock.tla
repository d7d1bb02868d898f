------------------------------ MODULE StartLock ------------------------------
(***************************************************************************)
(* CompLocker (pkg/converge/complock.go) and the start steps of the        *)
(* convergers that use it (pkg/converge/converger.go:342-379): the nodes   *)
(* of a cluster start containers of one component under the role lock      *)
(* start_container_<name>.  The lock is the lease that RoleLock implements *)
(* (module Lease); a node that fails or crashes leaves it to expire.       *)
(***************************************************************************)
EXTENDS Integers

CONSTANTS Nodes,     \* the nodes of the cluster
          Versions,  \* versions of the component
          ParaOf,    \* startParallelism of each version
          Health,    \* HealthCheckSeconds of each version: limit of its check
          MaxHealth, \* the longest of them
          Skew,      \* bound on the difference between two nodes' clocks
          MaxClock,  \* bound of the model on the clocks
          None

ASSUME StartLockAssumption ==
  /\ ParaOf \in [Versions -> {"series", "seriesfirst"}]
  /\ Health \in [Versions -> 0 .. MaxHealth] /\ MaxHealth \in Nat
  /\ Skew \in Nat /\ MaxClock \in Nat
  /\ None \notin Versions

VARIABLES clock,     \* clock[n]: the local clock of node n
          lease,     \* lease[n]: expiry of the last grant n was told of
          pc,        \* control state of each converger's start step
          ver,       \* ver[n]: the version n's step starts
          locked,    \* locked[n]: releaseLock of the start step
          began,     \* began[n]: when the lock was granted
          first,     \* first[n]: version whose first start in n's plan is over
          deployed,  \* versions whose startCount in the database is above 0
          up         \* versions of which some container came up

(* Mutant: the margin has the wrong sign. *)
LockDur_NoMargin(v) == Health[v] - 1

LockDur(v) == Health[v] + 1

L == INSTANCE Lease WITH MaxDur <- MaxHealth + 1

vars == <<clock, lease, pc, ver, locked, began, first, deployed, up>>

TypeOK ==
  /\ clock \in [Nodes -> Nat]
  /\ lease \in [Nodes -> Nat \cup {L!NoLease}]
  /\ pc \in [Nodes -> {"idle", "count", "acquire", "starting", "post", "release"}]
  /\ ver \in [Nodes -> Versions \cup {None}]
  /\ locked \in [Nodes -> BOOLEAN]
  /\ began \in [Nodes -> Nat]
  /\ first \in [Nodes -> Versions \cup {None}]
  /\ deployed \subseteq Versions
  /\ up \subseteq Versions

Init ==
  /\ clock = [n \in Nodes |-> 0]
  /\ lease = [n \in Nodes |-> L!NoLease]
  /\ pc = [n \in Nodes |-> "idle"]
  /\ ver = [n \in Nodes |-> None]
  /\ locked = [n \in Nodes |-> FALSE]
  /\ began = [n \in Nodes |-> 0]
  /\ first = [n \in Nodes |-> None]
  /\ deployed = {}
  /\ up = {}

-----------------------------------------------------------------------------
Goto(n, s) == pc' = [pc EXCEPT ![n] = s]

(* The step is over; the plan goes on only after a success. *)
Finish(n, done) ==
  /\ Goto(n, "idle")
  /\ ver' = [ver EXCEPT ![n] = None]
  /\ locked' = [locked EXCEPT ![n] = FALSE]
  /\ began' = [began EXCEPT ![n] = 0]
  /\ first' = [first EXCEPT ![n] = done]

(* Mutant: seriesfirst taken for parallel. *)
Begin_NoSeriesFirst(n, v) ==
  /\ pc[n] = "idle"
  /\ Goto(n, IF ParaOf[v] = "seriesfirst" THEN "starting" ELSE "acquire")
  /\ ver' = [ver EXCEPT ![n] = v]
  /\ began' = [began EXCEPT ![n] = clock[n]]
  /\ UNCHANGED <<clock, lease, locked, first, deployed, up>>

(* A start step with lock set. *)
Begin(n, v) ==
  /\ pc[n] = "idle"
  /\ Goto(n, IF ParaOf[v] = "seriesfirst" THEN "count" ELSE "acquire")
  /\ ver' = [ver EXCEPT ![n] = v]
  /\ UNCHANGED <<clock, lease, locked, began, first, deployed, up>>

(* A later start step of a seriesfirst plan: no lock. *)
BeginUnlocked(n) ==
  /\ pc[n] = "idle" /\ first[n] # None
  /\ ParaOf[first[n]] = "seriesfirst"
  /\ Goto(n, "starting")
  /\ ver' = [ver EXCEPT ![n] = first[n]]
  /\ began' = [began EXCEPT ![n] = clock[n]]
  /\ UNCHANGED <<clock, lease, locked, first, deployed, up>>

(* GetComponentDeployCount: deployed once, no lock required. *)
CheckCount(n) ==
  /\ pc[n] = "count"
  /\ IF ver[n] \in deployed
     THEN Goto(n, "starting") /\ began' = [began EXCEPT ![n] = clock[n]]
     ELSE Goto(n, "acquire") /\ UNCHANGED began
  /\ UNCHANGED <<clock, lease, ver, locked, first, deployed, up>>

(* The row of another node, if any, has expired by n's clock: what RoleLock's
   statements find out. *)
RowFree(n) == \A m \in Nodes \ {n} : lease[m] < clock[n]

(* AcquireOrRenewRole says yes. *)
Acquire(n) ==
  /\ pc[n] = "acquire"
  /\ RowFree(n)
  /\ L!Grant(n) /\ lease'[n] = clock[n] + LockDur(ver[n])
  /\ locked' = [locked EXCEPT ![n] = TRUE]
  /\ began' = [began EXCEPT ![n] = clock[n]]
  /\ Goto(n, "starting")
  /\ UNCHANGED <<ver, first, deployed, up>>

(* Somebody else has it: look again in five seconds, from the top. *)
Denied(n) ==
  /\ pc[n] = "acquire" /\ ParaOf[ver[n]] = "seriesfirst"
  /\ Goto(n, "count")
  /\ UNCHANGED <<clock, lease, ver, locked, began, first, deployed, up>>

(* A database error, or the converger was stopped while waiting. *)
GiveUp(n) ==
  /\ pc[n] \in {"count", "acquire"}
  /\ Finish(n, None)
  /\ UNCHANGED <<clock, lease, deployed, up>>

StartSucceeds(n) ==
  /\ pc[n] = "starting"
  /\ up' = up \cup {ver[n]}
  /\ Goto(n, "post")
  /\ UNCHANGED <<clock, lease, ver, locked, began, first, deployed>>

(* start() returns before convergePostStartContainer: the lease stays. *)
StartFails(n) ==
  /\ pc[n] = "starting"
  /\ Finish(n, None)
  /\ UNCHANGED <<clock, lease, deployed, up>>

Increment(n) ==
  /\ pc[n] = "post"
  /\ deployed' = deployed \cup {ver[n]}
  /\ IF locked[n]
     THEN Goto(n, "release") /\ UNCHANGED <<ver, locked, began, first>>
     ELSE Finish(n, ver[n])
  /\ UNCHANGED <<clock, lease, up>>

(* The lock is not released; start() logs the error and returns success. *)
IncrementFails(n) ==
  /\ pc[n] = "post"
  /\ Finish(n, ver[n])
  /\ UNCHANGED <<clock, lease, deployed, up>>

Release(n) ==
  /\ pc[n] = "release"
  /\ L!Drop(n)
  /\ Finish(n, ver[n])
  /\ UNCHANGED <<deployed, up>>

ReleaseFails(n) ==
  /\ pc[n] = "release"
  /\ Finish(n, ver[n])
  /\ UNCHANGED <<clock, lease, deployed, up>>

(* The node dies: its container goes with it, its row stays. *)
Crash(n) ==
  /\ Finish(n, None)
  /\ UNCHANGED <<clock, lease, deployed, up>>

(* Time passes: Docker may take a minute to create and start the container
   (docker.go:277) before its health check begins. *)
Tick(n) ==
  /\ clock[n] < MaxClock
  /\ L!Tick(n)
  /\ UNCHANGED <<pc, ver, locked, began, first, deployed, up>>

Step(n) ==
  \/ BeginUnlocked(n) \/ CheckCount(n) \/ Acquire(n) \/ Denied(n) \/ GiveUp(n)
  \/ StartSucceeds(n) \/ StartFails(n) \/ Increment(n) \/ IncrementFails(n)
  \/ Release(n) \/ ReleaseFails(n) \/ Crash(n) \/ Tick(n)

Next == \E n \in Nodes : Step(n) \/ \E v \in Versions : Begin(n, v)

Spec == Init /\ [][Next]_vars
-----------------------------------------------------------------------------
Starting(n) == pc[n] = "starting"

(* n's start under the lock has taken longer than the version's health check
   may and a second (complock.go:30), less the clocks' skew. *)
Overdue(n) == clock[n] + Skew > began[n] + Health[ver[n]] + 1

(* "series: Start component containers one at a time"
   (docs/gitbook/appendix/project_yaml_ref.md:151-152; complock.go:23-63): two
   nodes are in the middle of starting a series container only when one of
   the starts is overdue, whatever was started before, failed, crashed or
   skipped its release. *)
OneAtATime ==
  \A m, n \in Nodes :
    /\ Starting(m) /\ ParaOf[ver[m]] = "series"
    /\ Starting(n) /\ ParaOf[ver[n]] = "series"
    => m = n \/ Overdue(m) \/ Overdue(n)

(* What project_yaml_ref.md:152 says, for starts of any length; it fails: the
   lease is not renewed while Docker works (complock.go:30, docker.go:277). *)
SeriesIsSerial ==
  \A m, n \in Nodes :
    /\ Starting(m) /\ ParaOf[ver[m]] = "series"
    /\ Starting(n) /\ ParaOf[ver[n]] = "series"
    => m = n

(* "the first instance of a new version will run in isolation"
   (project_yaml_ref.md:162-163; complock.go:33-42): until a container of a
   seriesfirst version has come up, two nodes are starting one only when one
   of the starts is overdue, whatever counts were read before and whatever
   writes failed. *)
FirstRunsAlone ==
  \A m, n \in Nodes :
    /\ Starting(m) /\ Starting(n) /\ ver[m] = ver[n]
    /\ ParaOf[ver[m]] = "seriesfirst" /\ ver[m] \notin up
    => m = n \/ Overdue(m) \/ Overdue(n)

(* The parts of the inductive invariant behind OneAtATime and FirstRunsAlone:
   a start under the lock has the lease of its version, a start without it is
   of a version that has come up, and so is every version the database, the
   plans and the post-start steps know of (complock.go:33-53, 65-79). *)
ClocksClose == \A m, n \in Nodes : clock[m] <= clock[n] + Skew

StartHasLease ==
  \A n \in Nodes : Starting(n) /\ locked[n] =>
    ver[n] \in Versions /\ lease[n] = began[n] + LockDur(ver[n])

UnlockedIsLater ==
  \A n \in Nodes :
    /\ pc[n] = "count" => ParaOf[ver[n]] = "seriesfirst"
    /\ Starting(n) /\ ~locked[n] =>
         ParaOf[ver[n]] = "seriesfirst" /\ ver[n] \in up

KnownIsUp ==
  /\ deployed \subseteq up
  /\ \A n \in Nodes : /\ first[n] # None => first[n] \in up
                      /\ pc[n] \in {"post", "release"} => ver[n] \in up
                      /\ pc[n] # "idle" => ver[n] \in Versions
                      /\ locked[n] => pc[n] \in {"starting", "post", "release"}

OneLocked ==
  \A m, n \in Nodes :
    Starting(m) /\ locked[m] /\ Starting(n) /\ locked[n]
    => m = n \/ Overdue(m) \/ Overdue(n)

IInv == /\ TypeOK /\ ClocksClose /\ StartHasLease
        /\ UnlockedIsLater /\ KnownIsUp /\ OneLocked
=============================================================================
