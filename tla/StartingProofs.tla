--------------------------- MODULE StartingProofs ---------------------------
(***************************************************************************)
(* Proofs about how a container starts and ends.  However long Docker and a *)
(* health check take, two starts of a series version, or two first starts   *)
(* of a seriesfirst version, overlap only when one has taken longer than    *)
(* the lock's duration less the clock skew, for any number of nodes and     *)
(* versions.  A call of JoinAndStop that begins while the dispenser is at   *)
(* work removes a drained container, for any number of calls, any           *)
(* concurrency and any number of failed checks.                             *)
(***************************************************************************)
EXTENDS Starting, TLAPS

LEMMA InitInv == Init => IInv
BY StartLockAssumption
DEF Init, IInv, TypeOK, ClocksClose, StartHasLease, UnlockedIsLater, KnownIsUp,
    OneLocked, Starting, L!NoLease

LEMMA Consequences == IInv => OneAtATime /\ FirstRunsAlone
<1> SUFFICES ASSUME IInv PROVE OneAtATime /\ FirstRunsAlone
  OBVIOUS
<1>1. ASSUME NEW n \in Nodes, Starting(n), ~locked[n]
      PROVE  ParaOf[ver[n]] = "seriesfirst" /\ ver[n] \in up
  BY <1>1 DEF IInv, UnlockedIsLater
<1>2. OneAtATime
  BY <1>1 DEF IInv, OneAtATime, OneLocked
<1>3. FirstRunsAlone
  BY <1>1 DEF IInv, FirstRunsAlone, OneLocked
<1> QED
  BY <1>2, <1>3

(* Nothing that the time parts of the invariant speak of changes, except that
   a goroutine may leave "starting" or enter it without the lock. *)
LEMMA TimeFrame ==
  ASSUME IInv, UNCHANGED clock,
         \A n \in Nodes : pc'[n] = "starting" /\ locked'[n] =>
           /\ pc[n] = "starting" /\ locked[n]
           /\ lease'[n] = lease[n] /\ began'[n] = began[n] /\ ver'[n] = ver[n]
  PROVE  ClocksClose' /\ StartHasLease' /\ OneLocked'
BY DEF IInv, ClocksClose, StartHasLease, OneLocked, Starting, Overdue

LEMMA StepInv == IInv /\ [Next]_vars => IInv'
<1> SUFFICES ASSUME IInv, [Next]_vars PROVE IInv'
  OBVIOUS
<1> USE StartLockAssumption DEF LockDur
<1>0. TypeOK /\ UnlockedIsLater /\ KnownIsUp
  BY DEF IInv
<1>1. ASSUME NEW n \in Nodes, NEW v \in Versions, Begin(n, v) PROVE IInv'
  <2>1. TypeOK' /\ UnlockedIsLater' /\ KnownIsUp'
    BY <1>0, <1>1
    DEF Begin, Goto, Finish, TypeOK, UnlockedIsLater, KnownIsUp, Starting
  <2>2. ClocksClose' /\ StartHasLease' /\ OneLocked'
    BY <1>0, <1>1, TimeFrame DEF Begin, Goto, Finish, TypeOK, KnownIsUp
  <2> QED
    BY <2>1, <2>2 DEF IInv
<1>2. ASSUME NEW n \in Nodes, BeginUnlocked(n) PROVE IInv'
  <2>1. TypeOK' /\ UnlockedIsLater' /\ KnownIsUp'
    BY <1>0, <1>2
    DEF BeginUnlocked, Goto, Finish, TypeOK, UnlockedIsLater, KnownIsUp, Starting
  <2>2. ClocksClose' /\ StartHasLease' /\ OneLocked'
    BY <1>0, <1>2, TimeFrame DEF BeginUnlocked, Goto, Finish, TypeOK, KnownIsUp
  <2> QED
    BY <2>1, <2>2 DEF IInv
<1>3. ASSUME NEW n \in Nodes, CheckCount(n) PROVE IInv'
  <2>1. TypeOK' /\ UnlockedIsLater' /\ KnownIsUp'
    BY <1>0, <1>3
    DEF CheckCount, Goto, Finish, TypeOK, UnlockedIsLater, KnownIsUp, Starting
  <2>2. ClocksClose' /\ StartHasLease' /\ OneLocked'
    BY <1>0, <1>3, TimeFrame DEF CheckCount, Goto, Finish, TypeOK, KnownIsUp
  <2> QED
    BY <2>1, <2>2 DEF IInv
<1>4. ASSUME NEW n \in Nodes, Denied(n) PROVE IInv'
  <2>1. TypeOK' /\ UnlockedIsLater' /\ KnownIsUp'
    BY <1>0, <1>4
    DEF Denied, Goto, Finish, TypeOK, UnlockedIsLater, KnownIsUp, Starting
  <2>2. ClocksClose' /\ StartHasLease' /\ OneLocked'
    BY <1>0, <1>4, TimeFrame DEF Denied, Goto, Finish, TypeOK, KnownIsUp
  <2> QED
    BY <2>1, <2>2 DEF IInv
<1>5. ASSUME NEW n \in Nodes, GiveUp(n) PROVE IInv'
  <2>1. TypeOK' /\ UnlockedIsLater' /\ KnownIsUp'
    BY <1>0, <1>5
    DEF GiveUp, Goto, Finish, TypeOK, UnlockedIsLater, KnownIsUp, Starting
  <2>2. ClocksClose' /\ StartHasLease' /\ OneLocked'
    BY <1>0, <1>5, TimeFrame DEF GiveUp, Goto, Finish, TypeOK, KnownIsUp
  <2> QED
    BY <2>1, <2>2 DEF IInv
<1>6. ASSUME NEW n \in Nodes, StartSucceeds(n) PROVE IInv'
  <2>1. TypeOK' /\ UnlockedIsLater' /\ KnownIsUp'
    BY <1>0, <1>6
    DEF StartSucceeds, Goto, Finish, TypeOK, UnlockedIsLater, KnownIsUp, Starting
  <2>2. ClocksClose' /\ StartHasLease' /\ OneLocked'
    BY <1>0, <1>6, TimeFrame DEF StartSucceeds, Goto, Finish, TypeOK, KnownIsUp
  <2> QED
    BY <2>1, <2>2 DEF IInv
<1>7. ASSUME NEW n \in Nodes, StartFails(n) PROVE IInv'
  <2>1. TypeOK' /\ UnlockedIsLater' /\ KnownIsUp'
    BY <1>0, <1>7
    DEF StartFails, Goto, Finish, TypeOK, UnlockedIsLater, KnownIsUp, Starting
  <2>2. ClocksClose' /\ StartHasLease' /\ OneLocked'
    BY <1>0, <1>7, TimeFrame DEF StartFails, Goto, Finish, TypeOK, KnownIsUp
  <2> QED
    BY <2>1, <2>2 DEF IInv
<1>8. ASSUME NEW n \in Nodes, Increment(n) PROVE IInv'
  <2>1. ver[n] \in up /\ ver[n] \in Versions /\ pc[n] = "post"
    BY <1>0, <1>8 DEF Increment, KnownIsUp
  <2>2. CASE locked[n]
    <3>1. TypeOK' /\ UnlockedIsLater'
      BY <1>0, <1>8, <2>1, <2>2 DEF Increment, Goto, TypeOK, UnlockedIsLater, Starting
    <3>2. KnownIsUp'
      BY <1>0, <1>8, <2>1, <2>2 DEF Increment, Goto, TypeOK, KnownIsUp
    <3>3. ClocksClose' /\ StartHasLease' /\ OneLocked'
      BY <1>0, <1>8, <2>2, TimeFrame DEF Increment, Goto, TypeOK
    <3> QED
      BY <3>1, <3>2, <3>3 DEF IInv
  <2>3. CASE ~locked[n]
    <3>1. Finish(n, ver[n]) /\ deployed' = deployed \cup {ver[n]}
          /\ UNCHANGED <<clock, lease, up>>
      BY <1>8, <2>3 DEF Increment
    <3>2. TypeOK' /\ UnlockedIsLater'
      BY <1>0, <2>1, <3>1 DEF Finish, Goto, TypeOK, UnlockedIsLater, Starting
    <3>3. KnownIsUp'
      BY <1>0, <2>1, <3>1 DEF Finish, Goto, TypeOK, KnownIsUp
    <3>4. ClocksClose' /\ StartHasLease' /\ OneLocked'
      BY <1>0, <3>1, TimeFrame DEF Finish, Goto, TypeOK
    <3> QED
      BY <3>2, <3>3, <3>4 DEF IInv
  <2> QED
    BY <2>2, <2>3
<1>9. ASSUME NEW n \in Nodes, IncrementFails(n) PROVE IInv'
  <2>1. TypeOK' /\ UnlockedIsLater' /\ KnownIsUp'
    BY <1>0, <1>9
    DEF IncrementFails, Goto, Finish, TypeOK, UnlockedIsLater, KnownIsUp, Starting
  <2>2. ClocksClose' /\ StartHasLease' /\ OneLocked'
    BY <1>0, <1>9, TimeFrame DEF IncrementFails, Goto, Finish, TypeOK, KnownIsUp
  <2> QED
    BY <2>1, <2>2 DEF IInv
<1>10. ASSUME NEW n \in Nodes, ReleaseFails(n) PROVE IInv'
  <2>1. TypeOK' /\ UnlockedIsLater' /\ KnownIsUp'
    BY <1>0, <1>10
    DEF ReleaseFails, Goto, Finish, TypeOK, UnlockedIsLater, KnownIsUp, Starting
  <2>2. ClocksClose' /\ StartHasLease' /\ OneLocked'
    BY <1>0, <1>10, TimeFrame DEF ReleaseFails, Goto, Finish, TypeOK, KnownIsUp
  <2> QED
    BY <2>1, <2>2 DEF IInv
<1>11. ASSUME NEW n \in Nodes, Crash(n) PROVE IInv'
  <2>1. TypeOK' /\ UnlockedIsLater' /\ KnownIsUp'
    BY <1>0, <1>11
    DEF Crash, Goto, Finish, TypeOK, UnlockedIsLater, KnownIsUp, Starting
  <2>2. ClocksClose' /\ StartHasLease' /\ OneLocked'
    BY <1>0, <1>11, TimeFrame DEF Crash, Goto, Finish, TypeOK, KnownIsUp
  <2> QED
    BY <2>1, <2>2 DEF IInv
<1>12. ASSUME NEW n \in Nodes, Acquire(n) PROVE IInv'
  <2>1. TypeOK' /\ UnlockedIsLater' /\ KnownIsUp'
    <3>1. lease' = [lease EXCEPT ![n] = clock[n] + LockDur(ver[n])]
      BY <1>0, <1>12 DEF Acquire, L!Grant, TypeOK
    <3>2. ver[n] \in Versions /\ Health[ver[n]] \in Nat
      BY <1>0, <1>12 DEF Acquire, KnownIsUp
    <3> QED
      BY <1>0, <1>12, <3>1, <3>2
      DEF Acquire, Goto, TypeOK, UnlockedIsLater, KnownIsUp, Starting, L!Grant
  <2>2. ASSUME NEW m \in Nodes \ {n}, Starting(m), locked[m] PROVE Overdue(m)
    <3>1. ver[m] \in Versions /\ lease[m] = began[m] + (Health[ver[m]] + 1)
      BY <2>2 DEF IInv, StartHasLease
    <3>2. clock[n] <= clock[m] + Skew
      BY DEF IInv, ClocksClose
    <3>3. lease[m] < clock[n]
      BY <1>12 DEF Acquire, RowFree
    <3>4. clock[m] \in Nat /\ clock[n] \in Nat /\ began[m] \in Nat /\ Health[ver[m]] \in Nat
      BY <1>0, <3>1 DEF TypeOK
    <3> QED
      BY <3>1, <3>2, <3>3, <3>4 DEF Overdue
  <2>3. /\ lease' = [lease EXCEPT ![n] = clock[n] + LockDur(ver[n])]
        /\ began' = [began EXCEPT ![n] = clock[n]]
        /\ pc' = [pc EXCEPT ![n] = "starting"]
        /\ locked' = [locked EXCEPT ![n] = TRUE] /\ clock' = clock /\ ver' = ver
        /\ pc[n] = "acquire"
    BY <1>0, <1>12 DEF Acquire, Goto, L!Grant, TypeOK
  <2>4. ClocksClose'
    BY <2>3 DEF IInv, ClocksClose
  <2>5. StartHasLease'
    <3>1. ver[n] \in Versions
      BY <1>0, <2>3 DEF KnownIsUp
    <3>2. ASSUME NEW m \in Nodes, Starting(m)', locked'[m]
          PROVE  ver'[m] \in Versions /\ lease'[m] = began'[m] + LockDur(ver'[m])
      <4>1. CASE m = n
        BY <1>0, <2>3, <3>1, <4>1 DEF TypeOK
      <4>2. CASE m # n
        <5>1. Starting(m) /\ locked[m] /\ lease'[m] = lease[m] /\ began'[m] = began[m]
          BY <1>0, <2>3, <3>2, <4>2 DEF TypeOK, Starting
        <5> QED
          BY <2>3, <5>1 DEF IInv, StartHasLease
      <4> QED
        BY <4>1, <4>2
    <3> QED
      BY <3>2 DEF StartHasLease
  <2>6. OneLocked'
    <3>1. ASSUME NEW m \in Nodes, m # n, Starting(m)', locked'[m]
          PROVE  /\ Starting(m) /\ locked[m] /\ Overdue(m)'
      <4>1. Starting(m) /\ locked[m] /\ began'[m] = began[m]
        BY <1>0, <2>3, <3>1 DEF TypeOK, Starting
      <4> QED
        BY <2>2, <2>3, <3>1, <4>1 DEF Overdue
    <3> QED
      BY <3>1 DEF OneLocked
  <2> QED
    BY <2>1, <2>4, <2>5, <2>6 DEF IInv
<1>13. ASSUME NEW n \in Nodes, Release(n) PROVE IInv'
  <2>1. /\ lease' = [lease EXCEPT ![n] = L!NoLease] /\ clock' = clock
        /\ Finish(n, ver[n]) /\ UNCHANGED <<deployed, up>>
    BY <1>13 DEF Release, L!Drop
  <2>2. TypeOK' /\ UnlockedIsLater' /\ KnownIsUp'
    BY <1>0, <1>13, <2>1
    DEF Release, Goto, Finish, TypeOK, UnlockedIsLater, KnownIsUp, Starting
  <2>3. ClocksClose' /\ StartHasLease' /\ OneLocked'
    BY <1>0, <2>1, TimeFrame DEF Goto, Finish, TypeOK, KnownIsUp
  <2> QED
    BY <2>2, <2>3 DEF IInv
<1>14. ASSUME NEW n \in Nodes, Tick(n) PROVE IInv'
  <2>1. /\ clock' = [clock EXCEPT ![n] = @ + 1]
        /\ \A m \in Nodes \ {n} : clock[n] + 1 <= clock[m] + Skew
        /\ UNCHANGED <<lease, pc, ver, locked, began, first, deployed, up>>
    BY <1>14 DEF Tick, L!Tick
  <2>2. TypeOK' /\ UnlockedIsLater' /\ KnownIsUp'
    BY <1>0, <2>1 DEF TypeOK, UnlockedIsLater, KnownIsUp, Starting
  <2>5. OneLocked'
    <3>1. ASSUME NEW m \in Nodes, Overdue(m), Starting(m), locked[m] PROVE Overdue(m)'
      <4>1. ver[m] \in Versions
        BY <3>1 DEF IInv, StartHasLease
      <4>2. /\ clock[m] \in Nat /\ began[m] \in Nat /\ Health[ver[m]] \in Nat
            /\ clock'[m] \in {clock[m], clock[m] + 1} /\ began' = began /\ ver' = ver
        BY <1>0, <2>1, <4>1 DEF TypeOK
      <4> QED
        BY <3>1, <4>2 DEF Overdue
    <3> QED
      BY <2>1, <3>1 DEF IInv, OneLocked, Starting
  <2>3. ClocksClose'
    BY <1>0, <2>1 DEF IInv, TypeOK, ClocksClose
  <2>4. StartHasLease'
    BY <1>0, <2>1 DEF IInv, TypeOK, StartHasLease, Starting
  <2> QED
    BY <2>2, <2>3, <2>4, <2>5 DEF IInv
<1>15. CASE UNCHANGED vars
  <2>1. TypeOK' /\ UnlockedIsLater' /\ KnownIsUp'
    BY <1>0, <1>15 DEF vars, TypeOK, UnlockedIsLater, KnownIsUp, Starting
  <2>2. ClocksClose' /\ StartHasLease' /\ OneLocked'
    BY <1>15, TimeFrame DEF vars
  <2> QED
    BY <2>1, <2>2 DEF IInv
<1> QED
  BY <1>1, <1>2, <1>3, <1>4, <1>5, <1>6, <1>7, <1>8, <1>9, <1>10, <1>11, <1>12,
     <1>13, <1>14, <1>15
  DEF Next, Step

(* The invariant holds in every reachable state, however long starts take
   (complock.go:23-79). *)
THEOREM Inductive == Spec => []IInv
<1>1. IInv /\ [Next]_vars => IInv'
  BY StepInv
<1>2. Init => IInv
  BY InitInv
<1> QED
  BY <1>1, <1>2, PTL DEF Spec

(* Two starts of a series version overlap only when one is overdue
   (project_yaml_ref.md:151-152; complock.go:23-63). *)
THEOREM Series == Spec => []OneAtATime
<1>1. IInv => OneAtATime
  BY Consequences
<1> QED
  BY <1>1, Inductive, PTL

(* Two first starts of a seriesfirst version overlap only when one is overdue
   (project_yaml_ref.md:162-163; complock.go:33-42). *)
THEOREM SeriesFirst == Spec => []FirstRunsAlone
<1>1. IInv => FirstRunsAlone
  BY Consequences
<1> QED
  BY <1>1, Inductive, PTL

(* Both hold of the composed specification, too: a step of a container's life
   leaves the start lock alone (complock.go:23-79). *)
THEOREM StartsAreSerial == StartingSpec => [](OneAtATime /\ FirstRunsAlone)
<1>1. StartingInit => IInv
  BY InitInv DEF StartingInit
<1>2. IInv /\ [StartingNext]_startingVars => IInv'
  <2>1. [StartingNext]_startingVars => [Next]_vars
    BY DEF StartingNext, startingVars, LockOnly, LifeOnly, vars
  <2> QED
    BY <2>1, StepInv
<1>3. IInv => OneAtATime /\ FirstRunsAlone
  BY Consequences
<1> QED
  BY <1>1, <1>2, <1>3, PTL DEF StartingSpec

-----------------------------------------------------------------------------
(* The life of a container. *)

DispenserStates == {"none", "new", "serving", "draining", "removing", "leaving", "gone"}
Returned == {"removing", "leaving", "gone"}

Requests == [proxied : Nat, reporting : Nat, finished : Nat]

LifeTypeOK ==
  /\ reqs \in Requests
  /\ disp \in DispenserStates
  /\ stop \in [Stoppers -> {"idle", "proxies", "loop", "done"}]
  /\ found \subseteq Stoppers

(* The dispenser is started once, when run() has registered. *)
StartedOnce == loop \in {"checking", "failed", "scheduled", "registering"} => disp = "none"

(* The dispenser returns when nothing is inside, and takes nothing afterwards. *)
ReturnedIsEmpty == disp \in Returned => Concur = 0

(* A call that found the dispenser at work waits until it has returned. *)
FoundBegan == \A s \in found : disp \notin {"none", "new"}
FoundWaits == \A s \in found : stop[s] \in {"loop", "done"} => disp \in Returned

LifeInv == LifeTypeOK /\ StartedOnce /\ ReturnedIsEmpty /\ FoundBegan /\ FoundWaits

LEMMA LifeInitInv == StartingInit => LifeInv
BY DEF StartingInit, LifeInit, LifeInv, LifeTypeOK, Requests, StartedOnce, ReturnedIsEmpty, FoundBegan, FoundWaits,
       DispenserStates, Returned, Concur

(* A request that is proxied or reports is inside: the dispenser has not returned. *)
LEMMA RequestMoves ==
  ASSUME LifeInv, ProxyEnds \/ Report
  PROVE  reqs' \in Requests /\ disp \notin Returned
<1>1. /\ reqs \in Requests
      /\ reqs.proxied \in Nat /\ reqs.reporting \in Nat /\ reqs.finished \in Nat
  BY DEF LifeInv, LifeTypeOK, Requests
<1>2. disp \in Returned => reqs.proxied = 0 /\ reqs.reporting = 0
  <2>1. disp \in Returned => reqs.proxied + reqs.reporting + reqs.finished = 0
    BY DEF LifeInv, ReturnedIsEmpty, Concur
  <2> QED
    BY <1>1, <2>1
<1>3. CASE ProxyEnds
  <2>1. reqs.proxied > 0
    BY <1>3 DEF ProxyEnds
  <2>2. reqs.proxied - 1 \in Nat /\ reqs.reporting + 1 \in Nat /\ reqs.finished + 1 \in Nat
    BY <1>1, <2>1
  <2>3. reqs' \in Requests
    BY <1>1, <1>3, <2>2 DEF ProxyEnds, Requests
  <2> QED
    BY <1>1, <1>2, <2>1, <2>3
<1>4. CASE Report
  <2>1. reqs.reporting > 0
    BY <1>4 DEF Report
  <2>2. reqs.reporting - 1 \in Nat /\ reqs.finished + 1 \in Nat
    BY <1>1, <2>1
  <2>3. reqs' \in Requests
    BY <1>1, <1>4, <2>2 DEF Report, Requests
  <2> QED
    BY <1>1, <1>2, <2>1, <2>3
<1> QED
  BY <1>3, <1>4

(* Steps of the dispenser and of its requests. *)
LEMMA DispenserInv ==
  ASSUME LifeInv, Register \/ Dispense \/ Accept \/ ProxyEnds \/ Report \/ TakeDone
  PROVE  LifeInv'
<1> USE DEF LifeInv, LifeTypeOK, Requests, StartedOnce, ReturnedIsEmpty, FoundBegan, FoundWaits,
            DispenserStates, Returned, Concur
<1>1. CASE Register
  <2>1. disp = "none" /\ \A s \in found : FALSE
    BY <1>1 DEF Register
  <2> QED
    BY <1>1, <2>1 DEF Register
<1>2. CASE Dispense
  BY <1>2 DEF Dispense, DispenserBegins, StopAccepting, Drained, RemovesItself, Unregister, Dispenser
<1>3. CASE Accept
  BY <1>3 DEF Accept
<1>4. CASE ProxyEnds \/ Report
  <2>1. reqs' \in Requests /\ disp \notin Returned
    BY <1>4, RequestMoves
  <2>2. UNCHANGED <<loop, disp, stop, found>>
    BY <1>4 DEF ProxyEnds, Report
  <2> QED
    BY <2>1, <2>2
<1>5. CASE TakeDone
  BY <1>5 DEF TakeDone, InRevProxyWg
<1> QED
  BY <1>1, <1>2, <1>3, <1>4, <1>5

(* Steps of run() and of the start. *)
LEMMA RunInv ==
  ASSUME LifeInv,
         HealthPasses \/ HealthFails \/ RunBegins \/ TakeStat \/ LoopExits
         \/ HealthCheck
  PROVE  LifeInv'
BY DEF LifeInv, LifeTypeOK, StartedOnce, ReturnedIsEmpty, FoundBegan, FoundWaits, Concur,
       HealthPasses, HealthFails, RunBegins, TakeStat, LoopExits, HealthCheck, Goes

(* JoinAndStop, from its call to its end. *)
LEMMA StopInv ==
  ASSUME LifeInv, NEW s \in Stoppers,
         ConvergerStops(s) \/ HealthCheckStops(s) \/ ProxiesDone(s) \/ Remove(s)
  PROVE  LifeInv'
<1> USE DEF LifeInv, LifeTypeOK, Requests, StartedOnce, ReturnedIsEmpty, FoundBegan, FoundWaits,
            DispenserStates, Returned, Concur, InRevProxyWg
<1>1. CASE ConvergerStops(s) \/ HealthCheckStops(s)
  BY <1>1 DEF ConvergerStops, HealthCheckStops, JoinAndStop
<1>2. CASE ProxiesDone(s)
  BY <1>2 DEF ProxiesDone
<1>3. CASE Remove(s)
  BY <1>3 DEF Remove
<1> QED
  BY <1>1, <1>2, <1>3

LEMMA LifeNextInv == LifeInv /\ [StartingNext]_startingVars => LifeInv'
<1> SUFFICES ASSUME LifeInv, [StartingNext]_startingVars PROVE LifeInv'
  OBVIOUS
<1>1. CASE UNCHANGED lifeVars
  BY <1>1 DEF lifeVars, LifeInv, LifeTypeOK, StartedOnce, ReturnedIsEmpty, FoundBegan,
              FoundWaits, Concur
<1>2. CASE ConvergerEnds \/ Propagate \/ Dies
  BY <1>2 DEF ConvergerEnds, Propagate, Dies, LifeInv, LifeTypeOK, StartedOnce,
              ReturnedIsEmpty, FoundBegan, FoundWaits, Concur
<1>3. CASE LifeNext
  BY <1>2, <1>3, DispenserInv, RunInv, StopInv DEF LifeNext, Start, Stopping
<1> QED
  BY <1>1, <1>3 DEF StartingNext, LockOnly, LifeOnly, startingVars

(* No request is inside a container that such a call removes. *)
LEMMA RemoveIsDrained ==
  ASSUME LifeInv, NEW s \in Stoppers
  PROVE  RemovesDrained(s)
<1>1. /\ reqs.proxied \in Nat /\ reqs.reporting \in Nat /\ reqs.finished \in Nat
  BY DEF LifeInv, LifeTypeOK, Requests
<1>2. ASSUME Remove(s), s \in found
      PROVE  reqs.proxied + reqs.reporting + reqs.finished = 0
  BY <1>2 DEF Remove, LifeInv, FoundWaits, ReturnedIsEmpty, Concur
<1> QED
  BY <1>1, <1>2 DEF RemovesDrained

(* The invariant of a container's goroutines holds for any number of calls of
   JoinAndStop and any concurrency (container.go:130-237). *)
THEOREM LifeInductive == StartingSpec => []LifeInv
<1> QED
  BY LifeInitInv, LifeNextInv, PTL DEF StartingSpec

(* JoinAndStop lets the requests finish (container.go:135-148). *)
THEOREM JoinAndStopDrains == StartingSpec => RemovedDrained
<1>1. LifeInv => [LifeOnly => \A s \in Stoppers : RemovesDrained(s)]_startingVars
  BY RemoveIsDrained
<1> QED
  BY <1>1, LifeInductive, PTL DEF RemovedDrained
=============================================================================
