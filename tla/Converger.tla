------------------------------ MODULE Converger ------------------------------
(***************************************************************************)
(* The converger of one component on one node                              *)
(* (pkg/converge/converger.go): the run loop that makes plans and applies  *)
(* their steps, and the goroutines that touch its state meanwhile: the one *)
(* that delivers Docker's events, the ones that set a new target or a new  *)
(* version, and Stop.                                                      *)
(*                                                                         *)
(* The list of containers is a Go slice.  Removals shift its array in      *)
(* place, and plan and stopAndRemoveContainer read the array without the   *)
(* lock: views keeps what such a reader has read and will read.  Whenever  *)
(* the array changes, the model chooses how far the reader had come.       *)
(***************************************************************************)
EXTENDS ConvergePlan, FiniteSets

CONSTANTS Ids,       \* container ids; one that nothing refers to is used again
          Versions,  \* versions of the component
          MaxCount,  \* bound of the model on a target's count
          MaxChanges, \* bound of the model on what happens to the converger: new
                      \* targets and images, ticks, containers that die, failed calls
          OrderOf,   \* restartOrder of each version of the component
          Callers,   \* goroutines of SetTargets
          Setters,   \* goroutines of OnComponentNotification
          None

ASSUME ConvergerAssumption ==
  /\ Ids \subseteq Nat \ {0} /\ MaxCount \in Nat /\ MaxChanges \in Nat
  /\ OrderOf \in [Versions -> RestartOrders]
  /\ None \notin Callers /\ None \notin Ids

VARIABLES
  target,     \* currentTarget: version and count
  list,       \* containers: the ids, in order
  ver,        \* Container.component.Version
  reason,     \* Container.terminateReason
  known,      \* Container.containerId has been set
  docker,     \* the Docker container: "none", "up" or "dead"
  ran,        \* containers whose run goroutine was started
  views,      \* what the unlocked readers "run" and "event" see of the array
  pc,         \* control state of the run loop
  cur,        \* container of the step the run loop is in
  steps,      \* steps of the plan still to apply
  base,       \* the list's length and the target's count and order when converge()
              \* began, and how many were removed while it read the list
  serving,    \* caller whose doneCh the run loop will answer
  failed,     \* the last converge ended with an error
  epc,        \* control state of the event goroutine
  eid,        \* container of the event it handles
  events,     \* exit events that Docker has still to deliver
  wake,       \* goroutines blocked on runCh that nobody waits for
  cpc,        \* callers: "idle", "sending" to runCh or "waiting" for doneCh
  copy,       \* what a setter's GetTarget returned
  cancelled,  \* Stop has cancelled the context
  changes     \* how many changes have happened

containersVars == <<list, ver, reason, known, docker, ran, views>>
loopVars == <<pc, cur, steps, base, serving, failed>>
eventVars == <<epc, eid, events>>
callVars == <<target, wake, cpc, copy>>
worldVars == <<cancelled, changes>>
vars == <<containersVars, loopVars, eventVars, callVars, worldVars>>

Targets == [ver : Versions, count : 0 .. MaxCount]
NoBase == [len |-> 0, count |-> 0, order |-> Unset, gone |-> 0]
NoView == [seq |-> <<>>, at |-> -1]
Readers == {"run", "event"}

TypeOK ==
  /\ target \in Targets
  /\ list \in Seq(Ids) /\ Cardinality({list[i] : i \in DOMAIN list}) = Len(list)
  /\ ver \in [Ids -> Versions]
  /\ reason \in [Ids -> STRING]
  /\ known \in [Ids -> BOOLEAN]
  /\ docker \in [Ids -> {"none", "up", "dead"}]
  /\ ran \subseteq Ids
  /\ \A g \in Readers : views[g].seq \in Seq(Ids) /\ views[g].at >= -1
  /\ pc \in {"select", "scan", "next", "lock", "start", "assign", "health", "fail",
             "unlist", "find", "stopping", "remove", "exited"}
  /\ cur \in Ids \cup {None}
  /\ serving \in Callers \cup {None}
  /\ epc \in {"idle", "find", "stopping", "remove", "wake"}
  /\ eid \in Ids \cup {None}
  /\ events \in Seq(Ids)
  /\ cpc \in [Callers -> {"idle", "sending", "waiting"}]
  /\ copy \in [Setters -> Targets \cup {None}]
  /\ {failed, cancelled} \subseteq BOOLEAN /\ wake \in Nat
  /\ changes \in 0 .. MaxChanges

Init ==
  /\ target = [ver |-> CHOOSE v \in Versions : TRUE, count |-> 0]
  /\ list = <<>>
  /\ ver = [i \in Ids |-> CHOOSE v \in Versions : TRUE]
  /\ reason = [i \in Ids |-> Unset]
  /\ known = [i \in Ids |-> FALSE]
  /\ docker = [i \in Ids |-> "none"]
  /\ ran = {}
  /\ views = [g \in Readers |-> NoView]
  /\ pc = "select" /\ cur = None /\ steps = <<>>
  /\ base = NoBase
  /\ serving = None /\ failed = FALSE
  /\ epc = "idle" /\ eid = None /\ events = <<>>
  /\ wake = 0
  /\ cpc = [c \in Callers |-> "idle"]
  /\ copy = [s \in Setters |-> None]
  /\ cancelled = FALSE /\ changes = 0

-----------------------------------------------------------------------------
(* The list and its unlocked readers.                                      *)

Listed == {list[i] : i \in DOMAIN list}
Without(seq, id) == RemoveFirst(seq, id)   \* no id is listed twice
Seen(g) == {views[g].seq[i] : i \in DOMAIN views[g].seq}

(* The reader had read the first i elements when the array became arr. *)
Torn(view, arr, i) ==
  [seq |-> [j \in DOMAIN view.seq |->
              IF j > i /\ j \in DOMAIN arr THEN arr[j] ELSE view.seq[j]],
   at |-> i]

(* The array becomes arr; a reader g that is in its loop may be anywhere. *)
Disturb(g, arr) ==
  \E i \in views[g].at .. Len(views[g].seq) :
    views' = [views EXCEPT ![g] = IF @ = NoView THEN NoView ELSE Torn(@, arr, i)]

Other(g) == IF g = "run" THEN "event" ELSE "run"

(* Removal of id by g, in place: what follows it moves up, and the last slot
   keeps its old content. *)
RemoveFromList(g, id) ==
  /\ list' = Without(list, id)
  /\ IF id \in Listed
     THEN Disturb(Other(g), Append(Without(list, id), list[Len(list)]))
     ELSE UNCHANGED views

(* The container is gone; Docker tells about it. *)
Kill(id) ==
  IF docker[id] = "up"
  THEN /\ docker' = [docker EXCEPT ![id] = "dead"]
       /\ events' = Append(events, id)
  ELSE UNCHANGED <<docker, events>>

(* An id that nobody remembers stands for the next one of the counter. *)
Unused(id) ==
  /\ id \notin Listed /\ docker[id] # "up"
  /\ id # cur /\ id # eid
  /\ \A i \in DOMAIN events : events[i] # id
  /\ \A i \in DOMAIN steps : steps[i].op = "stop" => steps[i].id # id
  /\ \A g \in Readers : id \notin Seen(g)

NextId == CHOOSE id \in Ids : Unused(id) /\ \A j \in Ids : Unused(j) => id <= j

(* Something happens to the converger; the model counts it. *)
Change == changes < MaxChanges /\ changes' = changes + 1 /\ UNCHANGED cancelled

-----------------------------------------------------------------------------
(* The run loop.                                                           *)

BeginConverge ==
  /\ pc = "select"
  /\ pc' = "scan"
  /\ views' = [views EXCEPT !["run"] = [seq |-> list, at |-> 0]]
  /\ base' = [len |-> Len(list), count |-> target.count, order |-> OrderOf[target.ver],
              gone |-> 0]
  /\ failed' = FALSE
  /\ UNCHANGED <<list, ver, reason, known, docker, ran, cur, eventVars, target, copy>>

TakeCaller(c) ==
  /\ cpc[c] = "sending"
  /\ BeginConverge
  /\ serving' = c /\ cpc' = [cpc EXCEPT ![c] = "waiting"]
  /\ steps' = <<[op |-> "target", ver |-> target.ver]>>
  /\ UNCHANGED <<wake, worldVars>>

(* Serve a goroutine that nobody waits for. *)
TakeWake ==
  /\ wake > 0 /\ wake' = wake - 1
  /\ BeginConverge
  /\ serving' = None
  /\ steps' = <<[op |-> "target", ver |-> target.ver]>>
  /\ UNCHANGED <<cpc, worldVars>>

(* The ticker fires. *)
Tick ==
  /\ Change
  /\ BeginConverge
  /\ serving' = None
  /\ steps' = <<[op |-> "target", ver |-> target.ver]>>
  /\ UNCHANGED <<wake, cpc>>

(* converge() returns; doneCh, if any, is answered. *)
EndConverge ==
  /\ pc' = "select"
  /\ steps' = <<>> /\ cur' = None /\ base' = NoBase
  /\ serving' = None
  /\ cpc' = IF serving = None THEN cpc ELSE [cpc EXCEPT ![serving] = "idle"]

(* Mutant: an error leaves the caller without an answer. *)
Abort_NoAnswer ==
  /\ pc' = "select"
  /\ steps' = <<>> /\ cur' = None /\ base' = NoBase
  /\ serving' = None /\ failed' = TRUE
  /\ UNCHANGED cpc

Abort == EndConverge /\ failed' = TRUE

Record(id) == [id |-> id, ver |-> ver[id], reason |-> reason[id]]
Records(seq) == [i \in DOMAIN seq |-> Record(seq[i])]
FullTarget(v, n) == [ver |-> v, count |-> n, para |-> Unset, order |-> OrderOf[v]]

(* plan has read the list, or what became of it. *)
MakePlan ==
  LET plan == Plan(Records(views["run"].seq), FullTarget(Head(steps).ver, base.count)) IN
  /\ pc = "scan"
  /\ views' = [views EXCEPT !["run"] = NoView]
  /\ \/ /\ pc' = "next" /\ steps' = plan.steps
        /\ UNCHANGED <<cur, serving, failed, base, cpc, worldVars>>
     \/ plan.pull /\ Abort /\ Change   \* the image cannot be pulled
  /\ UNCHANGED <<list, ver, reason, known, docker, ran, eventVars, target,
                 wake, copy>>

Converged ==
  /\ pc = "next" /\ steps = <<>>
  /\ EndConverge
  /\ UNCHANGED <<containersVars, failed, eventVars, target, wake, copy, worldVars>>

NextStep ==
  /\ pc = "next" /\ steps # <<>>
  /\ IF Head(steps).op = "start"
     THEN pc' = "lock" /\ UNCHANGED <<cur, views>>
     ELSE /\ pc' = "find" /\ cur' = Head(steps).id
          /\ views' = [views EXCEPT !["run"] = [seq |-> list, at |-> 0]]
  /\ UNCHANGED <<list, ver, reason, known, docker, ran, steps, base, serving, failed,
                 eventVars, callVars, worldVars>>

(* Locked, or not needed: create the container and add it to the list. *)
Create ==
  LET id == NextId IN
  /\ pc = "lock" /\ \E i \in Ids : Unused(i)
  /\ pc' = "start" /\ cur' = id
  /\ list' = Append(list, id)
  /\ Disturb("event", Append(list, id))
  /\ ver' = [ver EXCEPT ![id] = Head(steps).ver]
  /\ reason' = [reason EXCEPT ![id] = Unset]
  /\ known' = [known EXCEPT ![id] = FALSE]
  /\ docker' = [docker EXCEPT ![id] = "none"]
  /\ ran' = ran \ {id}
  /\ UNCHANGED <<steps, base, serving, failed, eventVars, callVars, worldVars>>

(* The lock's database failed, or Stop was called. *)
LockFails ==
  /\ pc = "lock"
  /\ Abort
  /\ (cancelled /\ UNCHANGED worldVars) \/ Change
  /\ UNCHANGED <<containersVars, eventVars, target, wake, copy>>

StartContainer ==
  /\ pc = "start"
  /\ \/ pc' = "assign" /\ docker' = [docker EXCEPT ![cur] = "up"] /\ UNCHANGED worldVars
     \/ pc' = "fail" /\ UNCHANGED docker /\ Change
  /\ UNCHANGED <<list, ver, reason, known, ran, views, cur, steps, base, serving,
                 failed, eventVars, callVars>>

(* ... and inspect it, which fails once Stop was called. *)
AssignId ==
  /\ pc = "assign"
  /\ pc' = IF cancelled THEN "fail" ELSE "health"
  /\ known' = [known EXCEPT ![cur] = TRUE]
  /\ UNCHANGED <<list, ver, reason, docker, ran, views, cur, steps, base, serving,
                 failed, eventVars, callVars, worldVars>>

(* Mutant: nobody proxies to the container, or stops it at the end. *)
HealthPasses_NoRun ==
  /\ pc = "health" /\ docker[cur] = "up"
  /\ pc' = "next" /\ cur' = None
  /\ steps' = Tail(steps)
  /\ UNCHANGED <<list, ver, reason, known, docker, ran, views, base, serving, failed,
                 eventVars, callVars, worldVars>>

(* The health check passes; the container's run goroutine is started and the
   step is over. *)
HealthPasses ==
  /\ pc = "health" /\ docker[cur] = "up"
  /\ pc' = "next" /\ cur' = None
  /\ ran' = ran \cup {cur}
  /\ steps' = Tail(steps)
  /\ UNCHANGED <<list, ver, reason, known, docker, views, base, serving, failed,
                 eventVars, callVars, worldVars>>

(* Not healthy in time, or the context was cancelled. *)
HealthFails ==
  /\ pc = "health"
  /\ pc' = "fail"
  /\ ((cancelled \/ docker[cur] = "dead") /\ UNCHANGED worldVars) \/ Change
  /\ UNCHANGED <<containersVars, cur, steps, base, serving, failed, eventVars,
                 callVars>>

(* Mutant: forgotten without being stopped. *)
StopFailed_NoStop ==
  /\ pc = "fail"
  /\ pc' = "unlist"
  /\ UNCHANGED <<containersVars, cur, steps, base, serving, failed, eventVars,
                 callVars, worldVars>>

(* stopContainerQuietly, then removeContainer. *)
StopFailed ==
  /\ pc = "fail"
  /\ pc' = "unlist"
  /\ Kill(cur)
  /\ UNCHANGED <<list, ver, reason, known, ran, views, cur, steps, base, serving,
                 failed, epc, eid, callVars, worldVars>>

Unlist ==
  /\ pc = "unlist"
  /\ RemoveFromList("run", cur)
  /\ Abort
  /\ UNCHANGED <<ver, reason, known, docker, ran, eventVars, target, wake, copy,
                 worldVars>>

(* stopAndRemoveContainer of a stop step: search, stop, remove. *)
Find ==
  /\ pc = "find"
  /\ views' = [views EXCEPT !["run"] = NoView]
  /\ IF cur \in Seen("run")
     THEN pc' = "stopping" /\ UNCHANGED <<cur, steps>>
     ELSE pc' = "next" /\ cur' = None /\ steps' = Tail(steps)
  /\ UNCHANGED <<list, ver, reason, known, docker, ran, base, serving, failed,
                 eventVars, callVars, worldVars>>

(* JoinAndStop has returned. *)
Stopped ==
  /\ pc = "stopping"
  /\ pc' = "remove"
  /\ Kill(cur)
  /\ UNCHANGED <<list, ver, reason, known, ran, views, cur, steps, base, serving,
                 failed, epc, eid, callVars, worldVars>>

(* Mutant: the stopped container stays in the list. *)
Removed_Kept ==
  /\ pc = "remove"
  /\ pc' = "next" /\ cur' = None /\ steps' = Tail(steps)
  /\ UNCHANGED <<containersVars, base, serving, failed, eventVars, callVars, worldVars>>

Removed ==
  /\ pc = "remove"
  /\ pc' = "next" /\ cur' = None /\ steps' = Tail(steps)
  /\ RemoveFromList("run", cur)
  /\ UNCHANGED <<ver, reason, known, docker, ran, base, serving, failed, eventVars,
                 callVars, worldVars>>

Exit ==
  /\ pc = "select" /\ cancelled
  /\ pc' = "exited"
  /\ UNCHANGED <<containersVars, cur, steps, base, serving, failed, eventVars,
                 callVars, worldVars>>

-----------------------------------------------------------------------------
(* The goroutine that delivers Docker's events, one at a time.             *)

ContainerExited ==
  /\ epc = "idle" /\ events # <<>>
  /\ epc' = "find" /\ eid' = Head(events) /\ events' = Tail(events)
  /\ views' = [views EXCEPT !["event"] = [seq |-> list, at |-> 0]]
  /\ UNCHANGED <<list, ver, reason, known, docker, ran, loopVars, callVars, worldVars>>

EventFind ==
  /\ epc = "find"
  /\ epc' = IF eid \in Seen("event") /\ known[eid] THEN "stopping" ELSE "wake"
  /\ views' = [views EXCEPT !["event"] = NoView]
  /\ UNCHANGED <<list, ver, reason, known, docker, ran, loopVars, eid, events, callVars,
                 worldVars>>

EventStopped ==
  /\ epc = "stopping"
  /\ epc' = "remove"
  /\ Kill(eid)
  /\ UNCHANGED <<list, ver, reason, known, ran, views, loopVars, eid, callVars, worldVars>>

EventRemove ==
  /\ epc = "remove"
  /\ epc' = "wake"
  /\ RemoveFromList("event", eid)
  /\ base' = IF pc = "scan" /\ eid \in Listed THEN [base EXCEPT !.gone = @ + 1] ELSE base
  /\ UNCHANGED <<ver, reason, known, docker, ran, pc, cur, steps, serving, failed, eid,
                 events, callVars, worldVars>>

(* A goroutine is left behind that sends on runCh. *)
EventDone ==
  /\ epc = "wake"
  /\ epc' = "idle" /\ eid' = None
  /\ wake' = wake + 1
  /\ UNCHANGED <<containersVars, loopVars, events, target, cpc, copy, worldVars>>

(* ImageUpdated: markContainersForTermination, which wakes the loop too. *)
ImageUpdated ==
  /\ epc = "idle"
  /\ Change
  /\ reason' = [i \in Ids |-> IF i \in Listed THEN "docker image updated" ELSE reason[i]]
  /\ wake' = wake + 2
  /\ UNCHANGED <<list, ver, known, docker, ran, views, loopVars, eventVars, target, cpc,
                 copy>>

-----------------------------------------------------------------------------
(* Callers, and the world outside.                                         *)

SetTarget(c, t) ==
  /\ Change
  /\ cpc[c] = "idle"
  /\ target' = t
  /\ cpc' = [cpc EXCEPT ![c] = "sending"]
  /\ UNCHANGED <<containersVars, loopVars, eventVars, wake, copy>>

(* SetComponent is GetTarget and SetTarget, each with the lock. *)
SetComponentGet(s) ==
  /\ Change
  /\ copy[s] = None
  /\ copy' = [copy EXCEPT ![s] = target]
  /\ UNCHANGED <<containersVars, loopVars, eventVars, target, wake, cpc>>

(* Mutant: the target is set and nobody is told. *)
SetComponentSet_NoWake(s, v) ==
  /\ copy[s] # None
  /\ target' = [copy[s] EXCEPT !.ver = v]
  /\ copy' = [copy EXCEPT ![s] = None]
  /\ UNCHANGED <<containersVars, loopVars, eventVars, wake, cpc, worldVars>>

SetComponentSet(s, v) ==
  /\ copy[s] # None
  /\ target' = [copy[s] EXCEPT !.ver = v]
  /\ copy' = [copy EXCEPT ![s] = None]
  /\ wake' = wake + 1
  /\ UNCHANGED <<containersVars, loopVars, eventVars, cpc, worldVars>>

Stop ==
  /\ ~cancelled
  /\ cancelled' = TRUE
  /\ UNCHANGED <<containersVars, loopVars, eventVars, callVars, changes>>

(* A container exits by itself, or its own health check stops it. *)
Dies(id) ==
  /\ Change
  /\ docker[id] = "up" /\ Len(events) < Cardinality(Ids)
  /\ Kill(id)
  /\ UNCHANGED <<list, ver, reason, known, ran, views, loopVars, epc, eid, callVars>>

(* The containers' contexts are children of the converger's: their dispensers
   return and each removes its container. *)
Drains(id) ==
  /\ cancelled /\ id \in ran /\ docker[id] = "up"
  /\ Kill(id)
  /\ UNCHANGED <<list, ver, reason, known, ran, views, loopVars, epc, eid, callVars,
                 worldVars>>

-----------------------------------------------------------------------------
LoopStep ==
  \/ MakePlan \/ Converged \/ NextStep \/ Create \/ LockFails
  \/ StartContainer \/ AssignId \/ HealthPasses \/ HealthFails
  \/ StopFailed \/ Unlist \/ Find \/ Stopped \/ Removed

EventStep ==
  ContainerExited \/ EventFind \/ EventStopped \/ EventRemove \/ EventDone

Next ==
  \/ LoopStep \/ EventStep \/ Exit \/ TakeWake \/ Tick \/ ImageUpdated \/ Stop
  \/ \E c \in Callers : TakeCaller(c) \/ \E t \in Targets : SetTarget(c, t)
  \/ \E s \in Setters : SetComponentGet(s) \/ \E v \in Versions : SetComponentSet(s, v)
  \/ \E id \in Ids : Dies(id) \/ Drains(id)

Spec == Init /\ [][Next]_vars

(* The goroutines run; blocked senders on runCh are served in their order, and
   a select with several ready cases picks each of them in the end. *)
FairSpec ==
  /\ Spec
  /\ WF_vars(LoopStep) /\ WF_vars(EventStep)
  /\ SF_vars(Exit) /\ \A c \in Callers : SF_vars(TakeCaller(c))
  /\ \A id \in Ids : WF_vars(Drains(id))
-----------------------------------------------------------------------------
(* Every running container can be found: it is in the list until it has been
   stopped (converger.go:221-254, 358-367), whatever an exit event does to a
   container that is still being started. *)
NoOrphan ==
  \A id \in Ids : docker[id] = "up" => id \in Listed

(* No wake-up is lost (converger.go:143-150, 167-182, 256-273): when the run
   loop rests, nobody is about to wake it and its last converge succeeded,
   the plan for the current target is empty.  A target set, an image updated
   or a container removed in the middle of a converge is noticed after it, and
   so is a plan made from a torn reading of the list. *)
Resting ==
  /\ pc = "select" /\ ~failed /\ ~cancelled
  /\ wake = 0 /\ \A c \in Callers : cpc[c] = "idle"
  /\ epc = "idle" /\ events = <<>>
QuietIsConverged ==
  Resting => Plan(Records(list), FullTarget(target.ver, target.count)).steps = <<>>

(* A converge never runs more containers than the larger of what it found and
   what it was asked for, and one more with startstop (converger.go:436-465;
   docs/gitbook/appendix/project_yaml_ref.md:134-139), though exits and events
   change the list under it.  A removal while plan reads the list without the
   lock (converger.go:221-254, 387-418) can hide a container from it: one more
   for each of them. *)
MemoryBounded ==
  pc \notin {"select", "exited"} =>
    Len(list) <= (IF base.len > base.count THEN base.len ELSE base.count)
                 + (IF base.order = "startstop" THEN 1 ELSE 0) + base.gone

(* "will be considered non-responsive and will be restarted"
   (docs/gitbook/appendix/project_yaml_ref.md:275-276): when the converger
   rests, all containers it counts are running. *)
AllAlive ==
  Resting => \A id \in Listed : docker[id] = "up"

(* SetTargets gets its answer (converger.go:143-150, 256-266; registry.go:168-169)
   unless the converger is stopped. *)
CallerAnswered ==
  \A c \in Callers : cpc[c] # "idle" ~> cpc[c] = "idle" \/ cancelled

(* Stop leaves no container behind, in whatever phase it meets the run loop
   (converger.go:189-192, 256-273, 342-370). *)
StopCleansUp ==
  cancelled ~> pc = "exited" /\ \A id \in Ids : docker[id] # "up"
=============================================================================
