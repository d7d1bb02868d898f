--------------------------- MODULE ConvergeRegistry ---------------------------
(***************************************************************************)
(* The convergers of a node (pkg/converge/registry.go), the calls that     *)
(* reach them, StartStopComponents and the notifications of the service,   *)
(* and the shutdown of the process (cmd/maelstromd/maelstromd.go).         *)
(*                                                                         *)
(* A converger is reduced to the number of its containers and to the one   *)
(* thing it needs from the registry, the id of a new container.  Only      *)
(* Shutdown keeps the registry's lock from one step to another: the other  *)
(* sections under the lock are one step, taken while the lock is free.     *)
(***************************************************************************)
EXTENDS Integers, FiniteSets

CONSTANTS Comps,    \* components
          Reqs,     \* calls of StartStopComponents; one may follow another
          MaxConvs, \* bound of the model on convergers ever made
          MaxCount, \* bound of the model on a target's count
          MaxCalls, \* bound of the model on accepted calls
          MaxRemovals, \* bound of the model on removals of components
          None

ASSUME RegistryAssumption ==
  /\ MaxConvs \in Nat \ {0} /\ {MaxCount, MaxCalls, MaxRemovals} \subseteq Nat
  /\ None \notin Comps \cup Reqs

VARIABLES
  version,  \* Registry.version
  byComp,   \* Registry.byCompName; 0 is nil
  made,     \* convergers made so far: 1 .. made
  conv,     \* the convergers
  req,      \* the calls, each with the goroutine of its one target
  stored,   \* components in the database
  removals, \* how many removals there were
  notices,  \* components whose removal is still to be notified
  toStop,   \* convergers that "go cn.Stop()" will cancel
  phase     \* what HandleShutdownSignal does

vars == <<version, byComp, made, conv, req, stored, removals, notices, toStop, phase>>

Convs == 1 .. MaxConvs
Phases == {"running", "drained", "stopping", "stopped", "closed", "exited"}

Converger == [comp : Comps \cup {None}, count : 0 .. MaxCount, goal : 0 .. MaxCount,
              running : 0 .. MaxCount, run : {"none", "select", "converge", "create", "exited"},
              serving : Reqs \cup {None}, cancelled : BOOLEAN]
Call == [pc : {"idle", "check", "find", "set", "send", "wait"}, comp : Comps \cup {None},
         count : 0 .. MaxCount, at : 0 .. MaxCalls, conv : 0 .. MaxConvs]

TypeOK ==
  /\ version \in 0 .. MaxCalls /\ made \in 0 .. MaxConvs
  /\ byComp \in [Comps -> 0 .. made]
  /\ \A c \in Comps : byComp[c] # 0 => conv[byComp[c]].comp = c
  /\ conv \in [Convs -> Converger]
  /\ \A k \in Convs : conv[k].run = "none" <=> k > made
  /\ req \in [Reqs -> Call]
  /\ stored \subseteq Comps /\ removals \in 0 .. MaxRemovals /\ notices \subseteq Comps
  /\ toStop \subseteq 1 .. made
  /\ phase \in Phases

NoConverger == [comp |-> None, count |-> 0, goal |-> 0, running |-> 0,
                run |-> "none", serving |-> None, cancelled |-> FALSE]
NoCall == [pc |-> "idle", comp |-> None, count |-> 0, at |-> 0, conv |-> 0]

Init ==
  /\ version = 0 /\ made = 0
  /\ byComp = [c \in Comps |-> 0]
  /\ conv = [k \in Convs |-> NoConverger]
  /\ req = [r \in Reqs |-> NoCall]
  /\ stored = Comps /\ removals = 0 /\ notices = {} /\ toStop = {}
  /\ phase = "running"

(* Registry.lock can be taken. *)
Unlocked == phase # "stopping"
Up == phase # "exited"
Serving == phase \notin {"closed", "exited"}   \* the HTTP servers answer

-----------------------------------------------------------------------------
(* StartStopComponents and SetTargets.                                     *)

(* The caller has seen the registry's version; the handler has read the
   component. *)
StartStopComponents(r, c, n) ==
  /\ Serving /\ req[r].pc = "idle" /\ c \in stored
  /\ req' = [req EXCEPT ![r] = [pc |-> "check", comp |-> c, count |-> n,
                                at |-> version, conv |-> 0]]
  /\ UNCHANGED <<version, byComp, made, conv, stored, removals, notices, toStop, phase>>

(* Mutant: the version is compared and not increased. *)
CheckVersion_NoBump(r) ==
  /\ Up /\ Unlocked /\ req[r].pc = "check"
  /\ IF req[r].at = version
     THEN req' = [req EXCEPT ![r].pc = "find"]
     ELSE req' = [req EXCEPT ![r] = NoCall]
  /\ UNCHANGED <<version, byComp, made, conv, stored, removals, notices, toStop, phase>>

CheckVersion(r) ==
  /\ Up /\ Unlocked /\ req[r].pc = "check"
  /\ IF req[r].at = version
     THEN /\ version < MaxCalls /\ version' = version + 1
          /\ req' = [req EXCEPT ![r].pc = "find"]
     ELSE req' = [req EXCEPT ![r] = NoCall] /\ UNCHANGED version
  /\ UNCHANGED <<byComp, made, conv, stored, removals, notices, toStop, phase>>

NewConverger(k, c) ==
  conv' = [conv EXCEPT ![k] = [NoConverger EXCEPT !.comp = c, !.run = "select"]]

(* Mutant: made anew although there is one. *)
ByComponent_Always(r) ==
  /\ Up /\ Unlocked /\ req[r].pc = "find" /\ made < MaxConvs
  /\ made' = made + 1
  /\ byComp' = [byComp EXCEPT ![req[r].comp] = made + 1]
  /\ NewConverger(made + 1, req[r].comp)
  /\ req' = [req EXCEPT ![r].pc = "set", ![r].conv = made + 1]
  /\ UNCHANGED <<version, stored, removals, notices, toStop, phase>>

(* The goroutine of the target finds its converger, or makes and starts one. *)
ByComponent(r) ==
  LET k == byComp[req[r].comp] IN
  /\ Up /\ Unlocked /\ req[r].pc = "find"
  /\ \/ /\ k # 0
        /\ req' = [req EXCEPT ![r].pc = "set", ![r].conv = k]
        /\ UNCHANGED <<byComp, made, conv>>
     \/ /\ k = 0 /\ made < MaxConvs
        /\ made' = made + 1
        /\ byComp' = [byComp EXCEPT ![req[r].comp] = made + 1]
        /\ NewConverger(made + 1, req[r].comp)
        /\ req' = [req EXCEPT ![r].pc = "set", ![r].conv = made + 1]
  /\ UNCHANGED <<version, stored, removals, notices, toStop, phase>>

SetTarget(r) ==
  LET k == req[r].conv IN
  /\ Up /\ req[r].pc = "set"
  /\ conv' = [conv EXCEPT ![k].count = req[r].count]
  /\ req' = [req EXCEPT ![r].pc = "send"]
  /\ UNCHANGED <<version, byComp, made, stored, removals, notices, toStop, phase>>

-----------------------------------------------------------------------------
(* The convergers' run loops.                                              *)

Others == <<version, byComp, made, stored, removals, notices, toStop, phase>>

BeginConverge(k, r) ==
  conv' = [conv EXCEPT ![k].run = "converge", ![k].goal = conv[k].count, ![k].serving = r]

TakeSender(k, r) ==
  /\ Up /\ conv[k].run = "select" /\ req[r].pc = "send" /\ req[r].conv = k
  /\ BeginConverge(k, r)
  /\ req' = [req EXCEPT ![r].pc = "wait"]
  /\ UNCHANGED Others

(* The ticker, or a wake-up that nobody waits for. *)
Wake(k) ==
  /\ Up /\ conv[k].run = "select" /\ conv[k].running # conv[k].count
  /\ BeginConverge(k, None)
  /\ UNCHANGED <<req, Others>>

(* One more container is wanted: its id comes from the registry. *)
StartStep(k) ==
  /\ Up /\ conv[k].run = "converge" /\ conv[k].running < conv[k].goal
  /\ conv' = [conv EXCEPT ![k].run = "create"]
  /\ UNCHANGED <<req, Others>>

(* The end of converge, which answers the caller. *)
Answer(k) ==
  req' = IF conv[k].serving = None THEN req ELSE [req EXCEPT ![conv[k].serving] = NoCall]

(* Mutant: whoever is served is forgotten when a start fails. *)
CreateContainer_NoAnswer(k) ==
  /\ Up /\ Unlocked /\ conv[k].run = "create"
  /\ \/ /\ ~conv[k].cancelled
        /\ conv' = [conv EXCEPT ![k].run = "converge", ![k].running = @ + 1]
     \/ conv' = [conv EXCEPT ![k].run = "select", ![k].serving = None]
  /\ UNCHANGED <<req, Others>>

(* With its id the container is created and started; a start fails for many
   reasons, a cancelled context among them. *)
CreateContainer(k) ==
  /\ Up /\ Unlocked /\ conv[k].run = "create"
  /\ \/ /\ ~conv[k].cancelled
        /\ conv' = [conv EXCEPT ![k].run = "converge", ![k].running = @ + 1]
        /\ UNCHANGED req
     \/ /\ conv' = [conv EXCEPT ![k].run = "select", ![k].serving = None]
        /\ Answer(k)
  /\ UNCHANGED Others

StopStep(k) ==
  /\ Up /\ conv[k].run = "converge" /\ conv[k].running > conv[k].goal
  /\ conv' = [conv EXCEPT ![k].running = @ - 1]
  /\ UNCHANGED <<req, Others>>

Converged(k) ==
  /\ Up /\ conv[k].run = "converge" /\ conv[k].running = conv[k].goal
  /\ conv' = [conv EXCEPT ![k].run = "select", ![k].serving = None]
  /\ Answer(k)
  /\ UNCHANGED Others

Exit(k) ==
  /\ Up /\ conv[k].run = "select" /\ conv[k].cancelled
  /\ conv' = [conv EXCEPT ![k].run = "exited"]
  /\ UNCHANGED <<req, Others>>

(* Mutant: the containers go only while the run loop is there. *)
Drains_WithLoop(k) ==
  /\ Up /\ conv[k].cancelled /\ conv[k].running > 0 /\ conv[k].run # "exited"
  /\ conv' = [conv EXCEPT ![k].running = @ - 1]
  /\ UNCHANGED <<req, Others>>

(* The goroutine of a container whose context is cancelled removes it. *)
Drains(k) ==
  /\ Up /\ conv[k].cancelled /\ conv[k].running > 0
  /\ conv' = [conv EXCEPT ![k].running = @ - 1]
  /\ UNCHANGED <<req, Others>>

-----------------------------------------------------------------------------
(* Changes of the components, and what the registry does about them.       *)

(* The component is added again.  A version that replaces another reaches the
   converger as a new target, which Converger models. *)
PutComponent(c) ==
  /\ Serving /\ c \notin stored
  /\ stored' = stored \cup {c}
  /\ UNCHANGED <<version, byComp, made, conv, req, removals, notices, toStop, phase>>

RemoveComponent(c) ==
  /\ Serving /\ c \in stored /\ removals < MaxRemovals
  /\ removals' = removals + 1
  /\ stored' = stored \ {c}
  /\ notices' = notices \cup {c}
  /\ UNCHANGED <<version, byComp, made, conv, req, toStop, phase>>

OnRemoveComponent(c) ==
  LET k == byComp[c] IN
  /\ Up /\ Unlocked /\ c \in notices
  /\ notices' = notices \ {c}
  /\ byComp' = [byComp EXCEPT ![c] = 0]
  /\ toStop' = IF k = 0 THEN toStop ELSE toStop \cup {k}
  /\ UNCHANGED <<version, made, conv, req, stored, removals, phase>>

StopConverger(k) ==
  /\ Up /\ k \in toStop
  /\ toStop' = toStop \ {k}
  /\ conv' = [conv EXCEPT ![k].cancelled = TRUE]
  /\ UNCHANGED <<version, byComp, made, req, stored, removals, notices, phase>>

-----------------------------------------------------------------------------
(* HandleShutdownSignal.                                                   *)

(* The signal has come, and no request is in flight any more. *)
Drained ==
  /\ phase = "running" /\ phase' = "drained"
  /\ UNCHANGED <<version, byComp, made, conv, req, stored, removals, notices, toStop>>

(* Registry.Shutdown takes the lock and cancels every converger. *)
ShutdownBegins ==
  /\ phase = "drained" /\ phase' = "stopping"
  /\ conv' = [k \in Convs |-> IF \E c \in Comps : byComp[c] = k
                              THEN [conv[k] EXCEPT !.cancelled = TRUE] ELSE conv[k]]
  /\ UNCHANGED <<version, byComp, made, req, stored, removals, notices, toStop>>

(* It returns when all their run loops have. *)
ShutdownReturns ==
  /\ phase = "stopping" /\ phase' = "stopped"
  /\ \A c \in Comps : byComp[c] # 0 => conv[byComp[c]].run = "exited"
  /\ byComp' = [c \in Comps |-> 0]
  /\ UNCHANGED <<version, made, conv, req, stored, removals, notices, toStop>>

(* Server.Shutdown waits for the handlers, which are the calls that block. *)
CloseServers ==
  /\ phase = "stopped" /\ phase' = "closed"
  /\ \A r \in Reqs : req[r].pc = "idle"
  /\ UNCHANGED <<version, byComp, made, conv, req, stored, removals, notices, toStop>>

ProcessExits ==
  /\ phase = "closed" /\ phase' = "exited"
  /\ UNCHANGED <<version, byComp, made, conv, req, stored, removals, notices, toStop>>

-----------------------------------------------------------------------------
CallStep(r) ==
  \/ CheckVersion(r) \/ ByComponent(r) \/ SetTarget(r)

LoopStep(k) ==
  \/ StartStep(k) \/ CreateContainer(k) \/ StopStep(k) \/ Converged(k)

ShutdownStep == ShutdownBegins \/ ShutdownReturns \/ CloseServers \/ ProcessExits

Next ==
  \/ \E r \in Reqs : CallStep(r) \/ \E c \in Comps, n \in 0 .. MaxCount : StartStopComponents(r, c, n)
  \/ \E k \in 1 .. made : \/ LoopStep(k) \/ Wake(k) \/ Exit(k) \/ Drains(k) \/ StopConverger(k)
                          \/ \E r \in Reqs : TakeSender(k, r)
  \/ \E c \in Comps : PutComponent(c) \/ RemoveComponent(c)
  \/ \E c \in notices : OnRemoveComponent(c)
  \/ Drained \/ ShutdownStep

Spec == Init /\ [][Next]_vars

(* Goroutines run; the select of a run loop takes each of its ready cases in
   the end, and serves blocked senders in their order; the shutdown goes on
   whenever it can. *)
FairSpec ==
  /\ Spec
  /\ WF_vars(\E r \in Reqs : CallStep(r))
  /\ \A k \in Convs : WF_vars(k <= made /\ LoopStep(k))
  /\ SF_vars(\E k \in 1 .. made : Exit(k))
  /\ SF_vars(\E k \in 1 .. made, r \in Reqs : TakeSender(k, r))
  /\ WF_vars(\E k \in 1 .. made : StopConverger(k) \/ Drains(k))
  /\ WF_vars(\E c \in notices : OnRemoveComponent(c))
  /\ WF_vars(ShutdownStep)
-----------------------------------------------------------------------------
Accepted(r) == req[r].pc \in {"find", "set", "send", "wait"}

(* "if the target's version differs ... this operation will be rejected"
   (idl/maelstrom.idl:903-905): of several callers that saw the same version
   at most one gets through (registry.go:152-158). *)
OneCallPerVersion ==
  \A r, q \in Reqs : r # q /\ Accepted(r) /\ Accepted(q) => req[r].at # req[q].at

(* Every converger that was not told to stop is in the map, where Shutdown
   finds it, or is about to be stopped (registry.go:69-84, 96-137): calls that
   race each other or a removal never make one that nobody stops. *)
EveryConvergerIsStopped ==
  \A k \in 1 .. made : conv[k].cancelled \/ k \in toStop \/ byComp[conv[k].comp] = k

(* A run loop works for at most one caller, who waits for it, and every caller
   that waits has one (registry.go:163-170, converger.go:262-266): an answer
   goes to whom it belongs. *)
AnswersMatch ==
  \A r \in Reqs :
    req[r].pc = "wait" <=> \E k \in 1 .. made : conv[k].serving = r /\ req[r].conv = k

(* An accepted call returns (registry.go:158-175), unless its converger was
   removed or the process shuts down: then nobody may be left to answer it. *)
AcceptedCallReturns ==
  \A r \in Reqs :
    Accepted(r) ~>
      \/ req[r].pc = "idle" \/ phase # "running"
      \/ req[r].conv # 0 /\ conv[req[r].conv].cancelled

(* A converger that was told to stop leaves no container (registry.go:96-107,
   container.go:183-199), unless the process ends first. *)
StoppedIsEmptied ==
  \A k \in Convs : conv[k].cancelled /\ phase = "running" ~>
                     (conv[k].running = 0 /\ conv[k].run = "exited") \/ phase # "running"

(* "Maelstrom attempts to shutdown gracefully" (docs/gitbook/production/
   shutdown.md:4-5): Registry.Shutdown returns. *)
ShutdownFinishes == phase = "stopping" ~> phase # "stopping"

(* "Stop running containers" is the last step of the sequence (docs/gitbook/
   production/shutdown.md:16): when the process exits no container runs. *)
NothingRunsAfterExit ==
  phase = "exited" => \A k \in 1 .. made : conv[k].running = 0
=============================================================================
