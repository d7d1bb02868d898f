--------------------------- MODULE ContainerLife ---------------------------
(***************************************************************************)
(* One container (pkg/converge/container.go) from the moment Docker has     *)
(* started it: the health check of its start, the goroutine of run(), the   *)
(* goroutine of its dispenser, the requests handed to it, and every call of *)
(* JoinAndStop, from a plan, an exit event or a failed health check.  The   *)
(* wait groups are the goroutines that are between their Add and Done.      *)
(***************************************************************************)
EXTENDS Integers

CONSTANTS Stoppers,     \* calls of JoinAndStop: a bound of the model
          MaxConc,      \* maxConcurrency(component): the dispenser's limit and
                        \* the capacity of statCh
          MaxFailures   \* healthCheckMaxFailures

ASSUME ContainerLifeAssumption == MaxConc \in Nat \ {0} /\ MaxFailures \in Nat \ {0}

VARIABLES alive,      \* the Docker container runs
          loop,       \* control state of the start and of run()
          disp,       \* control state of the dispenser's goroutine
          reqs,       \* requests handed over, by what they do
          stats,      \* number of durations in statCh
          fails,      \* healthCheckFailures
          ended,      \* contexts that are cancelled: "parent", "revProxy", "ctx"
          stop,       \* stop[s]: control state of a call of JoinAndStop
          found       \* calls that began when the dispenser was at work (history)

lifeVars == <<alive, loop, disp, reqs, stats, fails, ended, stop, found>>

InRevProxyWg == disp \in {"serving", "draining"}
InRunWg == loop \in {"registering", "looping"}
Concur == reqs.proxied + reqs.reporting + reqs.finished

LifeInit ==
  /\ alive = TRUE
  /\ loop = "checking"
  /\ disp = "none"
  /\ reqs = [proxied |-> 0, reporting |-> 0, finished |-> 0]
  /\ stats = 0
  /\ fails = 0
  /\ ended = {}
  /\ stop = [s \in Stoppers |-> "idle"]
  /\ found = {}
-----------------------------------------------------------------------------
(* A step of the goroutine that starts the container and then is run(). *)
Goes(from, to) ==
  /\ loop = from /\ loop' = to
  /\ UNCHANGED <<disp, reqs, stats, fails, ended, stop, found>>

(* The health check of the start passes, and the converger goes on with
   `go container.run()`; or it fails, or the converger was stopped. *)
HealthPasses == alive /\ Goes("checking", "scheduled") /\ UNCHANGED alive
HealthFails == Goes("checking", "failed") /\ alive' = FALSE

(* runWg.Add, and after the last case of the loop runWg.Done. *)
RunBegins == Goes("scheduled", "registering") /\ UNCHANGED alive
LoopExits == "ctx" \in ended /\ Goes("looping", "exited") /\ UNCHANGED alive

(* HandlerStartLocal, and the dispenser's goroutine is started. *)
Register ==
  /\ loop = "registering"
  /\ loop' = "looping"
  /\ disp' = "new"
  /\ UNCHANGED <<alive, reqs, stats, fails, ended, stop, found>>

(* A duration comes from statCh. *)
TakeStat ==
  /\ loop = "looping" /\ stats > 0
  /\ stats' = stats - 1
  /\ UNCHANGED <<alive, loop, disp, reqs, fails, ended, stop, found>>
-----------------------------------------------------------------------------
(* A step of the dispenser's goroutine: revProxyWg.Add and Run, which returns
   when nothing is inside; the deferred stopContainerQuietly, then the deferred
   HandlerStop. *)
Dispenser(from, to) ==
  /\ disp = from /\ disp' = to
  /\ UNCHANGED <<loop, reqs, stats, fails, ended, stop, found>>

DispenserBegins == Dispenser("new", "serving") /\ UNCHANGED alive
StopAccepting == "revProxy" \in ended /\ Dispenser("serving", "draining") /\ UNCHANGED alive
Drained == Concur = 0 /\ Dispenser("draining", "removing") /\ UNCHANGED alive
RemovesItself == Dispenser("removing", "leaving") /\ alive' = FALSE
Unregister == Dispenser("leaving", "gone") /\ UNCHANGED alive

(* A request is ready at any time; select may take it though the context is
   cancelled.  With SoftConcurrencyLimit there is no limit but those of the
   requests: MaxConc is then a bound of the model. *)
Accept ==
  /\ disp = "serving" /\ Concur < MaxConc
  /\ reqs' = [reqs EXCEPT !.proxied = @ + 1]
  /\ UNCHANGED <<alive, loop, disp, stats, fails, ended, stop, found>>

(* The proxied call is over; after a panic, which is recovered, nothing is
   reported. *)
ProxyEnds ==
  /\ reqs.proxied > 0
  /\ \/ reqs' = [reqs EXCEPT !.proxied = @ - 1, !.reporting = @ + 1]
     \/ reqs' = [reqs EXCEPT !.proxied = @ - 1, !.finished = @ + 1]
  /\ UNCHANGED <<alive, loop, disp, stats, fails, ended, stop, found>>

(* Mutant: the send on statCh does not look at the context. *)
Report_Blocks ==
  /\ reqs.reporting > 0
  /\ stats < MaxConc
  /\ stats' = stats + 1
  /\ reqs' = [reqs EXCEPT !.reporting = @ - 1, !.finished = @ + 1]
  /\ UNCHANGED <<alive, loop, disp, fails, ended, stop, found>>

(* The duration is sent, or the context of the proxies is done. *)
Report ==
  /\ reqs.reporting > 0
  /\ \/ stats < MaxConc /\ stats' = stats + 1
     \/ "revProxy" \in ended /\ UNCHANGED stats
  /\ reqs' = [reqs EXCEPT !.reporting = @ - 1, !.finished = @ + 1]
  /\ UNCHANGED <<alive, loop, disp, fails, ended, stop, found>>

TakeDone ==
  /\ InRevProxyWg /\ reqs.finished > 0
  /\ reqs' = [reqs EXCEPT !.finished = @ - 1]
  /\ UNCHANGED <<alive, loop, disp, stats, fails, ended, stop, found>>
-----------------------------------------------------------------------------
(* JoinAndStop is called: the proxies' context is cancelled. *)
JoinAndStop(s) ==
  /\ stop[s] = "idle"
  /\ stop' = [stop EXCEPT ![s] = "proxies"]
  /\ ended' = ended \cup {"revProxy"}
  /\ found' = IF InRevProxyWg THEN found \cup {s} ELSE found
  /\ UNCHANGED <<alive, disp, reqs, stats>>

(* By the converger: a step of its plan, once the start is over, or the exit
   event of a container that has died. *)
ConvergerStops(s) ==
  /\ loop \in {"checking", "failed"} => ~alive
  /\ JoinAndStop(s)
  /\ UNCHANGED <<loop, fails>>

(* runHealthCheck. *)
HealthCheck ==
  /\ loop = "looping"
  /\ \/ alive /\ fails' = 0
     \/ fails + 1 < MaxFailures /\ fails' = fails + 1
  /\ UNCHANGED <<alive, loop, disp, reqs, stats, ended, stop, found>>

(* One failure too many: `go JoinAndStop`, and the count starts again. *)
HealthCheckStops(s) ==
  /\ loop = "looping" /\ fails + 1 = MaxFailures
  /\ JoinAndStop(s)
  /\ fails' = 0
  /\ UNCHANGED loop

(* Mutant: the run loop is told to stop before the proxies have finished. *)
ProxiesDone_NoWait(s) ==
  /\ stop[s] = "proxies"
  /\ stop' = [stop EXCEPT ![s] = "loop"]
  /\ ended' = ended \cup {"ctx"}
  /\ UNCHANGED <<alive, loop, disp, reqs, stats, fails, found>>

(* revProxyWg.Wait returns; ctx is cancelled. *)
ProxiesDone(s) ==
  /\ stop[s] = "proxies" /\ ~InRevProxyWg
  /\ stop' = [stop EXCEPT ![s] = "loop"]
  /\ ended' = ended \cup {"ctx"}
  /\ UNCHANGED <<alive, loop, disp, reqs, stats, fails, found>>

(* runWg.Wait returns; the container is removed. *)
Remove(s) ==
  /\ stop[s] = "loop" /\ ~InRunWg
  /\ stop' = [stop EXCEPT ![s] = "done"]
  /\ alive' = FALSE
  /\ UNCHANGED <<loop, disp, reqs, stats, fails, ended, found>>

(* Converger.Stop cancels the parent of both contexts, which end in turn. *)
ConvergerEnds ==
  /\ ended' = ended \cup {"parent"}
  /\ UNCHANGED <<alive, loop, disp, reqs, stats, fails, stop, found>>

Propagate ==
  /\ "parent" \in ended
  /\ \E c \in {"revProxy", "ctx"} \ ended : ended' = ended \cup {c}
  /\ UNCHANGED <<alive, loop, disp, reqs, stats, fails, stop, found>>

Dies ==
  /\ alive /\ alive' = FALSE
  /\ UNCHANGED <<loop, disp, reqs, stats, fails, ended, stop, found>>

(* What a goroutine does once it has begun; requests end by their deadline. *)
Start == HealthPasses \/ HealthFails \/ RunBegins \/ Register
Dispense == DispenserBegins \/ StopAccepting \/ Drained \/ RemovesItself \/ Unregister
Stopping(s) == ProxiesDone(s) \/ Remove(s)

LifeNext ==
  \/ Start \/ TakeStat \/ LoopExits
  \/ Dispense \/ Accept \/ ProxyEnds \/ Report \/ TakeDone
  \/ \E s \in Stoppers : ConvergerStops(s) \/ HealthCheckStops(s) \/ Stopping(s)
  \/ HealthCheck \/ ConvergerEnds \/ Propagate \/ Dies
-----------------------------------------------------------------------------
(* "wait for rev proxies to finish", "wait for run to exit"
   (container.go:135-148): a call of JoinAndStop that begins while the
   dispenser is at work removes the container when no request is in it, however
   many calls there are and whatever is taken after the context was cancelled. *)
RemovesDrained(s) == Remove(s) /\ s \in found => reqs.proxied = 0

(* The same for every call.  It fails: a call between the start and run()
   finds both wait groups empty, removes the container, and run() then serves
   it (container.go:183-199). *)
AnyRemovesDrained(s) == Remove(s) => reqs.proxied = 0

(* What is left when a container is over: nothing of it runs, its handler is
   not registered, no request is inside, and every JoinAndStop has returned. *)
Over ==
  /\ ~alive /\ Concur = 0
  /\ loop \in {"failed", "exited"}
  /\ disp \in {"none", "gone"}
  /\ \A s \in Stoppers : stop[s] \in {"idle", "done"}

Told == "parent" \in ended \/ \E s \in Stoppers : stop[s] # "idle"
=============================================================================
