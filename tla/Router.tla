-------------------------------- MODULE Router -------------------------------
(***************************************************************************)
(* The request router of one component on one node (pkg/router/router.go)  *)
(* and the dispensers that serve its channels (pkg/revproxy/dispenser.go). *)
(*                                                                         *)
(* Requests are goroutines of the gateway inside Route; handlers are the   *)
(* goroutines that run Dispenser.Run: one per local container, and, for    *)
(* each peer url, as many as SetRemoteHandlerCounts asks for.  Every       *)
(* critical section of the router's mutex is one step; the rendezvous on   *)
(* an unbuffered channel is one step of both sides.                        *)
(***************************************************************************)
EXTENDS Integers, Sequences, FiniteSets

CONSTANTS Reqs,        \* goroutines that call Route, again and again
          LocalFirst,  \* requests with PreferLocal set (relayed by a peer)
          Handlers,    \* goroutines that run a dispenser, each at most once
          Urls,        \* urls of the peers
          Limits,      \* max concurrency of local containers (0: unlimited)
          MaxRemote,   \* bound of the model on a peer's handler count
          MaxChans,    \* bound of the model on channels made
          MaxLoops,    \* bound of the model on loops alive when one is spawned
          None

ASSUME RouterAssumption ==
  /\ IsFiniteSet(Reqs) /\ IsFiniteSet(Handlers)
  /\ LocalFirst \subseteq Reqs
  /\ Limits \subseteq Nat
  /\ MaxRemote \in Nat /\ MaxChans \in Nat /\ MaxLoops \in Nat
  /\ None \notin Handlers

VARIABLES
  state,           \* Router.state
  chan,            \* localReqCh and remoteReqCh: 0 is nil, else which make()
  made,            \* channels made so far
  activeHandlers,  \* Router.activeHandlers
  inflightReqs,    \* Router.inflightReqs
  remotes,         \* remoteHandlersByUrl: the handlers behind the cancel funcs
  loops,           \* goroutines in runPendingLoop, by what they do next
  rpc,             \* control state of each request
  reqChan,         \* the channel a request's select is blocked on
  server,          \* the handler that gave a request its proxy
  hpc,             \* control state of each handler
  kind,            \* "local" or "remote"
  hchan,           \* the channel handlerStart returned to the handler
  limit,           \* Dispenser.maxConcurrency
  concur,          \* concur of Dispenser.Run
  doneCh,          \* messages in Dispenser.doneCh
  cancelled        \* the handler's context has been cancelled

routerVars == <<state, chan, made, activeHandlers, inflightReqs, loops>>
reqVars == <<rpc, reqChan, server>>
handlerVars == <<hpc, kind, hchan, limit, concur, doneCh, cancelled>>
vars == <<routerVars, remotes, reqVars, handlerVars>>

Off == "off"
Pending == "pending"
On == "on"

Routing == {"entering", "local", "any", "proxied", "leaving"}
Registered == {"running", "draining", "exited"}

TypeOK ==
  /\ state \in {Off, Pending, On}
  /\ chan \in Nat /\ made \in Nat
  /\ activeHandlers \in Int /\ inflightReqs \in Int
  /\ remotes \in [Urls -> Seq(Handlers)]
  /\ loops \in [{"check", "start", "sleep"} -> Nat]
  /\ rpc \in [Reqs -> Routing \cup {"idle"}]
  /\ reqChan \in [Reqs -> Nat]
  /\ server \in [Reqs -> Handlers \cup {None}]
  /\ hpc \in [Handlers -> Registered \cup {"free", "spawned", "stopped"}]
  /\ kind \in [Handlers -> {"local", "remote"}]
  /\ hchan \in [Handlers -> Nat]
  /\ limit \in [Handlers -> Nat]
  /\ concur \in [Handlers -> Int]
  /\ doneCh \in [Handlers -> Nat]
  /\ cancelled \in [Handlers -> BOOLEAN]

Init ==
  /\ state = Off
  /\ chan = 0 /\ made = 0
  /\ activeHandlers = 0 /\ inflightReqs = 0
  /\ remotes = [u \in Urls |-> <<>>]
  /\ loops = [s \in {"check", "start", "sleep"} |-> 0]
  /\ rpc = [r \in Reqs |-> "idle"]
  /\ reqChan = [r \in Reqs |-> 0]
  /\ server = [r \in Reqs |-> None]
  /\ hpc = [h \in Handlers |-> "free"]
  /\ kind = [h \in Handlers |-> "local"]
  /\ hchan = [h \in Handlers |-> 0]
  /\ limit = [h \in Handlers |-> 0]
  /\ concur = [h \in Handlers |-> 0]
  /\ doneCh = [h \in Handlers |-> 0]
  /\ cancelled = [h \in Handlers |-> FALSE]

-----------------------------------------------------------------------------
(* Router: the critical sections of its mutex.                             *)

LoopCount == loops["check"] + loops["start"] + loops["sleep"]

ensureReqChan ==
  /\ chan' = IF chan = 0 THEN made + 1 ELSE chan
  /\ made' = IF chan = 0 THEN made + 1 ELSE made

(* Mutant: the state changes and nothing is spawned. *)
setPendingState_NoLoop ==
  state' = Pending /\ UNCHANGED loops

(* Only the step into Pending spawns a loop. *)
setPendingState ==
  /\ state' = Pending
  /\ loops' = IF state # Pending THEN [loops EXCEPT !["check"] = @ + 1] ELSE loops

routeStart(r) ==
  /\ rpc[r] = "idle"
  /\ rpc' = [rpc EXCEPT ![r] = "entering"]
  /\ inflightReqs' = inflightReqs + 1
  /\ ensureReqChan
  /\ IF state = Off THEN LoopCount < MaxLoops /\ setPendingState
     ELSE UNCHANGED <<state, loops>>
  /\ UNCHANGED <<activeHandlers, remotes, reqChan, server, handlerVars>>

(* The goroutine is out of Route; its locals are gone. *)
Left(r) ==
  /\ rpc[r] = "leaving"
  /\ rpc' = [rpc EXCEPT ![r] = "idle"]
  /\ reqChan' = [reqChan EXCEPT ![r] = 0]
  /\ server' = [server EXCEPT ![r] = None]
  /\ UNCHANGED <<chan, made, activeHandlers, loops, remotes, handlerVars>>

routeDone(r) ==
  /\ Left(r)
  /\ inflightReqs' = inflightReqs - 1
  /\ state' = IF inflightReqs' = 0 /\ activeHandlers = 0 THEN Off ELSE state

(* handlerStart: count the handler, turn the router on, hand out a channel. *)
handlerStart(h) ==
  /\ activeHandlers' = activeHandlers + 1
  /\ state' = On
  /\ ensureReqChan
  /\ hchan' = [hchan EXCEPT ![h] = chan']
  /\ hpc' = [hpc EXCEPT ![h] = "running"]
  /\ UNCHANGED <<inflightReqs, loops, remotes, reqVars, concur, doneCh>>

(* A container starts: HandlerStartLocal, then a dispenser with its limit. *)
HandlerStartLocal(h, max) ==
  /\ hpc[h] = "free"
  /\ handlerStart(h)
  /\ kind' = [kind EXCEPT ![h] = "local"]
  /\ limit' = [limit EXCEPT ![h] = max]
  /\ UNCHANGED cancelled

(* The goroutine of startRemoteHandler gets to run, cancelled or not. *)
HandlerStartRemote(h) ==
  /\ hpc[h] = "spawned"
  /\ handlerStart(h)
  /\ UNCHANGED <<kind, limit, cancelled>>

(* Mutant: off with the last handler, whoever waits. *)
HandlerStop_Off(h) ==
  /\ hpc[h] = "exited"
  /\ hpc' = [hpc EXCEPT ![h] = "stopped"]
  /\ activeHandlers' = activeHandlers - 1
  /\ state' = IF activeHandlers' = 0 THEN Off ELSE state
  /\ UNCHANGED <<loops, chan, made, inflightReqs, remotes, reqVars, kind, hchan, limit,
                 concur, doneCh, cancelled>>

(* HandlerStop panics when activeHandlers <= 0: CountersExact excludes it. *)
HandlerStop(h) ==
  /\ hpc[h] = "exited"
  /\ hpc' = [hpc EXCEPT ![h] = "stopped"]
  /\ activeHandlers' = activeHandlers - 1
  /\ IF activeHandlers' # 0 THEN UNCHANGED <<state, loops>>
     ELSE IF inflightReqs > 0 THEN setPendingState
     ELSE state' = Off /\ UNCHANGED loops
  /\ UNCHANGED <<chan, made, inflightReqs, remotes, reqVars, kind, hchan, limit,
                 concur, doneCh, cancelled>>

(* A public method that the daemon does not call. *)
DestroyIfIdle ==
  /\ state = Off /\ inflightReqs = 0
  /\ made < MaxChans
  /\ chan' = 0
  /\ UNCHANGED <<state, made, activeHandlers, inflightReqs, loops, remotes,
                 reqVars, handlerVars>>

(* The goroutines SetRemoteHandlerCounts has to add for url u, and the ones
   it has to cancel: from the oldest on, all of them if u is not in counts. *)
TargetOf(counts, u) == IF u \in DOMAIN counts THEN counts[u] ELSE 0
Missing(counts, u) ==
  IF TargetOf(counts, u) > Len(remotes[u])
  THEN TargetOf(counts, u) - Len(remotes[u]) ELSE 0
Excess(counts, u) ==
  IF TargetOf(counts, u) < Len(remotes[u])
  THEN Len(remotes[u]) - TargetOf(counts, u) ELSE 0

(* Mutant: the newest are cancelled, while the oldest are forgotten. *)
Dropped_Newest(counts) ==
  UNION {{remotes[u][i] : i \in Len(remotes[u]) - Excess(counts, u) + 1 .. Len(remotes[u])}
           : u \in Urls}

Dropped(counts) ==
  UNION {{remotes[u][i] : i \in 1 .. Excess(counts, u)} : u \in Urls}

Fresh == {h \in Handlers : hpc[h] = "free"}

(* fresh[u] names the goroutines started for u: startRemoteHandler gives each
   a dispenser whose limit is the url's whole count. *)
SetRemoteHandlerCounts(counts, fresh) ==
  LET added(u) == {fresh[u][i] : i \in DOMAIN fresh[u]}
      started == UNION {added(u) : u \in Urls}
  IN
  /\ \A u \in Urls : Len(fresh[u]) = Missing(counts, u)
  /\ \A u, v \in Urls : \A i \in DOMAIN fresh[u], j \in DOMAIN fresh[v] :
       fresh[u][i] = fresh[v][j] => u = v /\ i = j
  /\ remotes' = [u \in Urls |->
       SubSeq(remotes[u], Excess(counts, u) + 1, Len(remotes[u])) \o fresh[u]]
  /\ hpc' = [h \in Handlers |-> IF h \in started THEN "spawned" ELSE hpc[h]]
  /\ kind' = [h \in Handlers |-> IF h \in started THEN "remote" ELSE kind[h]]
  /\ limit' = [h \in Handlers |->
       IF h \in started
       THEN TargetOf(counts, CHOOSE u \in Urls : h \in added(u)) ELSE limit[h]]
  /\ cancelled' = [h \in Handlers |-> cancelled[h] \/ h \in Dropped(counts)]
  /\ UNCHANGED <<routerVars, reqVars, hchan, concur, doneCh>>

-----------------------------------------------------------------------------
(* Pending loops: call the start function until the router leaves Pending. *)

LoopMove(from, to) ==
  /\ loops[from] > 0
  /\ loops' = [loops EXCEPT ![from] = @ - 1, ![to] = @ + 1]

LoopCheck ==
  /\ \/ state = Pending /\ LoopMove("check", "start")
     \/ /\ state # Pending /\ loops["check"] > 0
        /\ loops' = [loops EXCEPT !["check"] = @ - 1]
  /\ UNCHANGED <<state, chan, made, activeHandlers, inflightReqs, remotes,
                 reqVars, handlerVars>>

(* startComponentFunc has returned. *)
LoopStarted ==
  /\ LoopMove("start", "sleep")
  /\ UNCHANGED <<state, chan, made, activeHandlers, inflightReqs, remotes,
                 reqVars, handlerVars>>

LoopWake ==
  /\ LoopMove("sleep", "check")
  /\ UNCHANGED <<state, chan, made, activeHandlers, inflightReqs, remotes,
                 reqVars, handlerVars>>

-----------------------------------------------------------------------------
(* Route between routeStart and routeDone, outside the lock.               *)

(* Evaluates r.localReqCh and r.remoteReqCh on the way into a select. *)
OpenSelect(r) ==
  /\ rpc[r] = "entering"
  /\ rpc' = [rpc EXCEPT ![r] = IF r \in LocalFirst THEN "local" ELSE "any"]
  /\ reqChan' = [reqChan EXCEPT ![r] = chan]
  /\ UNCHANGED <<routerVars, remotes, server, handlerVars>>

(* A tenth of MaxDurationSeconds has passed: give remote handlers a chance. *)
PreferLocalTimeout(r) ==
  /\ rpc[r] = "local"
  /\ rpc' = [rpc EXCEPT ![r] = "any"]
  /\ reqChan' = [reqChan EXCEPT ![r] = chan]
  /\ UNCHANGED <<routerVars, remotes, server, handlerVars>>

(* ctx.Done: the deadline set by the gateway. *)
Deadline(r) ==
  /\ rpc[r] \in {"local", "any"}
  /\ rpc' = [rpc EXCEPT ![r] = "leaving"]
  /\ UNCHANGED <<routerVars, remotes, reqChan, server, handlerVars>>

DoneCap(h) == IF limit[h] < 1 THEN 1 ELSE limit[h]

(* proxyFx returns: its deferred doneFx blocks while doneCh is full. *)
ProxyReturns(r) ==
  /\ rpc[r] = "proxied"
  /\ doneCh[server[r]] < DoneCap(server[r])
  /\ doneCh' = [doneCh EXCEPT ![server[r]] = @ + 1]
  /\ rpc' = [rpc EXCEPT ![r] = "leaving"]
  /\ UNCHANGED <<routerVars, remotes, reqChan, server, hpc, kind, hchan, limit,
                 concur, cancelled>>

-----------------------------------------------------------------------------
(* Dispenser.Run                                                           *)

Listens(h, r) ==
  /\ hchan[h] = reqChan[r]
  /\ \/ rpc[r] = "any"
     \/ rpc[r] = "local" /\ kind[h] = "local"

(* The select may still take a request after the context is cancelled. *)
Accept(h, r) ==
  /\ hpc[h] = "running"
  /\ limit[h] < 1 \/ concur[h] < limit[h]
  /\ Listens(h, r)
  /\ concur' = [concur EXCEPT ![h] = @ + 1]
  /\ rpc' = [rpc EXCEPT ![r] = "proxied"]
  /\ server' = [server EXCEPT ![r] = h]
  /\ UNCHANGED <<routerVars, remotes, reqChan, hpc, kind, hchan, limit, doneCh,
                 cancelled>>

(* Mutant: nobody receives once the context is cancelled. *)
TakeDone_RunningOnly(h) ==
  /\ hpc[h] = "running" /\ doneCh[h] > 0
  /\ doneCh' = [doneCh EXCEPT ![h] = @ - 1]
  /\ concur' = [concur EXCEPT ![h] = @ - 1]
  /\ UNCHANGED <<routerVars, remotes, reqVars, hpc, kind, hchan, limit, cancelled>>

TakeDone(h) ==
  /\ \/ hpc[h] = "running"
     \/ hpc[h] = "draining" /\ concur[h] > 0
  /\ doneCh[h] > 0
  /\ doneCh' = [doneCh EXCEPT ![h] = @ - 1]
  /\ concur' = [concur EXCEPT ![h] = @ - 1]
  /\ UNCHANGED <<routerVars, remotes, reqVars, hpc, kind, hchan, limit, cancelled>>

StopAccepting(h) ==
  /\ hpc[h] = "running" /\ cancelled[h]
  /\ hpc' = [hpc EXCEPT ![h] = "draining"]
  /\ UNCHANGED <<routerVars, remotes, reqVars, kind, hchan, limit, concur, doneCh,
                 cancelled>>

(* Mutant: Run returns without waiting for the requests in service. *)
Drained_Early(h) ==
  /\ hpc[h] = "draining"
  /\ hpc' = [hpc EXCEPT ![h] = "exited"]
  /\ UNCHANGED <<routerVars, remotes, reqVars, kind, hchan, limit, concur, doneCh,
                 cancelled>>

Drained(h) ==
  /\ hpc[h] = "draining" /\ concur[h] <= 0
  /\ hpc' = [hpc EXCEPT ![h] = "exited"]
  /\ UNCHANGED <<routerVars, remotes, reqVars, kind, hchan, limit, concur, doneCh,
                 cancelled>>

(* The container of a local handler is stopped: revProxyCancel. *)
CancelLocal(h) ==
  /\ hpc[h] \in Registered /\ kind[h] = "local" /\ ~cancelled[h]
  /\ cancelled' = [cancelled EXCEPT ![h] = TRUE]
  /\ UNCHANGED <<routerVars, remotes, reqVars, hpc, kind, hchan, limit, concur,
                 doneCh>>

-----------------------------------------------------------------------------
ReqStep(r) ==
  OpenSelect(r) \/ Deadline(r) \/ ProxyReturns(r) \/ routeDone(r)

HandlerStep(h) ==
  HandlerStartRemote(h) \/ TakeDone(h) \/ StopAccepting(h) \/ Drained(h)
  \/ HandlerStop(h)

LoopStep == LoopCheck \/ LoopStarted \/ LoopWake

Counts == UNION {[U -> 0 .. MaxRemote] : U \in SUBSET Urls}
FreshSeqs == UNION {[1 .. k -> Fresh] : k \in 0 .. MaxRemote}

Next ==
  \/ \E r \in Reqs : routeStart(r) \/ PreferLocalTimeout(r) \/ ReqStep(r)
  \/ \E h \in Handlers :
       \/ HandlerStep(h)
       \/ CancelLocal(h)
       \/ \E max \in Limits : HandlerStartLocal(h, max)
       \/ \E r \in Reqs : Accept(h, r)
  \/ \E counts \in Counts : \E fresh \in [Urls -> FreshSeqs] :
       SetRemoteHandlerCounts(counts, fresh)
  \/ DestroyIfIdle
  \/ LoopStep

Spec == Init /\ [][Next]_vars

(* Requests have a deadline and the proxied call ends with it; goroutines
   that can run do; a cancelled context is seen by its dispenser, whose select
   chooses at random among the ready cases.  Strong fairness of ProxyReturns:
   Go serves the senders blocked on a full channel in their order. *)
Fairness ==
  /\ \A r \in Reqs : WF_vars(OpenSelect(r)) /\ WF_vars(Deadline(r))
                     /\ SF_vars(ProxyReturns(r)) /\ WF_vars(routeDone(r))
  /\ \A h \in Handlers :
       /\ WF_vars(HandlerStartRemote(h)) /\ WF_vars(TakeDone(h))
       /\ WF_vars(StopAccepting(h)) /\ WF_vars(Drained(h))
       /\ WF_vars(HandlerStop(h))
  /\ WF_vars(LoopCheck) /\ WF_vars(LoopStarted) /\ WF_vars(LoopWake)

FairSpec == Spec /\ Fairness
-----------------------------------------------------------------------------
Active == {h \in Handlers : hpc[h] \in Registered}
Inflight == {r \in Reqs : rpc[r] \in Routing}
Waiting == {r \in Reqs : rpc[r] \in {"local", "any"}}
Serving(h) == {r \in Reqs : rpc[r] = "proxied" /\ server[r] = h}

(* The two counters count what they are named for (router.go:186-220,
   281-298), so a handler that has yet to stop always finds activeHandlers
   above zero. *)
CountersExact ==
  /\ activeHandlers = Cardinality(Active)
  /\ inflightReqs = Cardinality(Inflight)

(* The mode kept up by five critical sections is a function of who is there
   (router.go:186-220, 281-318): on while a handler is registered, otherwise
   pending while somebody waits, otherwise off. *)
StateMatches ==
  state = IF Active # {} THEN On ELSE IF Inflight # {} THEN Pending ELSE Off

(* A pending router is being worked on (router.go:309-325): some loop will
   look at the state again and call the start function.  Leaving Pending and
   coming back while a loop sleeps must not leave the router without one. *)
PendingHasLoop ==
  state = Pending => \E s \in DOMAIN loops : loops[s] > 0

(* Route reads the channel outside the lock (router.go:253, 266-268) and a
   handler keeps the one it was given: both are the current, open channel, so
   no request waits where nobody listens and no dispenser reads a closed
   channel (router.go:222-237). *)
ChannelsAgree ==
  /\ \A r \in Waiting : reqChan[r] = chan /\ chan # 0
  /\ \A h \in Active : hchan[h] = chan /\ chan # 0

(* The four together: what the mutex of the router protects is consistent
   whenever it is free. *)
Consistent == CountersExact /\ StateMatches /\ PendingHasLoop /\ ChannelsAgree

(* A dispenser's count is its requests in service plus the completions it has
   not seen (dispenser.go:58-87); it stays within the limit, and a dispenser
   that has returned left no request behind. *)
DispenserExact ==
  \A h \in Handlers :
    /\ concur[h] = Cardinality(Serving(h)) + doneCh[h]
    /\ limit[h] >= 1 => concur[h] <= limit[h]
    /\ hpc[h] \in {"exited", "stopped"} => concur[h] = 0

(* The cancel funcs kept are exactly those of the remote handlers that have
   not been cancelled (router.go:104-151): none leaks, none is kept twice. *)
Kept == {k \in Urls \X (1 .. Cardinality(Handlers)) : k[2] \in DOMAIN remotes[k[1]]}
RemotesTracked ==
  /\ {h \in Handlers : kind[h] = "remote" /\ hpc[h] # "free" /\ ~cancelled[h]}
       = {remotes[k[1]][k[2]] : k \in Kept}
  /\ \A k, l \in Kept : remotes[k[1]][k[2]] = remotes[l[1]][l[2]] => k = l

(* The router never drops from on to off while a request is inside Route: the
   last handler to go hands over to a start loop (router.go:211-219). *)
NoSilentOff ==
  [][state' = Off /\ state # Off => Inflight' = {}]_vars

(* A pending router gets the start function called, unless a handler or the
   end of the requests comes first (router.go:309-325), however requests come
   and go and whatever loops of earlier pending spells are still asleep. *)
PendingIsRetried ==
  state = Pending ~> loops["start"] > 0 \/ state # Pending

(* A request that entered Route leaves it (router.go:239-279): served, or at
   its deadline; a full doneCh (dispenser.go:26-35) never blocks it for good. *)
RequestLeaves ==
  \A r \in Reqs : rpc[r] = "entering" ~> rpc[r] = "idle"

(* A cancelled handler finishes its requests and gives up its place in
   activeHandlers (router.go:168-174, dispenser.go:60-87). *)
CancelledStops ==
  \A h \in Handlers : cancelled[h] ~> hpc[h] = "stopped"
=============================================================================
