# Maelstrom in TLA+

Maelstrom is a container orchestrator for HTTP services and workers: a cluster
of `maelstromd` nodes that share a database, start Docker containers when
requests arrive, relay requests to each other, and scale components up and down.
This directory models the parts of it whose correctness depends on concurrency,
failure and time. The modules are translated from the Go source; file names and
line numbers below are relative to the repository.

- [Inventory](#inventory) lists the components, their state and what can go wrong
- [Modules](#modules) says how the modules correspond to the code
- [Runs](#runs) says what TLC checks, on which instances, under which fairness
- [Proofs](#proofs) says what TLAPS proves and along which argument
- [Findings](#findings) lists where the code and its documents disagree, and
  [what the code does not promise](#what-the-code-does-not-promise)
- [Plan](#plan) and [Not modelled](#not-modelled) say what is left

## Inventory

### Requests

**Router** (`pkg/router/router.go`), one per component and node. State: the mode (off,
pending, on), the numbers of active handlers and of requests in flight, two unbuffered
channels made on demand, and for each peer url the cancel funcs of the remote handlers.
Operations: `Route`, `HandlerStartLocal`, `HandlerStop`, `SetRemoteHandlerCounts`,
`DestroyIfIdle` (public, but called by a test only), and the pending loop that calls the
start function until a handler registers. Every operation is a critical section, but
`Route` reads the channels and blocks outside the lock, and a remote handler is cancelled
from another goroutine. Correct means: the counters are exact (`HandlerStop` panics
otherwise), the mode fits who is there, nobody waits on a channel that nobody serves, a
pending router is being worked on.

**Dispenser** (`pkg/revproxy/dispenser.go`), one per handler goroutine: accepts
requests up to a limit, collects completions from a bounded channel, and after
its context is cancelled waits for what is in progress. **Reverse proxy** and
**gateway** (`pkg/revproxy/revproxy.go`, `pkg/maelstrom/gateway.go`) copy HTTP and
set the deadline of a request.

**Resolver** (`pkg/maelstrom/resolver.go`, `sort.go`): the component for a
request, from a cache that notifications and time refresh.

### Containers

**Convergence plan** (`Converger.plan`, `pkg/converge/converger.go:387-493`): a pure
function from the list of containers and the target to start and stop steps.

**Converger** (the rest of `converger.go`), one per component and node: the
target, the slice of containers, a run loop fed by `runCh`, a ticker and a context.
The run loop, the goroutine that delivers Docker events, the callers that set
targets or versions, and `Stop` share the state; some of them iterate the slice's
array without the lock while others shift it in place. Correct means: no
container runs without being in the list, no wake-up is lost, callers get their
answer, `Stop` cleans up, memory keeps the bound `restartOrder` documents.

**Container** (`pkg/converge/container.go`): the health check of its start, the goroutine
of `run()` that registers a handler, collects statistics and repeats the health
check, the goroutine of its dispenser, and `JoinAndStop`, which cancels them, waits
for two wait groups and removes the Docker container. It is called by plans, exit
events and failed health checks, in any number. Correct means: requests are not
cut off, and nothing of a stopped container is left waiting.

**Start lock** (`pkg/converge/complock.go`): `startParallelism` series and
seriesfirst. A role in the database and a deploy count per version decide which
node may start a container. Correct means: series starts do not overlap in the
cluster, and the first start of a new version is alone.

**Converge registry** (`pkg/converge/registry.go`): the convergers by component, the
version that makes `StartStopComponents` optimistic, the ids of containers,
removal of a component, `Shutdown`. **Shutdown** (`cmd/maelstromd/maelstromd.go:316-363`)
runs it between the draining of requests and the closing of the servers.

### The cluster and its database

**Role lock** (`pkg/db/sql_db.go:77-179`): named leases in table `rolelock`, kept with
four SQL statements, no transaction, and the nodes' own clocks; used by the start
lock, placement, autoscaling, cron, pollers and event pruning. Correct means:
one node at a time.

**Database entities** (the rest of `sql_db.go`): components, event sources, projects,
node rows, deploy counts; versions checked by conditional updates.

**Cluster** (`pkg/maelstrom/cluster.go`) and the status loop of the **node service**
(`node_svc.go`): a node keeps a row in the database and a map of the nodes it
knows. It broadcasts its status when its containers change and when it exits,
and every 30 seconds replaces its map by the rows whose node answers. Each change
of the map starts a goroutine that hands a copy to the routers. Messages are lost
and reordered, snapshots are applied in any order, nodes die, exit and come back
under another id on the same address. Correct means: when nothing changes any
more, every node knows exactly the nodes that run.

**Placement** (`node_svc.go:287-544`, `placement.go`): `PlaceComponent` takes the
placement role or goes to the node that has it; of the calls for a component on a
node one places and the others wait for its answer. To place is to ask the nodes
that seem to run the component, or else to compute the best option from views
that may be old and send its counts, with the version they were made from.
Correct means: no call waits for nobody, every call is answered.

**Autoscaling** (`scale.go`, `node_svc.go:546-700`): from loads and containers to
targets, from targets to one option per node, then calls in groups, each in
parallel. Correct means: no node gets more than it has, no component less than
its minimum or more than its maximum, containers come to rest.

**Maelstrom service** (`mael_svc.go`, `project.go`): the API that writes components,
event sources and projects statement by statement, and notifies subscribers and
peers from goroutines. Correct means: a project put is the project asked for, no
event source outlives its component, caches catch up.

**Cron** (`pkg/evsource/cron`) and **pollers** (`pkg/evsource/poller`, `pkg/evsource/aws`):
background work that runs on one node, or once per role id, by roles renewed from
tickers; and the batches, workers and answers of one poller. Correct means: one
node per role, nothing lost, and what runs becomes what is configured.

The rest is I/O: image puller and pruner, logs, TLS, configuration, `maelctl`, VM
provisioning, generated RPC types.

### How they interact

A request enters through the gateway, is resolved to a component and calls
`Router.Route`. The first request turns the router pending, and its loop asks the
node service to place the component. Placement, under a role, picks a node and
calls its `StartStopComponents`, which hands targets to the registry, which hands
each to a converger. Its run loop makes a plan and starts containers, under the
start lock when the component asks for it; a healthy container registers with
the router as a local handler, and the node's new status, broadcast to the
cluster, makes the other nodes' routers add remote handlers. The autoscaler
changes the targets of all nodes; cron and pollers are clients of the gateway;
the maelstrom service changes what all of them read. Docker events, component
changes and the shutdown come in from other goroutines at any moment.

## Modules

| module | stands for | extends or instantiates |
|---|---|---|
| `Lease` | what callers of `AcquireOrRenewRole` rely on; abstract | |
| `RoleLock` | the statements and retries of `sql_db.go`; implements `Lease` | `Lease` |
| `StartLock` | `complock.go` and the locked start steps of convergers | `Lease` |
| `ContainerLife` | `container.go`: one container's goroutines | |
| `Starting` | the two above side by side | `StartLock`, `ContainerLife` |
| `Router` | `router.go` with its dispensers | |
| `ConvergePlan` | `Converger.plan` as an operator | |
| `Rollout` | one undisturbed `converge()` of every small list | `ConvergePlan` |
| `Converger` | a converger and all goroutines that touch it | `ConvergePlan` |
| `ConvergeRegistry` | registry, its callers, removal and shutdown | |
| `PlacementOptions` | `placement.go`: options, displacements, the best of them | |
| `Scale` | the autoscaler, passes and calls | `PlacementOptions` |
| `Placement` | `PlaceComponent` on several nodes | `PlacementOptions` |
| `Scheduling` | rollout, autoscaler and placement side by side | `Rollout`, `Scale`, `Placement` |
| `Cluster` | `cluster.go` and the status loop, on all nodes | |
| `Entities` | tables of components and event sources, `DiffProject` | |
| `MaelService` | API calls as lists of statements, notifications, resolvers | `Entities` |
| `DaemonRoles` | roles, outages and life of the nodes, in periods of a ticker | |
| `Cron`, `Pollers` | `cron.go`; `evpoller.go` | `DaemonRoles` |
| `Tasks` | one running SQS or step function poller | |
| `EventSources` | the three daemons side by side | `Cron`, `Pollers`, `Tasks` |
| `MC*` | instances for TLC | the module they are named after |
| `ConvergerProofs`, `ConvergeRegistryProofs`, `StartingProofs`, `SchedulingProofs`, `EventSourcesProofs` | theorems | the module they are named after, `TLAPS` |
| `DatabaseProofs` | theorems about `RoleLock` and about `MaelService` | both, `TLAPS` |
| `RoutingProofs` | theorems about `Router` and about `Cluster` | both, `TLAPS` |
| `PlanProofs` | lemmas about the plan, for `ConvergerProofs` and `SchedulingProofs` | `ConvergePlan`, `TLAPS` |

`Starting`, `Scheduling` and `EventSources` put parts that share no variable next to
each other: a variable (`part`, `daemon`) says which one a behaviour follows, and
the others stand still. Their composition in the program is through the state
that each part lets change by itself: leases expire, views are late, counts change.

Definitions whose name ends in an underscore and a word, each after a comment
that begins with "Mutant", are faulty versions of the definition they precede; no
specification uses them. They document what each property can detect.

**RoleLock.** One role; rows of different roles never meet in a statement. `Procs`
are goroutines inside the call. `Select`, `ReadClock`, `Update` or `UpdateNoRows`,
`Insert` or `InsertConflict` are the statements and the reading of `time.Now()` of
one attempt, in the code's order; `Retry` is the loop of `AcquireOrRenewRole`.
`StatementError` and `RetryableError` are errors before or after the statement took
effect, so an answer may be lost. `UpdateNoRows` also stands for a driver that
counts changed rows only. `Crash` drops a node's goroutines and leaves its row.
Each call has a duration of its own (`Durs`): the autoscaler asks for 1 minute, then
for 3 per group (`node_svc.go:547`, `566`), a start lock lasts as long as its version's
health check. So a renewal may shorten the row, and a node that asks for less counts
on less from then on. `lease` is a history variable, the expiry a node counts on: what
it was last granted, cut to what its new call asks for (`Counted`). Under `lease` and
`clock` the module implements `Lease` (`ImplementsLease`), which has `Shorten` for that.

**StartLock.** `pc` follows one start step: `count` (the seriesfirst check), `acquire`,
`starting` (docker and health check), `post` (increment of the deploy count),
`release`. `Acquire` is `Lease!Grant` with a guard for the row as `RoleLock` leaves
it. `IncrementFails` skips the release, as the early return of `PostStartContainer`
does, and `StartFails` leaves the lease to expire, as `Converger.start` does. Each version
has its health check's limit (`Health`), which its lock exceeds by one second; a start
may take any time. `up` and `began` are history variables: `Overdue` says that a start
has taken longer than its lock lasts, less the skew.

**ContainerLife.** `loop` is the start and `run()`, `disp` the dispenser's goroutine,
`ended` the contexts that are done (their cancellation reaches children by
`Propagate`), `reqs` counts the requests inside by stage, `stop` is each call of
`JoinAndStop`. The wait groups are not variables: a goroutine counts while it is
between its `Add` and `Done` (`InRevProxyWg`, `InRunWg`). `Accept` is possible after the
cancellation, because Go's `select` may take a ready request; `Report` is the send
to `statCh` or its escape when the parent context is done. `found` is a history
variable: calls that began while the dispenser was at work. The status field,
which is only reported, and the numbers in the statistics are left out. Docker
removes what it is asked to remove.

**Router.** Each critical section of the mutex is one action with its source's name.
The rendezvous on an unbuffered channel is one step of both sides (`Accept`).
`OpenSelect` is the moment `Route` reads the channels, which is outside the lock.
`limit`, `concur` and `doneCh` are a dispenser's; its cancellation is separate from
its notice (`StopAccepting`). Channels are numbered: 0 is nil, and a number older
than `chan` is a closed channel.

**ConvergePlan, Rollout.** `Plan` is the translation of `plan()`: `Scan` is the loop body
as a recursive function of the number of elements read, `Alternate` says which start
or stop comes at each place when they are interleaved. Rollout applies the steps;
any start may fail, which ends it.

**Converger.** The list is a sequence of ids. A reader without the lock (`plan` for the
run loop, `stopAndRemoveContainer` for either goroutine) has a view: what it has
read and how far. Removal shifts the array in place (`Disturb`), so the rest of the
view is replaced and an element may be skipped or seen twice, for any position
the reader may have reached; this is what a slice header and a shifted array can
show under Go. The run loop goes through `scan`, `next`, `lock`, `start`, `assign`,
`health`, and `fail`, `unlist` or `find`, `stopping`, `remove`. `wake` counts the goroutines
that block on `runCh` and that nobody waits for. Ids that nothing refers to any more
are used again, which keeps the state finite; the code's counter never repeats.

**ConvergeRegistry.** A converger is reduced to the number of its containers and to
its run loop's need of the registry's lock for the id of a new container. A call is
the handler and the goroutine of its one target: `check` (the version), `find` (the
converger), `set` (the target), `send` (to `runCh`), `wait`. Only `Shutdown` keeps the lock
over several steps, which is `phase = "stopping"`; every other section is one step
with the guard `Unlocked`. A new version of a component reaches a converger as a
target, which `Converger` models, so only additions and removals are here.

**PlacementOptions, Scale.** An option is a node, the containers its status showed
and the counts it shall run. The code sorts options and takes the first; options
that differ only in the load of their nodes may come in any order. `Scale` goes
through `plan` (one instance per step, up or down, as `CalcAutoscalePlacement`
loops), `rebalance` (one instance to each empty node) and the three groups of
calls, which a pass makes in any order within a group. A call fails (`Fails`), before or
after the node took its counts, and then the groups that follow are given up; or it
succeeds (`Answers`), and nobody looks whether the node refused the counts as out of
date or could not start an instance (`registry.go:152-178`, `node_svc.go:600`). What a node
was told to start and did not is `owed`: its converger tries again each minute and
may start it late, when another pass has placed the instance elsewhere. `late`,
`unstarted` and `aborted` record who did that, in which pass. The average and the
maximum of a component's concurrency are one number, in percent of an instance. Memory
is in units of the 128 MiB that a component without a setting is charged.

**Placement.** `call` follows each `PlaceComponent`: `acquire`, `try`, `apply`, `started`,
`wait`, `done`. `Acquire` takes the role or goes to its holder. The role is released
in a step of its own right after, as the code does (`node_svc.go:325`). A view is what
a node last heard of another, with a mark whether the version in it is still the
node's own. `Choose` passes over nodes that do not answer, as the code does when `GetStatus`
fails; a call to `StartStopComponents` may be lost, or its answer, after the node took the
counts (`StartStopFails`). `Converge` is the work of the target's convergers, `HearOf` any
status that arrives.

**Cluster.** A status is a node id, the version of the node's targets, the time it was
observed at, and whether an instance of the component is active. The version moves
with new targets (`SetTargets`), not with the containers (`ContainersChange`), and the
time is read after both, so that neither tells the contents: a status may be dated
later than what it shows. `own` is what a node's status is now; `past`, `recent` and
`due` hold what a `resolveNodeStatus` that began when the node started, when its
`loadStatusLock` was last released, or with the pending callback, may return
(`MayReturn`). `calls` are the calls on their way to a node, `notices` the
copies of its map that its observer has still to apply, each taken from any place
of its queue. `listed` is what a refresh has read between `LogStatus` and
`SetAllNodes`; meanwhile answers (`AskStatus`) and broadcasts change the map.

**MaelService.** A call is validated, then becomes the list of its statements (`todo`);
calls of several clients interleave between statements, and a statement may fail, with its
effect (`AnswerLost`) or without (`Errs`), which ends the call, or, where the code passes
errors over, does not. `PutProject` and `RemoveProject` find a project's components by its
name in lower case, while each row holds the name as its definition spelled it when it was
inserted: `filed` says whether the two agree, and `List` and `ListOf` read the first page
of the rows that do. `tainted`, `alone` and `whole` are history: a statement was overtaken
where it matters, or an error passed over; nobody else wrote since the call began; its
lists had every row. A change of a component is told to the node's own subscribers and to
its peers by messages that may be lost and are delivered in any order; a peer reads the
row again.

**DaemonRoles, Cron, Pollers.** Time goes by in periods of the renewing ticker, in which
every running node serves each ticker once, early or late; leases count down in periods,
so time needs no bound. `Acquire` answers `mine`, `other` or `error`, the last after or
without a write. Cron's reload and a poller's reload are split at their database calls. A
reload whose `NewPollCreator` fails or finds no queue goes on without the source's role
ids and cancels its pollers (`NoPollCreator`). Clocks that differ are `RoleLock`'s subject
and left out here.

**Tasks.** The fate of messages and tasks at AWS, the batch in the poller's hands, the
request of each worker. A message whose visibility timeout passes is offered again. A
call that receives may be cut off, by its timeout or the cancellation, after AWS gave
the work away (`Miss`).

## Runs

| run | instance | asks |
|---|---|---|
| `role_lock` | 2 nodes, 3 goroutines (2 of one node), durations 1 and 2 of the other node, 2 tries, skew 1, clocks to 2 | one holder, a row is shortened by less duration only, the lease is implemented |
| `router` | 2 requests (one relayed), 2 handlers, limits 0 and 1, 2 channels | counters, mode, loop and channels agree; dispensers and cancel funcs are exact |
| `router_live` | 2 requests, 1 handler, 2 loops at once | a pending router is retried, requests leave, cancelled handlers stop |
| `starting` | 2 nodes, a series and a seriesfirst version with different health checks, clocks to 5; a container with 2 stops and 2 requests | starts in series and first starts overlap only if one is overdue; stopping waits for requests, and ends |
| `converger` | 2 ids, 2 versions (startstop, stopstart), 3 changes | nothing lost, callers answered, `Stop` cleans up |
| `registry` | 2 callers, 2 accepted calls, 2 convergers, 1 removal | one call per version, no converger escapes, calls return |
| `registry_deadlock` | the same, 1 accepted call | violation: `Shutdown` never returns |
| `scheduling` | rollouts of lists up to 4 containers; 3 nodes and 2 components scaled, 1 upset; 2 placements on 2 nodes, 1 failure | the plan reaches its target, the autoscaler fits, keeps what is in use, and rests; a queue has one placer, placements are answered |
| `cluster` | 3 node ids on 2 addresses, 2 upsets | views settle, an exited node stays out |
| `service` | 2 components, 2 sources, 2 calls, 1 failure, 2 nodes, pages of 1 and 2 rows | a project put is exact as far as it puts and reads, no orphan sources, caches catch up |
| `event_sources` | 2 nodes, 2 upsets; 1 cron rule; 2 role ids; 2 messages, 2 workers | one node per role, no work is dropped, daemons settle |
| `stepfunc_failure` | the same | violation: a refused task is not reported as failed |

The other configurations kept here, one for each statement
[that fails](#what-the-code-does-not-promise), are not part of the regular runs.

**Bounds.** `MaxClock`, `MaxTries`: with leases of length 1 and 2 and skew 1 a clock of 2
sees a lease granted, shortened, expired and granted to the other node, and 2 tries
include one retry. `MaxChans`, `MaxLoops`: channels destroyed and made anew once, and
loops that overlap. `MaxRemote`: two handlers of one url, so that cancelling the oldest
differs from cancelling the newest. `Stoppers`, `MaxConc`: two calls of `JoinAndStop`
race, and `statCh` can be full. `MaxCount` and `MaxBefore` of Rollout: up to four
containers, so that lists mix kept, outdated and marked ones in all orders. `MaxChanges`
counts in one number all that happens to a converger: targets, images, ticks, deaths and
failed calls; three of them with one container (two for a moment with startstop) include a
death during a replacement followed by a new target. `MaxConvs`, `MaxCalls`,
`MaxRemovals`: a removed component is added again while its first converger is still being
stopped. In `scheduling` nodes differ in memory and components in size, limits and
minimum, so that scaling one up needs the other displaced or moved; one change of load,
failing call or failing start is enough to leave any state from which the next pass must
recover. Placements have nodes without room for both components, so that two placements
displace each other; `MaxFailures` is one node that does not answer, or one call or answer
lost. `MaxUpsets` of `Cluster`, 2, includes a change followed by an exit, a death followed
by a new id on the same address, and a lost message; `MaxWaiting`, 2 calls and 2
snapshots, lets them overtake. `MaxCalls` of the service, 2, lets any two calls
interleave, or a call repair a failed one; its scenes avoid products of questions that do
not meet (two clients, two contents, lookups, a misspelled project, a page of one row with
two event sources). `MaxUpsets` of the daemons, 2: an outage during a takeover, a crash
after a graceful stop. `Duration` is 2, the least with which a lease outlives a missed
renewal. Nothing else is bounded but by the constants' sets. Runs check no deadlock where
the system may rest: no request, no change, or a clock at its bound.

**Symmetry** is used only in runs without liveness: goroutines of one node, handlers,
requests of one kind, nodes.

**Fairness.** Goroutines that can run do (weak fairness of their steps). Strong
fairness is used in `Router`, `Converger` and `ConvergeRegistry` only, because of the Go
runtime: senders blocked on a channel are queued in order, so `ProxyReturns`,
`TakeCaller` and `TakeSender` cannot be overtaken for ever; and `select` picks at
random among ready cases, so a run loop that is always busy still sees its
cancelled context (`Exit`). A request's deadline is fair because the gateway sets it
(`gateway.go:33-121`), and a proxied call ends with it. Messages in `Cluster` are
delivered or lost, the status loop goes round, and brings a placing node the statuses
of the others in the end (`HearOf`, `node_svc.go:857-884`); caches expire (`resolver.go`); an
outage of the database ends in the end, without which no daemon could settle.
Nothing else is assumed of what the environment does: new requests, targets,
events, ticks, deaths and signals have no fairness, and neither have the accepting
of requests by a dispenser or the wake-ups of a converger. Where a property says
that something settles, the upsets are bounded, which is "nothing changes any more".

**Assumptions.** Clocks of nodes stay within `Skew` of each other. The database
executes a statement atomically. Docker removes what it is asked to remove
(the code logs the error and goes on, `container.go:268-276`). All callers of
`StartStopComponents` block (`node_svc.go:484`, `604`). In `Scale` one node scales at
a time, which the role gives, and no placement comes between; an instance is started
late while a pass applies its plan or before it makes one, as it plans at once. A node of which
several goroutines ask for one role at a time asks for one duration (placement, 1
minute); several durations are asked for by one goroutine of a node, the autoscaler's
loop or a component's converger (`LockAssumption`). That leaves out a removed converger
that still asks for the start lock while its successor does.

## Proofs

All proofs hold for every value of the constants that satisfies the named
assumptions; they use no bound of the runs.

**DatabaseProofs, the role lock.** `MutualExclusion` is not inductive: a node that is told
it has the role must find the row its own. `IInv` says so (`HolderOwnsRow`) and adds why
it stays so: the row never lies further ahead than its owner's clock plus the longest
duration (`RowNotFar`), and an expiry is computed from a clock reading taken after the
`SELECT`, so that it is never behind what was read (`ReadingFresh`), while clocks stay
together (`ClocksClose`). Hence a foreign update needs `expires < now`, which a holder's
lease excludes. As durations differ, a renewal may cut the row below what the node was
granted before: a goroutine that asks alone counts on no more than the row it is about to
write (`CountsOnLess`), and several ask for one duration. `Inductive` proves it step by
step, with `WriteSafe` and `WriteStep` for the three places that write the row.
`Exclusive`, `RenewalsKeepTime` (a row loses at most what two durations of its new owner
differ by, so with one duration nothing, however old the reading it was made from) and
`Implements` (every step is a `Lease` step or a stutter) follow.

**DatabaseProofs, the service.** `NoOrphans` and `PutProjectIsExact` hold because of what
a call has still to do, so `ServiceInv` is about its list of statements, of any length. In
a call that nobody overtook, every component's row goes right after its event sources, and
every event source is put for a component that is there, or put or found by an earlier
statement, and that no statement removes (`Ready`). With `Owned`, that there is no orphan
now, each statement keeps both (`ReadyTail`, `OwnedStep`). While a project put reads, what
it has read is in the tables, and what it has not read is on its list or was not listed to
it (`HasRead`); then it has statements of its input only, and wherever the tables differ
from the input, in a row that it puts or has read, one of them puts that right (`Due`),
which `DiffIs` shows of the comparison in `project.go` and `DueTail` of each statement
done. When the list is empty nothing differs in these rows; and there are no others when
its lists were `whole`. A call that writes ends all this for the others, which is what
`alone` records. The lists come from sets in any order (`SetToSeqLists`) and are joined by
a fold (`FlattenReturns`).

**RoutingProofs, the router.** In layers, each using those below: `TypeCorrect`; `Counters`
(the counters are the cardinalities of the sets of handlers and requests, so the
panic of `HandlerStop` is unreachable); `Modes` (the mode is a function of those
sets); `LoopAlive`; `Channels` (open channels only); together `RouterConsistent`;
and `Dispensers` (a dispenser's count is its requests plus the completions unseen).
`StepKinds` classifies the actions by what they do to the sets, so that the
counting argument is made once per kind and not per action.

`RemotesTracked` rests on `TrackInv`: every handler that is to be tracked is in the list
of its url, no handler is in two places, and one that is free was not cancelled.
`SetRemoteHandlerCounts` cuts or extends all lists at once; that the lists it
extends have the lengths asked for, with handlers that are all different, is a
counting argument (`ListsFit`).

**StartingProofs.** For the start lock, `IInv` says that a start under the lock began
with a lease of its version's length (`StartHasLease`), that a start without it is of a
version that has come up (`UnlockedIsLater`), that all the database, the plans and the
post-start steps know of has come up (`KnownIsUp`), and that of two locked starts one is
overdue (`OneLocked`): the second was granted after the first's lease had expired on some
clock. `Series` and `SeriesFirst` follow, and `StartsAreSerial` for the composition, with no
assumption on how long starts take.

For the container: a stop that found the dispenser at work waits until it is gone, and a
dispenser goes only when nobody is inside: `LifeInv` ties each call's progress to the
two wait groups and to the requests still proxied. `JoinAndStopDrains` follows for
any number of calls, requests and health check failures.

**EventSourcesProofs.** That two schedulers exclude each other is not inductive: a
scheduler runs through a whole period without asking. `SourcesInv` says how old its
confirmation may be: on a node whose last renewal did not fail, what runs has a
lease that has not expired, and one of full length from the moment the node renewed
it in this period (`CronInv`). For pollers the renewal is spread over a reload:
a role already asked for has a full lease, one still to be asked for has what the
last period left, and one that is no longer valid is cancelled when the reload ends
(`PollInv`); a reload in progress holds up its node's period. As a role has one
unexpired lease (`OneLease`), `OneNodeRunsRole` follows, for any nodes, roles, rules,
lease of two periods or more, and number of upsets.

A poller's work: `WorkInv` joins the types and `NoneIsDropped`, of which each step
keeps a part: what AWS gives away is in the batch, with a worker, or missed (`GivenInv`),
a message leaves the batch for a worker, and a worker with its answer (`AnsweredInv`), and
`Return` waits for both to be empty. `PollerDropsNothing` holds for any messages,
workers and redeliveries.

**ConvergeRegistryProofs.** `RegistryInv` joins four parts. `Typed` is the type invariant
with what calls refer to (`Refs`) and why a count stays within its target (`Wanted`); it
is proved in the layers `FieldsStep`, `KeptStep`, `RefsStep`, `GlobalsStep` and
`MappedStep`. `Versions`: an accepted call saw a version that is over, so the next one
accepted saw another. `Stops`: the map loses a converger only to `toStop`, or when
`Shutdown` returns, and what it then finds was cancelled when it began, as nobody
writes the map while it holds the lock (`StopKinds`, `MapStep`). `Served`: run loop and
caller name each other. `OneCallPerVersion`, `EveryConvergerIsStopped` and `AnswersMatch`
follow for any number of components, calls, convergers and removals.

**ConvergerProofs.** `NoOrphan` is not inductive: an id that is taken again must not be
listed, and what removes a container from the list must know that it is dead.
`IInv` adds where the run loop stands with the container of its step (`StepOK`), that
no id is listed twice (`Distinct`), and that an exit event is about a container that
runs no more, until its id is free (`EventsDead`, `HandledDead`). The plan and the torn
views do not matter for it: whatever a plan says, what it stops is stopped first.

`MemoryBounded` is the reserve that `restartOrder` documents
(`project_yaml_ref.md:134-139`), with one container more for each removal by an exit
event while a plan reads the list (`converger.go:221-254`, `387-418`); `base` counts
those. A plan is made from a reading that may be torn, and carried out when the list
is another, so `CountInv` says what a reading is worth. Containers are listed in the
order of their creation (`Rising`) and the array's elements only move up, so what a
reader has seen at a place came no later than what the list has there, and what it
has still to read is the list (`Reading`). While a plan is carried out (`PlanAt`,
`StepAt`), the listed containers that it does not stop any more (`Later`) are at most those it
kept, those that escaped the reading, and those it has started (`Keeps`).

`QuietIsConverged` is that no wake-up is lost. `QuietInv` says of every moment, not only
of the quiet ones: while nothing is on its way to the run loop, its reading is the
list, its plan is the plan of the current target, and the list follows the plan from
step to step. Everything that changes the target or the list otherwise (an event, a
target, a failed start) leaves a wake-up or ends the plan, and the loop begins again.
When the loop rests the plan is done, and `PlanEmpty` says what a list without a plan
looks like.

**PlanProofs.** What `plan()` returns, for every list and target: `ScanStep` is the loop's
invariant, `ScanReturns` its result (what is kept, stopped, and in which order),
`Alternate` is described by its halves (`Halves`, `AlternateStep`), and from them
what the first `p` steps of a plan come to: how many containers there are then
(`PlanBalance`), which (`PlanLeaves`), that none that fits is stopped unless there are too many
(`PlanKeeps`), and that a plan is empty only if nothing is to be done (`PlanEmpty`). The
lists are sequences of any length; the inductions are over natural numbers, by
`SetInduction`, which does with a set what the library does with a predicate.

**SchedulingProofs.** For rollouts: `RollingInv` says that the list is what the first
`p` steps of the plan made of it, but for what a failed start left out. With `PlanProofs`
a rollout that no start failed ends at its target (`RolloutReachesTarget`), keeps what fits
(`RolloutKeepsWhatFits`), and with startstop never has less than it should at any step
(`RolloutKeepsCapacity`), for lists of any length.

For the autoscaler, on any number of nodes and components: sums over nodes and over
components are folds, which `SumIs`, `SumNat` and `SumChange` describe (the value of one
argument changed changes the sum by as much). `ScaleInv` has the types of a pass
(`PassOK`) and, while a plan is made, that it starts from what runs and that the steps
done lead from there to the target without overshooting (`PlanInv`, `OnTheWay`);
`WithinTarget` follows. `FittingInv` says that what runs and what is planned fit every
node, and that an option's memory is what its containers charge (`RunsFit`, `OptionsFit`),
so that a node fits before and after its call, whichever calls of a group fail, and
whatever instances do not start. In `NodesAreNeverOverfull` only memory that components
state counts, as the autoscaler takes no other into account (finding 4), and a node that
has started an instance late, after a pass took it for missing, is excepted: it may have
been given another meanwhile. `KeepInv` says that a node not told yet runs what it did or
more, and a node told runs what it shall unless its call failed or it did not start an
instance, in the order of the groups (`Told`), and that the plan leaves a component in use
an instance. With that `RecentComponentsStay` lets any call fail and any node refuse or
fail to start, and says which of it may cost a component its last instance: a node that
did not start the one that was to replace it while its call succeeded, since the node that
only stops is told then; and a move between two nodes that both start and stop something,
as these are told at the same time and the one may stop before the other has started. A
call that fails costs none otherwise: the groups after it are given up.

For placements: `QueueHasPlacer` counts, `QueueInv` says who: a queue
is open exactly while a call places its component (`OpenWhilePlaced`, `OnePlacer`),
whoever waits is in the queue of its component on its node (`WaitQueued`), and a
queue holds only calls that wait or gave up (`QueuedWait`), so that the placer's answer
goes to nobody else.

**RoutingProofs, the cluster.** `ExitedStaysOut` is an action property: rows are written
by nodes that are alive, and `Exit` removes a node's row last. `IInv` says that what a
node reports is its own status (`OwnStatuses`) and that no table, no map and no snapshot
of a refresh has two of a node (`OneStatusEach`).

**Model-checked only.** Liveness: `PendingIsRetried`, `RequestLeaves`, `CancelledStops`,
`StopEnds`, `CallerAnswered`, `StopCleansUp`, `AcceptedCallReturns`, `StoppedIsEmptied`,
`DaemonsSettle`, `ViewsSettle`, `CallsAnswered`, `CachesCatchUp`, and `Settles`. Every
safety property of the runs is proved, invariants and action properties. The type
invariants of `Router`, `RoleLock`, `MaelService`, `ContainerLife`, `Cron`, `Pollers`,
`Tasks` and `ConvergeRegistry` are proved, those of the other modules hold in the
instances of the runs.

## Findings

1. **Shutdown can deadlock** (`registry_deadlock`, `registry.go:70`). It keeps the
   registry's lock while it waits for the run loops, and a run loop that creates a
   container needs that lock for its id.
2. **A refused task may never be reported** (`stepfunc_failure`, `stepfunc.go:207`). When
   a component answers with an error and without the cause header, the code calls
   `Error()` on a nil error before it calls `SendTaskFailure`; the process ends and the
   task is left to its timeout. The document says the header is optional.
3. **Series starts can overlap** (`MCStartLockSlow.cfg`, `complock.go:30`). The start lock
   lasts one second longer than the health check and is not renewed, but Docker is given
   up to a minute before the check begins. The document says that containers start one at
   a time.
4. **The autoscaler does not count default memory** (`MCScaleDefault.cfg`,
   `scale.go:187`). A component that does not say how much memory to reserve has 128 MiB
   reserved (`docker.go:379-381`, `maelstrom.idl:352-353`) and is placed first with as
   much (`node_svc.go:391-394`), but the autoscaler plans with 0, so that any number of
   its instances fit a node.
5. **A project with a capital in its name keeps what was removed from it**
   (`MCMaelServiceName.cfg`, `mael_svc.go:210`). `PutProject` looks for the project's
   components under its name in lower case, but stores them under the name as it was given
   (`project.go:255`), so the next put finds none of them: it inserts again what is there,
   which fails, and removes nothing (with a database that tells capitals apart, as SQLite
   and PostgreSQL do). The interface's comment says that components no longer in the input
   are removed (`maelstrom.idl:27-30`). Beyond that, what comes after the first 1000 rows
   of a list is not found either (`sql_db.go:301-335`), which the run `service` leaves to
   pages of one row.

### What the code does not promise

Statements that fail, each with a configuration whose counterexample TLC prints.
They mark the limits of what the runs above show.

| configuration | statement | because |
|---|---|---|
| `MCStartingLate.cfg` (module `MCStarting`) | `AlwaysRemovedDrained` | a `JoinAndStop` between the start and `run()` finds both wait groups empty, removes the container, and `run()` then serves it (`container.go:183-199`) |
| `MCStartLockSlow.cfg` (module `MCStarting`) | `SeriesIsSerial` | the start lock expires under a start that Docker keeps (finding 3) |
| `MCScaleDefault.cfg` (module `MCScheduling`) | `FitsWithDefault` | memory that is not stated counts as none (finding 4) |
| `MCMaelServiceName.cfg` (module `MCMaelService`) | `PutProjectIsComplete` | rows are looked for under another name than they are filed under (finding 5) |
| `MCConvergerTorn.cfg` (module `MCConverger`) | `AllAlive` | an exit event walks the array without the lock while the run loop shifts it, and may skip the dead container; the plan goes on counting it (`converger.go:224`) |
| `MCConvergeRegistryExit.cfg` (module `ConvergeRegistry`) | `NothingRunsAfterExit` | convergers stop before the HTTP servers, and containers' goroutines are not waited for (`maelstromd.go:344`) |
| `MCPlacementOvercommit.cfg` (module `MCScheduling`) | `NeverOvercommitted` | two placements at once, or one from an old view, go to a node with room for one |

Seen while modelling and not checked: two accepted calls may set their targets in the
other order (`registry.go:160`; no document says which must stand, and `ConvergeRegistry`
lets both happen). With room for one component only, two placements can displace each
other until their deadlines; placement asks for a node with more memory than required
(`node_svc.go:437`), the autoscaler for at least as much. A changed maximum of concurrency
is not applied to remote handlers while their counts stay (`node_svc.go:164`). A row
removed and created again starts at version 1, so a stale update may match it
(`sql_db.go:519`). `PutProject` fails when an event source leaves a component that is
removed for one that is kept: the removal takes its row away, and the put still carries
the old version (`mael_svc.go:131-190`, `project.go:60-92`). A disabled event source is
put again by every `PutProject`. `GetComponent` errors other than not-found are passed
over by `PutEventSource` (`mael_svc.go:340`). `SetComponent` has no version guard, so
notifications that overtake may leave the older version (`converger.go:137`). The Docker
event stream is not reopened after an error (`docker.go:110`). `WaitForInflightToDrain`
ranges over the routers' map without its lock (`router/registry.go:45`).

## Plan

Done, most important first: the lease everything in the cluster rests on, the router
every request goes through, the converger every container comes from, the registry
that joins them; then placement, autoscaling, the cluster's views, the service with
its caches, the daemons, and the goroutines of one container.

Left:

1. The match order of HTTP event sources (`sort.go`) against a definition of what it is
   for, and the enabling of event sources by name patterns.
2. A request across two routers that relay it to each other (`router.go:266`): each
   hop leaves by its deadline, which `RequestLeaves` has; the number of hops is open.

## Not modelled

Statistics, logging, metrics, formats and HTTP copying: no property depends on
them. The image puller and pruner, TLS, configuration, `maelctl` and VM provisioning:
sequential I/O. `pkg/v1/v1.go`: generated. The router registry: get-or-create under
a lock. The termination loop of AWS lifecycle events and the pruning of old events: a
call per tick. The unused `RevProxyLoop`. That a poller's goroutine may read another
role id's concurrency (`evpoller.go:161`), and that nodes with different views may ask
for different role ids for a while (`aws_sqs.md:52` allows it): no property counts the
requests of a poller. What a database, Docker, AWS or a clock does inside:
external, modelled by what the code can observe of it (`Crash`, `Tick`, `Dies`, `Reappear`).
