---------------------------- MODULE EventSources -----------------------------
(***************************************************************************)
(* The daemons that feed event sources: "cron", the "pollers" of an event  *)
(* source, and the "tasks" of one poller.  They share nothing that changes *)
(* (the roles are different rows of the database), so a behaviour follows  *)
(* one of them.                                                            *)
(***************************************************************************)
EXTENDS Cron, Pollers, Tasks

VARIABLE daemon  \* the daemon a behaviour follows

vars == <<daemon, roleVars, cronVars, pollVars, taskVars>>

TypeOK ==
  /\ daemon \in {"cron", "pollers", "tasks"}
  /\ RolesTypeOK /\ CronTypeOK /\ PollersTypeOK /\ TasksTypeOK

Init ==
  /\ daemon \in {"cron", "pollers", "tasks"}
  /\ RolesInit /\ CronInit /\ PollersInit /\ TasksInit
  /\ daemon # "cron" => table = {}
  /\ daemon # "pollers" => ~enabled /\ \A k \in Counts : k <= count
  /\ daemon # "tasks" => source = "sqs"

CronOnly == daemon = "cron" /\ UNCHANGED <<daemon, pollVars, taskVars>>
PollersOnly == daemon = "pollers" /\ UNCHANGED <<daemon, cronVars, taskVars>>
TasksOnly == daemon = "tasks" /\ UNCHANGED <<daemon, roleVars, cronVars, pollVars>>

Next ==
  \/ CronOnly /\ CronNext
  \/ PollersOnly /\ PollersNext
  \/ TasksOnly /\ TasksNext

(* Tickers fire, calls return, requests are answered. *)
Fairness ==
  /\ WF_vars(CronOnly /\ Tick /\ UNCHANGED cronVars)
  /\ WF_vars(PollersOnly /\ Tick /\ UNCHANGED pollVars)
  /\ \A n \in Nodes :
       /\ WF_vars(CronOnly /\ CronStep(n))
       /\ WF_vars(CronOnly /\ CronRelease(n))
       /\ WF_vars(daemon # "tasks" /\ Reconnect(n)
                    /\ UNCHANGED <<daemon, cronVars, pollVars, taskVars>>)
       /\ WF_vars(PollersOnly /\ PollersStep(n))
       /\ WF_vars(PollersOnly /\ ViewChanges(n))
       /\ WF_vars(PollersOnly /\ \E r \in Roles : PollerReturns(n, r))
       /\ WF_vars(PollersOnly /\ PollersRelease(n))
  /\ \A w \in Workers : WF_vars(TasksOnly /\ TaskStep(w))
  /\ WF_vars(TasksOnly /\ Return)

Spec == Init /\ [][Next]_vars /\ Fairness
-----------------------------------------------------------------------------
Runs(n, r) ==
  IF daemon = "cron" THEN r = CronRole /\ CronRuns(n)
  ELSE daemon = "pollers" /\ Polls(n, r)

(* Two nodes run the same role only when one of them could not reach the
   database in its last period (cron.go:93-113, evpoller.go:136-177;
   docs/gitbook/event_sources/cron.md:9).  The role is lost and taken over by
   renewals that interleave with crashes, with the graceful stop of a node and
   with changes of the event sources and of the containers' count. *)
OneNodeRuns ==
  \A r \in Roles, m, n \in Nodes :
    m # n /\ Runs(m, r) /\ Runs(n, r) => failing[m] \/ failing[n]

(* Once the event sources, the containers, the nodes and the database leave
   them in peace, the daemons run exactly what is configured: one node
   schedules the cron rules as they are now, and every role id of the poller's
   concurrency is polled by one node and no other is (cron.go:123-161,
   evpoller.go:90-134).  A poller that is cancelled hands its batch over,
   finishes its requests and returns (sqs.go:147-193). *)
DaemonsSettle ==
  <>[](CASE daemon = "cron" -> CronSettled
         [] daemon = "pollers" -> PollersSettled
         [] daemon = "tasks" -> run # "cancelled")
=============================================================================
