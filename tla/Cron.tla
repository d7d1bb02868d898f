--------------------------------- MODULE Cron --------------------------------
(***************************************************************************)
(* CronService (pkg/evsource/cron/cron.go): every node runs the service,   *)
(* the one that has the role "cron" runs the scheduler with the event      *)
(* sources it loaded.  Tickers are "lock" and "reload".                    *)
(***************************************************************************)
EXTENDS DaemonRoles

CONSTANTS CronRole,    \* db.RoleCron
          Rules,       \* cron event sources that may be defined
          None         \* nothing was loaded yet

ASSUME CronAssumption == CronRole \in Roles /\ {"lock", "reload"} \subseteq Tickers

VARIABLES table,      \* cron event sources in the database
          scheduler,  \* scheduler[n]: c.cron, "nil", "running" or "stopped"
          loaded,     \* loaded[n]: c.eventSources, None before the first load
          loading     \* loading[n]: n has the role and reads the event sources

cronVars == <<table, scheduler, loaded, loading>>

CronTypeOK ==
  /\ table \subseteq Rules
  /\ scheduler \in [Nodes -> {"nil", "running"}]
  /\ loaded \in [Nodes -> (SUBSET Rules) \cup {None}]
  /\ loading \in [Nodes -> BOOLEAN]

CronInit ==
  /\ table \in SUBSET Rules
  /\ scheduler = [n \in Nodes |-> "nil"]
  /\ loaded = [n \in Nodes |-> None]
  /\ loading = [n \in Nodes |-> FALSE]

-----------------------------------------------------------------------------
StopCron(n) == scheduler' = [scheduler EXCEPT ![n] = "nil"]

(* Mutant: the scheduler goes on when another node has the role. *)
AcquireRoleOrStop_Goes(n, answer) ==
  /\ Acquire(n, CronRole, answer)
  /\ failing' = [failing EXCEPT ![n] = answer = "error"]
  /\ UNCHANGED scheduler

(* Only an answer stops the scheduler: after an error it goes on. *)
AcquireRoleOrStop(n, answer) ==
  /\ Acquire(n, CronRole, answer)
  /\ failing' = [failing EXCEPT ![n] = answer = "error"]
  /\ IF answer = "other" THEN StopCron(n) ELSE UNCHANGED scheduler

InLoop(n) == phase[n] = "up" /\ ~loading[n]

LockTick(n) ==
  /\ InLoop(n) /\ "lock" \in ticks[n]
  /\ Served(n, {"lock"})
  /\ \E answer \in Answers : AcquireRoleOrStop(n, answer)
  /\ UNCHANGED <<phase, cut, upsets, table, loaded, loading>>

ReloadTick(n) ==
  /\ InLoop(n) /\ "reload" \in ticks[n]
  /\ \E answer \in Answers :
       /\ AcquireRoleOrStop(n, answer)
       /\ IF answer = "mine"
          THEN loading' = [loading EXCEPT ![n] = TRUE] /\ UNCHANGED ticks
          ELSE Served(n, {"reload"}) /\ UNCHANGED loading
  /\ UNCHANGED <<phase, cut, upsets, table, loaded>>

(* reloadRulesAndStartCron: a new scheduler unless the old one is up to date;
   none when there is nothing to schedule. *)
Reload(n) ==
  /\ loading[n] /\ n \notin cut
  /\ loading' = [loading EXCEPT ![n] = FALSE]
  /\ Served(n, {"reload"})
  /\ IF scheduler[n] = "nil" \/ loaded[n] # table
     THEN /\ scheduler' = [scheduler EXCEPT ![n] =
                             IF table = {} THEN "nil" ELSE "running"]
          /\ loaded' = [loaded EXCEPT ![n] = table]
     ELSE UNCHANGED <<scheduler, loaded>>
  /\ UNCHANGED <<left, failing, phase, cut, upsets, table>>

ReloadFails(n) ==
  /\ loading[n] /\ n \in cut
  /\ loading' = [loading EXCEPT ![n] = FALSE]
  /\ Served(n, {"reload"})
  /\ UNCHANGED <<left, failing, phase, cut, upsets, table, scheduler, loaded>>

(* c.ctx.Done(): the scheduler stops; main() releases the roles after it. *)
CronDone(n) ==
  /\ InLoop(n) /\ Leave(n, "stopping")
  /\ StopCron(n)
  /\ ticks' = [ticks EXCEPT ![n] = {}]
  /\ UNCHANGED <<left, failing, cut, table, loaded, loading>>

CronRelease(n) == ReleaseAllRoles(n) /\ UNCHANGED cronVars

CronCrash(n) ==
  /\ phase[n] = "up" /\ Leave(n, "down")
  /\ StopCron(n)
  /\ loaded' = [loaded EXCEPT ![n] = None]
  /\ loading' = [loading EXCEPT ![n] = FALSE]
  /\ UNCHANGED <<left, ticks, failing, cut, table>>

(* A user adds, removes, enables or disables a cron event source. *)
ChangeRules ==
  /\ Upset
  /\ table' \in SUBSET Rules \ {table}
  /\ UNCHANGED <<left, ticks, failing, phase, cut, scheduler, loaded, loading>>

CronStep(n) == LockTick(n) \/ ReloadTick(n) \/ Reload(n) \/ ReloadFails(n)

CronNext ==
  \/ \E n \in Nodes : CronStep(n) \/ CronDone(n) \/ CronRelease(n) \/ CronCrash(n)
  \/ ChangeRules
  \/ UNCHANGED cronVars /\ (Tick \/ \E n \in Nodes : CutOff(n) \/ Reconnect(n))

CronRuns(n) == scheduler[n] = "running"

(* A running scheduler of the event sources as they are, and no other. *)
CronSettled ==
  /\ table # {} => \E n \in Nodes : CronRuns(n)
  /\ \A n \in Nodes : CronRuns(n) => loaded[n] = table
=============================================================================
