------------------------- MODULE EventSourcesProofs -------------------------
(***************************************************************************)
(* Proofs about EventSources: a role of the cron service or of a poller     *)
(* runs on one node, unless a node could not reach the database in its last *)
(* period, for any nodes, roles and rules, any length of the lease from two *)
(* periods on, and any outages, stops, crashes and changes.                 *)
(***************************************************************************)
EXTENDS EventSources, TLAPS

(* One node has a lease that has not expired. *)
OneLease ==
  \A r \in Roles : \A m, n \in Nodes : left[r][m] > 0 /\ left[r][n] > 0 => m = n

(* A scheduler that runs was confirmed by the lease in this period, or in the
   one before and has not asked yet. *)
CronInv ==
  \A n \in Nodes :
    /\ loading[n] => /\ phase[n] = "up" /\ "reload" \in ticks[n]
                     /\ left[CronRole][n] = Duration /\ ~failing[n]
    /\ CronRuns(n) => phase[n] = "up"
    /\ CronRuns(n) /\ ~failing[n] =>
         /\ left[CronRole][n] >= 1
         /\ ticks[n] # Tickers => left[CronRole][n] = Duration

(* So was a poller that runs: by the reload in progress, once its role was
   asked for, or by the last one. *)
PollInv ==
  \A n \in Nodes :
    /\ phase[n] = "up" /\ todo[n] # NoReload => "reload" \in ticks[n]
    /\ \A r \in Roles : Polls(n, r) =>
         /\ phase[n] = "up"
         /\ ~failing[n] => left[r][n] >= 1
         /\ ~failing[n] /\ "reload" \notin ticks[n] => left[r][n] = Duration
         /\ todo[n] # NoReload /\ r \in valid[n] \ todo[n] => left[r][n] = Duration

RolesInv == RolesTypeOK /\ OneLease

SourcesInv ==
  /\ RolesInv
  /\ daemon = "cron" => CronTypeOK /\ CronInv
  /\ daemon = "pollers" => PollersTypeOK /\ PollInv

LEMMA InitInv == Init => SourcesInv
<1> SUFFICES ASSUME Init PROVE SourcesInv
  OBVIOUS
<1>1. RolesInv
  <2>1. 0 \in 0 .. Duration /\ 0 \in 0 .. MaxUpsets
    BY DaemonAssumption
  <2> QED
    BY <2>1 DEF Init, RolesInit, RolesInv, RolesTypeOK, OneLease
<1>2. CronTypeOK /\ CronInv
  <2>1. CronInit
    BY DEF Init
  <2>2. CronTypeOK
    <3>1. table \subseteq Rules
      BY <2>1 DEF CronInit
    <3>2. scheduler \in [Nodes -> {"nil", "running"}]
      BY <2>1 DEF CronInit
    <3>3. loaded \in [Nodes -> (SUBSET Rules) \cup {None}]
      BY <2>1 DEF CronInit
    <3>4. loading \in [Nodes -> BOOLEAN]
      BY <2>1 DEF CronInit
    <3> QED
      BY <3>1, <3>2, <3>3, <3>4 DEF CronTypeOK
  <2>3. CronInv
    BY <2>1 DEF CronInit, CronInv, CronRuns
  <2> QED
    BY <2>2, <2>3
<1>3. PollersTypeOK
  <2>1. PollersInit
    BY DEF Init
  <2>2. count \in Counts /\ enabled \in BOOLEAN
    BY <2>1 DEF PollersInit
  <2>3. view \in [Nodes -> Counts]
    BY <2>1 DEF PollersInit
  <2>4. poller \in [Nodes -> [Roles -> {"none", "running", "cancelled"}]]
    BY <2>1 DEF PollersInit
  <2>5. valid \in [Nodes -> SUBSET Roles]
    BY <2>1 DEF PollersInit
  <2>6. todo \in [Nodes -> (SUBSET Roles) \cup {NoReload}]
    BY <2>1 DEF PollersInit
  <2> QED
    BY <2>2, <2>3, <2>4, <2>5, <2>6 DEF PollersTypeOK
<1>4. PollInv
  BY DEF Init, PollersInit, PollInv, Polls
<1> QED
  BY <1>1, <1>2, <1>3, <1>4 DEF SourcesInv
-----------------------------------------------------------------------------
(* What AcquireOrRenewRole leaves of the leases. *)
LEMMA AcquireKeeps ==
  ASSUME RolesInv, NEW n \in Nodes, NEW r \in Roles, NEW answer \in Answers,
         Acquire(n, r, answer)
  PROVE  /\ left' \in [Roles -> [Nodes -> 0 .. Duration]]
         /\ OneLease'
         /\ answer = "mine" => left'[r][n] = Duration
         /\ \A q \in Roles, m \in Nodes :
              q # r \/ m # n => left'[q][m] = left[q][m]
<1> USE DEF RolesInv, RolesTypeOK, OneLease
<1>1. CASE UNCHANGED left /\ answer # "mine"
  BY <1>1
<1>2. CASE Free(n, r) /\ Leased(n, r)
  <2>1. left' = [left EXCEPT ![r][n] = Duration] /\ Duration \in 0 .. Duration
    BY <1>2, DaemonAssumption DEF Leased
  <2>2. /\ left' \in [Roles -> [Nodes -> 0 .. Duration]]
        /\ left'[r][n] = Duration
        /\ \A q \in Roles, m \in Nodes : q # r \/ m # n => left'[q][m] = left[q][m]
    BY <2>1
  <2>3. OneLease'
    BY <1>2, <2>2 DEF Free
  <2> QED
    BY <2>2, <2>3
<1> QED
  BY <1>1, <1>2 DEF Acquire, Answers

(* The end of a period. *)
LEMMA TickKeeps ==
  ASSUME RolesInv, Tick
  PROVE  /\ RolesInv'
         /\ \A r \in Roles, n \in Nodes : left[r][n] = Duration => left'[r][n] >= 1
<1>1. \A r \in Roles, n \in Nodes :
        left[r][n] \in 0 .. Duration
        /\ left'[r][n] = IF left[r][n] > 0 THEN left[r][n] - 1 ELSE 0
  BY DEF RolesInv, RolesTypeOK, Tick
<1>2. \A r \in Roles, n \in Nodes :
        /\ left'[r][n] \in 0 .. Duration
        /\ left'[r][n] > 0 => left[r][n] > 0
        /\ left[r][n] = Duration => left'[r][n] >= 1
  BY <1>1, DaemonAssumption
<1>3. left' \in [Roles -> [Nodes -> 0 .. Duration]]
  BY <1>2 DEF Tick
<1> QED
  BY <1>2, <1>3 DEF RolesInv, RolesTypeOK, OneLease, Tick

(* Outages, exits and releases. *)
LEMMA LifeKeeps ==
  ASSUME RolesInv, NEW n \in Nodes,
         \/ CutOff(n) \/ Reconnect(n) \/ ReleaseAllRoles(n)
         \/ \E to \in {"stopping", "down"} :
              Leave(n, to) /\ UNCHANGED <<left, failing, cut>> /\ ticks' \in [Nodes -> SUBSET Tickers]
  PROVE  RolesInv'
<1> USE DaemonAssumption DEF RolesInv, RolesTypeOK, OneLease
<1>1. CASE CutOff(n) \/ Reconnect(n)
  BY <1>1 DEF CutOff, Reconnect, Upset
<1>2. CASE ReleaseAllRoles(n)
  <2>1. \A r \in Roles, m \in Nodes : left'[r][m] \in {0, left[r][m]}
    BY <1>2 DEF ReleaseAllRoles
  <2>2. left' \in [Roles -> [Nodes -> 0 .. Duration]]
    BY <1>2 DEF ReleaseAllRoles
  <2> QED
    BY <1>2, <2>1, <2>2 DEF ReleaseAllRoles
<1>3. CASE \E to \in {"stopping", "down"} :
             Leave(n, to) /\ UNCHANGED <<left, failing, cut>> /\ ticks' \in [Nodes -> SUBSET Tickers]
  <2>1. upsets + 1 \in 0 .. MaxUpsets
    BY <1>3 DEF Leave, Upset
  <2>2. PICK to \in {"stopping", "down"} : phase' = [phase EXCEPT ![n] = to]
    BY <1>3 DEF Leave
  <2>3. phase' \in [Nodes -> {"up", "stopping", "down"}]
    BY <2>2
  <2> QED
    BY <1>3, <2>1, <2>3 DEF Leave, Upset
<1> QED
  BY <1>1, <1>2, <1>3
-----------------------------------------------------------------------------
(* A try to get the role, on either ticker: the node that runs the scheduler
   has just been confirmed, or knows that the database failed. *)
LEMMA AskKeeps ==
  ASSUME RolesInv, CronTypeOK, CronInv, NEW n \in Nodes, NEW answer \in Answers,
         AcquireRoleOrStop(n, answer)
  PROVE  /\ left' \in [Roles -> [Nodes -> 0 .. Duration]] /\ OneLease'
         /\ failing' \in [Nodes -> BOOLEAN]
         /\ scheduler' \in [Nodes -> {"nil", "running"}]
         /\ \A m \in Nodes \ {n} : /\ left'[CronRole][m] = left[CronRole][m]
                                  /\ failing'[m] = failing[m]
                                  /\ scheduler'[m] = scheduler[m]
         /\ scheduler'[n] = "running" => scheduler[n] = "running"
         /\ scheduler'[n] = "running" /\ ~failing'[n] => left'[CronRole][n] = Duration
         /\ answer = "mine" => left'[CronRole][n] = Duration /\ ~failing'[n]
<1>1. CronRole \in Roles /\ Acquire(n, CronRole, answer)
  BY CronAssumption DEF AcquireRoleOrStop
<1>2. /\ left' \in [Roles -> [Nodes -> 0 .. Duration]] /\ OneLease'
      /\ answer = "mine" => left'[CronRole][n] = Duration
      /\ \A m \in Nodes \ {n} : left'[CronRole][m] = left[CronRole][m]
  BY <1>1, AcquireKeeps
<1>3. /\ failing' = [failing EXCEPT ![n] = answer = "error"]
      /\ failing \in [Nodes -> BOOLEAN]
  BY DEF AcquireRoleOrStop, RolesInv, RolesTypeOK
<1>4. /\ failing' \in [Nodes -> BOOLEAN] /\ failing'[n] = (answer = "error")
      /\ \A m \in Nodes \ {n} : failing'[m] = failing[m]
  BY <1>3
<1>5. /\ scheduler' \in [Nodes -> {"nil", "running"}]
      /\ \A m \in Nodes \ {n} : scheduler'[m] = scheduler[m]
      /\ scheduler'[n] = "running" => scheduler[n] = "running" /\ answer # "other"
  BY DEF AcquireRoleOrStop, StopCron, CronTypeOK
<1> QED
  BY <1>2, <1>4, <1>5 DEF Answers

LEMMA CronTickersInv ==
  ASSUME RolesInv, CronTypeOK, CronInv, NEW n \in Nodes, LockTick(n) \/ ReloadTick(n)
  PROVE  RolesInv' /\ CronTypeOK' /\ CronInv'
<1>1. PICK answer \in Answers : AcquireRoleOrStop(n, answer)
  BY DEF LockTick, ReloadTick
<1>2. /\ phase[n] = "up" /\ ~loading[n] /\ UNCHANGED <<phase, cut, upsets, table, loaded>>
      /\ ticks' \in [Nodes -> SUBSET Tickers]
      /\ \A m \in Nodes \ {n} : ticks'[m] = ticks[m] /\ loading'[m] = loading[m]
      /\ loading' \in [Nodes -> BOOLEAN]
  BY DEF LockTick, ReloadTick, InLoop, Served, RolesInv, RolesTypeOK, CronTypeOK
<1>3. RolesInv'
  BY <1>1, <1>2, AskKeeps DEF RolesInv, RolesTypeOK
<1>4. CronTypeOK'
  BY <1>1, <1>2, AskKeeps DEF CronTypeOK
<1>5. loading'[n] => /\ "reload" \in ticks'[n]
                     /\ left'[CronRole][n] = Duration /\ ~failing'[n]
  <2>1. CASE LockTick(n)
    BY <1>2, <2>1 DEF LockTick
  <2>2. CASE ReloadTick(n)
    <3>1. PICK a \in Answers :
            /\ AcquireRoleOrStop(n, a)
            /\ IF a = "mine"
               THEN loading' = [loading EXCEPT ![n] = TRUE] /\ UNCHANGED ticks
               ELSE Served(n, {"reload"}) /\ UNCHANGED loading
      BY <2>2 DEF ReloadTick
    <3>2. "reload" \in ticks[n]
      BY <2>2 DEF ReloadTick
    <3> QED
      BY <1>2, <3>1, <3>2, AskKeeps
  <2> QED
    BY <2>1, <2>2
<1>6. CronInv'
  <2>1. Duration >= 1
    BY DaemonAssumption
  <2> QED
    BY <1>1, <1>2, <1>5, <2>1, AskKeeps DEF CronInv, CronRuns
<1> QED
  BY <1>3, <1>4, <1>6

LEMMA CronLoadInv ==
  ASSUME RolesInv, CronTypeOK, CronInv, NEW n \in Nodes, Reload(n) \/ ReloadFails(n)
  PROVE  RolesInv' /\ CronTypeOK' /\ CronInv'
<1>1. /\ loading[n] /\ loading' = [loading EXCEPT ![n] = FALSE]
      /\ ticks' = [ticks EXCEPT ![n] = @ \ {"reload"}]
      /\ UNCHANGED <<left, failing, phase, cut, upsets, table>>
  BY DEF Reload, ReloadFails, Served
<1>2. /\ scheduler' \in [Nodes -> {"nil", "running"}]
      /\ loaded' \in [Nodes -> (SUBSET Rules) \cup {None}]
      /\ \A m \in Nodes \ {n} : scheduler'[m] = scheduler[m]
  BY DEF Reload, ReloadFails, CronTypeOK
<1>3. RolesInv'
  BY <1>1 DEF RolesInv, RolesTypeOK, OneLease
<1>4. CronTypeOK'
  BY <1>1, <1>2 DEF CronTypeOK
<1>5. CronInv'
  <2>1. Duration >= 1 /\ ticks \in [Nodes -> SUBSET Tickers] /\ loading \in [Nodes -> BOOLEAN]
    BY DaemonAssumption DEF RolesInv, RolesTypeOK, CronTypeOK
  <2> QED
    BY <1>1, <1>2, <2>1 DEF CronInv, CronRuns
<1> QED
  BY <1>3, <1>4, <1>5

LEMMA CronLifeInv ==
  ASSUME RolesInv, CronTypeOK, CronInv, NEW n \in Nodes,
         \/ CronDone(n) \/ CronRelease(n) \/ CronCrash(n)
         \/ UNCHANGED cronVars /\ (CutOff(n) \/ Reconnect(n))
  PROVE  RolesInv' /\ CronTypeOK' /\ CronInv'
<1> USE DEF CronTypeOK, CronInv, CronRuns, cronVars
<1>0. /\ phase \in [Nodes -> {"up", "stopping", "down"}]
      /\ ticks \in [Nodes -> SUBSET Tickers]
      /\ left \in [Roles -> [Nodes -> 0 .. Duration]]
  BY DEF RolesInv, RolesTypeOK
<1>1. CASE CronDone(n)
  <2>1. ticks' \in [Nodes -> SUBSET Tickers]
    BY <1>0, <1>1 DEF CronDone
  <2>2. RolesInv'
    BY <1>1, <2>1, LifeKeeps DEF CronDone
  <2> QED
    BY <1>0, <1>1, <2>2 DEF CronDone, InLoop, Leave, StopCron
<1>2. CASE CronRelease(n)
  <2>1. RolesInv'
    BY <1>2, LifeKeeps DEF CronRelease
  <2>2. \A m \in Nodes \ {n} : left'[CronRole][m] = left[CronRole][m]
    BY <1>0, <1>2, CronAssumption DEF CronRelease, ReleaseAllRoles
  <2>3. phase[n] = "stopping"
    BY <1>2 DEF CronRelease, ReleaseAllRoles
  <2> QED
    BY <1>0, <1>2, <2>1, <2>2, <2>3 DEF CronRelease, ReleaseAllRoles
<1>3. CASE CronCrash(n)
  <2>1. RolesInv'
    BY <1>0, <1>3, LifeKeeps DEF CronCrash
  <2> QED
    BY <1>0, <1>3, <2>1 DEF CronCrash, Leave, StopCron
<1>4. CASE UNCHANGED cronVars /\ (CutOff(n) \/ Reconnect(n))
  BY <1>4, LifeKeeps DEF CutOff, Reconnect
<1> QED
  BY <1>1, <1>2, <1>3, <1>4

LEMMA CronTickInv ==
  ASSUME RolesInv, CronTypeOK, CronInv, Tick, UNCHANGED cronVars
  PROVE  RolesInv' /\ CronTypeOK' /\ CronInv'
<1>1. RolesInv'
  BY TickKeeps
<1>2. \A n \in Nodes : ~loading[n]
  BY DEF Tick, CronInv
<1>3. \A n \in Nodes : CronRuns(n) /\ ~failing[n] => left'[CronRole][n] >= 1
  BY TickKeeps, CronAssumption DEF Tick, CronInv
<1>4. ticks' = [n \in Nodes |-> Tickers] /\ UNCHANGED <<failing, phase>>
  BY DEF Tick
<1> QED
  BY <1>1, <1>2, <1>3, <1>4 DEF CronTypeOK, CronInv, CronRuns, cronVars

LEMMA CronNextInv ==
  ASSUME RolesInv, CronTypeOK, CronInv, CronNext
  PROVE  RolesInv' /\ CronTypeOK' /\ CronInv'
<1>1. CASE ChangeRules
  <2>1. upsets \in 0 .. MaxUpsets /\ upsets < MaxUpsets /\ upsets' = upsets + 1
    BY <1>1 DEF ChangeRules, Upset, RolesInv, RolesTypeOK
  <2>2. upsets' \in 0 .. MaxUpsets
    BY <2>1, DaemonAssumption
  <2>3. /\ UNCHANGED <<left, ticks, failing, phase, cut, scheduler, loaded, loading>>
        /\ table' \subseteq Rules
    BY <1>1 DEF ChangeRules
  <2>4. RolesInv'
    BY <2>2, <2>3 DEF RolesInv, RolesTypeOK, OneLease
  <2>5. CronTypeOK'
    BY <2>3 DEF CronTypeOK
  <2>6. CronInv'
    BY <2>3 DEF CronInv, CronRuns
  <2> QED
    BY <2>4, <2>5, <2>6
<1> QED
  BY <1>1, CronTickersInv, CronLoadInv, CronLifeInv, CronTickInv DEF CronNext, CronStep
-----------------------------------------------------------------------------
(* The role ids a reload asks for. *)
LEMMA RolesForRoles == ASSUME PollersTypeOK, NEW n \in Nodes
                       PROVE  RolesFor(view[n]) \subseteq Roles
  BY RolesAssumption DEF RolesFor, PollersTypeOK

(* The contexts cancelled: no poller is started and no entry is deleted. *)
LEMMA CancelledKeeps ==
  ASSUME PollersTypeOK, NEW n \in Nodes, NEW rs, poller' = Cancelled(n, rs)
  PROVE  /\ poller' \in [Nodes -> [Roles -> {"none", "running", "cancelled"}]]
         /\ \A m \in Nodes, r \in Roles :
              Polls(m, r)' => Polls(m, r) /\ (m # n \/ r \notin rs)
<1>1. poller \in [Nodes -> [Roles -> {"none", "running", "cancelled"}]]
  BY DEF PollersTypeOK
<1>2. poller' = [poller EXCEPT ![n] = [r \in Roles |->
          IF r \in rs /\ poller[n][r] = "running" THEN "cancelled" ELSE poller[n][r]]]
  BY DEF Cancelled
<1>3. [r \in Roles |->
          IF r \in rs /\ poller[n][r] = "running" THEN "cancelled" ELSE poller[n][r]]
        \in [Roles -> {"none", "running", "cancelled"}]
  BY <1>1
<1> QED
  BY <1>1, <1>2, <1>3 DEF Polls

LEMMA ReloadStartInv ==
  ASSUME RolesInv, PollersTypeOK, PollInv, NEW n \in Nodes,
         ReloadStart(n) \/ NoPollCreator(n) \/ ListFails(n)
  PROVE  RolesInv' /\ PollersTypeOK' /\ PollInv'
<1>1. CASE ReloadStart(n) \/ NoPollCreator(n)
  <2>0. PICK rs \in SUBSET Roles : ReloadBegins(n, rs)
    BY <1>1, RolesForRoles DEF ReloadStart, NoPollCreator, PollersTypeOK
  <2>1. /\ UNCHANGED <<left, ticks, failing, phase, cut, count, enabled, view, poller>>
        /\ "reload" \in ticks[n]
    BY <2>0 DEF ReloadBegins
  <2>2. /\ todo' = [todo EXCEPT ![n] = rs]
        /\ valid' = [valid EXCEPT ![n] = rs]
    BY <2>0 DEF ReloadBegins
  <2>3. todo' \in [Nodes -> (SUBSET Roles) \cup {NoReload}] /\ valid' \in [Nodes -> SUBSET Roles]
    BY <2>2 DEF PollersTypeOK
  <2>9. upsets' \in 0 .. MaxUpsets
    <3>1. upsets \in 0 .. MaxUpsets
      BY DEF RolesInv, RolesTypeOK
    <3> QED
      BY <1>1, <3>1, DaemonAssumption DEF ReloadStart, NoPollCreator, Upset
  <2>4. valid'[n] \ todo'[n] = {}
    BY <2>2 DEF PollersTypeOK
  <2>5. \A m \in Nodes \ {n} : todo'[m] = todo[m] /\ valid'[m] = valid[m]
    BY <2>2 DEF PollersTypeOK
  <2>6. RolesInv'
    BY <2>1, <2>9 DEF RolesInv, RolesTypeOK, OneLease
  <2>7. PollersTypeOK'
    BY <2>1, <2>3 DEF PollersTypeOK
  <2>8. PollInv'
    BY <2>1, <2>4, <2>5 DEF PollInv, Polls
  <2> QED
    BY <2>6, <2>7, <2>8
<1>2. CASE ListFails(n)
  <2>1. /\ UNCHANGED <<left, phase, cut, upsets, pollVars>>
        /\ failing' = [failing EXCEPT ![n] = TRUE]
        /\ ticks' = [ticks EXCEPT ![n] = @ \ Tickers]
        /\ todo[n] = NoReload
    BY <1>2 DEF ListFails, Served
  <2>2. ticks \in [Nodes -> SUBSET Tickers] /\ failing \in [Nodes -> BOOLEAN]
    BY DEF RolesInv, RolesTypeOK
  <2>3. RolesInv'
    BY <2>1, <2>2 DEF RolesInv, RolesTypeOK, OneLease
  <2>4. PollersTypeOK'
    BY <2>1 DEF PollersTypeOK, pollVars
  <2>5. PollInv'
    BY <2>1, <2>2 DEF PollInv, Polls, pollVars
  <2> QED
    BY <2>3, <2>4, <2>5
<1> QED
  BY <1>1, <1>2

(* One role id: its poller runs only if the lease was just renewed. *)
LEMMA ReloadRoleInv ==
  ASSUME RolesInv, PollersTypeOK, PollInv, NEW n \in Nodes, ReloadRole(n)
  PROVE  RolesInv' /\ PollersTypeOK' /\ PollInv'
<1>1. /\ todo[n] # NoReload
      /\ UNCHANGED <<ticks, failing, phase, cut, upsets, count, enabled, view, valid>>
  BY DEF ReloadRole
<1>2. PICK r \in todo[n] : AskForRole(n, r) /\ todo' = [todo EXCEPT ![n] = @ \ {r}]
  BY DEF ReloadRole
<1>3. todo[n] \subseteq Roles /\ r \in Roles
  BY <1>1, <1>2 DEF PollersTypeOK
<1>4. PICK answer \in Answers :
        /\ Acquire(n, r, answer)
        /\ CASE answer # "mine" -> poller' = Cancelled(n, {r})
             [] answer = "mine" /\ poller[n][r] = "none" -> StartPoller(n, r)
             [] OTHER -> UNCHANGED poller
  BY <1>2 DEF AskForRole
<1>5. /\ left' \in [Roles -> [Nodes -> 0 .. Duration]] /\ OneLease'
      /\ answer = "mine" => left'[r][n] = Duration
      /\ \A q \in Roles, m \in Nodes : q # r \/ m # n => left'[q][m] = left[q][m]
  BY <1>3, <1>4, AcquireKeeps
<1>6. /\ poller' \in [Nodes -> [Roles -> {"none", "running", "cancelled"}]]
      /\ \A m \in Nodes, q \in Roles : q # r \/ m # n => (Polls(m, q)' => Polls(m, q))
      /\ Polls(n, r)' => answer = "mine" /\ phase[n] = "up"
  <2>1. CASE answer # "mine"
    BY <1>3, <1>4, <2>1, CancelledKeeps
  <2>2. CASE answer = "mine" /\ poller[n][r] = "none"
    <3>1. StartPoller(n, r)
      BY <1>4, <2>2
    <3> QED
      BY <1>3, <2>2, <3>1 DEF StartPoller, Polls, PollersTypeOK
  <2>3. CASE answer = "mine" /\ poller[n][r] # "none"
    <3>1. UNCHANGED poller
      BY <1>4, <2>3
    <3> QED
      BY <1>3, <2>3, <3>1 DEF Polls, PollersTypeOK, PollInv
  <2> QED
    BY <2>1, <2>2, <2>3
<1>7. /\ todo' \in [Nodes -> (SUBSET Roles) \cup {NoReload}]
      /\ todo'[n] = todo[n] \ {r}
      /\ \A m \in Nodes \ {n} : todo'[m] = todo[m]
  BY <1>2, <1>3 DEF PollersTypeOK
<1>8. RolesInv'
  BY <1>1, <1>5 DEF RolesInv, RolesTypeOK
<1>9. PollersTypeOK'
  BY <1>1, <1>6, <1>7 DEF PollersTypeOK
<1>10. PollInv'
  <2> SUFFICES ASSUME NEW m \in Nodes
               PROVE  /\ phase'[m] = "up" /\ todo'[m] # NoReload => "reload" \in ticks'[m]
                      /\ \A q \in Roles : Polls(m, q)' =>
                           /\ phase'[m] = "up"
                           /\ ~failing'[m] => left'[q][m] >= 1
                           /\ ~failing'[m] /\ "reload" \notin ticks'[m] => left'[q][m] = Duration
                           /\ todo'[m] # NoReload /\ q \in valid'[m] \ todo'[m] =>
                                left'[q][m] = Duration
    BY DEF PollInv
  <2>1. phase'[m] = "up" /\ todo'[m] # NoReload => "reload" \in ticks'[m]
    BY <1>1, <1>7 DEF PollInv
  <2>2. ASSUME NEW q \in Roles, Polls(m, q)'
        PROVE  /\ phase'[m] = "up"
               /\ ~failing'[m] => left'[q][m] >= 1
               /\ ~failing'[m] /\ "reload" \notin ticks'[m] => left'[q][m] = Duration
               /\ todo'[m] # NoReload /\ q \in valid'[m] \ todo'[m] => left'[q][m] = Duration
    <3>1. CASE q = r /\ m = n
      BY <1>1, <1>5, <1>6, <2>2, <3>1, DaemonAssumption
    <3>2. CASE q # r \/ m # n
      BY <1>1, <1>5, <1>6, <1>7, <2>2, <3>2 DEF PollInv
    <3> QED
      BY <3>1, <3>2
  <2> QED
    BY <2>1, <2>2
<1> QED
  BY <1>8, <1>9, <1>10

LEMMA ReloadEndInv ==
  ASSUME RolesInv, PollersTypeOK, PollInv, NEW n \in Nodes, ReloadEnd(n)
  PROVE  RolesInv' /\ PollersTypeOK' /\ PollInv'
<1>1. /\ todo[n] = {} /\ UNCHANGED <<left, phase, cut, upsets, count, enabled, view>>
      /\ todo' = [todo EXCEPT ![n] = NoReload]
      /\ valid' = [valid EXCEPT ![n] = {}]
      /\ failing' = [failing EXCEPT ![n] = FALSE]
      /\ ticks' = [ticks EXCEPT ![n] = @ \ Tickers]
      /\ poller' = Cancelled(n, Roles \ valid[n])
  BY DEF ReloadEnd, Served
<1>2. ticks \in [Nodes -> SUBSET Tickers] /\ failing \in [Nodes -> BOOLEAN]
  BY DEF RolesInv, RolesTypeOK
<1>3. /\ poller' \in [Nodes -> [Roles -> {"none", "running", "cancelled"}]]
      /\ \A m \in Nodes, r \in Roles :
           Polls(m, r)' => Polls(m, r) /\ (m # n \/ r \in valid[n])
  <2>1. \A m \in Nodes, r \in Roles :
          Polls(m, r)' => Polls(m, r) /\ (m # n \/ r \notin Roles \ valid[n])
    BY <1>1, CancelledKeeps
  <2>2. poller' \in [Nodes -> [Roles -> {"none", "running", "cancelled"}]]
    BY <1>1, CancelledKeeps
  <2> QED
    BY <2>1, <2>2
<1>4. {} # NoReload
  BY PollersAssumption
<1>5. \A m \in Nodes \ {n} : /\ todo'[m] = todo[m] /\ valid'[m] = valid[m]
                             /\ failing'[m] = failing[m] /\ ticks'[m] = ticks[m]
  BY <1>1, <1>2 DEF PollersTypeOK
<1>6. todo'[n] = NoReload
  BY <1>1 DEF PollersTypeOK
<1>7. RolesInv'
  BY <1>1, <1>2 DEF RolesInv, RolesTypeOK, OneLease
<1>8. PollersTypeOK'
  BY <1>1, <1>3 DEF PollersTypeOK
<1>9. PollInv'
  <2>1. \A r \in Roles : Polls(n, r)' => phase[n] = "up" /\ left[r][n] = Duration
    BY <1>1, <1>3, <1>4 DEF PollInv
  <2>2. Duration >= 1
    BY DaemonAssumption
  <2> QED
    BY <1>1, <1>3, <1>5, <1>6, <2>1, <2>2 DEF PollInv
<1> QED
  BY <1>7, <1>8, <1>9

(* A poller returns, a view changes, the configuration changes: nothing that
   runs is new, and no reload is begun. *)
LEMMA PollQuietInv ==
  ASSUME RolesInv, PollersTypeOK, PollInv, NEW n \in Nodes,
         \/ ViewChanges(n)
         \/ \E r \in Roles : PollerReturns(n, r)
         \/ Change
         \/ UNCHANGED pollVars /\ (CutOff(n) \/ Reconnect(n))
  PROVE  RolesInv' /\ PollersTypeOK' /\ PollInv'
<1>1. CASE ViewChanges(n)
  <2>1. UNCHANGED <<roleVars, count, enabled, poller, valid, todo>>
    BY <1>1 DEF ViewChanges
  <2>2. view' \in [Nodes -> Counts]
    BY <1>1 DEF ViewChanges, PollersTypeOK
  <2> QED
    BY <2>1, <2>2 DEF RolesInv, RolesTypeOK, OneLease, PollersTypeOK, PollInv, Polls, roleVars
<1>2. CASE \E r \in Roles : PollerReturns(n, r)
  <2>1. PICK r \in Roles : PollerReturns(n, r)
    BY <1>2
  <2>2. UNCHANGED <<roleVars, count, enabled, view, valid, todo>>
    BY <2>1 DEF PollerReturns
  <2>3. /\ poller' \in [Nodes -> [Roles -> {"none", "running", "cancelled"}]]
        /\ \A m \in Nodes, q \in Roles : Polls(m, q)' => Polls(m, q)
    BY <2>1 DEF PollerReturns, PollersTypeOK, Polls
  <2>4. RolesInv' /\ PollersTypeOK'
    BY <2>2, <2>3 DEF RolesInv, RolesTypeOK, OneLease, PollersTypeOK, roleVars
  <2>5. PollInv'
    BY <2>2, <2>3 DEF PollInv, roleVars
  <2> QED
    BY <2>4, <2>5
<1>3. CASE Change
  <2>1. upsets \in 0 .. MaxUpsets /\ upsets < MaxUpsets /\ upsets' = upsets + 1
    BY <1>3 DEF Change, Upset, RolesInv, RolesTypeOK
  <2>2. upsets' \in 0 .. MaxUpsets
    BY <2>1, DaemonAssumption
  <2>3. UNCHANGED <<left, ticks, failing, phase, cut, view, poller, valid, todo>>
    BY <1>3 DEF Change
  <2>4. count' \in Counts /\ enabled' \in BOOLEAN
    BY <1>3 DEF Change, PollersTypeOK
  <2>5. RolesInv'
    BY <2>2, <2>3 DEF RolesInv, RolesTypeOK, OneLease
  <2>6. PollersTypeOK'
    BY <2>3, <2>4 DEF PollersTypeOK
  <2>7. PollInv'
    BY <2>3 DEF PollInv, Polls
  <2> QED
    BY <2>5, <2>6, <2>7
<1>4. CASE UNCHANGED pollVars /\ (CutOff(n) \/ Reconnect(n))
  <2>1. RolesInv'
    BY <1>4, LifeKeeps
  <2>2. UNCHANGED <<left, ticks, failing, phase>>
    BY <1>4 DEF CutOff, Reconnect
  <2> QED
    BY <1>4, <2>1, <2>2 DEF PollersTypeOK, PollInv, Polls, pollVars
<1> QED
  BY <1>1, <1>2, <1>3, <1>4

(* The process stops or dies: no poller runs on it any more. *)
LEMMA PollLeaveInv ==
  ASSUME RolesInv, PollersTypeOK, PollInv, NEW n \in Nodes, CancelAll(n) \/ PollersCrash(n)
  PROVE  RolesInv' /\ PollersTypeOK' /\ PollInv'
<1>1. PICK to \in {"stopping", "down"} :
        Leave(n, to) /\ UNCHANGED <<left, ticks, failing, cut, count, enabled, view>>
  BY DEF CancelAll, PollersCrash
<1>2. RolesInv'
  <2>1. ticks' \in [Nodes -> SUBSET Tickers]
    BY <1>1 DEF RolesInv, RolesTypeOK
  <2> QED
    BY <1>1, <2>1, LifeKeeps
<1>3. phase'[n] # "up" /\ \A m \in Nodes \ {n} : phase'[m] = phase[m]
  BY <1>1 DEF Leave, RolesInv, RolesTypeOK
<1>4. /\ poller' \in [Nodes -> [Roles -> {"none", "running", "cancelled"}]]
      /\ \A r \in Roles : ~Polls(n, r)'
      /\ \A m \in Nodes \ {n}, r \in Roles : Polls(m, r)' => Polls(m, r)
  <2>1. CASE CancelAll(n)
    BY <2>1, CancelledKeeps DEF CancelAll
  <2>2. CASE PollersCrash(n)
    <3>1. poller' = [poller EXCEPT ![n] = [r \in Roles |-> "none"]]
      BY <2>2 DEF PollersCrash
    <3> QED
      BY <3>1 DEF PollersTypeOK, Polls
  <2> QED
    BY <2>1, <2>2
<1>5. /\ todo' \in [Nodes -> (SUBSET Roles) \cup {NoReload}] /\ valid' \in [Nodes -> SUBSET Roles]
      /\ \A m \in Nodes \ {n} : todo'[m] = todo[m] /\ valid'[m] = valid[m]
  BY DEF CancelAll, PollersCrash, PollersTypeOK
<1>6. PollersTypeOK'
  BY <1>1, <1>4, <1>5 DEF PollersTypeOK
<1>7. PollInv'
  BY <1>1, <1>3, <1>4, <1>5 DEF PollInv
<1> QED
  BY <1>2, <1>6, <1>7

LEMMA PollReleaseInv ==
  ASSUME RolesInv, PollersTypeOK, PollInv, NEW n \in Nodes, PollersRelease(n)
  PROVE  RolesInv' /\ PollersTypeOK' /\ PollInv'
<1>1. ReleaseAllRoles(n) /\ UNCHANGED pollVars
  BY DEF PollersRelease
<1>2. RolesInv'
  BY <1>1, LifeKeeps
<1>3. /\ phase[n] = "stopping" /\ phase'[n] = "down" /\ UNCHANGED <<ticks, failing>>
      /\ \A m \in Nodes \ {n} :
           phase'[m] = phase[m] /\ \A r \in Roles : left'[r][m] = left[r][m]
  BY <1>1 DEF ReleaseAllRoles, RolesInv, RolesTypeOK
<1>4. PollersTypeOK'
  BY <1>1 DEF PollersTypeOK, pollVars
<1>5. \A r \in Roles : ~Polls(n, r)
  BY <1>3 DEF PollInv
<1>6. PollInv'
  BY <1>1, <1>3, <1>5 DEF PollInv, Polls, pollVars
<1> QED
  BY <1>2, <1>4, <1>6

LEMMA PollTickInv ==
  ASSUME RolesInv, PollersTypeOK, PollInv, Tick, UNCHANGED pollVars
  PROVE  RolesInv' /\ PollersTypeOK' /\ PollInv'
<1>1. RolesInv'
  BY TickKeeps
<1>2. /\ \A n \in Nodes : ticks'[n] = Tickers /\ (phase[n] = "up" => ticks[n] = {})
      /\ UNCHANGED <<failing, phase>>
  BY DEF Tick
<1>3. "reload" \in Tickers
  BY PollersAssumption
<1>4. \A r \in Roles, n \in Nodes : Polls(n, r) =>
        /\ phase[n] = "up" /\ todo[n] = NoReload
        /\ ~failing[n] => left'[r][n] >= 1
  BY <1>2, TickKeeps DEF PollInv
<1>5. PollersTypeOK'
  BY DEF PollersTypeOK, pollVars
<1>6. PollInv'
  BY <1>2, <1>3, <1>4 DEF PollInv, Polls, pollVars
<1> QED
  BY <1>1, <1>5, <1>6

LEMMA PollersNextInv ==
  ASSUME RolesInv, PollersTypeOK, PollInv, PollersNext
  PROVE  RolesInv' /\ PollersTypeOK' /\ PollInv'
<1>1. CASE Change
  <2>1. CASE Nodes = {}
    <3>1. upsets' \in 0 .. MaxUpsets
      <4>1. upsets \in 0 .. MaxUpsets /\ upsets < MaxUpsets /\ upsets' = upsets + 1
        BY <1>1 DEF Change, Upset, RolesInv, RolesTypeOK
      <4> QED
        BY <4>1, DaemonAssumption
    <3>2. /\ UNCHANGED <<left, ticks, failing, phase, cut, view, poller, valid, todo>>
          /\ count' \in Counts /\ enabled' \in BOOLEAN
      BY <1>1 DEF Change, PollersTypeOK
    <3> QED
      BY <2>1, <3>1, <3>2 DEF RolesInv, RolesTypeOK, OneLease, PollersTypeOK, PollInv
  <2>2. CASE Nodes # {}
    BY <1>1, <2>2, PollQuietInv
  <2> QED
    BY <2>1, <2>2
<1> QED
  BY <1>1, ReloadStartInv, ReloadRoleInv, ReloadEndInv, PollQuietInv, PollLeaveInv,
     PollReleaseInv, PollTickInv DEF PollersNext, PollersStep
-----------------------------------------------------------------------------
LEMMA NextInv == SourcesInv /\ [Next]_vars => SourcesInv'
<1> SUFFICES ASSUME SourcesInv, [Next]_vars PROVE SourcesInv'
  OBVIOUS
<1>1. CASE CronOnly /\ CronNext
  <2>1. daemon = "cron" /\ daemon' = daemon
    BY <1>1 DEF CronOnly
  <2> QED
    BY <1>1, <2>1, CronNextInv DEF SourcesInv
<1>2. CASE PollersOnly /\ PollersNext
  <2>1. daemon = "pollers" /\ daemon' = daemon
    BY <1>2 DEF PollersOnly
  <2> QED
    BY <1>2, <2>1, PollersNextInv DEF SourcesInv
<1>3. CASE TasksOnly /\ TasksNext
  <2>1. daemon = "tasks" /\ daemon' = daemon /\ UNCHANGED roleVars
    BY <1>3 DEF TasksOnly
  <2> QED
    BY <2>1 DEF SourcesInv, RolesInv, RolesTypeOK, OneLease, roleVars
<1>4. CASE UNCHANGED vars
  BY <1>4 DEF vars, roleVars, cronVars, pollVars, SourcesInv, RolesInv, RolesTypeOK,
              OneLease, CronTypeOK, CronInv, CronRuns, PollersTypeOK, PollInv, Polls
<1> QED
  BY <1>1, <1>2, <1>3, <1>4 DEF Next

(* The invariant the proof rests on: what runs has a lease as old as its last
   renewal (cron.go:93-113, evpoller.go:136-177). *)
THEOREM SourcesInductive == Spec => []SourcesInv
<1> QED
  BY InitInv, NextInv, PTL DEF Spec

(* The cron scheduler and every role id of an event source's pollers run on one
   node, unless one of the two could not reach the database in its last period:
   whatever renewals, outages, graceful stops, crashes and reconfigurations do
   in between (cron.go:93-113, evpoller.go:136-177). *)
THEOREM OneNodeRunsRole == Spec => []OneNodeRuns
<1>1. SourcesInv => OneNodeRuns
  <2> SUFFICES ASSUME SourcesInv, NEW r \in Roles, NEW m \in Nodes, NEW n \in Nodes,
                      m # n, Runs(m, r), Runs(n, r), ~failing[m], ~failing[n]
               PROVE  FALSE
    BY DEF OneNodeRuns
  <2>1. \A k \in Nodes : left[r][k] >= 1 => left[r][k] > 0
    BY DEF SourcesInv, RolesInv, RolesTypeOK
  <2>2. left[r][m] >= 1 /\ left[r][n] >= 1
    BY DEF Runs, SourcesInv, CronInv, PollInv
  <2> QED
    BY <2>1, <2>2 DEF SourcesInv, RolesInv, OneLease
<1> QED
  BY <1>1, SourcesInductive, PTL
-----------------------------------------------------------------------------
WorkInv == TasksTypeOK /\ NoneIsDropped

LEMMA WorkTyped ==
  ASSUME WorkInv, NEW w \in Workers, ~Idle(w)
  PROVE  work[w] \in Messages
BY DEF WorkInv, TasksTypeOK, Idle

(* AWS gives work away: it is in hand, or missed. *)
LEMMA GivenInv ==
  ASSUME WorkInv, TasksTypeOK', NEW ms \in SUBSET Messages, run # "returned", UNCHANGED run,
         \/ /\ Receive(ms)
            /\ \A m \in ms : m \in batch' \/ \E w \in Workers : work'[w] = m
            /\ batch \subseteq batch' /\ \A w \in Workers : Idle(w) \/ work'[w] = work[w]
         \/ Miss(ms)
  PROVE  WorkInv'
<1> SUFFICES ASSUME NEW m \in Messages, box'[m] = "taken"
             PROVE  \/ answers'[m] # {} \/ m \in missed'
                    \/ m \in batch' \/ \E w \in Workers : work'[w] = m
  BY DEF WorkInv, NoneIsDropped
<1>1. CASE m \in ms
  BY <1>1 DEF Receive, Miss
<1>2. CASE m \notin ms
  <2>1. box[m] = "taken" /\ answers'[m] = answers[m] /\ (m \in missed => m \in missed')
    BY <1>2 DEF Receive, Miss
  <2>2. \A w \in Workers : work[w] = m => work'[w] = m
    BY NoMessageAssumption DEF Miss, Idle, WorkInv, TasksTypeOK
  <2> QED
    BY <2>1, <2>2 DEF Miss, WorkInv, NoneIsDropped
<1> QED
  BY <1>1, <1>2

(* An answer frees its worker and is remembered. *)
LEMMA AnsweredInv ==
  ASSUME WorkInv, NEW w \in Workers, NEW a \in {"ok", "error"}, Answered(w, a),
         TasksTypeOK', \A m \in Messages : box'[m] = "taken" => box[m] = "taken",
         run' \in {run, "panicked"}
  PROVE  WorkInv'
<1>1. work[w] \in Messages /\ run # "returned"
  BY WorkTyped DEF Answered, Alive
<1>2. /\ answers'[work[w]] # {} /\ \A m \in Messages : answers[m] # {} => answers'[m] # {}
      /\ \A v \in Workers \ {w} : work'[v] = work[v]
      /\ UNCHANGED <<batch, missed>>
  BY <1>1 DEF Answered, WorkInv, TasksTypeOK
<1> SUFFICES ASSUME NEW m \in Messages, box'[m] = "taken"
             PROVE  \/ answers'[m] # {} \/ m \in missed'
                    \/ m \in batch' \/ \E v \in Workers : work'[v] = m
  BY <1>1 DEF WorkInv, NoneIsDropped
<1>3. CASE m = work[w]
  BY <1>2, <1>3
<1>4. CASE m # work[w]
  BY <1>2, <1>4 DEF WorkInv, NoneIsDropped
<1> QED
  BY <1>3, <1>4

LEMMA AnswerTyped ==
  ASSUME TasksTypeOK, NEW w \in Workers, NEW a \in {"ok", "error"}, Answered(w, a)
  PROVE  /\ work[w] \in Messages
         /\ work' \in [Workers -> Messages \cup {NoMessage}]
         /\ answers' \in [Messages -> SUBSET {"ok", "error"}]
         /\ UNCHANGED <<source, batch, missed>>
<1>1. work[w] \in Messages
  BY DEF Answered, Idle, TasksTypeOK
<1> QED
  BY <1>1 DEF Answered, TasksTypeOK

LEMMA ToldInv ==
  ASSUME WorkInv, NEW w \in Workers, Finish(w) \/ Refuse(w) \/ RefuseWithoutCause(w)
  PROVE  WorkInv'
<1>1. PICK a \in {"ok", "error"} : Answered(w, a)
  BY DEF Finish, Refuse, RefuseWithoutCause
<1>2. TasksTypeOK
  BY DEF WorkInv
<1>3. /\ told' \subseteq Messages /\ run' \in {run, "panicked"}
      /\ box' \in [Messages -> {"waiting", "taken", "succeeded", "failed"}]
      /\ \A m \in Messages : box'[m] = "taken" => box[m] = "taken"
  BY <1>1, <1>2, AnswerTyped DEF Finish, Refuse, RefuseWithoutCause, Tell, TasksTypeOK
<1>4. TasksTypeOK'
  BY <1>1, <1>2, <1>3, AnswerTyped DEF TasksTypeOK
<1> QED
  BY <1>1, <1>3, <1>4, AnsweredInv

LEMMA PollInvKept == ASSUME WorkInv, Poll PROVE WorkInv'
<1>1. PICK ms \in SUBSET Messages :
        (Receive(ms) /\ batch' = ms /\ UNCHANGED work) \/ Miss(ms)
  BY DEF Poll, Waiting
<1>2. /\ batch = {} /\ run # "returned" /\ UNCHANGED <<source, told, run>>
      /\ TasksTypeOK
  BY DEF Poll, WorkInv
<1>3. TasksTypeOK'
  BY <1>1, <1>2 DEF Receive, Miss, TasksTypeOK
<1> QED
  BY <1>1, <1>2, <1>3, GivenInv

LEMMA GetTaskInv == ASSUME WorkInv, NEW w \in Workers, GetTask(w) PROVE WorkInv'
<1>1. PICK m \in Messages :
        \/ (Receive({m}) /\ work' = [work EXCEPT ![w] = m] /\ UNCHANGED batch)
        \/ Miss({m})
  BY DEF GetTask, Waiting
<1>2. /\ run # "returned" /\ UNCHANGED <<source, told, run>> /\ Idle(w)
      /\ TasksTypeOK
  BY DEF GetTask, WorkInv
<1>3. TasksTypeOK'
  BY <1>1, <1>2 DEF Receive, Miss, TasksTypeOK
<1>4. CASE Miss({m})
  BY <1>2, <1>3, <1>4, GivenInv
<1>5. CASE Receive({m}) /\ work' = [work EXCEPT ![w] = m] /\ UNCHANGED batch
  <2>1. work'[w] = m /\ \A v \in Workers : Idle(v) \/ work'[v] = work[v]
    BY <1>2, <1>5 DEF TasksTypeOK
  <2> QED
    BY <1>2, <1>3, <1>5, <2>1, GivenInv
<1> QED
  BY <1>1, <1>4, <1>5

LEMMA WorkNextInv == WorkInv /\ TasksNext => WorkInv'
<1> SUFFICES ASSUME WorkInv, TasksNext PROVE WorkInv'
  OBVIOUS
<1>1. ASSUME NEW w \in Workers, HandOver(w) PROVE WorkInv'
  <2>1. PICK m \in batch : work' = [work EXCEPT ![w] = m] /\ batch' = batch \ {m}
    BY <1>1 DEF HandOver
  <2>2. /\ Idle(w) /\ UNCHANGED <<source, box, answers, missed, told, run>>
        /\ TasksTypeOK
    BY <1>1 DEF HandOver, WorkInv
  <2>3. work'[w] = m /\ \A v \in Workers : v # w => work'[v] = work[v]
    BY <2>1, <2>2 DEF TasksTypeOK
  <2>4. TasksTypeOK'
    BY <2>1, <2>2 DEF TasksTypeOK
  <2>5. \A k \in Messages : k \in batch => k \in batch' \/ work'[w] = k
    BY <2>1, <2>3
  <2>6. \A k \in Messages, v \in Workers : work[v] = k => work'[v] = k
    BY <2>2, <2>3, NoMessageAssumption DEF Idle
  <2>7. NoneIsDropped'
    BY <1>1, <2>2, <2>5, <2>6 DEF WorkInv, NoneIsDropped
  <2> QED
    BY <2>4, <2>7 DEF WorkInv
<1>2. ASSUME NEW m \in Messages, Reappear(m) PROVE WorkInv'
  BY <1>2 DEF Reappear, WorkInv, TasksTypeOK, NoneIsDropped
<1>3. CASE CancelTasks
  BY <1>3 DEF CancelTasks, WorkInv, TasksTypeOK, NoneIsDropped
<1>4. CASE Return
  BY <1>4, NoMessageAssumption DEF Return, WorkInv, TasksTypeOK, NoneIsDropped, Idle
<1> QED
  BY <1>1, <1>2, <1>3, <1>4, ToldInv, PollInvKept, GetTaskInv DEF TasksNext, TaskStep

(* Whatever AWS has given to a poller is answered by the component or still in the
   poller's hands, unless the answer of the call that gave it was lost; and a
   poller that returned has nothing in hand, however its workers, redeliveries,
   lost calls and a cancellation interleave (sqs.go:109-193, stepfunc.go:115-219). *)
THEOREM PollerDropsNothing == Spec => []NoneIsDropped
<1>1. Init => WorkInv
  BY DEF Init, TasksInit, WorkInv, TasksTypeOK, NoneIsDropped
<1>2. WorkInv /\ [Next]_vars => WorkInv'
  <2>1. ASSUME WorkInv, UNCHANGED taskVars PROVE WorkInv'
    BY <2>1 DEF taskVars, WorkInv, TasksTypeOK, NoneIsDropped
  <2> QED
    BY <2>1, WorkNextInv DEF Next, CronOnly, PollersOnly, vars
<1> QED
  BY <1>1, <1>2, PTL DEF Spec, WorkInv
=============================================================================
