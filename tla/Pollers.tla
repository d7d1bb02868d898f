------------------------------- MODULE Pollers -------------------------------
(***************************************************************************)
(* EvPoller (pkg/evsource/poller/evpoller.go) for one SQS or step function *)
(* event source: every node reloads the event source once a period,        *)
(* splits its concurrency into role ids, and runs a poller for each role   *)
(* it has.  The ticker is "reload".                                        *)
(***************************************************************************)
EXTENDS DaemonRoles

CONSTANTS MaxConcurrency,  \* of the event source
          PerPoller,       \* concurrencyperpoller of the event source
          Counts,          \* running containers of the component, at most
          NoReload         \* no reload is in progress

ASSUME PollersAssumption ==
  /\ MaxConcurrency \in Nat /\ PerPoller \in Nat \ {0}
  /\ Counts \subseteq Nat
  /\ "reload" \in Tickers
  /\ \A rs \in SUBSET Roles : rs # NoReload

VARIABLES count,    \* containers of the component in the cluster
          enabled,  \* the event source is enabled
          view,     \* view[n]: GetHandlerCount of the component's router on n
          poller,   \* poller[n][r]: entry of activeRoles, "none", "running", or
                    \* "cancelled": its context is done but it has not returned
          valid,    \* valid[n]: validRoleIds
          todo      \* todo[n]: role ids the reload has still to ask for

pollVars == <<count, enabled, view, poller, valid, todo>>

RoleId == [i : Nat, c : Nat]

PollersTypeOK ==
  /\ count \in Counts /\ enabled \in BOOLEAN
  /\ view \in [Nodes -> Counts]
  /\ poller \in [Nodes -> [Roles -> {"none", "running", "cancelled"}]]
  /\ valid \in [Nodes -> SUBSET Roles]
  /\ todo \in [Nodes -> (SUBSET Roles) \cup {NoReload}]

PollersInit ==
  /\ count \in Counts
  /\ enabled \in BOOLEAN
  /\ view = [n \in Nodes |-> count]
  /\ poller = [n \in Nodes |-> [r \in Roles |-> "none"]]
  /\ valid = [n \in Nodes |-> {}]
  /\ todo = [n \in Nodes |-> NoReload]

-----------------------------------------------------------------------------
AtLeastOne(k) == IF k > 1 THEN k ELSE 1
Lesser(a, b) == IF a < b THEN a ELSE b

ToMaxConcurrency(handlers) ==
  Lesser(AtLeastOne(handlers), AtLeastOne(MaxConcurrency))

(* ceil(max / PerPoller) role ids; the last one takes what remains. *)
ToRoleIdConcurrency(max) ==
  {[i |-> i, c |-> Lesser(PerPoller, max - i * PerPoller)] :
     i \in 0 .. (max + PerPoller - 1) \div PerPoller - 1}

RolesFor(handlers) ==
  IF enabled THEN ToRoleIdConcurrency(ToMaxConcurrency(handlers)) ELSE {}

ASSUME RolesAssumption ==
  \A k \in Counts : ToRoleIdConcurrency(ToMaxConcurrency(k)) \subseteq Roles

(* cancelFx of the entries in rs. *)
Cancelled(n, rs) ==
  [poller EXCEPT ![n] = [r \in Roles |->
     IF r \in rs /\ @[r] = "running" THEN "cancelled" ELSE @[r]]]

(* The reload begins, with the role ids rs.  The ticker, or the first call: a tick
   taken although the context is done comes to the same as one taken just before. *)
ReloadBegins(n, rs) ==
  /\ phase[n] = "up" /\ todo[n] = NoReload /\ "reload" \in ticks[n]
  /\ n \notin cut
  /\ todo' = [todo EXCEPT ![n] = rs]
  /\ valid' = [valid EXCEPT ![n] = rs]
  /\ UNCHANGED <<left, ticks, failing, phase, cut, count, enabled, view, poller>>

ReloadStart(n) == ReloadBegins(n, RolesFor(view[n])) /\ UNCHANGED upsets

(* NewPollCreator fails, or finds no queue: the event source has no valid role id
   in this reload. *)
NoPollCreator(n) == enabled /\ Upset /\ ReloadBegins(n, {})

(* ListEventSources fails: nothing is renewed and nothing is cancelled. *)
ListFails(n) ==
  /\ phase[n] = "up" /\ todo[n] = NoReload /\ "reload" \in ticks[n]
  /\ n \in cut
  /\ failing' = [failing EXCEPT ![n] = TRUE]
  /\ Served(n, Tickers)
  /\ UNCHANGED <<left, phase, cut, upsets, pollVars>>

(* The concurrency it gets, read from the loop's variable that may have gone
   on, is left out. *)
StartPoller(n, r) ==
  poller' = [poller EXCEPT ![n][r] =
               IF phase[n] = "up" THEN "running" ELSE "cancelled"]

(* One role id of startPollerGroup: start, keep or cancel its poller. *)
AskForRole(n, r) ==
  \E answer \in Answers :
    /\ Acquire(n, r, answer)
    /\ CASE answer # "mine" -> poller' = Cancelled(n, {r})
         [] answer = "mine" /\ poller[n][r] = "none" -> StartPoller(n, r)
         [] OTHER -> UNCHANGED poller

ReloadRole(n) ==
  /\ todo[n] # NoReload
  /\ \E r \in todo[n] :
       /\ \A q \in todo[n] : r.i <= q.i
       /\ AskForRole(n, r)
       /\ todo' = [todo EXCEPT ![n] = @ \ {r}]
  /\ UNCHANGED <<ticks, failing, phase, cut, upsets, count, enabled, view, valid>>

(* Mutant: pollers of role ids that are no longer valid stay. *)
ReloadEnd_KeepsInvalid(n) ==
  /\ todo[n] = {}
  /\ todo' = [todo EXCEPT ![n] = NoReload]
  /\ valid' = [valid EXCEPT ![n] = {}]
  /\ failing' = [failing EXCEPT ![n] = FALSE]
  /\ Served(n, Tickers)
  /\ UNCHANGED <<left, phase, cut, upsets, count, enabled, view,
                 poller>>

(* Pollers whose role is no longer valid are cancelled. *)
ReloadEnd(n) ==
  /\ todo[n] = {}
  /\ todo' = [todo EXCEPT ![n] = NoReload]
  /\ poller' = Cancelled(n, Roles \ valid[n])
  /\ valid' = [valid EXCEPT ![n] = {}]
  /\ failing' = [failing EXCEPT ![n] = FALSE]
  /\ Served(n, Tickers)
  /\ UNCHANGED <<left, phase, cut, upsets, count, enabled, view>>

(* The poller has finished its requests; its entry is deleted. *)
PollerReturns(n, r) ==
  /\ poller[n][r] = "cancelled"
  /\ poller' = [poller EXCEPT ![n][r] = "none"]
  /\ UNCHANGED <<roleVars, count, enabled, view, valid, todo>>

(* cancelFx() of maelstromd: the context of every poller is done. *)
CancelAll(n) ==
  /\ phase[n] = "up" /\ Leave(n, "stopping")
  /\ poller' = Cancelled(n, Roles)
  /\ UNCHANGED <<left, ticks, failing, cut, count, enabled, view,
                 valid, todo>>

(* Run waits for the pollers and returns; main() releases the roles. *)
PollersRelease(n) ==
  /\ todo[n] = NoReload /\ \A r \in Roles : poller[n][r] = "none"
  /\ ReleaseAllRoles(n)
  /\ UNCHANGED pollVars

PollersCrash(n) ==
  /\ phase[n] # "down" /\ Leave(n, "down")
  /\ poller' = [poller EXCEPT ![n] = [r \in Roles |-> "none"]]
  /\ todo' = [todo EXCEPT ![n] = NoReload]
  /\ valid' = [valid EXCEPT ![n] = {}]
  /\ UNCHANGED <<left, ticks, failing, cut, count, enabled, view>>

(* Containers start and stop, the event source is enabled or disabled. *)
Change ==
  /\ Upset
  /\ \/ count' \in Counts \ {count} /\ UNCHANGED enabled
     \/ enabled' = ~enabled /\ UNCHANGED count
  /\ UNCHANGED <<left, ticks, failing, phase, cut, view, poller, valid, todo>>

(* The router of node n learns of it. *)
ViewChanges(n) ==
  /\ view[n] # count
  /\ view' = [view EXCEPT ![n] = count]
  /\ UNCHANGED <<roleVars, count, enabled, poller, valid, todo>>

PollersStep(n) ==
  \/ ReloadStart(n) \/ ListFails(n) \/ ReloadRole(n) \/ ReloadEnd(n)

PollersNext ==
  \/ \E n \in Nodes :
       \/ PollersStep(n) \/ NoPollCreator(n) \/ ViewChanges(n)
       \/ CancelAll(n) \/ PollersRelease(n) \/ PollersCrash(n)
       \/ \E r \in Roles : PollerReturns(n, r)
  \/ Change
  \/ UNCHANGED pollVars /\ (Tick \/ \E n \in Nodes : CutOff(n) \/ Reconnect(n))

Polls(n, r) == poller[n][r] = "running"

(* Exactly the pollers the configuration asks for, each on one node. *)
PollersSettled ==
  \A r \in Roles :
    Cardinality({n \in Nodes : Polls(n, r)}) = IF r \in RolesFor(count) THEN 1 ELSE 0
=============================================================================
