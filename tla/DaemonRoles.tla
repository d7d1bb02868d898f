----------------------------- MODULE DaemonRoles -----------------------------
(***************************************************************************)
(* What the background daemons of the nodes share: the role locks they     *)
(* renew, the database calls that fail, and the life of their process      *)
(* (cmd/maelstromd/maelstromd.go:164-314).  A role lock is the lease that  *)
(* RoleLock implements; here it is counted down in periods of the daemon   *)
(* that renews it, so that time needs no bound.  In every period each node *)
(* serves each of its tickers once, early or late.                         *)
(***************************************************************************)
EXTENDS Integers, FiniteSets

CONSTANTS Nodes,      \* nodes of the cluster
          Roles,      \* roles the daemons ask for
          Tickers,    \* tickers each daemon serves in a period
          Duration,   \* periods a role is leased for
          MaxUpsets   \* bound of the model on what happens to the daemons: outages
                      \* of the database, stops and crashes of nodes, changes of
                      \* what is configured

ASSUME DaemonAssumption ==
  /\ Duration \in Nat /\ Duration >= 2
  /\ MaxUpsets \in Nat

VARIABLES left,     \* left[r][n]: periods until n's lease of r expires
          ticks,    \* ticks[n]: tickers n has not served in this period
          failing,  \* failing[n]: n's last try to renew failed in the database
          phase,    \* phase[n]: "up", "stopping" (context cancelled) or "down"
          cut,      \* nodes that cannot reach the database
          upsets    \* outages, stops and changes so far

roleVars == <<left, ticks, failing, phase, cut, upsets>>

RolesTypeOK ==
  /\ left \in [Roles -> [Nodes -> 0 .. Duration]]
  /\ ticks \in [Nodes -> SUBSET Tickers]
  /\ failing \in [Nodes -> BOOLEAN]
  /\ phase \in [Nodes -> {"up", "stopping", "down"}]
  /\ cut \subseteq Nodes
  /\ upsets \in 0 .. MaxUpsets

RolesInit ==
  /\ left = [r \in Roles |-> [n \in Nodes |-> 0]]
  /\ ticks = [n \in Nodes |-> Tickers]
  /\ failing = [n \in Nodes |-> FALSE]
  /\ phase = [n \in Nodes |-> "up"]
  /\ cut = {}
  /\ upsets = 0

-----------------------------------------------------------------------------
Upset == upsets < MaxUpsets /\ upsets' = upsets + 1

Free(n, r) == \A m \in Nodes \ {n} : left[r][m] = 0

Leased(n, r) == left' = [left EXCEPT ![r][n] = Duration]

(* AcquireOrRenewRole: the role is the caller's, another node's, or the
   database failed, before or after the row was written. *)
Acquire(n, r, answer) ==
  \/ answer = "mine" /\ n \notin cut /\ Free(n, r) /\ Leased(n, r)
  \/ answer = "other" /\ n \notin cut /\ ~Free(n, r) /\ UNCHANGED left
  \/ answer = "error" /\ n \in cut /\ (UNCHANGED left \/ (Free(n, r) /\ Leased(n, r)))

Answers == {"mine", "other", "error"}

Served(n, done) == ticks' = [ticks EXCEPT ![n] = @ \ done]

(* A period ends when every running node has served its tickers. *)
Tick ==
  /\ \A n \in Nodes : phase[n] = "up" => ticks[n] = {}
  /\ left' = [r \in Roles |-> [n \in Nodes |->
                IF left[r][n] > 0 THEN left[r][n] - 1 ELSE 0]]
  /\ ticks' = [n \in Nodes |-> Tickers]
  /\ UNCHANGED <<failing, phase, cut, upsets>>

(* An outage of the database, seen by one node, and its end. *)
CutOff(n) ==
  /\ Upset
  /\ n \notin cut /\ cut' = cut \cup {n}
  /\ UNCHANGED <<left, ticks, failing, phase>>

Reconnect(n) ==
  /\ n \in cut /\ cut' = cut \ {n}
  /\ UNCHANGED <<left, ticks, failing, phase, upsets>>

(* The process leaves; some node stays. *)
Leave(n, to) ==
  /\ Upset
  /\ \E m \in Nodes \ {n} : phase[m] = "up"
  /\ phase' = [phase EXCEPT ![n] = to]

(* main() after daemonWG.Wait(): the roles are released, if the database lets. *)
ReleaseAllRoles(n) ==
  /\ phase[n] = "stopping"
  /\ phase' = [phase EXCEPT ![n] = "down"]
  /\ IF n \in cut THEN UNCHANGED left
     ELSE left' = [r \in Roles |-> [left[r] EXCEPT ![n] = 0]]
  /\ UNCHANGED <<ticks, failing, cut, upsets>>
=============================================================================
