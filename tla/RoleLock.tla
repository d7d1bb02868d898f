------------------------------ MODULE RoleLock -------------------------------
(***************************************************************************)
(* The role locks of pkg/db/sql_db.go: one row of the table rolelock, and  *)
(* the goroutines (Procs) of the cluster's nodes that run                  *)
(* AcquireOrRenewRole on it, one SQL statement or clock reading per step.  *)
(* Rows of different roles never meet in a statement, so one role is       *)
(* modelled.  The database executes each statement atomically; its answer  *)
(* may be lost after it took effect.  Each call has a duration of its own: *)
(* the autoscaler asks for 1 minute and then, per group, for 3; a start    *)
(* lock lasts as long as the version's health check (complock.go:30).      *)
(***************************************************************************)
EXTENDS Integers

CONSTANTS Nodes,     \* node ids
          Procs,     \* goroutines that may ask for the role
          NodeOf,    \* the node each goroutine runs on
          None,      \* the row is absent
          Durs,      \* Durs[n]: the lockDur arguments of n's calls
          MaxDur,    \* the longest of them
          Skew,      \* bound on the difference between two nodes' clocks
          MaxTries,  \* attempts of AcquireOrRenewRole (5 in the code)
          MaxClock   \* bound of the model on the clocks

(* A node whose goroutines ask for one role at the same time asks for one
   duration (placement, 1 minute); a role with several durations is asked for
   by one goroutine of the node (the autoscaler's loop, a converger's). *)
ASSUME LockAssumption ==
  /\ NodeOf \in [Procs -> Nodes]
  /\ MaxDur \in Nat
  /\ Durs \in [Nodes -> (SUBSET (1 .. MaxDur)) \ {{}}]
  /\ \A p, q \in Procs : p # q /\ NodeOf[p] = NodeOf[q] =>
       \A d, e \in Durs[NodeOf[p]] : d = e
  /\ Skew \in Nat
  /\ MaxTries \in Nat \ {0}
  /\ MaxClock \in Nat
  /\ None \notin [node : Nodes, expires : Nat]

VARIABLES row,    \* the row of the role in table rolelock
          clock,  \* clock[n]: the local clock of node n
          pc,     \* control state of each goroutine
          seen,   \* seen[p]: the row p's SELECT returned
          now,    \* now[p]: the clock reading p computes the expiry from
          tries,  \* tries[p]: attempts left after this one
          dur,    \* dur[p]: the lockDur of p's call, 0 without one
          lease   \* lease[n]: the expiry n counts on, of the last grant it was
                  \* told of

vars == <<row, clock, pc, seen, now, tries, dur, lease>>
callVars == <<pc, seen, now, tries, dur>>

NoLease == -1

Row == [node : Nodes, expires : Nat]

TypeOK ==
  /\ row \in Row \cup {None}
  /\ clock \in [Nodes -> Nat]
  /\ pc \in [Procs -> {"idle", "select", "decide", "update", "insert"}]
  /\ seen \in [Procs -> Row \cup {None}]
  /\ now \in [Procs -> Nat]
  /\ tries \in [Procs -> Nat]
  /\ dur \in [Procs -> 0 .. MaxDur]
  /\ lease \in [Nodes -> Nat \cup {NoLease}]

Init ==
  /\ row = None
  /\ clock = [n \in Nodes |-> 0]
  /\ pc = [p \in Procs |-> "idle"]
  /\ seen = [p \in Procs |-> None]
  /\ now = [p \in Procs |-> 0]
  /\ tries = [p \in Procs |-> 0]
  /\ dur = [p \in Procs |-> 0]
  /\ lease = [n \in Nodes |-> NoLease]

-----------------------------------------------------------------------------
(* The row p would write. *)
NewRow(p) == [node |-> NodeOf[p], expires |-> now[p] + dur[p]]

(* Back to the caller with an answer or an error. *)
Return(p) ==
  /\ pc' = [pc EXCEPT ![p] = "idle"]
  /\ seen' = [seen EXCEPT ![p] = None]
  /\ now' = [now EXCEPT ![p] = 0]
  /\ tries' = [tries EXCEPT ![p] = 0]
  /\ dur' = [dur EXCEPT ![p] = 0]

(* The caller learns that it has the role. *)
Granted(p) ==
  /\ Return(p)
  /\ lease' = [lease EXCEPT ![NodeOf[p]] = now[p] + dur[p]]

(* (false, "", nil): sleep and try again, or give up after the last try. *)
Retry(p) ==
  /\ \/ tries[p] = 0 /\ Return(p)
     \/ /\ tries[p] > 0
        /\ pc' = [pc EXCEPT ![p] = "select"]
        /\ seen' = [seen EXCEPT ![p] = None]
        /\ now' = [now EXCEPT ![p] = 0]
        /\ tries' = [tries EXCEPT ![p] = @ - 1]
        /\ UNCHANGED dur
  /\ UNCHANGED lease

(* While it asks, the node counts on no more than it asks for. *)
Counted(n, d) == IF lease[n] > clock[n] + d THEN clock[n] + d ELSE lease[n]

Call(p) ==
  /\ pc[p] = "idle"
  /\ pc' = [pc EXCEPT ![p] = "select"]
  /\ tries' = [tries EXCEPT ![p] = MaxTries - 1]
  /\ \E d \in Durs[NodeOf[p]] :
       /\ dur' = [dur EXCEPT ![p] = d]
       /\ lease' = [lease EXCEPT ![NodeOf[p]] = Counted(NodeOf[p], d)]
  /\ UNCHANGED <<row, clock, seen, now>>

Select(p) ==
  /\ pc[p] = "select"
  /\ seen' = [seen EXCEPT ![p] = row]
  /\ pc' = [pc EXCEPT ![p] = "decide"]
  /\ UNCHANGED <<row, clock, now, tries, dur, lease>>

(* The row read belongs to another node and has not expired. *)
HeldByOther(p, t) ==
  /\ seen[p] # None
  /\ seen[p].expires > t
  /\ seen[p].node # NodeOf[p]

(* time.Now() comes after the SELECT has been closed. *)
ReadClock(p) ==
  LET t == clock[NodeOf[p]] IN
  /\ pc[p] = "decide"
  /\ \/ HeldByOther(p, t) /\ Return(p)
     \/ /\ ~HeldByOther(p, t)
        /\ now' = [now EXCEPT ![p] = t]
        /\ pc' = [pc EXCEPT ![p] = IF seen[p] = None THEN "insert" ELSE "update"]
        /\ UNCHANGED <<seen, tries, dur>>
  /\ UNCHANGED <<row, clock, lease>>

(* Mutant: the row expires a moment too early. *)
UpdateMatches_Inclusive(p) ==
  /\ row # None
  /\ \/ row.expires <= now[p]
     \/ row.node = NodeOf[p] /\ row.expires = seen[p].expires

(* Mutant: the node's own row is rewritten whatever was read. *)
UpdateMatches_OwnRow(p) ==
  /\ row # None
  /\ row.expires < now[p] \/ row.node = NodeOf[p]

(* The WHERE clause of the UPDATE, evaluated on the row as it is now. *)
UpdateMatches(p) ==
  /\ row # None
  /\ \/ row.expires < now[p]
     \/ row.node = NodeOf[p] /\ row.expires = seen[p].expires

Update(p) ==
  /\ pc[p] = "update"
  /\ UpdateMatches(p)
  /\ row' = NewRow(p)
  /\ Granted(p)
  /\ UNCHANGED clock

(* No row matched; or the driver counts changed rows and none changed. *)
UpdateNoRows(p) ==
  /\ pc[p] = "update"
  /\ UpdateMatches(p) => row = NewRow(p)
  /\ pc' = [pc EXCEPT ![p] = "insert"]
  /\ seen' = [seen EXCEPT ![p] = None]
  /\ UNCHANGED <<row, clock, now, tries, dur, lease>>

(* Mutant: INSERT OR REPLACE. *)
Insert_Replace(p) ==
  /\ pc[p] = "insert"
  /\ row' = NewRow(p)
  /\ Granted(p)
  /\ UNCHANGED clock

(* The INSERT succeeds only when the primary key is free. *)
Insert(p) ==
  /\ pc[p] = "insert"
  /\ row = None
  /\ row' = NewRow(p)
  /\ Granted(p)
  /\ UNCHANGED clock

InsertConflict(p) ==
  /\ pc[p] = "insert"
  /\ row # None
  /\ Retry(p)
  /\ UNCHANGED <<row, clock>>

(* SELECT failed, or UPDATE failed before or after it took effect. *)
StatementError(p) ==
  /\ pc[p] \in {"select", "update"}
  /\ \/ UNCHANGED row
     \/ pc[p] = "update" /\ UpdateMatches(p) /\ row' = NewRow(p)
  /\ Return(p)
  /\ UNCHANGED <<clock, lease>>

(* sqlite's "table is locked", or an INSERT whose answer was an error. *)
RetryableError(p) ==
  /\ pc[p] \in {"update", "insert"}
  /\ \/ UNCHANGED row
     \/ pc[p] = "insert" /\ row = None /\ row' = NewRow(p)
  /\ Retry(p)
  /\ UNCHANGED clock

(* DELETE ... WHERE nodeId = n; on an error the row stays. *)
Release(n) ==
  /\ \/ /\ row # None /\ row.node = n
        /\ row' = None
     \/ UNCHANGED row
  /\ lease' = [lease EXCEPT ![n] = NoLease]
  /\ UNCHANGED <<clock, callVars>>

(* The node dies: its goroutines stop, its rows stay. *)
Crash(n) ==
  /\ lease' = [lease EXCEPT ![n] = NoLease]
  /\ pc' = [p \in Procs |-> IF NodeOf[p] = n THEN "idle" ELSE pc[p]]
  /\ seen' = [p \in Procs |-> IF NodeOf[p] = n THEN None ELSE seen[p]]
  /\ now' = [p \in Procs |-> IF NodeOf[p] = n THEN 0 ELSE now[p]]
  /\ tries' = [p \in Procs |-> IF NodeOf[p] = n THEN 0 ELSE tries[p]]
  /\ dur' = [p \in Procs |-> IF NodeOf[p] = n THEN 0 ELSE dur[p]]
  /\ UNCHANGED <<row, clock>>

Tick(n) ==
  /\ clock[n] < MaxClock
  /\ \A m \in Nodes \ {n} : clock[n] + 1 <= clock[m] + Skew
  /\ clock' = [clock EXCEPT ![n] = @ + 1]
  /\ UNCHANGED <<row, lease, callVars>>

Step(p) ==
  \/ Select(p) \/ ReadClock(p)
  \/ Update(p) \/ UpdateNoRows(p)
  \/ Insert(p) \/ InsertConflict(p)
  \/ StatementError(p) \/ RetryableError(p)

Next ==
  \/ \E p \in Procs : Call(p) \/ Step(p)
  \/ \E n \in Nodes : Release(n) \/ Crash(n) \/ Tick(n)

Spec == Init /\ [][Next]_vars

-----------------------------------------------------------------------------
Holds(n) == clock[n] + Skew <= lease[n]

(* A node that was told it has the role and whose lease still has more than
   the clock skew to run is the only such node (sql_db.go:77-162): neither a
   stale SELECT, nor a stale clock reading, nor a lost answer gives the role
   to a second node.  A database row, two statements and the local clocks of
   two nodes have to go wrong together to violate it. *)
MutualExclusion ==
  \A m, n \in Nodes : Holds(m) /\ Holds(n) => m = n

(* A rewritten row loses no more than the difference of two durations its new
   owner asks for (sql_db.go:116-133): a renewal for 1 minute may follow one
   for 3 (node_svc.go:547, 566), but a goroutine that read the row or the clock
   long before its UPDATE runs cannot cut short what was renewed meanwhile, and
   a role with one duration never loses any. *)
RenewalKeepsTime ==
  [][row # None /\ row' # None =>
       \E long, short \in Durs[row'.node] :
         row'.expires >= row.expires - (long - short)]_row

(* While a node holds the role the row is the node's own and lasts at least
   as long as the node was told (sql_db.go:148-158). *)
HolderOwnsRow ==
  \A n \in Nodes : Holds(n) =>
    row # None /\ row.node = n /\ lease[n] <= row.expires

(* The row never outlives its owner's clock by more than a duration. *)
RowNotFar ==
  row # None => \E d \in Durs[row.node] : row.expires <= clock[row.node] + d

(* A clock reading is in the past, and what the SELECT returned is, like the
   expiry computed after it, not further from it than a duration. *)
ReadingFresh ==
  \A p \in Procs :
    /\ now[p] <= clock[NodeOf[p]]
    /\ pc[p] # "idle" => dur[p] \in Durs[NodeOf[p]]
    /\ pc[p] = "decide" /\ seen[p] # None /\ seen[p].node = NodeOf[p]
         => \E d \in Durs[NodeOf[p]] : seen[p].expires <= clock[NodeOf[p]] + d
    /\ pc[p] = "update"
         => /\ seen[p] # None
            /\ \E d \in Durs[NodeOf[p]] : seen[p].expires <= now[p] + d

(* The only goroutine of a node that asks for the role does not count on more
   than the row it is about to write. *)
Alone(p) == \A q \in Procs : NodeOf[q] = NodeOf[p] => q = p

CountsOnLess ==
  \A p \in Procs : Alone(p) =>
    /\ pc[p] \in {"select", "decide"} => lease[NodeOf[p]] <= clock[NodeOf[p]] + dur[p]
    /\ pc[p] \in {"update", "insert"} => lease[NodeOf[p]] <= now[p] + dur[p]

ClocksClose == \A m, n \in Nodes : clock[m] <= clock[n] + Skew

(* The inductive invariant behind MutualExclusion and RenewalKeepsTime: the
   holder's row is its own and is never behind its lease, because every
   expiry is computed from a clock reading taken after the SELECT
   (sql_db.go:93-114). *)
IInv == /\ TypeOK /\ HolderOwnsRow /\ RowNotFar /\ ReadingFresh
        /\ CountsOnLess /\ ClocksClose

(* The row, the statements and the retries implement a lease: a grant is
   given only when no other node holds the role, and never for longer than
   MaxDur (the contract the callers of db.go:22 rely on). *)
L == INSTANCE Lease WITH Nodes <- Nodes, MaxDur <- MaxDur, Skew <- Skew,
                         clock <- clock, lease <- lease
ImplementsLease == L!Spec
=============================================================================
