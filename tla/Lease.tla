-------------------------------- MODULE Lease --------------------------------
(***************************************************************************)
(* What the callers of AcquireOrRenewRole rely on: a role is a lease that  *)
(* one node at a time holds until its expiry.  A node that was granted the *)
(* role at its local time t may count on it until t + MaxDur, less the     *)
(* skew between the clocks of the cluster.  Nothing is said here of the    *)
(* table, of the statements or of the retries that implement it.           *)
(***************************************************************************)
EXTENDS Integers

CONSTANTS Nodes,    \* the nodes of the cluster
          MaxDur,   \* the longest duration of a lease
          Skew      \* bound on the difference between two nodes' clocks

VARIABLES clock,    \* clock[n]: the local clock of node n
          lease     \* lease[n]: expiry of the lease n was granted, or NoLease

vars == <<clock, lease>>

NoLease == -1

(* The node can still act on its grant. *)
Holds(n) == clock[n] + Skew <= lease[n]

Init ==
  /\ clock = [n \in Nodes |-> 0]
  /\ lease = [n \in Nodes |-> NoLease]

(* A grant to n: nobody else holds, and the lease is at most MaxDur. *)
Grant(n) ==
  /\ \A m \in Nodes \ {n} : ~Holds(m)
  /\ \E e \in 0 .. clock[n] + MaxDur : lease' = [lease EXCEPT ![n] = e]
  /\ UNCHANGED clock

(* n gives the role back, or forgets it in a crash. *)
Drop(n) ==
  /\ lease' = [lease EXCEPT ![n] = NoLease]
  /\ UNCHANGED clock

(* n counts on less than it was granted: it asks again, for a shorter time. *)
Shorten(n) ==
  /\ \E e \in 0 .. lease[n] : lease' = [lease EXCEPT ![n] = e]
  /\ UNCHANGED clock

(* Clocks only go forward and stay within Skew of each other. *)
Tick(n) ==
  /\ \A m \in Nodes \ {n} : clock[n] + 1 <= clock[m] + Skew
  /\ clock' = [clock EXCEPT ![n] = @ + 1]
  /\ UNCHANGED lease

Next == \E n \in Nodes : Grant(n) \/ Drop(n) \/ Shorten(n) \/ Tick(n)

Spec == Init /\ [][Next]_vars
=============================================================================
