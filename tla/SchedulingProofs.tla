-------------------------- MODULE SchedulingProofs --------------------------
(***************************************************************************)
(* Proofs about the parts of Scheduling, for any number of nodes,          *)
(* components, calls and containers.  The calls of PlaceComponent on a     *)
(* node that are for one component have one placer, and a call that waits  *)
(* is in the queue of a placer who will answer it.  A rollout keeps what   *)
(* fits, keeps the capacity when it starts first, and ends at its target:  *)
(* PlanProofs says what the first p steps of a plan come to.  The          *)
(* autoscaler plans no more than its targets, never puts more on a node    *)
(* than fits, and leaves what was used lately an instance.                 *)
(***************************************************************************)
EXTENDS Scheduling, PlanProofs, FiniteSetTheorems, TLAPS

Record(r) == [pc |-> r.pc, at |-> r.at, comp |-> r.comp, option |-> r.option]
Pcs == {"acquire", "locked", "wait", "try", "apply", "started", "done"}

(* Calls are for nodes and components that exist until they are done. *)
CallsOK ==
  /\ call = [p \in Calls |-> Record(call[p])]
  /\ \A p \in Calls : call[p].pc \in Pcs
  /\ \A p \in Calls : call[p].pc # "done" => call[p].at \in Placers /\ call[p].comp \in Comps

QueuesOK ==
  /\ role \in Placers \cup {Nobody}
  /\ waiters \in [Placers -> [Comps -> {Placing!NoQueue} \cup SUBSET Calls]]

(* A queue is open exactly while a call places its component ... *)
OpenWhilePlaced ==
  \A n \in Placers, c \in Comps :
    waiters[n][c] # Placing!NoQueue <=> \E p \in Calls : Placing!Places(p, n, c)
(* ... and never two. *)
OnePlacer ==
  \A n \in Placers, c \in Comps, p, q \in Calls :
    Placing!Places(p, n, c) /\ Placing!Places(q, n, c) => p = q
(* A queue holds calls that wait or gave up, and each call that waits is in one. *)
QueuedWait ==
  \A n \in Placers, c \in Comps :
    waiters[n][c] # Placing!NoQueue =>
      \A q \in waiters[n][c] : call[q].pc \in {"wait", "done"}
WaitQueued ==
  \A p \in Calls : call[p].pc = "wait" => p \in waiters[call[p].at][call[p].comp]

QueueInv ==
  CallsOK /\ QueuesOK /\ OpenWhilePlaced /\ OnePlacer /\ QueuedWait /\ WaitQueued

IInv == part = "placement" => QueueInv

-----------------------------------------------------------------------------
(* A call's control, node and component, after a record of it was changed. *)
LEMMA Fields ==
  ASSUME NEW r, r = Record(r), NEW v
  PROVE  /\ [r EXCEPT !.pc = v] = [pc |-> v, at |-> r.at, comp |-> r.comp, option |-> r.option]
         /\ [r EXCEPT !.at = v] = [pc |-> r.pc, at |-> v, comp |-> r.comp, option |-> r.option]
         /\ [r EXCEPT !.option = v] =
              [pc |-> r.pc, at |-> r.at, comp |-> r.comp, option |-> v]
BY DEF Record

(* Placement counts with the Cardinality of FiniteSets. *)
LEMMA SameCardinality == \A S : Placing!Cardinality(S) = Cardinality(S)
BY Zenon DEF Placing!Cardinality, Cardinality

LEMMA InvImplies == QueueInv => Placing!QueueHasPlacer
<1> SUFFICES ASSUME QueueInv PROVE Placing!QueueHasPlacer
  OBVIOUS
<1>1. ASSUME NEW n \in Placers, NEW c \in Comps
      PROVE  Cardinality({p \in Calls : Placing!Places(p, n, c)})
               = IF waiters[n][c] = Placing!NoQueue THEN 0 ELSE 1
  <2>1. CASE waiters[n][c] = Placing!NoQueue
    <3>1. {p \in Calls : Placing!Places(p, n, c)} = {}
      BY <2>1 DEF QueueInv, OpenWhilePlaced
    <3> QED
      BY <2>1, <3>1, FS_EmptySet
  <2>2. CASE waiters[n][c] # Placing!NoQueue
    <3>1. PICK p \in Calls : Placing!Places(p, n, c)
      BY <2>2 DEF QueueInv, OpenWhilePlaced
    <3>2. {q \in Calls : Placing!Places(q, n, c)} = {p}
      BY <3>1 DEF QueueInv, OnePlacer
    <3> QED
      BY <2>2, <3>2, FS_Singleton
  <2> QED
    BY <2>1, <2>2
<1>2. ASSUME NEW n \in Placers, NEW c \in Comps, NEW p \in Calls,
             call[p].pc = "wait", Placing!At(p) = n, Placing!Comp(p) = c
      PROVE  p \in waiters[n][c]
  BY <1>2 DEF QueueInv, WaitQueued, Placing!At, Placing!Comp
<1> QED
  BY <1>1, <1>2, SameCardinality, Zenon DEF Placing!QueueHasPlacer

(* A step that leaves the queues alone and takes no call to or from a placing
   or waiting state. *)
LEMMA SameQueues ==
  ASSUME QueueInv, CallsOK', role' \in Placers \cup {Nobody}, waiters' = waiters,
         \A p \in Calls :
           \/ /\ \/ call'[p].pc = call[p].pc
                 \/ {call[p].pc, call'[p].pc} \subseteq {"try", "apply", "started"}
              /\ call'[p].at = call[p].at /\ call'[p].comp = call[p].comp
           \/ call[p].pc \in {"acquire", "locked"} /\ call'[p].pc \in {"acquire", "locked"}
           \/ call[p].pc \in {"acquire", "wait"} /\ call'[p].pc = "done"
  PROVE  QueueInv'
<1>1. \A n \in Placers, c \in Comps, p \in Calls :
        Placing!Places(p, n, c)' <=> Placing!Places(p, n, c)
  BY DEF Placing!Places, Placing!At, Placing!Comp
<1>2. QueuesOK'
  BY DEF QueueInv, QueuesOK, Placing!NoQueue
<1>3. OpenWhilePlaced' /\ OnePlacer'
  BY <1>1 DEF QueueInv, OpenWhilePlaced, OnePlacer, Placing!NoQueue
<1>4. QueuedWait'
  <2> SUFFICES ASSUME NEW n \in Placers, NEW c \in Comps,
                      waiters[n][c] # Placing!NoQueue, NEW q \in waiters[n][c]
               PROVE  call'[q].pc \in {"wait", "done"}
    BY DEF QueuedWait, Placing!NoQueue
  <2>1. q \in Calls
    BY DEF QueueInv, QueuesOK
  <2>2. call[q].pc \in {"wait", "done"}
    BY DEF QueueInv, QueuedWait
  <2> QED
    BY <2>1, <2>2
<1>5. WaitQueued'
  BY DEF QueueInv, WaitQueued
<1> QED
  BY <1>2, <1>3, <1>4, <1>5 DEF QueueInv


-----------------------------------------------------------------------------
(* The steps.                                                              *)

LEMMA NobodyIsNew == Nobody \notin Placers /\ Nobody \notin Calls /\ Placing!NoQueue = {Nobody}
BY SchedulingAssumption DEF Placing!PlacementCallsAssumption, Placing!NoQueue

(* The record of one call changes. *)
LEMMA OneCall ==
  ASSUME CallsOK, NEW p \in Calls, NEW r, r = Record(r), call' = [call EXCEPT ![p] = r]
  PROVE  /\ call' = [q \in Calls |-> Record(call'[q])]
         /\ call'[p] = r
         /\ \A q \in Calls : q # p => call'[q] = call[q]
<1>1. call'[p] = r /\ \A q \in Calls : q # p => call'[q] = call[q]
  BY DEF CallsOK
<1>2. \A q \in Calls : call[q] = Record(call[q])
  BY DEF CallsOK
<1>3. \A q \in Calls : call'[q] = Record(call'[q])
  BY <1>1, <1>2
<1>4. call' = [q \in Calls |-> call'[q]]
  BY DEF CallsOK
<1> QED
  BY <1>1, <1>3, <1>4

LEMMA GoesTo ==
  ASSUME CallsOK, NEW p \in Calls, NEW v, Placing!Goes(p, v)
  PROVE  /\ call' = [q \in Calls |-> Record(call'[q])]
         /\ call'[p].pc = v /\ call'[p].at = call[p].at /\ call'[p].comp = call[p].comp
         /\ \A q \in Calls : q # p => call'[q] = call[q]
<1> DEFINE r == [pc |-> v, at |-> call[p].at, comp |-> call[p].comp,
                 option |-> call[p].option]
<1>1. call[p] = Record(call[p])
  BY DEF CallsOK
<1>2. [call[p] EXCEPT !.pc = v] = r
  BY <1>1, Fields
<1>3. call' = [call EXCEPT ![p] = r]
  BY <1>2 DEF Placing!Goes
<1>4. r = Record(r)
  BY DEF Record
<1> HIDE DEF r
<1>5. /\ call' = [q \in Calls |-> Record(call'[q])] /\ call'[p] = r
      /\ \A q \in Calls : q # p => call'[q] = call[q]
  BY <1>3, <1>4, OneCall
<1> QED
  BY <1>5 DEF r

LEMMA RetryTo ==
  ASSUME CallsOK, NEW p \in Calls, Placing!Retry(p)
  PROVE  /\ call' = [q \in Calls |-> Record(call'[q])]
         /\ call'[p].pc = "try" /\ call'[p].at = call[p].at /\ call'[p].comp = call[p].comp
         /\ \A q \in Calls : q # p => call'[q] = call[q]
<1> DEFINE r == [pc |-> "try", at |-> call[p].at, comp |-> call[p].comp, option |-> Nobody]
<1>1. call[p] = Record(call[p])
  BY DEF CallsOK
<1>2. [[call[p] EXCEPT !.pc = "try"] EXCEPT !.option = Nobody] = r
  <2> DEFINE tried == [pc |-> "try", at |-> call[p].at, comp |-> call[p].comp,
                       option |-> call[p].option]
  <2>1. [call[p] EXCEPT !.pc = "try"] = tried
    BY <1>1, Fields
  <2>2. tried = Record(tried) /\ tried.pc = "try" /\ tried.at = call[p].at
        /\ tried.comp = call[p].comp
    BY DEF Record
  <2> HIDE DEF tried
  <2>3. [tried EXCEPT !.option = Nobody] = r
    BY <2>2, Fields
  <2> QED
    BY <2>1, <2>3
<1>3. call' = [call EXCEPT ![p] = r]
  BY <1>2 DEF Placing!Retry
<1>4. r = Record(r)
  BY DEF Record
<1> HIDE DEF r
<1>5. /\ call' = [q \in Calls |-> Record(call'[q])] /\ call'[p] = r
      /\ \A q \in Calls : q # p => call'[q] = call[q]
  BY <1>3, <1>4, OneCall
<1> QED
  BY <1>5 DEF r

(* The placer answers itself and its queue. *)
LEMMA FinishStep ==
  ASSUME QueueInv, NEW p \in Calls, call[p].pc \in {"try", "apply", "started"}, NEW ok,
         Placing!Finish(p, ok), role' = role
  PROVE  QueueInv'
<1> DEFINE n == call[p].at
           c == call[p].comp
           Answered == {p} \cup waiters[n][c]
<1>1. n \in Placers /\ c \in Comps
  BY DEF QueueInv, CallsOK
<1>2. /\ call' = [q \in Calls |-> IF q \in Answered THEN Placing!Done ELSE call[q]]
      /\ waiters' = [waiters EXCEPT ![n][c] = Placing!NoQueue]
  BY DEF Placing!Finish, Placing!At, Placing!Comp
<1>3. Placing!Places(p, n, c)
  BY DEF Placing!Places, Placing!At, Placing!Comp
<1>4. waiters[n][c] # Placing!NoQueue
  BY <1>1, <1>3 DEF QueueInv, OpenWhilePlaced
<1>5. \A q \in waiters[n][c] : call[q].pc \in {"wait", "done"}
  BY <1>1, <1>4 DEF QueueInv, QueuedWait
<1> HIDE DEF n, c, Answered
<1>6. /\ waiters'[n][c] = Placing!NoQueue
      /\ \A m \in Placers, d \in Comps : m # n \/ d # c => waiters'[m][d] = waiters[m][d]
      /\ waiters' \in [Placers -> [Comps -> {Placing!NoQueue} \cup SUBSET Calls]]
  BY <1>1, <1>2 DEF QueueInv, QueuesOK
<1>7. \A q \in Calls : /\ q \in Answered => call'[q] = Placing!Done
                       /\ q \notin Answered => call'[q] = call[q]
  BY <1>2
<1>8. CallsOK'
  <2>1. Placing!Done = Record(Placing!Done) /\ Placing!Done.pc = "done"
    BY DEF Placing!Done, Record
  <2>2. \A q \in Calls : call[q] = Record(call[q])
    BY DEF QueueInv, CallsOK
  <2>3. call' = [q \in Calls |-> call'[q]]
    BY <1>2
  <2>4. \A q \in Calls : call'[q] = Record(call'[q])
    BY <1>7, <2>1, <2>2
  <2>5. call' = [q \in Calls |-> Record(call'[q])]
    BY <2>3, <2>4
  <2> QED
    BY <1>7, <2>1, <2>5 DEF QueueInv, CallsOK, Pcs
<1>9. \A m \in Placers, d \in Comps, q \in Calls :
        Placing!Places(q, m, d)' <=> Placing!Places(q, m, d) /\ q # p
  <2> SUFFICES ASSUME NEW m \in Placers, NEW d \in Comps, NEW q \in Calls
               PROVE  Placing!Places(q, m, d)' <=> Placing!Places(q, m, d) /\ q # p
    OBVIOUS
  <2>1. CASE q \in Answered
    <3>1. ~ Placing!Places(q, m, d)'
      BY <1>7, <2>1 DEF Placing!Places, Placing!Done
    <3>2. q # p => ~ Placing!Places(q, m, d)
      BY <1>5, <2>1 DEF Placing!Places, Answered
    <3> QED
      BY <3>1, <3>2
  <2>2. CASE q \notin Answered
    <3>1. q # p /\ call'[q] = call[q]
      BY <1>7, <2>2 DEF Answered
    <3> QED
      BY <3>1 DEF Placing!Places, Placing!At, Placing!Comp
  <2> QED
    BY <2>1, <2>2
<1>10. OnePlacer'
  BY <1>9 DEF QueueInv, OnePlacer
<1>11. OpenWhilePlaced'
  <2> SUFFICES ASSUME NEW m \in Placers, NEW d \in Comps
               PROVE  waiters'[m][d] # Placing!NoQueue
                        <=> \E q \in Calls : Placing!Places(q, m, d)'
    BY DEF OpenWhilePlaced, Placing!NoQueue
  <2>1. CASE m = n /\ d = c
    <3>1. \A q \in Calls : Placing!Places(q, m, d) => q = p
      BY <1>3, <2>1 DEF QueueInv, OnePlacer
    <3> QED
      BY <1>6, <1>9, <2>1, <3>1
  <2>2. CASE m # n \/ d # c
    <3>1. ~ Placing!Places(p, m, d)
      BY <1>3, <2>2 DEF Placing!Places
    <3>2. waiters'[m][d] = waiters[m][d]
      BY <1>6, <2>2
    <3> QED
      BY <1>9, <3>1, <3>2 DEF QueueInv, OpenWhilePlaced
  <2> QED
    BY <2>1, <2>2
<1>12. QueuedWait'
  <2> SUFFICES ASSUME NEW m \in Placers, NEW d \in Comps,
                      waiters'[m][d] # Placing!NoQueue, NEW q \in waiters'[m][d]
               PROVE  call'[q].pc \in {"wait", "done"}
    BY DEF QueuedWait, Placing!NoQueue
  <2>1. waiters'[m][d] = waiters[m][d] /\ q \in Calls
    BY <1>6 DEF QueueInv, QueuesOK
  <2>2. call[q].pc \in {"wait", "done"}
    BY <2>1 DEF QueueInv, QueuedWait
  <2> QED
    BY <1>7, <2>1, <2>2 DEF Placing!Done
<1>13. WaitQueued'
  <2> SUFFICES ASSUME NEW q \in Calls, call'[q].pc = "wait"
               PROVE  q \in waiters'[call'[q].at][call'[q].comp]
    BY DEF WaitQueued
  <2>1. q \notin Answered /\ call'[q] = call[q]
    BY <1>7 DEF Placing!Done
  <2>2. /\ q \in waiters[call[q].at][call[q].comp]
        /\ call[q].at \in Placers /\ call[q].comp \in Comps
    BY <2>1 DEF QueueInv, WaitQueued, CallsOK
  <2>3. call[q].at # n \/ call[q].comp # c
    BY <2>1, <2>2 DEF Answered
  <2> QED
    BY <1>6, <2>1, <2>2, <2>3
<1>14. QueuesOK'
  BY <1>6 DEF QueueInv, QueuesOK, Placing!NoQueue
<1> QED
  BY <1>8, <1>10, <1>11, <1>12, <1>13, <1>14 DEF QueueInv


LEMMA ReleaseStep ==
  ASSUME QueueInv, NEW p \in Calls, Placing!Release(p)
  PROVE  QueueInv'
<1> DEFINE n == call[p].at
           c == call[p].comp
<1>1. call[p].pc = "locked" /\ n \in Placers /\ c \in Comps
  BY DEF Placing!Release, QueueInv, CallsOK
<1>2. role' \in Placers \cup {Nobody}
  BY DEF Placing!Release, QueueInv, QueuesOK
<1>3. waiters \in [Placers -> [Comps -> {Placing!NoQueue} \cup SUBSET Calls]]
  BY DEF QueueInv, QueuesOK
<1>4. CASE /\ waiters[n][c] = Placing!NoQueue
           /\ Placing!Goes(p, "try") /\ waiters' = [waiters EXCEPT ![n][c] = {}]
  <2>1. /\ call' = [q \in Calls |-> Record(call'[q])]
        /\ call'[p].pc = "try" /\ call'[p].at = n /\ call'[p].comp = c
        /\ \A q \in Calls : q # p => call'[q] = call[q]
    BY <1>4, GoesTo DEF QueueInv
  <2> HIDE DEF n, c
  <2>2. CallsOK'
    BY <1>1, <2>1 DEF QueueInv, CallsOK, Pcs
  <2>3. /\ waiters' \in [Placers -> [Comps -> {Placing!NoQueue} \cup SUBSET Calls]]
        /\ waiters'[n][c] = {}
        /\ \A m \in Placers, d \in Comps : m # n \/ d # c => waiters'[m][d] = waiters[m][d]
    BY <1>1, <1>3, <1>4
  <2>4. {} # Placing!NoQueue
    BY NobodyIsNew
  <2>5. \A q \in Calls : ~ Placing!Places(q, n, c)
    BY <1>1, <1>4 DEF QueueInv, OpenWhilePlaced
  <2>6. /\ \A q \in Calls, m \in Placers, d \in Comps :
             q # p => (Placing!Places(q, m, d)' <=> Placing!Places(q, m, d))
        /\ \A m \in Placers, d \in Comps : Placing!Places(p, m, d)' <=> m = n /\ d = c
    BY <2>1 DEF Placing!Places, Placing!At, Placing!Comp
  <2>7. OnePlacer'
    BY <2>5, <2>6 DEF QueueInv, OnePlacer
  <2>8. OpenWhilePlaced'
    <3> SUFFICES ASSUME NEW m \in Placers, NEW d \in Comps
                 PROVE  waiters'[m][d] # Placing!NoQueue
                          <=> \E q \in Calls : Placing!Places(q, m, d)'
      BY DEF OpenWhilePlaced, Placing!NoQueue
    <3>1. CASE m = n /\ d = c
      BY <2>3, <2>4, <2>6, <3>1
    <3>2. CASE m # n \/ d # c
      <4>1. ~ Placing!Places(p, m, d)
        BY <1>1 DEF Placing!Places
      <4>2. waiters'[m][d] = waiters[m][d]
        BY <2>3, <3>2
      <4>3. \A q \in Calls : Placing!Places(q, m, d)' <=> Placing!Places(q, m, d)
        BY <2>6, <3>2, <4>1
      <4> QED
        BY <4>2, <4>3 DEF QueueInv, OpenWhilePlaced
    <3> QED
      BY <3>1, <3>2
  <2>9. QueuedWait'
    <3> SUFFICES ASSUME NEW m \in Placers, NEW d \in Comps,
                        waiters'[m][d] # Placing!NoQueue, NEW q \in waiters'[m][d]
                 PROVE  call'[q].pc \in {"wait", "done"}
      BY DEF QueuedWait, Placing!NoQueue
    <3>1. waiters'[m][d] = waiters[m][d] /\ q \in Calls
      BY <2>3
    <3>2. call[q].pc \in {"wait", "done"}
      BY <3>1 DEF QueueInv, QueuedWait
    <3> QED
      BY <1>1, <2>1, <3>1, <3>2
  <2>10. WaitQueued'
    <3> SUFFICES ASSUME NEW q \in Calls, call'[q].pc = "wait"
                 PROVE  q \in waiters'[call'[q].at][call'[q].comp]
      BY DEF WaitQueued
    <3>1. call'[q] = call[q]
      BY <2>1
    <3>2. /\ q \in waiters[call[q].at][call[q].comp]
          /\ call[q].at \in Placers /\ call[q].comp \in Comps
      BY <3>1 DEF QueueInv, WaitQueued, CallsOK
    <3>3. q \notin Placing!NoQueue
      BY NobodyIsNew
    <3>4. call[q].at # n \/ call[q].comp # c
      BY <1>4, <3>2, <3>3
    <3> QED
      BY <2>3, <3>1, <3>2, <3>4
  <2> QED
    BY <1>2, <2>2, <2>3, <2>7, <2>8, <2>9, <2>10 DEF QueueInv, QueuesOK, Placing!NoQueue
<1>5. CASE /\ waiters[n][c] # Placing!NoQueue
           /\ Placing!Goes(p, "wait") /\ waiters' = [waiters EXCEPT ![n][c] = @ \cup {p}]
  <2>1. /\ call' = [q \in Calls |-> Record(call'[q])]
        /\ call'[p].pc = "wait" /\ call'[p].at = n /\ call'[p].comp = c
        /\ \A q \in Calls : q # p => call'[q] = call[q]
    BY <1>5, GoesTo DEF QueueInv
  <2> HIDE DEF n, c
  <2>2. CallsOK'
    BY <1>1, <2>1 DEF QueueInv, CallsOK, Pcs
  <2>3. waiters[n][c] \in SUBSET Calls
    BY <1>1, <1>3, <1>5
  <2>4. /\ waiters' \in [Placers -> [Comps -> {Placing!NoQueue} \cup SUBSET Calls]]
        /\ waiters'[n][c] = waiters[n][c] \cup {p}
        /\ \A m \in Placers, d \in Comps : m # n \/ d # c => waiters'[m][d] = waiters[m][d]
    BY <1>1, <1>3, <1>5, <2>3
  <2>5. waiters[n][c] \cup {p} # Placing!NoQueue
    BY NobodyIsNew
  <2>6. \A q \in Calls, m \in Placers, d \in Comps :
             Placing!Places(q, m, d)' <=> Placing!Places(q, m, d)
    BY <1>1, <2>1 DEF Placing!Places, Placing!At, Placing!Comp
  <2>7. OnePlacer'
    BY <2>6 DEF QueueInv, OnePlacer
  <2>8. OpenWhilePlaced'
    <3> SUFFICES ASSUME NEW m \in Placers, NEW d \in Comps
                 PROVE  waiters'[m][d] # Placing!NoQueue
                          <=> \E q \in Calls : Placing!Places(q, m, d)'
      BY DEF OpenWhilePlaced, Placing!NoQueue
    <3>1. waiters'[m][d] # Placing!NoQueue <=> waiters[m][d] # Placing!NoQueue
      BY <1>5, <2>4, <2>5
    <3> QED
      BY <2>6, <3>1 DEF QueueInv, OpenWhilePlaced
  <2>9. QueuedWait'
    <3> SUFFICES ASSUME NEW m \in Placers, NEW d \in Comps,
                        waiters'[m][d] # Placing!NoQueue, NEW q \in waiters'[m][d]
                 PROVE  call'[q].pc \in {"wait", "done"}
      BY DEF QueuedWait, Placing!NoQueue
    <3>1. CASE q = p
      BY <2>1, <3>1
    <3>2. CASE q # p
      <4>1. q \in waiters[m][d] /\ waiters[m][d] # Placing!NoQueue /\ q \in Calls
        BY <1>5, <2>3, <2>4, <3>2
      <4>2. call[q].pc \in {"wait", "done"}
        BY <4>1 DEF QueueInv, QueuedWait
      <4> QED
        BY <2>1, <3>2, <4>1, <4>2
    <3> QED
      BY <3>1, <3>2
  <2>10. WaitQueued'
    <3> SUFFICES ASSUME NEW q \in Calls, call'[q].pc = "wait"
                 PROVE  q \in waiters'[call'[q].at][call'[q].comp]
      BY DEF WaitQueued
    <3>1. CASE q = p
      BY <2>1, <2>4, <3>1
    <3>2. CASE q # p
      <4>1. /\ call'[q] = call[q] /\ q \in waiters[call[q].at][call[q].comp]
            /\ call[q].at \in Placers /\ call[q].comp \in Comps
        BY <2>1, <3>2 DEF QueueInv, WaitQueued, CallsOK
      <4> QED
        BY <2>4, <4>1
    <3> QED
      BY <3>1, <3>2
  <2> QED
    BY <1>2, <2>2, <2>4, <2>7, <2>8, <2>9, <2>10 DEF QueueInv, QueuesOK, Placing!NoQueue
<1> QED
  BY <1>4, <1>5 DEF Placing!Release, Placing!At, Placing!Comp


LEMMA AcquireStep ==
  ASSUME QueueInv, NEW p \in Calls, Placing!Acquire(p)
  PROVE  QueueInv'
<1>1. /\ call[p].pc = "acquire" /\ call[p].at \in Placers /\ call[p].comp \in Comps
      /\ waiters' = waiters /\ role \in Placers \cup {Nobody}
  BY DEF Placing!Acquire, QueueInv, CallsOK, QueuesOK
<1>2. CASE role' = call[p].at /\ Placing!Goes(p, "locked")
  <2>1. /\ call' = [q \in Calls |-> Record(call'[q])]
        /\ call'[p].pc = "locked" /\ call'[p].at = call[p].at /\ call'[p].comp = call[p].comp
        /\ \A q \in Calls : q # p => call'[q] = call[q]
    BY <1>2, GoesTo DEF QueueInv
  <2>2. CallsOK'
    BY <1>1, <2>1 DEF QueueInv, CallsOK, Pcs
  <2> QED
    BY <1>1, <1>2, <2>1, <2>2, SameQueues
<1>3. CASE role \notin {Nobody, call[p].at} /\ role' = role /\ call' = [call EXCEPT ![p].at = role]
  <2> DEFINE r == [pc |-> call[p].pc, at |-> role, comp |-> call[p].comp,
                   option |-> call[p].option]
  <2>1. [call[p] EXCEPT !.at = role] = r
    BY Fields DEF QueueInv, CallsOK
  <2>2. call' = [call EXCEPT ![p] = r]
    BY <1>3, <2>1
  <2>3. r = Record(r)
    BY DEF Record
  <2> HIDE DEF r
  <2>4. /\ call' = [q \in Calls |-> Record(call'[q])] /\ call'[p] = r
        /\ \A q \in Calls : q # p => call'[q] = call[q]
    BY <2>2, <2>3, OneCall DEF QueueInv
  <2>5. call'[p].pc = "acquire" /\ call'[p].at \in Placers /\ call'[p].comp \in Comps
    BY <1>1, <1>3, <2>4 DEF r
  <2>6. CallsOK'
    BY <2>4, <2>5 DEF QueueInv, CallsOK, Pcs
  <2> QED
    BY <1>1, <1>3, <2>4, <2>5, <2>6, SameQueues
<1> QED
  BY <1>2, <1>3 DEF Placing!Acquire, Placing!At

(* A placer goes on placing. *)
LEMMA StillPlacing ==
  ASSUME QueueInv, NEW p \in Calls, call[p].pc \in {"try", "apply", "started"},
         call' = [q \in Calls |-> Record(call'[q])],
         call'[p].pc \in {"try", "apply", "started"},
         call'[p].at = call[p].at, call'[p].comp = call[p].comp,
         \A q \in Calls : q # p =>
           /\ call'[q].pc = call[q].pc
           /\ call'[q].at = call[q].at /\ call'[q].comp = call[q].comp,
         role' = role, waiters' = waiters
  PROVE  QueueInv'
<1>1. CallsOK'
  BY DEF QueueInv, CallsOK, Pcs
<1>2. role' \in Placers \cup {Nobody}
  BY DEF QueueInv, QueuesOK
<1>3. {call[p].pc, call'[p].pc} \subseteq {"try", "apply", "started"}
  OBVIOUS
<1>4. \A q \in Calls :
        /\ call'[q].pc = call[q].pc \/ {call[q].pc, call'[q].pc} \subseteq {"try", "apply", "started"}
        /\ call'[q].at = call[q].at /\ call'[q].comp = call[q].comp
  BY <1>3
<1> QED
  BY <1>1, <1>2, <1>4, SameQueues

LEMMA FindRunningStep ==
  ASSUME QueueInv, NEW p \in Calls, Placing!FindRunning(p)
  PROVE  QueueInv'
<1>1. call[p].pc = "try" /\ Placing!Finish(p, TRUE) /\ role' = role
  BY DEF Placing!FindRunning
<1> QED
  BY <1>1, FinishStep

LEMMA ChooseStep ==
  ASSUME QueueInv, NEW p \in Calls, Placing!Choose(p)
  PROVE  QueueInv'
<1>1. call[p].pc = "try" /\ role' = role
  BY DEF Placing!Choose
<1>2. CASE Placing!Finish(p, FALSE)
  BY <1>1, <1>2, FinishStep
<1>3. ASSUME NEW o, waiters' = waiters,
             call' = [call EXCEPT ![p].pc = "apply", ![p].option = o]
      PROVE  QueueInv'
  <2> DEFINE chosen == [pc |-> "apply", at |-> call[p].at, comp |-> call[p].comp,
                        option |-> call[p].option]
             r == [pc |-> "apply", at |-> call[p].at, comp |-> call[p].comp, option |-> o]
  <2>1. [call[p] EXCEPT !.pc = "apply"] = chosen
    BY Fields DEF QueueInv, CallsOK
  <2>2. /\ chosen = Record(chosen) /\ chosen.pc = "apply" /\ chosen.at = call[p].at
        /\ chosen.comp = call[p].comp
    BY DEF Record
  <2>3. r = Record(r) /\ r.pc = "apply" /\ r.at = call[p].at /\ r.comp = call[p].comp
    BY DEF Record
  <2> HIDE DEF chosen
  <2>4. [chosen EXCEPT !.option = o] = r
    BY <2>2, Fields
  <2> HIDE DEF r
  <2>5. call' = [call EXCEPT ![p] = r]
    BY <1>3, <2>1, <2>4
  <2>6. /\ call' = [q \in Calls |-> Record(call'[q])] /\ call'[p] = r
        /\ \A q \in Calls : q # p => call'[q] = call[q]
    BY <2>3, <2>5, OneCall DEF QueueInv
  <2> QED
    BY <1>1, <1>3, <2>3, <2>6, StillPlacing
<1> QED
  BY <1>2, <1>3 DEF Placing!Choose

LEMMA StartStopStep ==
  ASSUME QueueInv, NEW p \in Calls, Placing!StartStop(p)
  PROVE  QueueInv'
<1>1. call[p].pc = "apply" /\ role' = role /\ waiters' = waiters
  BY DEF Placing!StartStop
<1>2. CASE Placing!Retry(p)
  <2>1. /\ call' = [q \in Calls |-> Record(call'[q])]
        /\ call'[p].pc = "try" /\ call'[p].at = call[p].at /\ call'[p].comp = call[p].comp
        /\ \A q \in Calls : q # p => call'[q] = call[q]
    BY <1>2, RetryTo DEF QueueInv
  <2> QED
    BY <1>1, <2>1, StillPlacing
<1>3. ASSUME NEW t,
             call' = [q \in Calls |->
               IF q = p THEN [call[p] EXCEPT !.pc = "started", !.option.to = Placing!NoTargets]
               ELSE IF call[q].pc = "apply" /\ call[q].option.node = t
               THEN [call[q] EXCEPT !.option = Placing!Outdated(@)] ELSE call[q]]
      PROVE  QueueInv'
  <2> DEFINE to == [call[p].option EXCEPT !.to = Placing!NoTargets]
             begun == [pc |-> "started", at |-> call[p].at, comp |-> call[p].comp,
                       option |-> call[p].option]
             r == [pc |-> "started", at |-> call[p].at, comp |-> call[p].comp, option |-> to]
             Old(q) == [pc |-> call[q].pc, at |-> call[q].at, comp |-> call[q].comp,
                        option |-> Placing!Outdated(call[q].option)]
  <2>1. \A q \in Calls : call[q] = Record(call[q])
    BY DEF QueueInv, CallsOK
  <2>2. [call[p] EXCEPT !.pc = "started"] = begun
    BY <2>1, Fields
  <2>3. begun = Record(begun) /\ begun.pc = "started" /\ begun.at = call[p].at
        /\ begun.comp = call[p].comp /\ begun.option = call[p].option
    BY DEF Record
  <2>4. r = Record(r) /\ r.pc = "started" /\ r.at = call[p].at /\ r.comp = call[p].comp
    BY DEF Record
  <2> HIDE DEF to, begun
  <2>5. [begun EXCEPT !.option = to] = r
    <3>1. \A v : [begun EXCEPT !.option = v] =
                  [pc |-> begun.pc, at |-> begun.at, comp |-> begun.comp, option |-> v]
      BY <2>3, Fields
    <3> QED
      BY <2>3, <3>1
  <2> HIDE DEF r
  <2>6. [call[p] EXCEPT !.pc = "started", !.option.to = Placing!NoTargets] = r
    <3>1. [call[p] EXCEPT !.pc = "started", !.option.to = Placing!NoTargets]
            = [begun EXCEPT !.option.to = Placing!NoTargets]
      BY <2>2
    <3>2. [begun EXCEPT !.option.to = Placing!NoTargets] = [begun EXCEPT !.option = to]
      BY <2>3 DEF to
    <3> QED
      BY <2>5, <3>1, <3>2
  <2>7. \A q \in Calls : [call[q] EXCEPT !.option = Placing!Outdated(@)] = Old(q)
    BY <2>1, Fields
  <2>8. \A q \in Calls : /\ Old(q) = Record(Old(q)) /\ Old(q).pc = call[q].pc
                         /\ Old(q).at = call[q].at /\ Old(q).comp = call[q].comp
    BY DEF Record
  <2> HIDE DEF Old
  <2>9. call'[p] = r /\ \A q \in Calls : q # p => call'[q] \in {Old(q), call[q]}
    BY <1>3, <2>6, <2>7
  <2>10. call' = [q \in Calls |-> call'[q]]
    BY <1>3
  <2>11. \A q \in Calls : call'[q] = Record(call'[q])
    BY <2>1, <2>4, <2>8, <2>9
  <2>12. call' = [q \in Calls |-> Record(call'[q])]
    BY <2>10, <2>11
  <2>13. \A q \in Calls : q # p =>
           /\ call'[q].pc = call[q].pc
           /\ call'[q].at = call[q].at /\ call'[q].comp = call[q].comp
    BY <2>8, <2>9
  <2> QED
    BY <1>1, <2>4, <2>9, <2>12, <2>13, StillPlacing
<1> QED
  BY <1>2, <1>3 DEF Placing!StartStop

LEMMA StartStopFailsStep ==
  ASSUME QueueInv, NEW p \in Calls, Placing!StartStopFails(p)
  PROVE  QueueInv'
<1>1. /\ call[p].pc \in {"apply", "started"} /\ Placing!Retry(p)
      /\ role' = role /\ waiters' = waiters
  BY DEF Placing!StartStopFails
<1>2. /\ call' = [q \in Calls |-> Record(call'[q])]
      /\ call'[p].pc = "try" /\ call'[p].at = call[p].at /\ call'[p].comp = call[p].comp
      /\ \A q \in Calls : q # p => call'[q] = call[q]
  BY <1>1, RetryTo DEF QueueInv
<1> QED
  BY <1>1, <1>2, StillPlacing

LEMMA StartedStep ==
  ASSUME QueueInv, NEW p \in Calls, Placing!Started(p)
  PROVE  QueueInv'
<1>1. call[p].pc = "started" /\ role' = role
  BY DEF Placing!Started
<1>2. CASE Placing!Finish(p, TRUE)
  BY <1>1, <1>2, FinishStep
<1>3. CASE Placing!Retry(p) /\ waiters' = waiters
  <2>1. /\ call' = [q \in Calls |-> Record(call'[q])]
        /\ call'[p].pc = "try" /\ call'[p].at = call[p].at /\ call'[p].comp = call[p].comp
        /\ \A q \in Calls : q # p => call'[q] = call[q]
    BY <1>3, RetryTo DEF QueueInv
  <2> QED
    BY <1>1, <1>3, <2>1, StillPlacing
<1> QED
  BY <1>2, <1>3 DEF Placing!Started

LEMMA GiveUpStep ==
  ASSUME QueueInv, NEW p \in Calls, Placing!GiveUp(p)
  PROVE  QueueInv'
<1>1. role' = role
  BY DEF Placing!GiveUp
<1>2. CASE call[p].pc = "try" /\ Placing!Finish(p, FALSE)
  BY <1>1, <1>2, FinishStep
<1>3. CASE /\ call[p].pc \in {"wait", "acquire"}
           /\ call' = [call EXCEPT ![p] = Placing!Done] /\ waiters' = waiters
  <2>1. Placing!Done = Record(Placing!Done) /\ Placing!Done.pc = "done"
    BY DEF Placing!Done, Record
  <2>2. /\ call' = [q \in Calls |-> Record(call'[q])] /\ call'[p] = Placing!Done
        /\ \A q \in Calls : q # p => call'[q] = call[q]
    BY <1>3, <2>1, OneCall DEF QueueInv
  <2>3. CallsOK'
    BY <2>1, <2>2 DEF QueueInv, CallsOK, Pcs
  <2>4. role' \in Placers \cup {Nobody}
    BY <1>1 DEF QueueInv, QueuesOK
  <2> QED
    BY <1>3, <2>1, <2>2, <2>3, <2>4, SameQueues
<1> QED
  BY <1>2, <1>3 DEF Placing!GiveUp

LEMMA CallsRest ==
  ASSUME QueueInv, call' = call, waiters' = waiters, role' = role
  PROVE  QueueInv'
<1>1. CallsOK'
  BY DEF QueueInv, CallsOK
<1>2. role' \in Placers \cup {Nobody}
  BY DEF QueueInv, QueuesOK
<1> QED
  BY <1>1, <1>2, SameQueues

LEMMA PlacementStep == QueueInv /\ Placing!PlacementNext => QueueInv'
<1> SUFFICES ASSUME QueueInv, Placing!PlacementNext PROVE QueueInv'
  OBVIOUS
<1>1. ASSUME NEW p \in Calls, Placing!Step(p) PROVE QueueInv'
  BY <1>1, AcquireStep, ReleaseStep, FindRunningStep, ChooseStep, StartStopStep,
     StartedStep DEF Placing!Step
<1>2. ASSUME NEW p \in Calls, Placing!StartStopFails(p) \/ Placing!GiveUp(p) PROVE QueueInv'
  BY <1>2, StartStopFailsStep, GiveUpStep
<1>3. ASSUME \/ \E n, t \in Placers : Placing!HearOf(n, t)
             \/ \E t \in Placers : Placing!Converge(t)
      PROVE  QueueInv'
  <2>1. call' = call /\ waiters' = waiters /\ role' = role
    BY <1>3 DEF Placing!HearOf, Placing!Converge
  <2> QED
    BY <2>1, CallsRest
<1> QED
  BY <1>1, <1>2, <1>3 DEF Placing!PlacementNext

LEMMA PlacementStart == Placing!PlacementInit => QueueInv
<1> SUFFICES ASSUME Placing!PlacementInit PROVE QueueInv
  OBVIOUS
<1>1. PICK at \in Arrivals :
        call = [p \in Calls |-> Placing!PlaceComponent(at[p][1], at[p][2])]
  BY DEF Placing!PlacementInit
<1>2. at \in [Calls -> Placers \X Comps]
  BY SchedulingAssumption DEF Placing!PlacementCallsAssumption
<1>3. \A p \in Calls :
        /\ call[p] = Record(call[p]) /\ call[p].pc = "acquire"
        /\ call[p].at \in Placers /\ call[p].comp \in Comps
  BY <1>1, <1>2 DEF Placing!PlaceComponent, Record
<1>4. call = [p \in Calls |-> call[p]]
  BY <1>1
<1>5. CallsOK
  <2>1. call = [p \in Calls |-> Record(call[p])]
    BY <1>3, <1>4
  <2> QED
    BY <1>3, <2>1 DEF CallsOK, Pcs
<1>6. /\ role = Nobody /\ waiters = [n \in Placers |-> [c \in Comps |-> Placing!NoQueue]]
  BY DEF Placing!PlacementInit
<1>7. \A n \in Placers, c \in Comps, p \in Calls : ~ Placing!Places(p, n, c)
  BY <1>3 DEF Placing!Places
<1>8. QueuesOK
  BY <1>6 DEF QueuesOK
<1>9. \A n \in Placers, c \in Comps : waiters[n][c] = Placing!NoQueue
  BY <1>6
<1> QED
  BY <1>3, <1>5, <1>7, <1>8, <1>9
  DEF QueueInv, OpenWhilePlaced, OnePlacer, QueuedWait, WaitQueued

-----------------------------------------------------------------------------
LEMMA InitInv == Init => IInv
BY PlacementStart DEF Init, IInv

LEMMA StepInv == IInv /\ [Next]_vars => IInv'
<1> SUFFICES ASSUME IInv, [Next]_vars, part' = "placement" PROVE QueueInv'
  BY DEF IInv
<1>1. CASE PlacementOnly /\ Placing!PlacementNext
  BY <1>1, PlacementStep DEF IInv, PlacementOnly
<1>2. CASE UNCHANGED vars
  <2>1. call' = call /\ waiters' = waiters /\ role' = role /\ part' = part
    BY <1>2 DEF vars, placementVars
  <2> QED
    BY <2>1, CallsRest DEF IInv
<1>3. CASE RolloutOnly \/ ScaleOnly
  <2>1. part' # "placement"
    BY <1>3 DEF RolloutOnly, ScaleOnly
  <2> QED
    BY <2>1
<1> QED
  BY <1>1, <1>2, <1>3 DEF Next

LEMMA Inductive == Spec => []IInv
BY InitInv, StepInv, PTL DEF Spec

(* A queue has exactly one placer while it is open and none when it is closed,
   and every call that waits is in an open queue, however calls are delegated,
   fail, retry and give up (node_svc.go:287-544). *)
THEOREM QueuesHavePlacers == Spec => []QueueHasPlacer
<1>1. IInv => QueueHasPlacer
  BY InvImplies DEF IInv, QueueHasPlacer
<1> QED
  BY <1>1, Inductive, PTL

(* The calls in a queue wait for its answer or have given up: no call is placed
   by one and answered by another (node_svc.go:329-356). *)
THEOREM QueuesHoldWaiters == Spec => [](part = "placement" => QueuedWait /\ WaitQueued)
<1>1. IInv => (part = "placement" => QueuedWait /\ WaitQueued)
  BY DEF IInv, QueueInv
<1> QED
  BY <1>1, Inductive, PTL

-----------------------------------------------------------------------------
(* The rollout: some number of steps of its plan were applied, and the     *)
(* containers are those that the plan leaves of before, and the started.   *)

LEMMA RolloutBounds == MaxBefore \in Nat /\ MaxCount \in Nat
BY SchedulingAssumption DEF Rolling!RolloutAssumption

LEMMA SameUnset == Rolling!Unset = Unset
BY DEF Rolling!Unset, Unset

LEMMA SamePlan ==
  ASSUME NEW cs, NEW t
  PROVE  Rolling!Plan(cs, t) = Plan(cs, t)
<1>1. \A r, cn, u : Rolling!ScanOne(r, cn, u) = ScanOne(r, cn, u)
  BY SameUnset DEF Rolling!ScanOne, ScanOne, Rolling!StopStep, StopStep,
         Rolling!ScaleDown, ScaleDown, Rolling!VersionChanged, VersionChanged
<1>2. \A ls, u : Rolling!Scan(ls, u) = Scan(ls, u)
  BY <1>1, Zenon DEF Rolling!Scan, Scan
<1>3. \A a, q : Rolling!Alternate(t, a, q) = Alternate(t, a, q)
  BY DEF Rolling!Alternate, Alternate, Rolling!StartStep, StartStep, Rolling!TakesLock,
         TakesLock, Rolling!StartsFirst, StartsFirst
<1> QED
  BY <1>2, <1>3 DEF Rolling!Plan, Plan

ThePlan == Plan(before, target).steps
Old(cn, p) ==
  \E j \in DOMAIN before : cn = before[j] /\ cn.id \notin Ended(before, target, p)
New(cn) ==
  /\ cn.ver = target.ver /\ cn.reason = Unset
  /\ cn.id \in Len(before) + 1 .. Len(before) + started

(* The containers after the first p steps of the plan. *)
ContainersAt(p) ==
  /\ containers \in Seq(Rolling!Container) /\ Unalike(containers)
  /\ Len(containers) = Len(before) + 2 * started - p
  /\ \A i \in DOMAIN containers : Old(containers[i], p) \/ New(containers[i])
  /\ \A j \in DOMAIN before :
       before[j].id \notin Ended(before, target, p) =>
         \E i \in DOMAIN containers : containers[i] = before[j]

RolloutAt(p) ==
  /\ started = Begun(before, target, p)
  /\ steps = IF failed THEN <<>> ELSE After(ThePlan, p)
  /\ ContainersAt(p)

RolloutInv ==
  /\ target \in Rolling!Target
  /\ before \in Seq(Rolling!Container)
  /\ \A i \in DOMAIN before : before[i].id = i
  /\ failed \in BOOLEAN
  /\ \E p \in 0 .. Len(ThePlan) : RolloutAt(p)

LEMMA RolloutFacts ==
  ASSUME RolloutInv
  PROVE  /\ target.count \in Nat /\ target.count <= MaxCount
         /\ Unalike(before) /\ Len(before) \in Nat /\ DOMAIN before = 1 .. Len(before)
         /\ Len(ThePlan) \in Nat
<1>1. target.count \in 0 .. MaxCount
  BY DEF RolloutInv, Rolling!Target
<1>2. target.count \in Nat /\ target.count <= MaxCount
  BY <1>1, RolloutBounds
<1>4. Len(before) \in Nat /\ DOMAIN before = 1 .. Len(before)
      /\ before \in Seq(Rolling!Container)
  BY LenProperties DEF RolloutInv
<1>5. Unalike(before)
  BY DEF RolloutInv, Unalike
<1>6. Len(ThePlan) \in Nat
  BY <1>2, <1>4, PlanShape, LenProperties DEF ThePlan
<1> QED
  BY <1>2, <1>4, <1>5, <1>6

LEMMA RolloutStart == Rolling!Init => RolloutInv
<1> SUFFICES ASSUME Rolling!Init PROVE RolloutInv
  OBVIOUS
<1>1. /\ target \in Rolling!Target /\ containers = before /\ started = 0 /\ failed = FALSE
      /\ steps = ThePlan
  BY SamePlan DEF Rolling!Init, ThePlan
<1>2. PICK n \in 0 .. MaxBefore : before \in Rolling!Lists(n)
  BY DEF Rolling!Init
<1>3. n \in Nat
  BY <1>2, RolloutBounds
<1>4. PICK v \in [1 .. n -> Versions], m \in [1 .. n -> Reasons \cup {Unset}] :
        before = [i \in 1 .. n |-> [id |-> i, ver |-> v[i], reason |-> m[i]]]
  BY <1>2, SameUnset DEF Rolling!Lists
<1>5. /\ before \in [1 .. n -> Rolling!Container] /\ \A i \in 1 .. n : before[i].id = i
      /\ DOMAIN before = 1 .. n
  BY <1>3, <1>4, SameUnset DEF Rolling!Container
<1>6. before \in Seq(Rolling!Container) /\ Len(before) = n
  BY <1>3, <1>5, SeqDef, LenProperties
<1>7. target.count \in Nat
  <2>1. target.count \in 0 .. MaxCount
    BY <1>1 DEF Rolling!Target
  <2> QED
    BY <2>1, RolloutBounds
<1>8. Len(ThePlan) \in Nat /\ 0 \in 0 .. Len(ThePlan)
  BY <1>6, <1>7, PlanShape, LenProperties DEF ThePlan
<1>9. Begun(before, target, 0) = 0 /\ Ended(before, target, 0) = {}
  BY <1>6, <1>7, <1>8, PlanBalance DEF ThePlan
<1>10. After(ThePlan, 0) = ThePlan
  <2>1. ThePlan \in Seq(StopSteps(before) \cup StartSteps(target))
    BY <1>6, <1>7, PlanShape DEF ThePlan
  <2> QED
    BY <1>8, <2>1, AfterElements
<1>11. Unalike(containers)
  BY <1>1, <1>5 DEF Unalike
<1>12. ContainersAt(0)
  BY <1>1, <1>3, <1>5, <1>6, <1>9, <1>11 DEF ContainersAt, Old
<1>13. RolloutAt(0)
  BY <1>1, <1>9, <1>10, <1>12 DEF RolloutAt
<1> QED
  BY <1>1, <1>5, <1>6, <1>8, <1>13 DEF RolloutInv

LEMMA RolloutStartStep ==
  ASSUME RolloutInv, Rolling!Start
  PROVE  RolloutInv'
<1>1. PICK p \in 0 .. Len(ThePlan) : RolloutAt(p)
  BY DEF RolloutInv
<1>2. /\ target.count \in Nat /\ Len(before) \in Nat /\ Len(ThePlan) \in Nat
      /\ DOMAIN before = 1 .. Len(before) /\ before \in Seq(Rolling!Container)
      /\ \A i \in DOMAIN before : before[i].id = i
  BY RolloutFacts DEF RolloutInv
<1>3. /\ steps # <<>> /\ Head(steps).op = "start" /\ steps' = Tail(steps)
      /\ containers' = Append(containers, [id |-> Len(before) + started + 1,
                                           ver |-> Head(steps).ver, reason |-> Unset])
      /\ started' = started + 1
      /\ target' = target /\ before' = before /\ failed' = failed
  BY SameUnset DEF Rolling!Start
<1>4. ThePlan \in Seq(StopSteps(before) \cup StartSteps(target)) /\ ThePlan' = ThePlan
  BY <1>2, <1>3, PlanShape DEF ThePlan
<1>5. ~ failed /\ steps = After(ThePlan, p) /\ started = Begun(before, target, p)
  BY <1>1, <1>3 DEF RolloutAt
<1>6. p < Len(ThePlan) /\ p \in Nat
  BY <1>2, <1>3, <1>4, <1>5, AfterElements
<1>7. /\ Head(steps) = ThePlan[p + 1] /\ steps' = After(ThePlan, p + 1)
  BY <1>3, <1>4, <1>5, <1>6, AfterElements
<1>8. /\ started \in 0 .. ToStart(before, target)
      /\ \/ /\ ThePlan[p + 1] = StartStep(target.ver, TakesLock(target, started + 1))
            /\ Begun(before, target, p + 1) = started + 1
            /\ Ended(before, target, p + 1) = Ended(before, target, p)
         \/ /\ ThePlan[p + 1] = StopsOf(before, target)[p - started + 1]
            /\ p - started + 1 <= Len(StopsOf(before, target))
            /\ p - started \in 0 .. Len(StopsOf(before, target))
  BY <1>2, <1>5, <1>6, PlanStep DEF ThePlan
<1>9. /\ ThePlan[p + 1].ver = target.ver
      /\ Begun(before, target, p + 1) = started + 1
      /\ Ended(before, target, p + 1) = Ended(before, target, p)
  <2>1. ASSUME /\ ThePlan[p + 1] = StopsOf(before, target)[p - started + 1]
               /\ p - started + 1 <= Len(StopsOf(before, target))
               /\ p - started \in 0 .. Len(StopsOf(before, target))
        PROVE  FALSE
    <3>1. /\ StopsOf(before, target) \in Seq(StopSteps(before))
          /\ Len(StopsOf(before, target)) \in Nat
      BY <1>2, PlanShape, LenProperties
    <3>2. p - started + 1 \in 1 .. Len(StopsOf(before, target))
      BY <2>1, <3>1
    <3>3. ThePlan[p + 1] \in StopSteps(before)
      BY <2>1, <3>1, <3>2, ElementOfSeq
    <3> QED
      BY <1>3, <1>7, <3>3 DEF StopSteps
  <2> QED
    BY <1>8, <2>1 DEF StartStep
<1>10. /\ ToStart(before, target) \in Nat /\ started \in Nat
  <2>1. ToStart(before, target) \in 0 .. target.count
    BY <1>2, PlanShape
  <2>2. ToStart(before, target) \in Nat
    BY <1>2, <2>1
  <2> QED
    BY <1>8, <2>2
<1> DEFINE cn == [id |-> Len(before) + started + 1, ver |-> target.ver, reason |-> Unset]
<1>11. cn \in Rolling!Container
  <2>1. target.ver \in Versions
    BY DEF RolloutInv, Rolling!Target
  <2> QED
    BY <1>2, <1>10, <2>1, SameUnset DEF Rolling!Container
<1>12. /\ containers \in Seq(Rolling!Container) /\ Len(containers) \in Nat
       /\ DOMAIN containers = 1 .. Len(containers) /\ Unalike(containers)
       /\ Len(containers) = Len(before) + 2 * started - p
       /\ \A i \in DOMAIN containers : Old(containers[i], p) \/ New(containers[i])
       /\ \A j \in DOMAIN before : before[j].id \notin Ended(before, target, p) =>
            \E i \in DOMAIN containers : containers[i] = before[j]
  BY <1>1, LenProperties DEF RolloutAt, ContainersAt
<1>13. /\ containers' = Append(containers, cn)
  BY <1>3, <1>7, <1>9
<1> HIDE DEF cn
<1>14. /\ containers' \in Seq(Rolling!Container) /\ Len(containers') = Len(containers) + 1
       /\ DOMAIN containers' = 1 .. Len(containers) + 1
       /\ \A i \in 1 .. Len(containers) : containers'[i] = containers[i]
       /\ containers'[Len(containers) + 1] = cn
  BY <1>11, <1>12, <1>13, AppendProperties, LenProperties
<1>15. ASSUME NEW i \in DOMAIN containers
       PROVE  containers[i].id <= Len(before) + started /\ containers[i].id \in Nat
  <2>1. CASE Old(containers[i], p)
    BY <1>2, <1>10, <2>1 DEF Old
  <2>2. CASE New(containers[i])
    BY <1>2, <1>10, <2>2 DEF New
  <2> QED
    BY <1>12, <2>1, <2>2
<1>16. cn.id = Len(before) + started + 1 /\ cn.ver = target.ver /\ cn.reason = Unset
  BY DEF cn
<1>17. \A i \in DOMAIN containers : containers[i].id # cn.id
  <2> SUFFICES ASSUME NEW i \in DOMAIN containers PROVE containers[i].id # cn.id
    OBVIOUS
  <2>1. containers[i].id <= Len(before) + started /\ containers[i].id \in Nat
    BY <1>15
  <2> QED
    BY <1>2, <1>10, <1>16, <2>1
<1>18. Unalike(containers')
  <2> SUFFICES ASSUME NEW i \in DOMAIN containers', NEW j \in DOMAIN containers',
                      containers'[i].id = containers'[j].id
               PROVE  i = j
    BY DEF Unalike
  <2>1. CASE i \in DOMAIN containers /\ j \in DOMAIN containers
    BY <1>12, <1>14, <2>1 DEF Unalike
  <2>2. CASE i \in DOMAIN containers /\ j = Len(containers) + 1
    BY <1>12, <1>14, <1>17, <2>2
  <2>3. CASE j \in DOMAIN containers /\ i = Len(containers) + 1
    BY <1>12, <1>14, <1>17, <2>3
  <2>4. CASE i = Len(containers) + 1 /\ j = Len(containers) + 1
    BY <2>4
  <2> QED
    BY <1>12, <1>14, <2>1, <2>2, <2>3, <2>4
<1>19. \A i \in DOMAIN containers' : Old(containers[i], p + 1)' \/ New(containers[i])'
  <2> SUFFICES ASSUME NEW i \in DOMAIN containers'
               PROVE  Old(containers[i], p + 1)' \/ New(containers[i])'
    OBVIOUS
  <2>1. CASE i \in DOMAIN containers
    <3>1. CASE Old(containers[i], p)
      BY <1>3, <1>9, <1>12, <1>14, <2>1, <3>1 DEF Old
    <3>2. CASE New(containers[i])
      <4>1. containers[i].id \in Len(before) + 1 .. Len(before) + (started + 1)
        BY <1>2, <1>10, <3>2 DEF New
      <4> QED
        BY <1>3, <1>12, <1>14, <2>1, <3>2, <4>1 DEF New
    <3> QED
      BY <1>12, <2>1, <3>1, <3>2
  <2>2. CASE i = Len(containers) + 1
    <3>1. cn.id \in Len(before) + 1 .. Len(before) + (started + 1)
      BY <1>2, <1>10, <1>16
    <3> QED
      BY <1>3, <1>14, <1>16, <2>2, <3>1 DEF New
  <2> QED
    BY <1>12, <1>14, <2>1, <2>2
<1>20. \A j \in DOMAIN before : before[j].id \notin Ended(before, target, p + 1) =>
          \E i \in DOMAIN containers' : containers'[i] = before[j]
  <2> SUFFICES ASSUME NEW j \in DOMAIN before,
                      before[j].id \notin Ended(before, target, p + 1)
               PROVE  \E i \in DOMAIN containers' : containers'[i] = before[j]
    OBVIOUS
  <2>1. PICK i \in DOMAIN containers : containers[i] = before[j]
    BY <1>9, <1>12
  <2>2. i \in DOMAIN containers' /\ containers'[i] = before[j]
    BY <1>12, <1>14, <2>1
  <2> QED
    BY <2>2
<1>21. Len(containers') = Len(before) + 2 * started' - (p + 1)
  BY <1>2, <1>3, <1>6, <1>10, <1>12, <1>14
<1>22. ContainersAt(p + 1)'
  BY <1>3, <1>14, <1>18, <1>19, <1>20, <1>21 DEF ContainersAt
<1>23. RolloutAt(p + 1)' /\ p + 1 \in 0 .. Len(ThePlan)
  BY <1>2, <1>3, <1>4, <1>5, <1>6, <1>7, <1>9, <1>22 DEF RolloutAt
<1> QED
  BY <1>3, <1>4, <1>23 DEF RolloutInv

LEMMA RolloutFailsStep ==
  ASSUME RolloutInv, Rolling!StartFails
  PROVE  RolloutInv'
<1>1. PICK p \in 0 .. Len(ThePlan) : RolloutAt(p)
  BY DEF RolloutInv
<1>2. /\ failed' = TRUE /\ steps' = <<>>
      /\ target' = target /\ before' = before /\ containers' = containers /\ started' = started
  BY DEF Rolling!StartFails
<1>3. ThePlan' = ThePlan /\ ContainersAt(p)'
  BY <1>1, <1>2 DEF ThePlan, RolloutAt, ContainersAt, Old, New
<1>4. RolloutAt(p)'
  BY <1>1, <1>2, <1>3 DEF RolloutAt
<1> QED
  BY <1>2, <1>3, <1>4 DEF RolloutInv

(* Which container RemoveFirstMatch takes out, when no other has its id. *)
WithoutId(seq, id) == Rolling!RemoveFirstMatch(seq, LAMBDA cn : cn.id = id)

LEMMA RolloutRemoves ==
  ASSUME NEW seq, Len(seq) \in Nat, NEW k \in 1 .. Len(seq), NEW id,
         \A i \in 1 .. Len(seq) : seq[i].id = id <=> i = k
  PROVE  WithoutId(seq, id) = Cut(seq, k)
<1>1. {i \in 1 .. Len(seq) : seq[i].id = id} = {k}
  OBVIOUS
<1>2. Rolling!Min({k}) = k
  BY DEF Rolling!Min
<1>3. Rolling!SelectInSeq(seq, LAMBDA cn : cn.id = id) = k
  BY <1>1, <1>2 DEF Rolling!SelectInSeq
<1>4. \E i \in 1 .. Len(seq) : seq[i].id = id
  OBVIOUS
<1> QED
  BY <1>3, <1>4 DEF WithoutId, Rolling!RemoveFirstMatch, Rolling!RemoveAt, Cut

LEMMA RolloutStopStep ==
  ASSUME RolloutInv, Rolling!Stop
  PROVE  RolloutInv'
<1>1. PICK p \in 0 .. Len(ThePlan) : RolloutAt(p)
  BY DEF RolloutInv
<1>2. /\ target.count \in Nat /\ Len(before) \in Nat /\ Len(ThePlan) \in Nat
      /\ DOMAIN before = 1 .. Len(before) /\ before \in Seq(Rolling!Container)
      /\ \A i \in DOMAIN before : before[i].id = i
      /\ Unalike(before)
  BY RolloutFacts DEF RolloutInv
<1>3. /\ steps # <<>> /\ Head(steps).op = "stop" /\ steps' = Tail(steps)
      /\ containers' = WithoutId(containers, Head(steps).id)
      /\ started' = started
      /\ target' = target /\ before' = before /\ failed' = failed
  BY DEF Rolling!Stop, WithoutId
<1>4. ThePlan \in Seq(StopSteps(before) \cup StartSteps(target)) /\ ThePlan' = ThePlan
  BY <1>2, <1>3, PlanShape DEF ThePlan
<1>5. ~ failed /\ steps = After(ThePlan, p) /\ started = Begun(before, target, p)
  BY <1>1, <1>3 DEF RolloutAt
<1>6. p < Len(ThePlan) /\ p \in Nat
  BY <1>2, <1>3, <1>4, <1>5, AfterElements
<1>7. /\ Head(steps) = ThePlan[p + 1] /\ steps' = After(ThePlan, p + 1)
  BY <1>3, <1>4, <1>5, <1>6, AfterElements
<1> DEFINE id == StopsOf(before, target)[p - started + 1].id
<1>8. /\ started \in 0 .. ToStart(before, target)
      /\ p - started \in 0 .. Len(StopsOf(before, target))
      /\ \/ ThePlan[p + 1] = StartStep(target.ver, TakesLock(target, started + 1))
         \/ /\ ThePlan[p + 1] = StopsOf(before, target)[p - started + 1]
            /\ p - started + 1 <= Len(StopsOf(before, target))
            /\ Begun(before, target, p + 1) = started
            /\ Ended(before, target, p + 1) = Ended(before, target, p) \cup {ThePlan[p + 1].id}
  BY <1>2, <1>5, <1>6, PlanStep DEF ThePlan
<1>9. /\ Head(steps).id = id
      /\ p - started + 1 <= Len(StopsOf(before, target))
      /\ Begun(before, target, p + 1) = started
      /\ Ended(before, target, p + 1) = Ended(before, target, p) \cup {id}
  BY <1>3, <1>7, <1>8 DEF StartStep
<1>10. started \in Nat
  <2>1. ToStart(before, target) \in 0 .. target.count
    BY <1>2, PlanShape
  <2> QED
    BY <1>2, <1>8, <2>1
<1>11. id \in IdsIn(before) \ Ended(before, target, p)
  <2>1. Len(StopsOf(before, target)) \in 0 .. Len(before)
    BY <1>2, PlanShape
  <2>2. p - started < Len(StopsOf(before, target))
    BY <1>2, <1>6, <1>8, <1>9, <1>10, <2>1
  <2> QED
    BY <1>2, <1>5, <1>6, <2>2, PlanLeaves DEF ThePlan
<1> HIDE DEF id
<1>12. /\ containers \in Seq(Rolling!Container) /\ Len(containers) \in Nat
       /\ DOMAIN containers = 1 .. Len(containers) /\ Unalike(containers)
       /\ Len(containers) = Len(before) + 2 * started - p
       /\ \A i \in DOMAIN containers : Old(containers[i], p) \/ New(containers[i])
       /\ \A j \in DOMAIN before : before[j].id \notin Ended(before, target, p) =>
            \E i \in DOMAIN containers : containers[i] = before[j]
  BY <1>1, LenProperties DEF RolloutAt, ContainersAt
<1>13. PICK k \in DOMAIN containers : containers[k].id = id
  BY <1>11, <1>12 DEF IdsIn
<1>14. /\ k \in 1 .. Len(containers)
       /\ \A i \in 1 .. Len(containers) : containers[i].id = id <=> i = k
  BY <1>12, <1>13 DEF Unalike
<1>15. containers' = Cut(containers, k)
  <2>1. WithoutId(containers, id) = Cut(containers, k)
    BY <1>12, <1>14, RolloutRemoves
  <2> QED
    BY <1>3, <1>9, <2>1
<1>16. /\ containers' \in Seq(Rolling!Container) /\ Len(containers') = Len(containers) - 1
       /\ DOMAIN containers' = 1 .. Len(containers) - 1
       /\ \A i \in 1 .. Len(containers) - 1 :
            containers'[i] = IF i < k THEN containers[i] ELSE containers[i + 1]
  BY <1>12, <1>14, <1>15, CutElements
(* Where each container of the new list was, and where each other one went. *)
<1>17. ASSUME NEW i \in DOMAIN containers'
       PROVE  LET m == IF i < k THEN i ELSE i + 1
              IN  /\ m \in DOMAIN containers /\ m # k /\ containers'[i] = containers[m]
  <2>1. i \in 1 .. Len(containers) - 1 /\ k \in 1 .. Len(containers)
    BY <1>14, <1>16
  <2>2. /\ (IF i < k THEN i ELSE i + 1) \in 1 .. Len(containers)
        /\ (IF i < k THEN i ELSE i + 1) # k
    BY <1>12, <2>1
  <2> QED
    BY <1>12, <1>16, <2>1, <2>2
<1>18. Unalike(containers')
  <2> SUFFICES ASSUME NEW i \in DOMAIN containers', NEW j \in DOMAIN containers',
                      containers'[i].id = containers'[j].id
               PROVE  i = j
    BY DEF Unalike
  <2>1. (IF i < k THEN i ELSE i + 1) = (IF j < k THEN j ELSE j + 1)
    BY <1>12, <1>17 DEF Unalike
  <2>2. i \in Nat /\ j \in Nat /\ k \in Nat
    BY <1>12, <1>14, <1>16
  <2> QED
    BY <2>1, <2>2
<1>19. \A i \in DOMAIN containers' : Old(containers[i], p + 1)' \/ New(containers[i])'
  <2> SUFFICES ASSUME NEW i \in DOMAIN containers'
               PROVE  Old(containers[i], p + 1)' \/ New(containers[i])'
    OBVIOUS
  <2>1. PICK m \in DOMAIN containers : m # k /\ containers'[i] = containers[m]
    BY <1>17
  <2>2. containers[m].id # id
    BY <1>12, <1>14, <2>1
  <2>3. CASE Old(containers[m], p)
    BY <1>3, <1>9, <2>1, <2>2, <2>3 DEF Old
  <2>4. CASE New(containers[m])
    BY <1>3, <2>1, <2>4 DEF New
  <2> QED
    BY <1>12, <2>3, <2>4
<1>20. \A j \in DOMAIN before : before[j].id \notin Ended(before, target, p + 1) =>
          \E i \in DOMAIN containers' : containers'[i] = before[j]
  <2> SUFFICES ASSUME NEW j \in DOMAIN before,
                      before[j].id \notin Ended(before, target, p + 1)
               PROVE  \E i \in DOMAIN containers' : containers'[i] = before[j]
    OBVIOUS
  <2>1. before[j].id \notin Ended(before, target, p) /\ before[j].id # id
    BY <1>9
  <2>2. PICK i \in DOMAIN containers : containers[i] = before[j]
    BY <1>12, <2>1
  <2>3. i # k /\ i \in 1 .. Len(containers)
    BY <1>12, <1>13, <2>1, <2>2
  <2> DEFINE m == IF i < k THEN i ELSE i - 1
  <2>4. m \in 1 .. Len(containers) - 1 /\ (IF m < k THEN m ELSE m + 1) = i
    BY <1>12, <1>14, <2>3
  <2> HIDE DEF m
  <2>5. m \in DOMAIN containers' /\ containers'[m] = before[j]
    BY <1>16, <2>2, <2>4
  <2> QED
    BY <2>5
<1>21. Len(containers') = Len(before) + 2 * started' - (p + 1)
  BY <1>2, <1>3, <1>6, <1>10, <1>12, <1>16
<1>22. ContainersAt(p + 1)'
  BY <1>3, <1>16, <1>18, <1>19, <1>20, <1>21 DEF ContainersAt
<1>23. RolloutAt(p + 1)' /\ p + 1 \in 0 .. Len(ThePlan)
  BY <1>2, <1>3, <1>4, <1>5, <1>6, <1>7, <1>9, <1>22 DEF RolloutAt
<1> QED
  BY <1>3, <1>4, <1>23 DEF RolloutInv

LEMMA SameRollingCardinality == \A S : Rolling!Cardinality(S) = Cardinality(S)
BY Zenon DEF Rolling!Cardinality, Cardinality

LEMMA RolloutBalances ==
  ASSUME RolloutInv
  PROVE  Rolling!ReachesTarget /\ Rolling!StartStopKeepsCapacity
<1>1. PICK p \in 0 .. Len(ThePlan) : RolloutAt(p)
  BY DEF RolloutInv
<1>2. /\ target.count \in Nat /\ Len(before) \in Nat /\ Len(ThePlan) \in Nat
      /\ before \in Seq(Rolling!Container)
  BY RolloutFacts DEF RolloutInv
<1>3. /\ started = Begun(before, target, p)
      /\ Len(containers) = Len(before) + 2 * started - p
      /\ \A i \in DOMAIN containers : Old(containers[i], p) \/ New(containers[i])
      /\ ~ failed => steps = After(ThePlan, p)
  BY <1>1 DEF RolloutAt, ContainersAt
<1>4. /\ StartsFirst(target) =>
           Len(containers) >=
             (IF Len(before) < target.count THEN Len(before) ELSE target.count)
      /\ p = Len(ThePlan) => Len(containers) = target.count
  BY <1>2, <1>3, PlanBalance DEF ThePlan
<1>5. Rolling!StartStopKeepsCapacity
  BY <1>4 DEF Rolling!StartStopKeepsCapacity, Rolling!Least, StartsFirst
<1>6. ASSUME steps = <<>>, ~ failed
      PROVE  /\ Len(containers) = target.count
             /\ \A i \in DOMAIN containers : Rolling!Fits(containers[i])
  <2>1. p = Len(ThePlan)
    <3>1. ThePlan \in Seq(StopSteps(before) \cup StartSteps(target))
      BY <1>2, PlanShape DEF ThePlan
    <3> QED
      BY <1>3, <1>6, <3>1, AfterElements
  <2>2. \A j \in DOMAIN before : before[j].id \notin Ended(before, target, p) =>
                                  Kept(before[j], target)
    BY <1>2, <2>1, PlanLeaves DEF ThePlan
  <2>3. ASSUME NEW i \in DOMAIN containers
        PROVE  Rolling!Fits(containers[i])
    BY <1>3, <2>2, SameUnset DEF Old, New, Kept, Rolling!Fits
  <2> QED
    BY <1>4, <2>1, <2>3
<1> QED
  BY <1>5, <1>6 DEF Rolling!ReachesTarget

LEMMA RolloutKeeps ==
  ASSUME RolloutInv
  PROVE  Rolling!KeepsWhatFits
<1>1. PICK p \in 0 .. Len(ThePlan) : RolloutAt(p)
  BY DEF RolloutInv
<1>2. /\ target.count \in Nat /\ before \in Seq(Rolling!Container) /\ Unalike(before)
  BY RolloutFacts DEF RolloutInv
<1> DEFINE fit == FitIds(before, target)
           both == Rolling!Fitting(containers) \cap Rolling!Fitting(before)
<1>3. /\ IsFiniteSet(fit)
      /\ Cardinality(fit \ Ended(before, target, p)) >=
           (IF target.count < Cardinality(fit) THEN target.count ELSE Cardinality(fit))
  BY <1>2, PlanKeeps DEF ThePlan
<1>4. Rolling!Fitting(before) = fit
  BY SameUnset DEF Rolling!Fitting, Rolling!Fits, FitIds, Kept
<1>5. fit \ Ended(before, target, p) \subseteq both
  <2> SUFFICES ASSUME NEW x \in fit \ Ended(before, target, p)
               PROVE  x \in both
    OBVIOUS
  <2>1. PICK j \in DOMAIN before : Kept(before[j], target) /\ x = before[j].id
    BY DEF FitIds
  <2>2. PICK i \in DOMAIN containers : containers[i] = before[j]
    BY <1>1, <2>1 DEF RolloutAt, ContainersAt
  <2>3. Rolling!Fits(containers[i]) /\ x = containers[i].id
    BY <2>1, <2>2, SameUnset DEF Kept, Rolling!Fits
  <2>4. x \in Rolling!Fitting(containers)
    BY <2>3 DEF Rolling!Fitting
  <2> QED
    BY <1>4, <2>4
<1>6. both \subseteq fit
  BY <1>4
<1> HIDE DEF fit, both
<1>7. IsFiniteSet(both) /\ Cardinality(fit \ Ended(before, target, p)) <= Cardinality(both)
  <2>1. IsFiniteSet(both)
    BY <1>3, <1>6, FS_Subset
  <2> QED
    BY <1>5, <2>1, FS_Subset
<1>8. /\ Cardinality(fit) \in Nat /\ Cardinality(both) \in Nat
      /\ Cardinality(fit \ Ended(before, target, p)) \in Nat
  <2>1. IsFiniteSet(fit \ Ended(before, target, p))
    BY <1>3, FS_Subset
  <2> QED
    BY <1>3, <1>7, <2>1, FS_CardinalityType
<1>9. Cardinality(both) >=
        (IF target.count < Cardinality(fit) THEN target.count ELSE Cardinality(fit))
  BY <1>2, <1>3, <1>7, <1>8
<1>10. Rolling!Cardinality(both) >= Rolling!Least(target.count, Rolling!Cardinality(fit))
  BY <1>9, SameRollingCardinality DEF Rolling!Least
<1> QED
  BY <1>4, <1>10 DEF Rolling!KeepsWhatFits, both

RollingInv == part = "rollout" => RolloutInv

LEMMA RollingInit == Init => RollingInv
BY RolloutStart DEF Init, RollingInv

LEMMA RollingStep == RollingInv /\ [Next]_vars => RollingInv'
<1> SUFFICES ASSUME RollingInv, [Next]_vars, part' = "rollout" PROVE RolloutInv'
  BY DEF RollingInv
<1>1. CASE UNCHANGED vars
  <2>1. RolloutInv /\ UNCHANGED rolloutVars
    BY <1>1 DEF RollingInv, vars
  <2> QED
    BY <2>1 DEF RolloutInv, RolloutAt, ContainersAt, Old, New, ThePlan, rolloutVars
<1>2. CASE RolloutOnly /\ Rolling!Next
  <2>1. RolloutInv
    BY <1>2 DEF RolloutOnly, RollingInv
  <2> QED
    BY <1>2, <2>1, RolloutStartStep, RolloutFailsStep, RolloutStopStep DEF Rolling!Next
<1>3. CASE ScaleOnly /\ Scaling!Next
  BY <1>3 DEF ScaleOnly
<1>4. CASE PlacementOnly /\ Placing!PlacementNext
  BY <1>4 DEF PlacementOnly
<1> QED
  BY <1>1, <1>2, <1>3, <1>4 DEF Next

(* A plan that was carried out leaves exactly the target, whatever the containers it
   was made from and the order of its steps (converger.go:342-385, 387-477). *)
THEOREM RolloutReachesTarget == Spec => []ReachesTarget
<1>1. RollingInv => ReachesTarget
  BY RolloutBalances DEF RollingInv, ReachesTarget
<1> QED
  BY <1>1, RollingInit, RollingStep, PTL DEF Spec

(* No container that fits is stopped, at any step of any plan, unless there are more of
   them than the target asks for (converger.go:395-418). *)
THEOREM RolloutKeepsWhatFits == Spec => []KeepsWhatFits
<1>1. RollingInv => KeepsWhatFits
  BY RolloutKeeps DEF RollingInv, KeepsWhatFits
<1> QED
  BY <1>1, RollingInit, RollingStep, PTL DEF Spec

(* With startstop a rolling deploy never takes capacity away, not even when one of its
   starts fails (converger.go:436-465). *)
THEOREM RolloutKeepsCapacity == Spec => []StartStopKeepsCapacity
<1>1. RollingInv => StartStopKeepsCapacity
  BY RolloutBalances DEF RollingInv, StartStopKeepsCapacity
<1> QED
  BY <1>1, RollingInit, RollingStep, PTL DEF Spec

-----------------------------------------------------------------------------
(***************************************************************************)
(* Sums: the folds of Functions add up what a finite function says.        *)
(***************************************************************************)

Some(s) == CHOOSE x \in s : TRUE
SumStep(f, it, s) == IF s = {} THEN 0 ELSE f[Some(s)] + it[s \ {Some(s)}]
IsSum(f, it, S) == it = [s \in SUBSET S |-> SumStep(f, it, s)]

(* The fold that adds up a function is a function of the subsets of its domain. *)
LEMMA SumExists ==
  ASSUME NEW S, IsFiniteSet(S), NEW f
  PROVE  \E it : IsSum(f, it, S)
<1> DEFINE Good(it, m) == \A s \in SUBSET S : Cardinality(s) <= m => it[s] = SumStep(f, it, s)
           T == {m \in Nat : \E it : it = [s \in SUBSET S |-> it[s]] /\ Good(it, m)}
<1>0. \A s \in SUBSET S : IsFiniteSet(s) /\ Cardinality(s) \in Nat /\ Cardinality(s) <= Cardinality(S)
  BY FS_Subset, FS_CardinalityType
<1>1. 0 \in T
  <2> DEFINE it == [s \in SUBSET S |-> 0]
  <2>1. ASSUME NEW s \in SUBSET S, Cardinality(s) <= 0 PROVE it[s] = SumStep(f, it, s)
    <3>1. s = {}
      BY <1>0, <2>1, FS_EmptySet
    <3> QED
      BY <3>1 DEF SumStep
  <2>2. it = [s \in SUBSET S |-> it[s]] /\ Good(it, 0)
    BY <2>1
  <2> QED
    BY <2>2
<1>2. ASSUME NEW m \in T PROVE m + 1 \in T
  <2>1. PICK g : g = [s \in SUBSET S |-> g[s]] /\ Good(g, m)
    OBVIOUS
  <2> DEFINE it == [s \in SUBSET S |-> SumStep(f, g, s)]
  <2>2. ASSUME NEW s \in SUBSET S, Cardinality(s) <= m PROVE it[s] = g[s]
    BY <2>1, <2>2
  <2>3. ASSUME NEW s \in SUBSET S, Cardinality(s) <= m + 1 PROVE it[s] = SumStep(f, it, s)
    <3>1. CASE s = {}
      BY <3>1 DEF SumStep
    <3>2. CASE s # {}
      <4>1. Some(s) \in s
        BY <3>2 DEF Some
      <4> DEFINE r == s \ {Some(s)}
      <4>2. Cardinality(r) = Cardinality(s) - 1 /\ r \in SUBSET S
        BY <1>0, <4>1, FS_RemoveElement
      <4>3. Cardinality(r) <= m
        BY <1>0, <1>2, <2>3, <4>2
      <4>4. it[r] = g[r]
        BY <2>2, <4>2, <4>3
      <4>5. it[s] = SumStep(f, g, s)
        OBVIOUS
      <4> HIDE DEF it
      <4> QED
        BY <3>2, <4>4, <4>5 DEF SumStep
    <3> QED
      BY <3>1, <3>2
  <2>4. it = [s \in SUBSET S |-> it[s]]
    OBVIOUS
  <2> HIDE DEF it
  <2>5. \E h : h = [s \in SUBSET S |-> h[s]] /\ Good(h, m + 1)
    BY <2>3, <2>4
  <2>6. m + 1 \in Nat
    OBVIOUS
  <2> QED
    BY <2>5, <2>6
<1>3. Cardinality(S) \in T
  <2>1. T \in SUBSET Nat
    OBVIOUS
  <2> HIDE DEF T
  <2>2. T = Nat
    BY <1>1, <1>2, <2>1, SetInduction
  <2> QED
    BY <1>0, <2>2
<1>4. PICK it : it = [s \in SUBSET S |-> it[s]] /\ Good(it, Cardinality(S))
  BY <1>3
<1>5. \A s \in SUBSET S : it[s] = SumStep(f, it, s)
  BY <1>0, <1>4
<1>6. it = [s \in SUBSET S |-> SumStep(f, it, s)]
  BY <1>4, <1>5
<1> QED
  BY <1>6 DEF IsSum

(* The sums of the parts of a function. *)
AddsUp(f, it, S) ==
  /\ it[{}] = 0
  /\ \A s \in SUBSET S : it[s] \in Int /\ \A x \in s : it[s] = f[x] + it[s \ {x}]

(* Any element may be added last. *)
LEMMA SumAny ==
  ASSUME NEW S, IsFiniteSet(S), NEW f \in [S -> Int], NEW it, IsSum(f, it, S)
  PROVE  AddsUp(f, it, S)
<1> DEFINE Good(s) == it[s] \in Int /\ \A x \in s : it[s] = f[x] + it[s \ {x}]
           T == {m \in Nat : \A s \in SUBSET S : Cardinality(s) <= m => Good(s)}
<1>0. /\ \A s \in SUBSET S : IsFiniteSet(s) /\ Cardinality(s) \in Nat
                             /\ Cardinality(s) <= Cardinality(S)
      /\ \A s \in SUBSET S : it[s] = SumStep(f, it, s)
  BY FS_Subset, FS_CardinalityType DEF IsSum
<1>1. it[{}] = 0
  BY <1>0 DEF SumStep
<1>2. 0 \in T
  <2>1. ASSUME NEW s \in SUBSET S, Cardinality(s) <= 0 PROVE Good(s)
    <3>1. s = {}
      BY <1>0, <2>1, FS_EmptySet
    <3> QED
      BY <1>1, <3>1
  <2> QED
    BY <2>1
<1>3. ASSUME NEW m \in T PROVE m + 1 \in T
  <2>1. \A s \in SUBSET S : Cardinality(s) <= m => Good(s)
    BY <1>3
  <2>2. ASSUME NEW s \in SUBSET S, Cardinality(s) <= m + 1, NEW x \in s
        PROVE  it[s] \in Int /\ it[s] = f[x] + it[s \ {x}]
    <3>1. PICK y : y = Some(s) /\ y \in s
      BY DEF Some
    <3>2. it[s] = f[y] + it[s \ {y}]
      BY <1>0, <3>1 DEF SumStep
    <3>3. /\ s \ {x} \in SUBSET S /\ s \ {y} \in SUBSET S
          /\ Cardinality(s \ {x}) <= m /\ Cardinality(s \ {y}) <= m
      <4>1. /\ Cardinality(s \ {x}) = Cardinality(s) - 1
            /\ Cardinality(s \ {y}) = Cardinality(s) - 1
            /\ Cardinality(s) \in Nat
        BY <1>0, <3>1, FS_RemoveElement
      <4>2. m \in Nat /\ Cardinality(s) <= m + 1
        BY <2>2
      <4> QED
        BY <4>1, <4>2
    <3>4. it[s \ {x}] \in Int /\ it[s \ {y}] \in Int /\ f[x] \in Int /\ f[y] \in Int
      BY <2>1, <3>1, <3>3
    <3>5. CASE x = y
      BY <3>2, <3>4, <3>5
    <3>6. CASE x # y
      <4>1. it[s \ {y}] = f[x] + it[(s \ {y}) \ {x}]
        BY <2>1, <3>3, <3>6
      <4>2. it[s \ {x}] = f[y] + it[(s \ {x}) \ {y}]
        BY <2>1, <3>1, <3>3, <3>6
      <4>3. PICK r : r = (s \ {x}) \ {y}
        OBVIOUS
      <4>4. (s \ {y}) \ {x} = r /\ (s \ {x}) \ {y} = r
        BY <4>3
      <4>5. it[s \ {y}] = f[x] + it[r] /\ it[s \ {x}] = f[y] + it[r] /\ it[r] \in Int
        <5>1. r \in SUBSET S /\ Cardinality(r) <= m
          <6>1. r \subseteq s \ {x}
            BY <4>3
          <6>2. IsFiniteSet(s \ {x}) /\ r \in SUBSET S
            BY <1>0, <3>3, <4>3
          <6>3. Cardinality(r) <= Cardinality(s \ {x})
            BY <6>1, <6>2, FS_Subset
          <6>4. Cardinality(r) \in Nat /\ Cardinality(s \ {x}) \in Nat /\ m \in Nat
            BY <1>0, <1>3, <3>3, <6>2
          <6> QED
            BY <3>3, <6>2, <6>3, <6>4
        <5> QED
          BY <2>1, <4>1, <4>2, <4>4, <5>1
      <4> QED
        BY <3>2, <3>4, <4>5
    <3> QED
      BY <3>5, <3>6
  <2>3. ASSUME NEW s \in SUBSET S, Cardinality(s) <= m + 1 PROVE Good(s)
    <3>1. CASE s = {}
      BY <1>1, <3>1
    <3>2. CASE s # {}
      BY <2>2, <2>3, <3>2
    <3> QED
      BY <3>1, <3>2
  <2>4. m + 1 \in Nat
    OBVIOUS
  <2> HIDE DEF Good
  <2> QED
    BY <2>3, <2>4
<1>4. T = Nat
  <2>1. T \in SUBSET Nat
    OBVIOUS
  <2> HIDE DEF T
  <2> QED
    BY <1>2, <1>3, <2>1, SetInduction
<1>5. \A s \in SUBSET S : Good(s)
  BY <1>0, <1>4
<1> QED
  BY <1>1, <1>5 DEF AddsUp

LEMMA SumIs ==
  ASSUME NEW S, IsFiniteSet(S), NEW f \in [S -> Int]
  PROVE  \E it : IsSum(f, it, S) /\ Scaling!SumFunction(f) = it[S]
<1>1. Scaling!SumFunction(f) =
        (CHOOSE it : it = [s \in SUBSET DOMAIN f |->
                             IF s = {} THEN 0
                             ELSE f[CHOOSE x \in s : TRUE] + it[s \ {CHOOSE x \in s : TRUE}]])
        [DOMAIN f]
  BY Zenon DEF Scaling!SumFunction, Scaling!SumFunctionOnSet, Scaling!FoldFunctionOnSet,
               Scaling!MapThenFoldSet
<1> DEFINE sum == CHOOSE it : it = [s \in SUBSET S |->
                             IF s = {} THEN 0
                             ELSE f[CHOOSE x \in s : TRUE] + it[s \ {CHOOSE x \in s : TRUE}]]
<1>2. IsSum(f, sum, S)
  <2>1. \E it : IsSum(f, it, S)
    BY SumExists
  <2> QED
    BY <2>1, Zenon DEF IsSum, SumStep, Some
<1>3. Scaling!SumFunction(f) = sum[S]
  <2>1. DOMAIN f = S
    OBVIOUS
  <2> QED
    BY <1>1, <2>1, Zenon
<1> QED
  BY <1>2, <1>3

(* What holds of the empty set, and of a set if of the set without an element of it,
   holds of a finite set. *)
LEMMA SubsetInduction ==
  ASSUME NEW S, IsFiniteSet(S), NEW G \in SUBSET SUBSET S, {} \in G,
         \A s \in SUBSET S : \A x \in s : s \ {x} \in G => s \in G
  PROVE  G = SUBSET S
<1> DEFINE T == {m \in Nat : \A s \in SUBSET S : Cardinality(s) <= m => s \in G}
<1>0. \A s \in SUBSET S : IsFiniteSet(s) /\ Cardinality(s) \in Nat
                          /\ Cardinality(s) <= Cardinality(S)
  BY FS_Subset, FS_CardinalityType
<1>1. 0 \in T
  <2>1. ASSUME NEW s \in SUBSET S, Cardinality(s) <= 0 PROVE s \in G
    <3>1. s = {}
      BY <1>0, <2>1, FS_EmptySet
    <3> QED
      BY <3>1
  <2> QED
    BY <2>1
<1>2. ASSUME NEW m \in T PROVE m + 1 \in T
  <2>1. ASSUME NEW s \in SUBSET S, Cardinality(s) <= m + 1 PROVE s \in G
    <3>1. CASE s = {}
      BY <3>1
    <3>2. CASE s # {}
      <4>1. PICK x : x \in s
        BY <3>2
      <4>2. s \ {x} \in SUBSET S /\ Cardinality(s \ {x}) = Cardinality(s) - 1
        BY <1>0, <4>1, FS_RemoveElement
      <4>3. Cardinality(s \ {x}) <= m
        <5>1. Cardinality(s) \in Nat /\ m \in Nat
          BY <1>0
        <5> QED
          BY <2>1, <4>2, <5>1
      <4> QED
        BY <4>1, <4>2, <4>3
    <3> QED
      BY <3>1, <3>2
  <2> QED
    BY <1>2, <2>1
<1>3. T = Nat
  <2>1. T \in SUBSET Nat
    OBVIOUS
  <2> HIDE DEF T
  <2> QED
    BY <1>1, <1>2, <2>1, SetInduction
<1> QED
  BY <1>0, <1>3

LEMMA SumParts ==
  ASSUME NEW S, IsFiniteSet(S), NEW f \in [S -> Int]
  PROVE  \E it : AddsUp(f, it, S) /\ Scaling!SumFunction(f) = it[S]
<1>1. PICK it : IsSum(f, it, S) /\ Scaling!SumFunction(f) = it[S]
  BY SumIs
<1>2. AddsUp(f, it, S)
  BY <1>1, SumAny
<1> QED
  BY <1>1, <1>2

LEMMA SumNat ==
  ASSUME NEW S, IsFiniteSet(S), NEW f \in [S -> Nat]
  PROVE  /\ Scaling!SumFunction(f) \in Nat
         /\ \A x \in S : f[x] <= Scaling!SumFunction(f)
<1>1. f \in [S -> Int]
  OBVIOUS
<1>2. PICK it : AddsUp(f, it, S) /\ Scaling!SumFunction(f) = it[S]
  BY <1>1, SumParts
<1>3. /\ it[{}] = 0
      /\ \A s \in SUBSET S : it[s] \in Int /\ \A x \in s : it[s] = f[x] + it[s \ {x}]
  BY <1>2 DEF AddsUp
<1> DEFINE G == {s \in SUBSET S : it[s] \in Nat}
<1>4. G = SUBSET S
  <2>1. {} \in G
    BY <1>3
  <2>2. ASSUME NEW s \in SUBSET S, NEW x \in s, s \ {x} \in G PROVE s \in G
    <3>1. it[s] = f[x] + it[s \ {x}] /\ f[x] \in Nat /\ it[s \ {x}] \in Nat
      BY <1>3, <2>2
    <3> QED
      BY <3>1
  <2>3. G \in SUBSET SUBSET S
    OBVIOUS
  <2> HIDE DEF G
  <2> QED
    BY <2>1, <2>2, <2>3, SubsetInduction
<1>5. \A s \in SUBSET S : it[s] \in Nat
  BY <1>4
<1>6. ASSUME NEW x \in S PROVE f[x] <= it[S]
  <2>1. it[S] = f[x] + it[S \ {x}] /\ f[x] \in Nat /\ it[S \ {x}] \in Nat
    BY <1>3, <1>5
  <2> QED
    BY <2>1
<1> QED
  BY <1>2, <1>5, <1>6

(* The sum changes by what one of the numbers does. *)
LEMMA SumChange ==
  ASSUME NEW S, IsFiniteSet(S), NEW f \in [S -> Int], NEW g \in [S -> Int], NEW x \in S,
         \A y \in S \ {x} : g[y] = f[y]
  PROVE  /\ Scaling!SumFunction(f) \in Int
         /\ Scaling!SumFunction(g) = Scaling!SumFunction(f) + (g[x] - f[x])
<1>2. PICK it : AddsUp(f, it, S) /\ Scaling!SumFunction(f) = it[S]
  BY SumParts
<1>3. PICK jt : AddsUp(g, jt, S) /\ Scaling!SumFunction(g) = jt[S]
  BY SumParts
<1>4. /\ it[{}] = 0
      /\ \A s \in SUBSET S : it[s] \in Int /\ \A y \in s : it[s] = f[y] + it[s \ {y}]
  BY <1>2 DEF AddsUp
<1>5. /\ jt[{}] = 0
      /\ \A s \in SUBSET S : jt[s] \in Int /\ \A y \in s : jt[s] = g[y] + jt[s \ {y}]
  BY <1>3 DEF AddsUp
<1> DEFINE R == S \ {x}
           G == {s \in SUBSET R : it[s] = jt[s]}
<1>6. G = SUBSET R
  <2>1. {} \in G
    BY <1>4, <1>5
  <2>2. ASSUME NEW s \in SUBSET R, NEW y \in s, s \ {y} \in G PROVE s \in G
    <3>1. it[s] = f[y] + it[s \ {y}] /\ jt[s] = g[y] + jt[s \ {y}]
      BY <1>4, <1>5
    <3>2. f[y] = g[y] /\ it[s \ {y}] = jt[s \ {y}]
      BY <2>2
    <3> QED
      BY <3>1, <3>2
  <2>3. G \in SUBSET SUBSET R /\ IsFiniteSet(R)
    BY FS_Subset
  <2> HIDE DEF G, R
  <2> QED
    BY <2>1, <2>2, <2>3, SubsetInduction
<1>7. it[R] = jt[R] /\ it[R] \in Int
  BY <1>4, <1>6
<1>8. it[S] = f[x] + it[R] /\ jt[S] = g[x] + jt[R] /\ it[S] \in Int
  BY <1>4, <1>5
<1>9. f[x] \in Int /\ g[x] \in Int
  OBVIOUS
<1> HIDE DEF R
<1>10. jt[S] = it[S] + (g[x] - f[x])
  BY <1>7, <1>8, <1>9
<1> QED
  BY <1>2, <1>3, <1>8, <1>10

-----------------------------------------------------------------------------
(***************************************************************************)
(* The autoscaler: options that change by one container at a time.         *)
(***************************************************************************)

OptionOK(o) ==
  /\ o \in [node : {o.node}, has : {o.has}, to : {o.to}]
  /\ o.has \in [Comps -> Nat]
  /\ DOMAIN o.to \subseteq Comps /\ o.to = [c \in DOMAIN o.to |-> o.to[c]]
  /\ \A c \in DOMAIN o.to : o.to[c].count \in Nat

LEMMA ScaleConstants ==
  /\ IsFiniteSet(Nodes) /\ IsFiniteSet(Comps)
  /\ TotalMemory \in [Nodes -> Nat]
  /\ ReserveMemory \in [Comps -> Nat] /\ MaxInstancesPerNode \in [Comps -> Nat]
  /\ MinInstances \in [Comps -> Nat] /\ MaxInstances \in [Comps -> Nat]
  /\ Loads \subseteq Nat /\ MaxPerComp \in Nat
<1>1. Scaling!PlacementAssumption /\ Scaling!ScaleAssumption
  BY SchedulingAssumption
<1>2. IsFiniteSet(Nodes) /\ IsFiniteSet(Comps)
  <2>1. Scaling!IsFiniteSet(Nodes) /\ Scaling!IsFiniteSet(Comps)
    BY <1>1 DEF Scaling!PlacementAssumption
  <2> QED
    BY <2>1 DEF Scaling!IsFiniteSet, IsFiniteSet
<1> QED
  BY <1>1, <1>2 DEF Scaling!PlacementAssumption, Scaling!ScaleAssumption

LEMMA CountNat ==
  ASSUME NEW o, OptionOK(o), NEW c \in Comps
  PROVE  Scaling!Count(o, c) \in Nat
BY DEF OptionOK, Scaling!Count

(* One instance more or less of c. *)
LEMMA WithDelta ==
  ASSUME NEW o, OptionOK(o), NEW c \in Comps, NEW delta \in Int, NEW ram,
         Scaling!Count(o, c) + delta \in Nat,
         NEW w, w = Scaling!WithTargetDelta(o, c, delta, ram)
  PROVE  /\ OptionOK(w) /\ w.node = o.node /\ w.has = o.has
         /\ DOMAIN w.to = DOMAIN o.to \cup {c}
         /\ w.to[c].ram = ram /\ \A d \in DOMAIN o.to \ {c} : w.to[d] = o.to[d]
         /\ Scaling!Count(w, c) = Scaling!Count(o, c) + delta
         /\ \A d \in Comps \ {c} : Scaling!Count(w, d) = Scaling!Count(o, d)
<1> DEFINE r == [count |-> Scaling!Count(o, c) + delta, ram |-> ram]
           f == [d \in {c} |-> [count |-> Scaling!Count(o, d) + delta, ram |-> ram]]
           t == Scaling!Over(f, o.to)
<1>1. w = [o EXCEPT !.to = t]
  BY DEF Scaling!WithTargetDelta
<1>2. w = [node |-> o.node, has |-> o.has, to |-> t]
  <2> HIDE DEF t
  <2> QED
    BY <1>1 DEF OptionOK
<1>3. f[c] = r /\ DOMAIN f = {c}
  OBVIOUS
<1>4. /\ DOMAIN t = DOMAIN o.to \cup {c}
      /\ t = [d \in DOMAIN t |-> t[d]]
      /\ t[c] = r
      /\ \A d \in DOMAIN o.to \ {c} : t[d] = o.to[d]
  <2> HIDE DEF f, r
  <2> QED
    BY <1>3 DEF Scaling!Over
<1> HIDE DEF t
<1>5. w.node = o.node /\ w.has = o.has /\ w.to = t
  BY <1>2
<1>6. t[c].count = Scaling!Count(o, c) + delta /\ t[c].ram = ram
  BY <1>4
<1>7. OptionOK(w)
  <2>1. w \in [node : {w.node}, has : {w.has}, to : {w.to}]
    BY <1>2
  <2>2. \A d \in DOMAIN t : t[d].count \in Nat
    BY <1>4, <1>6 DEF OptionOK
  <2> QED
    BY <1>4, <1>5, <2>1, <2>2 DEF OptionOK
<1>8. Scaling!Count(w, c) = Scaling!Count(o, c) + delta
  <2>1. Scaling!Count(w, c) = t[c].count
    BY <1>4, <1>5 DEF Scaling!Count
  <2> QED
    BY <1>6, <2>1
<1>9. \A d \in Comps \ {c} : Scaling!Count(w, d) = Scaling!Count(o, d)
  BY <1>4, <1>5 DEF Scaling!Count
<1> QED
  BY <1>4, <1>5, <1>6, <1>7, <1>8, <1>9

(* What the node's option already says stays. *)
LEMMA Merged ==
  ASSUME NEW o, OptionOK(o), NEW c \in Comps, NEW delta \in Int, NEW ram,
         Scaling!Count(o, c) + delta \in Nat,
         NEW w, w = Scaling!WithTargetDelta(o, c, delta, ram),
         NEW m, m = [w EXCEPT !.to = Scaling!Over(o.to, w.to)]
  PROVE  m = o \/ m = w
<1>1. /\ OptionOK(w) /\ w.node = o.node /\ w.has = o.has
      /\ DOMAIN w.to = DOMAIN o.to \cup {c}
      /\ \A d \in DOMAIN o.to \ {c} : w.to[d] = o.to[d]
  BY WithDelta
<1> DEFINE t == Scaling!Over(o.to, w.to)
<1>2. m = [node |-> o.node, has |-> o.has, to |-> t]
  <2> HIDE DEF t
  <2>1. m = [w EXCEPT !.to = t]
    BY DEF t
  <2> QED
    BY <1>1, <2>1 DEF OptionOK
<1>3. t = [d \in DOMAIN o.to \cup DOMAIN w.to |-> IF d \in DOMAIN o.to THEN o.to[d] ELSE w.to[d]]
  BY DEF Scaling!Over
<1> HIDE DEF t
<1>4. /\ o = [node |-> o.node, has |-> o.has, to |-> o.to]
      /\ w = [node |-> o.node, has |-> o.has, to |-> w.to]
      /\ o.to = [d \in DOMAIN o.to |-> o.to[d]] /\ w.to = [d \in DOMAIN w.to |-> w.to[d]]
  BY <1>1 DEF OptionOK
<1>5. CASE c \in DOMAIN o.to
  <2>1. t = [d \in DOMAIN o.to |-> o.to[d]]
    BY <1>1, <1>3, <1>5
  <2> QED
    BY <1>2, <1>4, <2>1
<1>6. CASE c \notin DOMAIN o.to
  <2>1. t = [d \in DOMAIN w.to |-> w.to[d]]
    BY <1>1, <1>3, <1>6
  <2> QED
    BY <1>2, <1>4, <2>1
<1> QED
  BY <1>5, <1>6

(* Each node has an option of its own. *)
OptionsOK(p) ==
  /\ p = [n \in Nodes |-> p[n]]
  /\ \A n \in Nodes : OptionOK(p[n]) /\ p[n].node = n
PlannedBy(p, c) == Scaling!SumFunction([n \in Nodes |-> Scaling!Count(p[n], c)])

PassOK ==
  /\ running \in [Nodes -> [Comps -> Nat]]
  /\ load \in [Comps -> Nat]
  /\ owed \in [Nodes -> [Comps -> Nat]]
  /\ done \in [Comps -> Nat]
  /\ OptionsOK(opts)

(* What is planned for a component so far: the steps done lead from what runs
   towards the target, and none beyond it. *)
OnTheWay(c) ==
  LET now == Scaling!Instances(c)
      planned == Scaling!Planned(c)
  IN  /\ done[c] <= Scaling!AbsDelta(c)
      /\ IF Scaling!CalcScaleTarget(c) >= now THEN planned \in now .. now + done[c]
         ELSE planned \in now - done[c] .. now

PlanInv ==
  phase \in {"plan", "rebalance"} =>
    /\ \A n \in Nodes : opts[n].has = running[n]
    /\ \A c \in Comps : OnTheWay(c)

PairMax(x, y) == IF x >= y THEN x ELSE y
PairMin(x, y) == IF x <= y THEN x ELSE y

LEMMA MaxMin ==
  ASSUME NEW x \in Int, NEW y \in Int
  PROVE  Scaling!Max({x, y}) = PairMax(x, y) /\ Scaling!Min({x, y}) = PairMin(x, y)
<1>1. Scaling!Max({x, y}) = PairMax(x, y)
  <2> DEFINE P(m) == m \in {x, y} /\ \A z \in {x, y} : m >= z
  <2>1. Scaling!Max({x, y}) = CHOOSE m \in {x, y} : \A z \in {x, y} : m >= z
    BY Zenon DEF Scaling!Max
  <2>2. PairMax(x, y) \in {x, y} /\ \A z \in {x, y} : PairMax(x, y) >= z
    BY DEF PairMax
  <2>3. \A m \in {x, y} : (\A z \in {x, y} : m >= z) => m = PairMax(x, y)
    BY DEF PairMax
  <2> QED
    BY <2>1, <2>2, <2>3
<1>2. Scaling!Min({x, y}) = PairMin(x, y)
  <2>1. Scaling!Min({x, y}) = CHOOSE m \in {x, y} : \A z \in {x, y} : m <= z
    BY Zenon DEF Scaling!Min
  <2>2. PairMin(x, y) \in {x, y} /\ \A z \in {x, y} : PairMin(x, y) <= z
    BY DEF PairMin
  <2>3. \A m \in {x, y} : (\A z \in {x, y} : m <= z) => m = PairMin(x, y)
    BY DEF PairMin
  <2> QED
    BY <2>1, <2>2, <2>3
<1> QED
  BY <1>1, <1>2

LEMMA InstancesNat ==
  ASSUME PassOK, NEW c \in Comps
  PROVE  /\ Scaling!Instances(c) \in Nat
         /\ \A n \in Nodes : running[n][c] \in Nat /\ running[n][c] <= Scaling!Instances(c)
<1> DEFINE f == [n \in Nodes |-> running[n][c]]
<1>1. f \in [Nodes -> Nat]
  BY DEF PassOK
<1>2. Scaling!Instances(c) = Scaling!SumFunction(f)
  BY DEF Scaling!Instances
<1>3. \A n \in Nodes : f[n] = running[n][c] /\ f[n] \in Nat
  BY <1>1
<1> HIDE DEF f
<1>4. Scaling!SumFunction(f) \in Nat /\ \A n \in Nodes : f[n] <= Scaling!SumFunction(f)
  BY <1>1, SumNat, ScaleConstants
<1> QED
  BY <1>2, <1>3, <1>4

LEMMA PlannedNat ==
  ASSUME PassOK, NEW c \in Comps
  PROVE  /\ Scaling!Planned(c) \in Nat
         /\ \A n \in Nodes : Scaling!Count(opts[n], c) \in Nat
                             /\ Scaling!Count(opts[n], c) <= Scaling!Planned(c)
<1> DEFINE f == [n \in Nodes |-> Scaling!Count(opts[n], c)]
<1>1. f \in [Nodes -> Nat]
  BY CountNat DEF PassOK, OptionsOK
<1>2. Scaling!Planned(c) = Scaling!SumFunction(f)
  BY DEF Scaling!Planned
<1>3. \A n \in Nodes : f[n] = Scaling!Count(opts[n], c) /\ f[n] \in Nat
  BY <1>1
<1> HIDE DEF f
<1>4. Scaling!SumFunction(f) \in Nat /\ \A n \in Nodes : f[n] <= Scaling!SumFunction(f)
  BY <1>1, SumNat, ScaleConstants
<1> QED
  BY <1>2, <1>3, <1>4

LEMMA TargetNat ==
  ASSUME PassOK, NEW c \in Comps
  PROVE  /\ Scaling!CalcScaleTarget(c) \in Nat
         /\ c \in Scaling!Kept /\ Scaling!Instances(c) > 0 => Scaling!CalcScaleTarget(c) > 0
<1> DEFINE now == Scaling!Instances(c)
           wanted == IF now > 0 THEN Scaling!Wanted(c) ELSE 0
           least == Scaling!MinTarget(c)
           limit == MaxInstances[c]
<1>1. now \in Nat
  BY InstancesNat
<1>2. Scaling!Wanted(c) \in Nat
  <2>1. load[c] \in Nat
    BY DEF PassOK
  <2>2. (load[c] + 75 - 1) \div 75 \in Nat
    BY <2>1
  <2> QED
    BY <1>1, <2>1, <2>2
    DEF Scaling!Wanted, Scaling!Ceil, Scaling!ScaleUpPct, Scaling!ScaleDownPct
<1>3. wanted \in Nat
  BY <1>2
<1>4. least \in Nat /\ (c \in Scaling!Kept /\ now > 0 => least > 0)
  BY <1>1, ScaleConstants DEF Scaling!MinTarget, Scaling!Kept, Scaling!Idling
<1>5. limit \in Nat
  BY ScaleConstants
<1>6. Scaling!CalcScaleTarget(c) =
        IF limit > 0 /\ limit >= least THEN Scaling!Min({Scaling!Max({wanted, least}), limit})
        ELSE Scaling!Max({wanted, least})
  BY DEF Scaling!CalcScaleTarget
<1> HIDE DEF now, wanted, least, limit
<1>7. Scaling!Max({wanted, least}) = PairMax(wanted, least)
  BY <1>3, <1>4, MaxMin
<1>8. PICK most : most = PairMax(wanted, least)
  OBVIOUS
<1>9. Scaling!Min({PairMax(wanted, least), limit}) = PairMin(PairMax(wanted, least), limit)
  <2>1. most \in Int /\ limit \in Int
    BY <1>3, <1>4, <1>5, <1>8 DEF PairMax
  <2>2. Scaling!Min({most, limit}) = PairMin(most, limit)
    BY <2>1, MaxMin
  <2> QED
    BY <1>8, <2>2
<1>10. Scaling!CalcScaleTarget(c) =
        IF limit > 0 /\ limit >= least THEN PairMin(PairMax(wanted, least), limit)
        ELSE PairMax(wanted, least)
  BY <1>6, <1>7, <1>9
<1>11. Scaling!CalcScaleTarget(c) \in Nat
  BY <1>3, <1>4, <1>5, <1>10 DEF PairMax, PairMin
<1>12. c \in Scaling!Kept /\ now > 0 => Scaling!CalcScaleTarget(c) > 0
  BY <1>3, <1>4, <1>5, <1>10 DEF PairMax, PairMin
<1> QED
  BY <1>11, <1>12 DEF now

(* The steps done never lead beyond the target. *)
LEMMA WithinImplied ==
  ASSUME PassOK, PlanInv
  PROVE  Scaling!WithinTarget
<1> SUFFICES ASSUME phase \in {"plan", "rebalance"}, NEW c \in Comps
             PROVE  Scaling!Planned(c) \in
                      Scaling!Min({Scaling!Instances(c), Scaling!CalcScaleTarget(c)})
                      .. Scaling!Max({Scaling!Instances(c), Scaling!CalcScaleTarget(c)})
  BY DEF Scaling!WithinTarget
<1>1. /\ Scaling!Instances(c) \in Nat /\ Scaling!CalcScaleTarget(c) \in Nat
      /\ Scaling!Planned(c) \in Nat /\ done[c] \in Nat
  BY InstancesNat, TargetNat, PlannedNat DEF PassOK
<1>2. OnTheWay(c)
  BY DEF PlanInv
<1>3. done[c] <= IF Scaling!CalcScaleTarget(c) >= Scaling!Instances(c)
                 THEN Scaling!CalcScaleTarget(c) - Scaling!Instances(c)
                 ELSE Scaling!Instances(c) - Scaling!CalcScaleTarget(c)
  BY <1>1, <1>2 DEF OnTheWay, Scaling!AbsDelta, Scaling!Delta
<1>4. /\ Scaling!Max({Scaling!Instances(c), Scaling!CalcScaleTarget(c)})
           = PairMax(Scaling!Instances(c), Scaling!CalcScaleTarget(c))
      /\ Scaling!Min({Scaling!Instances(c), Scaling!CalcScaleTarget(c)})
           = PairMin(Scaling!Instances(c), Scaling!CalcScaleTarget(c))
  BY <1>1, MaxMin
<1>5. Scaling!Planned(c) \in
        PairMin(Scaling!Instances(c), Scaling!CalcScaleTarget(c))
        .. PairMax(Scaling!Instances(c), Scaling!CalcScaleTarget(c))
  BY <1>1, <1>2, <1>3 DEF OnTheWay, PairMax, PairMin
<1> QED
  BY <1>4, <1>5

Replaced(p, n, w) == [p EXCEPT ![n] = w]

(* One node's option is replaced. *)
LEMMA ReplaceOption ==
  ASSUME NEW p, OptionsOK(p), NEW n \in Nodes, NEW w, OptionOK(w), w.node = n,
         NEW q, q = Replaced(p, n, w)
  PROVE  /\ OptionsOK(q) /\ q[n] = w /\ \A m \in Nodes \ {n} : q[m] = p[m]
         /\ \A c \in Comps :
              /\ PlannedBy(p, c) \in Int
              /\ PlannedBy(q, c) = PlannedBy(p, c) + (Scaling!Count(w, c) - Scaling!Count(p[n], c))
<1>1. q[n] = w /\ \A m \in Nodes \ {n} : q[m] = p[m]
  BY DEF OptionsOK, Replaced
<1>2. q = [m \in Nodes |-> q[m]]
  BY DEF OptionsOK, Replaced
<1>3. OptionsOK(q)
  BY <1>1, <1>2 DEF OptionsOK
<1>4. ASSUME NEW c \in Comps
      PROVE  /\ PlannedBy(p, c) \in Int
             /\ PlannedBy(q, c) = PlannedBy(p, c) + (Scaling!Count(w, c) - Scaling!Count(p[n], c))
  <2> DEFINE f == [m \in Nodes |-> Scaling!Count(p[m], c)]
             g == [m \in Nodes |-> Scaling!Count(q[m], c)]
  <2>1. f \in [Nodes -> Int] /\ g \in [Nodes -> Int]
    BY <1>3, CountNat DEF OptionsOK
  <2>2. /\ \A m \in Nodes \ {n} : g[m] = f[m]
        /\ f[n] = Scaling!Count(p[n], c) /\ g[n] = Scaling!Count(w, c)
    BY <1>1
  <2>3. PlannedBy(p, c) = Scaling!SumFunction(f) /\ PlannedBy(q, c) = Scaling!SumFunction(g)
    BY DEF PlannedBy
  <2> HIDE DEF f, g
  <2>4. /\ Scaling!SumFunction(f) \in Int
        /\ Scaling!SumFunction(g) = Scaling!SumFunction(f) + (g[n] - f[n])
    BY <2>1, <2>2, SumChange, ScaleConstants
  <2> QED
    BY <2>2, <2>3, <2>4
<1> QED
  BY <1>1, <1>3, <1>4

Redone(p, n, c, delta, ram) == Replaced(p, n, Scaling!WithTargetDelta(p[n], c, delta, ram))

(* One instance of c less, or more, at n. *)
Stopping(n, c) ==
  /\ Scaling!Count(opts[n], c) > 0
  /\ opts' = Redone(opts, n, c, -1, Scaling!RamForComponent(opts[n], c))
Starting(n, c) ==
  /\ Scaling!HasRoom(opts[n], c, ReserveMemory[c]) /\ Scaling!Free(opts[n]) >= ReserveMemory[c]
  /\ opts' = Redone(opts, n, c, 1, ReserveMemory[c])

LEMMA BestStop ==
  ASSUME OptionsOK(opts), NEW c \in Comps, NEW o \in Scaling!BestStops(Scaling!Options, c)
  PROVE  \E n \in Nodes :
           /\ Scaling!Count(opts[n], c) > 0
           /\ o = Scaling!WithTargetDelta(opts[n], c, -1, Scaling!RamForComponent(opts[n], c))
BY Zenon DEF Scaling!BestStops, Scaling!Dearest, Scaling!Options

LEMMA BestStart ==
  ASSUME OptionsOK(opts), NEW c \in Comps, NEW ram,
         NEW o \in Scaling!BestStarts(Scaling!Options, c, ram, FALSE)
  PROVE  \E n \in Nodes :
           /\ Scaling!HasRoom(opts[n], c, ram) /\ Scaling!Free(opts[n]) >= ram
           /\ o = Scaling!WithTargetDelta(opts[n], c, 1, ram)
<1>1. PICK p \in Scaling!Options : o \in Scaling!StartOptions(p, c, ram, FALSE)
  <2> DEFINE at == {Scaling!StartOptions(x, c, ram, FALSE) : x \in Scaling!Options} \ {{}}
  <2>1. o \in UNION at
    BY Zenon DEF Scaling!BestStarts
  <2> QED
    BY <2>1
<1>2. PICK n \in Nodes : p = opts[n]
  BY DEF Scaling!Options
<1>3. /\ Scaling!HasRoom(p, c, ram) /\ Scaling!Free(p) >= ram
      /\ o \in {Scaling!WithTargetDelta(p, c, 1, ram)}
  BY <1>1, Zenon DEF Scaling!StartOptions
<1> QED
  BY <1>2, <1>3

CallVars == <<owed, aborted, unstarted, late>>

(* A step of the planning changes one node's option by one instance, or none. *)
LEMMA ScaleShape ==
  ASSUME PassOK, NEW c \in Comps, Scaling!ScaleComponent(c)
  PROVE  /\ phase = "plan" /\ done[c] < Scaling!AbsDelta(c)
         /\ UNCHANGED <<running, load, recent, phase, left, CallVars, upsets>>
         /\ \/ done' = [done EXCEPT ![c] = Scaling!AbsDelta(c)] /\ opts' = opts
            \/ /\ done' = [done EXCEPT ![c] = done[c] + 1]
               /\ \/ opts' = opts
                  \/ Scaling!Delta(c) < 0 /\ \E n \in Nodes : Stopping(n, c)
                  \/ ~(Scaling!Delta(c) < 0) /\ \E n \in Nodes : Starting(n, c)
<1>1. /\ phase = "plan" /\ done[c] < Scaling!AbsDelta(c)
      /\ UNCHANGED <<running, load, recent, phase, left, CallVars, upsets>>
  BY Zenon DEF Scaling!ScaleComponent, Scaling!Unfinished, Scaling!callVars, CallVars
<1> DEFINE best == IF Scaling!Delta(c) < 0 THEN Scaling!BestStops(Scaling!Options, c)
                   ELSE Scaling!BestStarts(Scaling!Options, c, ReserveMemory[c], FALSE)
<1>2. \/ done' = [done EXCEPT ![c] = Scaling!AbsDelta(c)] /\ opts' = opts
      \/ /\ done' = [done EXCEPT ![c] = done[c] + 1]
         /\ \E o \in best : opts' = [opts EXCEPT ![o.node] = Scaling!MergeOption(o)]
  BY Zenon DEF Scaling!ScaleComponent
<1>3. ASSUME NEW n \in Nodes, NEW delta \in {-1, 1}, NEW ram,
             Scaling!Count(opts[n], c) + delta \in Nat,
             NEW o, o = Scaling!WithTargetDelta(opts[n], c, delta, ram),
             opts' = [opts EXCEPT ![o.node] = Scaling!MergeOption(o)]
      PROVE  \/ opts' = opts
             \/ opts' = Redone(opts, n, c, delta, ram)
  <2>1. OptionOK(opts[n]) /\ opts[n].node = n /\ opts = [m \in Nodes |-> opts[m]]
    BY DEF PassOK, OptionsOK
  <2>2. delta \in Int
    OBVIOUS
  <2>3. OptionOK(o) /\ o.node = n
    BY <1>3, <2>1, <2>2, WithDelta
  <2>4. Scaling!MergeOption(o) = [o EXCEPT !.to = Scaling!Over(opts[n].to, o.to)]
    BY <2>3 DEF Scaling!MergeOption
  <2>5. Scaling!MergeOption(o) = opts[n] \/ Scaling!MergeOption(o) = o
    BY <1>3, <2>1, <2>2, <2>4, Merged
  <2> QED
    BY <1>3, <2>1, <2>3, <2>5 DEF Redone, Replaced
<1>4. ASSUME NEW o \in best, opts' = [opts EXCEPT ![o.node] = Scaling!MergeOption(o)]
      PROVE  \/ opts' = opts
             \/ Scaling!Delta(c) < 0 /\ \E n \in Nodes : Stopping(n, c)
             \/ ~(Scaling!Delta(c) < 0) /\ \E n \in Nodes : Starting(n, c)
  <2>0. OptionsOK(opts) /\ \A n \in Nodes : Scaling!Count(opts[n], c) \in Nat
    BY CountNat DEF PassOK, OptionsOK
  <2>1. CASE Scaling!Delta(c) < 0
    <3>1. PICK n \in Nodes :
            /\ Scaling!Count(opts[n], c) > 0
            /\ o = Scaling!WithTargetDelta(opts[n], c, -1, Scaling!RamForComponent(opts[n], c))
      BY <1>4, <2>0, <2>1, BestStop
    <3>2. Scaling!Count(opts[n], c) + (-1) \in Nat
      BY <2>0, <3>1
    <3> QED
      BY <1>3, <1>4, <2>1, <3>1, <3>2 DEF Stopping
  <2>2. CASE ~(Scaling!Delta(c) < 0)
    <3>1. PICK n \in Nodes :
            /\ Scaling!HasRoom(opts[n], c, ReserveMemory[c])
            /\ Scaling!Free(opts[n]) >= ReserveMemory[c]
            /\ o = Scaling!WithTargetDelta(opts[n], c, 1, ReserveMemory[c])
      BY <1>4, <2>0, <2>2, BestStart
    <3>2. Scaling!Count(opts[n], c) + 1 \in Nat
      BY <2>0
    <3> QED
      BY <1>3, <1>4, <2>2, <3>1, <3>2 DEF Starting
  <2> QED
    BY <2>1, <2>2
<1> HIDE DEF best
<1> QED
  BY <1>1, <1>2, <1>4

(* One instance of c more or less at n. *)
LEMMA ChangeOne ==
  ASSUME NEW p, OptionsOK(p), NEW n \in Nodes, NEW c \in Comps, NEW delta \in {-1, 1}, NEW ram,
         Scaling!Count(p[n], c) + delta \in Nat,
         NEW q, q = Redone(p, n, c, delta, ram)
  PROVE  /\ OptionsOK(q) /\ \A m \in Nodes : q[m].has = p[m].has
         /\ \A d \in Comps : PlannedBy(p, d) \in Int
         /\ PlannedBy(q, c) = PlannedBy(p, c) + delta
         /\ \A d \in Comps \ {c} : PlannedBy(q, d) = PlannedBy(p, d)
<1>1. OptionOK(p[n]) /\ p[n].node = n
  BY DEF OptionsOK
<1>2. PICK w : w = Scaling!WithTargetDelta(p[n], c, delta, ram)
  OBVIOUS
<1>3. delta \in Int
  OBVIOUS
<1>4. /\ OptionOK(w) /\ w.node = n /\ w.has = p[n].has
      /\ Scaling!Count(w, c) = Scaling!Count(p[n], c) + delta
      /\ \A d \in Comps \ {c} : Scaling!Count(w, d) = Scaling!Count(p[n], d)
  BY <1>1, <1>2, <1>3, WithDelta
<1>5. q = Replaced(p, n, w)
  BY <1>2 DEF Redone
<1>6. /\ OptionsOK(q) /\ q[n] = w /\ \A m \in Nodes \ {n} : q[m] = p[m]
      /\ \A d \in Comps :
           /\ PlannedBy(p, d) \in Int
           /\ PlannedBy(q, d) = PlannedBy(p, d) + (Scaling!Count(w, d) - Scaling!Count(p[n], d))
  BY <1>4, <1>5, ReplaceOption
<1>7. \A d \in Comps : Scaling!Count(p[n], d) \in Int
  BY <1>1, CountNat
<1>8. PlannedBy(q, c) = PlannedBy(p, c) + delta
  <2>1. /\ PlannedBy(p, c) \in Int
        /\ PlannedBy(q, c) = PlannedBy(p, c) + (Scaling!Count(w, c) - Scaling!Count(p[n], c))
    BY <1>6
  <2>2. Scaling!Count(p[n], c) \in Int /\ Scaling!Count(w, c) = Scaling!Count(p[n], c) + delta
    BY <1>4, <1>7
  <2> QED
    BY <1>3, <2>1, <2>2
<1>9. \A d \in Comps \ {c} : PlannedBy(q, d) = PlannedBy(p, d)
  BY <1>4, <1>6, <1>7
<1> QED
  BY <1>4, <1>6, <1>8, <1>9

Phases == {"plan", "rebalance", "startOnly", "startStop", "stopOnly"}

ScaleInv == PassOK /\ phase \in Phases /\ PlanInv

(* The targets are those of the pass while nothing runs, loads or idles otherwise. *)
LEMMA SameTargets ==
  ASSUME UNCHANGED <<running, load, recent>>, NEW c \in Comps
  PROVE  /\ Scaling!Instances(c)' = Scaling!Instances(c)
         /\ Scaling!CalcScaleTarget(c)' = Scaling!CalcScaleTarget(c)
         /\ Scaling!AbsDelta(c)' = Scaling!AbsDelta(c)
<1>1. Scaling!Instances(c)' = Scaling!Instances(c)
  BY DEF Scaling!Instances
<1>2. Scaling!CalcScaleTarget(c)' = Scaling!CalcScaleTarget(c)
  BY <1>1 DEF Scaling!CalcScaleTarget, Scaling!Wanted, Scaling!MinTarget
<1> QED
  BY <1>1, <1>2 DEF Scaling!AbsDelta, Scaling!Delta

LEMMA PlannedIs ==
  ASSUME NEW c
  PROVE  /\ Scaling!Planned(c) = PlannedBy(opts, c)
         /\ Scaling!Planned(c)' = PlannedBy(opts', c)
BY DEF Scaling!Planned, PlannedBy

(* What a step of the planning changes. *)
Changed(c) ==
  /\ OptionsOK(opts') /\ \A n \in Nodes : opts'[n].has = opts[n].has
  /\ \A d \in Comps \ {c} : Scaling!Planned(d)' = Scaling!Planned(d)
  /\ \/ Scaling!Planned(c)' = Scaling!Planned(c)
     \/ /\ done'[c] = done[c] + 1
        /\ \/ Scaling!Delta(c) < 0 /\ Scaling!Planned(c)' = Scaling!Planned(c) - 1
           \/ ~(Scaling!Delta(c) < 0) /\ Scaling!Planned(c)' = Scaling!Planned(c) + 1

LEMMA ScaleComponentInv ==
  ASSUME ScaleInv, NEW c \in Comps, Scaling!ScaleComponent(c)
  PROVE  ScaleInv'
<1>1. /\ phase = "plan" /\ done[c] < Scaling!AbsDelta(c)
      /\ UNCHANGED <<running, load, recent, phase, left, CallVars, upsets>>
      /\ \/ done' = [done EXCEPT ![c] = Scaling!AbsDelta(c)] /\ opts' = opts
         \/ /\ done' = [done EXCEPT ![c] = done[c] + 1]
            /\ \/ opts' = opts
               \/ Scaling!Delta(c) < 0 /\ \E n \in Nodes : Stopping(n, c)
               \/ ~(Scaling!Delta(c) < 0) /\ \E n \in Nodes : Starting(n, c)
  BY ScaleShape DEF ScaleInv
<1>2. PassOK /\ PlanInv
  BY DEF ScaleInv
<1>3. \A d \in Comps : /\ Scaling!Instances(d) \in Nat /\ Scaling!CalcScaleTarget(d) \in Nat
                       /\ Scaling!Planned(d) \in Nat /\ done[d] \in Nat
  BY <1>2, InstancesNat, TargetNat, PlannedNat DEF PassOK
<1>4. Scaling!AbsDelta(c) \in Nat
  BY <1>3 DEF Scaling!AbsDelta, Scaling!Delta
<1>5. /\ done' = [d \in Comps |-> done'[d]] /\ done'[c] \in Nat
      /\ done[c] <= done'[c] /\ done'[c] <= Scaling!AbsDelta(c)
      /\ opts' = opts \/ done'[c] = done[c] + 1
      /\ \A d \in Comps \ {c} : done'[d] = done[d]
  BY <1>1, <1>2, <1>3, <1>4 DEF PassOK
<1>6. \A n \in Nodes : OptionOK(opts[n]) /\ Scaling!Count(opts[n], c) \in Nat
  BY <1>2, CountNat DEF PassOK, OptionsOK
<1>7. Changed(c)
  <2>0. OptionsOK(opts)
    BY <1>2 DEF PassOK
  <2>1. CASE opts' = opts
    BY <2>0, <2>1, PlannedIs DEF Changed
  <2>2. ASSUME NEW n \in Nodes, Stopping(n, c), Scaling!Delta(c) < 0,
               done' = [done EXCEPT ![c] = done[c] + 1]
        PROVE  Changed(c)
    <3>1. PICK ram : opts' = Redone(opts, n, c, -1, ram)
      BY <2>2 DEF Stopping
    <3>2. Scaling!Count(opts[n], c) + (-1) \in Nat
      BY <1>6, <2>2 DEF Stopping
    <3>3. PICK q : q = opts'
      OBVIOUS
    <3>4. /\ OptionsOK(q) /\ \A m \in Nodes : q[m].has = opts[m].has
          /\ \A d \in Comps : PlannedBy(opts, d) \in Int
          /\ PlannedBy(q, c) = PlannedBy(opts, c) + (-1)
          /\ \A d \in Comps \ {c} : PlannedBy(q, d) = PlannedBy(opts, d)
      BY <2>0, <3>1, <3>2, <3>3, ChangeOne
    <3> QED
      BY <1>2, <1>5, <2>2, <3>3, <3>4, PlannedIs DEF PassOK, Changed
  <2>3. ASSUME NEW n \in Nodes, Starting(n, c), ~(Scaling!Delta(c) < 0),
               done' = [done EXCEPT ![c] = done[c] + 1]
        PROVE  Changed(c)
    <3>1. PICK ram : opts' = Redone(opts, n, c, 1, ram)
      BY <2>3 DEF Starting
    <3>2. Scaling!Count(opts[n], c) + 1 \in Nat
      BY <1>6
    <3>3. PICK q : q = opts'
      OBVIOUS
    <3>4. /\ OptionsOK(q) /\ \A m \in Nodes : q[m].has = opts[m].has
          /\ \A d \in Comps : PlannedBy(opts, d) \in Int
          /\ PlannedBy(q, c) = PlannedBy(opts, c) + 1
          /\ \A d \in Comps \ {c} : PlannedBy(q, d) = PlannedBy(opts, d)
      BY <2>0, <3>1, <3>2, <3>3, ChangeOne
    <3> QED
      BY <1>2, <1>5, <2>3, <3>3, <3>4, PlannedIs DEF PassOK, Changed
  <2> QED
    BY <1>1, <2>1, <2>2, <2>3
<1>8. PassOK'
  BY <1>1, <1>2, <1>5, <1>7 DEF PassOK, Changed, CallVars
<1>9. ASSUME NEW d \in Comps PROVE OnTheWay(d)'
  <2>1. /\ OnTheWay(d)
        /\ Scaling!Instances(d)' = Scaling!Instances(d)
        /\ Scaling!CalcScaleTarget(d)' = Scaling!CalcScaleTarget(d)
        /\ Scaling!AbsDelta(d)' = Scaling!AbsDelta(d)
    BY <1>1, <1>2, SameTargets DEF PlanInv
  <2>2. CASE d # c
    BY <1>5, <1>7, <2>1, <2>2 DEF OnTheWay, Changed
  <2>3. CASE d = c
    BY <1>3, <1>5, <1>7, <2>1, <2>3 DEF OnTheWay, Scaling!Delta, Changed
  <2> QED
    BY <2>2, <2>3
<1>10. PlanInv'
  BY <1>1, <1>2, <1>7, <1>9 DEF PlanInv, Changed
<1> QED
  BY <1>1, <1>8, <1>10 DEF ScaleInv, Phases

(* One container of c goes from m to n. *)
MoveTo(m, n, c, ram) == Redone(Redone(opts, m, c, -1, ram), n, c, 1, ram)

LEMMA RebalanceShape ==
  ASSUME PassOK, NEW n \in Nodes, Scaling!Rebalance(n)
  PROVE  /\ phase = "rebalance" /\ n \in left /\ left' = left \ {n}
         /\ UNCHANGED <<running, load, recent, phase, done, CallVars, upsets>>
         /\ \/ opts' = opts
            \/ \E m \in Nodes \ {n}, c \in Comps : \E ram :
                 /\ ram = Scaling!RamForComponent(opts[m], c)
                 /\ Scaling!Count(opts[m], c) > 0
                 /\ Scaling!RamUsed(opts[n]) = 0
                 /\ ram <= TotalMemory[n]
                 /\ opts' = MoveTo(m, n, c, ram)
<1>1. /\ phase = "rebalance" /\ n \in left /\ left' = left \ {n}
      /\ UNCHANGED <<running, load, recent, phase, done, CallVars, upsets>>
      /\ \/ opts' = opts
         \/ /\ Scaling!RamUsed(opts[n]) = 0
            /\ \E pair \in Scaling!Movable(n, TotalMemory[n]) : opts' = Scaling!Moved(pair, n)
  BY Zenon DEF Scaling!Rebalance, Scaling!callVars, CallVars
<1>2. ASSUME NEW pair \in Scaling!Movable(n, TotalMemory[n]), opts' = Scaling!Moved(pair, n)
      PROVE  \E m \in Nodes \ {n}, c \in Comps : \E ram :
                 /\ ram = Scaling!RamForComponent(opts[m], c)
                 /\ Scaling!Count(opts[m], c) > 0 /\ ram <= TotalMemory[n]
                 /\ opts' = MoveTo(m, n, c, ram)
  <2>1. \E o \in Scaling!Options : \E S :
          /\ o.node # n /\ (S = {c \in Comps : o.has[c] > 0} \/ S = DOMAIN o.to)
          /\ pair \in {<<o, c>> : c \in {d \in S :
                          /\ Scaling!Count(o, d) > 0
                          /\ Scaling!RamForComponent(o, d) <= TotalMemory[n]}}
    <3> DEFINE fits(o, S) == {<<o, c>> : c \in {d \in S :
                                 /\ Scaling!Count(o, d) > 0
                                 /\ Scaling!RamForComponent(o, d) <= TotalMemory[n]}}
               shown(o) == fits(o, {c \in Comps : o.has[c] > 0})
               from(o) == IF shown(o) # {} THEN shown(o) ELSE fits(o, DOMAIN o.to)
    <3>1. pair \in UNION {from(o) : o \in {p \in Scaling!Options :
                                             p.node # n /\ Scaling!Containers(p) > 1}}
      BY <1>2, Zenon DEF Scaling!Movable
    <3>2. PICK o \in Scaling!Options : o.node # n /\ pair \in from(o)
      BY <3>1
    <3>3. \/ pair \in fits(o, {c \in Comps : o.has[c] > 0})
          \/ pair \in fits(o, DOMAIN o.to)
      BY <3>2, Zenon
    <3> QED
      BY <3>2, <3>3, Zenon
  <2>11. PICK o \in Scaling!Options : \E S :
          /\ o.node # n /\ (S = {c \in Comps : o.has[c] > 0} \/ S = DOMAIN o.to)
          /\ pair \in {<<o, c>> : c \in {d \in S :
                          /\ Scaling!Count(o, d) > 0
                          /\ Scaling!RamForComponent(o, d) <= TotalMemory[n]}}
    BY <2>1
  <2>2. PICK S :
          /\ o.node # n /\ (S = {c \in Comps : o.has[c] > 0} \/ S = DOMAIN o.to)
          /\ pair \in {<<o, c>> : c \in {d \in S :
                          /\ Scaling!Count(o, d) > 0
                          /\ Scaling!RamForComponent(o, d) <= TotalMemory[n]}}
    BY <2>11
  <2>3. PICK m \in Nodes : o = opts[m]
    BY DEF Scaling!Options
  <2>4. OptionOK(o) /\ o.node = m
    BY <2>3 DEF PassOK, OptionsOK
  <2>5. PICK c \in S : /\ Scaling!Count(o, c) > 0
                       /\ Scaling!RamForComponent(o, c) <= TotalMemory[n]
                       /\ pair = <<o, c>>
    BY <2>2
  <2>6. c \in Comps
    BY <2>2, <2>4, <2>5 DEF OptionOK
  <2>7. PICK ram : ram = Scaling!RamForComponent(o, c)
    OBVIOUS
  <2>8. pair[1] = o /\ pair[2] = c
    BY <2>5
  <2>9. Scaling!Moved(pair, n) =
          [opts EXCEPT ![m] = Scaling!WithTargetDelta(o, c, -1, ram),
                       ![n] = Scaling!WithTargetDelta(@, c, 1, ram)]
    BY <2>4, <2>7, <2>8 DEF Scaling!Moved
  <2>10. MoveTo(m, n, c, ram) =
          [opts EXCEPT ![m] = Scaling!WithTargetDelta(o, c, -1, ram),
                       ![n] = Scaling!WithTargetDelta(@, c, 1, ram)]
    <3>1. PICK p : p = Redone(opts, m, c, -1, ram)
      OBVIOUS
    <3>2. p = [opts EXCEPT ![m] = Scaling!WithTargetDelta(o, c, -1, ram)]
      BY <2>3, <3>1 DEF Redone, Replaced
    <3>3. [opts EXCEPT ![m] = Scaling!WithTargetDelta(o, c, -1, ram),
                       ![n] = Scaling!WithTargetDelta(@, c, 1, ram)]
            = [p EXCEPT ![n] = Scaling!WithTargetDelta(@, c, 1, ram)]
      <4>1. n # m /\ opts = [x \in Nodes |-> opts[x]]
        BY <2>2, <2>4 DEF PassOK, OptionsOK
      <4>2. p[n] = opts[n]
        BY <3>2, <4>1
      <4> QED
        BY <3>2, <4>2
    <3>4. Redone(p, n, c, 1, ram) = [p EXCEPT ![n] = Scaling!WithTargetDelta(@, c, 1, ram)]
      BY Zenon DEF Redone, Replaced
    <3> QED
      BY <3>1, <3>3, <3>4 DEF MoveTo
  <2> QED
    BY <1>2, <2>2, <2>3, <2>4, <2>5, <2>6, <2>7, <2>9, <2>10
<1> QED
  BY <1>1, <1>2

LEMMA RebalanceInv ==
  ASSUME ScaleInv, NEW n \in Nodes, Scaling!Rebalance(n)
  PROVE  ScaleInv'
<1>1. /\ phase = "rebalance" /\ n \in left /\ left' = left \ {n}
      /\ UNCHANGED <<running, load, recent, phase, done, CallVars, upsets>>
      /\ \/ opts' = opts
         \/ \E m \in Nodes \ {n}, c \in Comps : \E ram :
              Scaling!Count(opts[m], c) > 0 /\ opts' = MoveTo(m, n, c, ram)
  BY RebalanceShape DEF ScaleInv
<1>2. PassOK /\ PlanInv
  BY DEF ScaleInv
<1>3. /\ OptionsOK(opts') /\ \A x \in Nodes : opts'[x].has = opts[x].has
      /\ \A d \in Comps : Scaling!Planned(d)' = Scaling!Planned(d)
  <2>0. OptionsOK(opts)
    BY <1>2 DEF PassOK
  <2>1. CASE opts' = opts
    BY <2>0, <2>1, PlannedIs
  <2>2. ASSUME NEW m \in Nodes \ {n}, NEW c \in Comps, NEW ram,
               Scaling!Count(opts[m], c) > 0, opts' = MoveTo(m, n, c, ram)
        PROVE  /\ OptionsOK(opts') /\ \A x \in Nodes : opts'[x].has = opts[x].has
               /\ \A d \in Comps : Scaling!Planned(d)' = Scaling!Planned(d)
    <3>1. PICK p : p = Redone(opts, m, c, -1, ram)
      OBVIOUS
    <3>2. PICK q : q = opts'
      OBVIOUS
    <3>3. q = Redone(p, n, c, 1, ram)
      BY <2>2, <3>1, <3>2 DEF MoveTo
    <3>4. Scaling!Count(opts[m], c) + (-1) \in Nat
      <4>1. Scaling!Count(opts[m], c) \in Nat
        BY <2>0, CountNat DEF OptionsOK
      <4> QED
        BY <2>2, <4>1
    <3>5. /\ OptionsOK(p) /\ \A x \in Nodes : p[x].has = opts[x].has
          /\ \A d \in Comps : PlannedBy(opts, d) \in Int
          /\ PlannedBy(p, c) = PlannedBy(opts, c) + (-1)
          /\ \A d \in Comps \ {c} : PlannedBy(p, d) = PlannedBy(opts, d)
      BY <2>0, <3>1, <3>4, ChangeOne
    <3>6. Scaling!Count(p[n], c) + 1 \in Nat
      <4>1. Scaling!Count(p[n], c) \in Nat
        BY <3>5, CountNat DEF OptionsOK
      <4> QED
        BY <4>1
    <3>7. /\ OptionsOK(q) /\ \A x \in Nodes : q[x].has = p[x].has
          /\ PlannedBy(q, c) = PlannedBy(p, c) + 1
          /\ \A d \in Comps \ {c} : PlannedBy(q, d) = PlannedBy(p, d)
      BY <3>3, <3>5, <3>6, ChangeOne
    <3>8. \A d \in Comps : PlannedBy(q, d) = PlannedBy(opts, d)
      BY <3>5, <3>7
    <3> QED
      BY <3>2, <3>5, <3>7, <3>8, PlannedIs
  <2> QED
    BY <1>1, <2>1, <2>2
<1>4. PassOK'
  BY <1>1, <1>2, <1>3 DEF PassOK, CallVars
<1>5. ASSUME NEW d \in Comps PROVE OnTheWay(d)'
  <2>1. /\ OnTheWay(d)
        /\ Scaling!Instances(d)' = Scaling!Instances(d)
        /\ Scaling!CalcScaleTarget(d)' = Scaling!CalcScaleTarget(d)
        /\ Scaling!AbsDelta(d)' = Scaling!AbsDelta(d)
    BY <1>1, <1>2, SameTargets DEF PlanInv
  <2> QED
    BY <1>1, <1>3, <2>1 DEF OnTheWay
<1>6. PlanInv'
  BY <1>1, <1>2, <1>3, <1>5 DEF PlanInv
<1> QED
  BY <1>1, <1>4, <1>6 DEF ScaleInv, Phases

FreshOptions(r) == [n \in Nodes |-> Scaling!NewOption(n, r[n])]

(* A pass starts with what the nodes run. *)
Fresh ==
  /\ running \in [Nodes -> [Comps -> Nat]] /\ owed \in [Nodes -> [Comps -> Nat]]
  /\ load \in [Comps -> Nat] /\ phase \in Phases
  /\ opts = FreshOptions(running) /\ done = [c \in Comps |-> 0]

LEMMA NewOptionIs ==
  ASSUME NEW n, NEW has \in [Comps -> Nat], NEW o, o = Scaling!NewOption(n, has)
  PROVE  /\ OptionOK(o) /\ o.node = n /\ o.has = has /\ DOMAIN o.to = {}
         /\ \A c \in Comps : Scaling!Count(o, c) = has[c]
<1>1. o = [node |-> n, has |-> has, to |-> Scaling!NoTargets]
  BY DEF Scaling!NewOption
<1>2. DOMAIN Scaling!NoTargets = {} /\ Scaling!NoTargets = [c \in {} |-> Scaling!NoTargets[c]]
  BY DEF Scaling!NoTargets
<1>3. o.node = n /\ o.has = has /\ DOMAIN o.to = {} /\ o.to = [c \in {} |-> o.to[c]]
  BY <1>1, <1>2
<1>4. o \in [node : {o.node}, has : {o.has}, to : {o.to}]
  BY <1>1
<1> QED
  BY <1>3, <1>4 DEF OptionOK, Scaling!Count

LEMMA FreshOptionsAre ==
  ASSUME NEW r \in [Nodes -> [Comps -> Nat]], NEW p, p = FreshOptions(r)
  PROVE  /\ OptionsOK(p)
         /\ \A n \in Nodes : /\ p[n].has = r[n] /\ DOMAIN p[n].to = {}
                             /\ \A c \in Comps : Scaling!Count(p[n], c) = r[n][c]
         /\ \A c \in Comps : PlannedBy(p, c) = Scaling!SumFunction([n \in Nodes |-> r[n][c]])
<1>1. p = [n \in Nodes |-> p[n]] /\ \A n \in Nodes : p[n] = Scaling!NewOption(n, r[n])
  BY DEF FreshOptions
<1>2. \A n \in Nodes : r[n] \in [Comps -> Nat]
  OBVIOUS
<1>3. \A n \in Nodes : /\ OptionOK(p[n]) /\ p[n].node = n /\ p[n].has = r[n] /\ DOMAIN p[n].to = {}
                       /\ \A c \in Comps : Scaling!Count(p[n], c) = r[n][c]
  BY <1>1, <1>2, NewOptionIs
<1>4. OptionsOK(p)
  BY <1>1, <1>3 DEF OptionsOK
<1>5. ASSUME NEW c \in Comps
      PROVE  PlannedBy(p, c) = Scaling!SumFunction([n \in Nodes |-> r[n][c]])
  <2>1. [n \in Nodes |-> Scaling!Count(p[n], c)] = [n \in Nodes |-> r[n][c]]
    BY <1>3
  <2> QED
    BY <2>1 DEF PlannedBy
<1> QED
  BY <1>3, <1>4, <1>5

LEMMA FreshInv == Fresh => ScaleInv
<1> SUFFICES ASSUME Fresh PROVE ScaleInv
  OBVIOUS
<1>1. /\ running \in [Nodes -> [Comps -> Nat]] /\ owed \in [Nodes -> [Comps -> Nat]]
      /\ load \in [Comps -> Nat] /\ phase \in Phases
      /\ opts = FreshOptions(running) /\ done = [c \in Comps |-> 0]
  BY DEF Fresh
<1>2. /\ OptionsOK(opts) /\ \A n \in Nodes : opts[n].has = running[n]
      /\ \A c \in Comps : PlannedBy(opts, c) = Scaling!SumFunction([n \in Nodes |-> running[n][c]])
  BY <1>1, FreshOptionsAre
<1>3. PassOK
  BY <1>1, <1>2 DEF PassOK
<1>4. ASSUME NEW c \in Comps PROVE OnTheWay(c)
  <2>1. Scaling!Planned(c) = Scaling!Instances(c)
    BY <1>2, PlannedIs DEF Scaling!Instances
  <2>2. Scaling!Instances(c) \in Nat /\ Scaling!CalcScaleTarget(c) \in Nat
    BY <1>3, InstancesNat, TargetNat
  <2>3. done[c] = 0
    BY <1>1
  <2> QED
    BY <2>1, <2>2, <2>3 DEF OnTheWay, Scaling!AbsDelta, Scaling!Delta
<1> QED
  BY <1>1, <1>2, <1>3, <1>4 DEF ScaleInv, PlanInv

LEMMA FreshNext == Fresh' => ScaleInv'
BY FreshInv, PTL

LEMMA AfterIs ==
  ASSUME NEW o, OptionOK(o)
  PROVE  /\ Scaling!After(o) \in [Comps -> Nat]
         /\ \A c \in Comps : Scaling!After(o)[c] = Scaling!Count(o, c)
BY CountNat DEF Scaling!After

Applying == phase \in {"startOnly", "startStop", "stopOnly"}

(* What a call of a group may do to a count of its node: nothing, or as told but
   for instances that stay owed. *)
AsTold(n, c) ==
  /\ c \in DOMAIN opts[n].to
  /\ running'[n][c] + owed'[n][c] = Scaling!Count(opts[n], c)
  /\ running'[n][c] >= PairMin(running[n][c], Scaling!Count(opts[n], c))

LEMMA TakesShape ==
  ASSUME PassOK, NEW n \in Nodes, NEW short \in Scaling!Failures(n), Scaling!Takes(n, short)
  PROVE  /\ running' \in [Nodes -> [Comps -> Nat]] /\ owed' \in [Nodes -> [Comps -> Nat]]
         /\ \A m \in Nodes \ {n} : running'[m] = running[m] /\ owed'[m] = owed[m]
         /\ \A c \in DOMAIN opts[n].to :
              /\ AsTold(n, c)
              /\ short[c] \in Nat /\ running'[n][c] = Scaling!Count(opts[n], c) - short[c]
         /\ \A c \in Comps \ DOMAIN opts[n].to :
              running'[n][c] = running[n][c] /\ owed'[n][c] = owed[n][c]
<1> DEFINE told == DOMAIN opts[n].to
           r == [c \in Comps |-> IF c \in told THEN opts[n].to[c].count - short[c] ELSE running[n][c]]
           w == [c \in Comps |-> IF c \in told THEN short[c] ELSE owed[n][c]]
<1>1. /\ told \subseteq Comps /\ \A c \in told : opts[n].to[c].count \in Nat
      /\ running[n] \in [Comps -> Nat] /\ owed[n] \in [Comps -> Nat]
  BY DEF PassOK, OptionsOK, OptionOK
<1>2. running' = [running EXCEPT ![n] = r] /\ owed' = [owed EXCEPT ![n] = w]
  BY DEF Scaling!Takes
<1>3. ASSUME NEW c \in Comps PROVE Scaling!ToStart(n, c) =
        IF c \in told THEN PairMax(0, opts[n].to[c].count - running[n][c]) ELSE 0
  <2>1. CASE c \in told
    <3>1. opts[n].to[c].count - running[n][c] \in Int
      BY <1>1, <2>1
    <3>2. PICK x : x = opts[n].to[c].count - running[n][c]
      OBVIOUS
    <3>3. Scaling!Max({0, x}) = PairMax(0, x)
      BY <3>1, <3>2, MaxMin
    <3> QED
      BY <2>1, <3>2, <3>3 DEF Scaling!ToStart
  <2>2. CASE c \notin told
    BY <2>2 DEF Scaling!ToStart
  <2> QED
    BY <2>1, <2>2
<1>4. \A c \in Comps : Scaling!ToStart(n, c) \in Nat
  BY <1>1, <1>3 DEF PairMax
<1>5. Scaling!SumFunction([c \in Comps |-> Scaling!ToStart(n, c)]) \in Nat
  <2>1. [c \in Comps |-> Scaling!ToStart(n, c)] \in [Comps -> Nat]
    BY <1>4
  <2> QED
    BY <2>1, SumNat, ScaleConstants
<1>6. \A c \in Comps : short[c] \in Nat /\ short[c] <= Scaling!ToStart(n, c)
  BY <1>5 DEF Scaling!Failures
<1>7. ASSUME NEW c \in told
      PROVE  /\ opts[n].to[c].count - short[c] \in Nat
             /\ opts[n].to[c].count - short[c] >= PairMin(running[n][c], opts[n].to[c].count)
  <2>1. short[c] <= PairMax(0, opts[n].to[c].count - running[n][c])
    BY <1>1, <1>3, <1>6
  <2>2. opts[n].to[c].count \in Nat /\ running[n][c] \in Nat /\ short[c] \in Nat
    BY <1>1, <1>6
  <2> QED
    BY <2>1, <2>2 DEF PairMax, PairMin
<1>8. r \in [Comps -> Nat] /\ w \in [Comps -> Nat]
  BY <1>1, <1>6, <1>7
<1>9. /\ \A c \in told : r[c] = opts[n].to[c].count - short[c] /\ w[c] = short[c]
      /\ \A c \in Comps \ told : r[c] = running[n][c] /\ w[c] = owed[n][c]
  BY <1>1
<1> HIDE DEF r, w
<1>10. /\ running' \in [Nodes -> [Comps -> Nat]] /\ owed' \in [Nodes -> [Comps -> Nat]]
       /\ running'[n] = r /\ owed'[n] = w
       /\ \A m \in Nodes \ {n} : running'[m] = running[m] /\ owed'[m] = owed[m]
  BY <1>2, <1>8 DEF PassOK
<1>11. ASSUME NEW c \in told
       PROVE  /\ AsTold(n, c)
              /\ short[c] \in Nat /\ running'[n][c] = Scaling!Count(opts[n], c) - short[c]
  <2>1. Scaling!Count(opts[n], c) = opts[n].to[c].count
    BY DEF Scaling!Count
  <2>2. opts[n].to[c].count \in Nat /\ short[c] \in Nat
    BY <1>1, <1>6
  <2> QED
    BY <1>7, <1>9, <1>10, <2>1, <2>2 DEF AsTold
<1> QED
  BY <1>1, <1>9, <1>10, <1>11

(* A call changes its node alone: there all stays, or every count is as told.  Unless it
   fails, what the node was to start and has not is known to be unstarted. *)
LEMMA ApplyShape ==
  ASSUME PassOK, NEW n \in Nodes, Scaling!Apply(n)
  PROVE  /\ Applying /\ n \in left /\ left' = left \ {n}
         /\ UNCHANGED <<load, recent, phase, opts, done, late>>
         /\ running' \in [Nodes -> [Comps -> Nat]] /\ owed' \in [Nodes -> [Comps -> Nat]]
         /\ \A m \in Nodes \ {n} : running'[m] = running[m] /\ owed'[m] = owed[m]
         /\ \/ running'[n] = running[n] /\ owed'[n] = owed[n]
            \/ /\ \A c \in DOMAIN opts[n].to : AsTold(n, c)
               /\ \A c \in Comps \ DOMAIN opts[n].to :
                    running'[n][c] = running[n][c] /\ owed'[n][c] = owed[n][c]
         /\ unstarted \subseteq unstarted' /\ aborted' \in {aborted, TRUE}
         /\ \/ aborted' = TRUE
            \/ \A c \in DOMAIN opts[n].to :
                 running'[n][c] >= Scaling!Count(opts[n], c) \/ c \in unstarted'
<1>1. /\ n \in left /\ left' = left \ {n}
      /\ UNCHANGED <<load, recent, phase, opts, done, late>>
      /\ \/ Scaling!Answers(n) /\ UNCHANGED aborted
         \/ Scaling!Fails(n) /\ aborted' = TRUE
  BY Zenon DEF Scaling!Apply, Scaling!planVars
<1>2. Applying
  BY DEF Scaling!Apply, Scaling!Applying, Scaling!Groups, Applying
<1>3. /\ DOMAIN opts[n].to \subseteq Comps
      /\ \A c \in DOMAIN opts[n].to : Scaling!Count(opts[n], c) = opts[n].to[c].count
      /\ \A c \in DOMAIN opts[n].to : opts[n].to[c].count \in Nat
      /\ \A c \in Comps : running[n][c] \in Nat
      /\ running \in [Nodes -> [Comps -> Nat]] /\ owed \in [Nodes -> [Comps -> Nat]]
  <2>1. /\ running \in [Nodes -> [Comps -> Nat]] /\ owed \in [Nodes -> [Comps -> Nat]]
        /\ OptionOK(opts[n])
    BY DEF PassOK, OptionsOK
  <2>2. \A c \in DOMAIN opts[n].to : Scaling!Count(opts[n], c) = opts[n].to[c].count
    BY DEF Scaling!Count
  <2> QED
    BY <2>1, <2>2 DEF OptionOK
<1>4. ASSUME NEW short \in Scaling!Failures(n), Scaling!Takes(n, short),
             \/ aborted' = TRUE /\ unstarted' = unstarted
             \/ /\ aborted' = aborted
                /\ unstarted' = unstarted \cup {c \in Comps : short[c] > 0}
      PROVE  /\ running' \in [Nodes -> [Comps -> Nat]] /\ owed' \in [Nodes -> [Comps -> Nat]]
             /\ \A m \in Nodes \ {n} : running'[m] = running[m] /\ owed'[m] = owed[m]
             /\ \A c \in DOMAIN opts[n].to : AsTold(n, c)
             /\ \A c \in Comps \ DOMAIN opts[n].to :
                  running'[n][c] = running[n][c] /\ owed'[n][c] = owed[n][c]
             /\ unstarted \subseteq unstarted' /\ aborted' \in {aborted, TRUE}
             /\ \/ aborted' = TRUE
                \/ \A c \in DOMAIN opts[n].to :
                     running'[n][c] >= Scaling!Count(opts[n], c) \/ c \in unstarted'
  <2>1. /\ running' \in [Nodes -> [Comps -> Nat]] /\ owed' \in [Nodes -> [Comps -> Nat]]
        /\ \A m \in Nodes \ {n} : running'[m] = running[m] /\ owed'[m] = owed[m]
        /\ \A c \in DOMAIN opts[n].to :
              /\ AsTold(n, c)
              /\ short[c] \in Nat /\ running'[n][c] = Scaling!Count(opts[n], c) - short[c]
        /\ \A c \in Comps \ DOMAIN opts[n].to :
              running'[n][c] = running[n][c] /\ owed'[n][c] = owed[n][c]
    BY <1>4, TakesShape
  <2>2. ASSUME aborted' # TRUE, NEW c \in DOMAIN opts[n].to, c \notin unstarted'
        PROVE  running'[n][c] >= Scaling!Count(opts[n], c)
    <3>1. ~(short[c] > 0)
      BY <1>3, <1>4, <2>2
    <3> QED
      BY <1>3, <2>1, <3>1
  <2> QED
    BY <1>4, <2>1, <2>2
<1>5. ASSUME UNCHANGED <<running, owed>>,
             \/ aborted' = TRUE /\ unstarted' = unstarted
             \/ /\ aborted' = aborted
                /\ unstarted' = unstarted \cup {c \in Comps : Scaling!ToStart(n, c) > 0}
      PROVE  /\ unstarted \subseteq unstarted' /\ aborted' \in {aborted, TRUE}
             /\ \/ aborted' = TRUE
                \/ \A c \in DOMAIN opts[n].to :
                     running'[n][c] >= Scaling!Count(opts[n], c) \/ c \in unstarted'
  <2>1. ASSUME aborted' # TRUE, NEW c \in DOMAIN opts[n].to, c \notin unstarted'
        PROVE  running'[n][c] >= Scaling!Count(opts[n], c)
    <3>1. ~(Scaling!ToStart(n, c) > 0)
      BY <1>3, <1>5, <2>1
    <3>2. PICK x : x = opts[n].to[c].count - running[n][c] /\ x \in Int
      BY <1>3
    <3>3. Scaling!ToStart(n, c) = PairMax(0, x)
      BY <3>2, MaxMin DEF Scaling!ToStart
    <3>4. opts[n].to[c].count \in Nat /\ running[n][c] \in Nat
      BY <1>3
    <3> QED
      BY <1>3, <1>5, <3>1, <3>2, <3>3, <3>4 DEF PairMax
  <2> QED
    BY <1>5, <2>1
<1>6. CASE Scaling!Answers(n) /\ UNCHANGED aborted
  BY <1>1, <1>2, <1>3, <1>4, <1>5, <1>6 DEF Scaling!Answers
<1>7. CASE Scaling!Fails(n) /\ aborted' = TRUE
  BY <1>1, <1>2, <1>3, <1>4, <1>5, <1>7 DEF Scaling!Fails
<1> QED
  BY <1>1, <1>6, <1>7

LEMMA ApplyInv ==
  ASSUME ScaleInv, NEW n \in Nodes, Scaling!Apply(n)
  PROVE  ScaleInv'
<1>1. /\ Applying /\ UNCHANGED <<load, phase, opts, done>>
      /\ running' \in [Nodes -> [Comps -> Nat]] /\ owed' \in [Nodes -> [Comps -> Nat]]
  BY ApplyShape DEF ScaleInv
<1>2. PassOK'
  BY <1>1 DEF ScaleInv, PassOK
<1> QED
  BY <1>1, <1>2 DEF ScaleInv, PlanInv, Phases, Applying

(* The end of a group: the next one, unless a call failed, or a new pass. *)
LEMMA EndShape ==
  ASSUME PassOK, NEW i \in 1..3, Scaling!EndGroup(i)
  PROVE  /\ phase = Scaling!Groups[i] /\ left = {}
         /\ UNCHANGED <<running, load, recent, owed, late>>
         /\ \/ /\ i < 3 /\ ~aborted
               /\ phase' = Scaling!Groups[i + 1] /\ left' = Scaling!InGroup(Scaling!Groups[i + 1])
               /\ UNCHANGED <<opts, done, aborted, unstarted>>
            \/ /\ phase' = "plan" /\ Fresh'
               /\ left' = {} /\ aborted' = FALSE /\ unstarted' = {}
<1>1. /\ phase = Scaling!Groups[i] /\ left = {}
      /\ UNCHANGED <<running, load, recent, owed, late>>
      /\ \/ /\ ~aborted /\ i < 3
            /\ phase' = Scaling!Groups[i + 1] /\ left' = Scaling!InGroup(Scaling!Groups[i + 1])
            /\ UNCHANGED <<opts, done, aborted, unstarted>>
         \/ Scaling!NewPass
  BY Zenon DEF Scaling!EndGroup, Scaling!planVars
<1>2. ASSUME Scaling!NewPass
      PROVE  /\ phase' = "plan" /\ Fresh'
             /\ left' = {} /\ aborted' = FALSE /\ unstarted' = {}
  <2>1. /\ running' \in [Nodes -> [Comps -> Nat]] /\ owed' \in [Nodes -> [Comps -> Nat]]
        /\ load' \in [Comps -> Nat]
    BY <1>1 DEF PassOK
  <2>2. /\ phase' = "plan" /\ opts' = FreshOptions(running') /\ done' = [c \in Comps |-> 0]
        /\ left' = {} /\ aborted' = FALSE /\ unstarted' = {}
    BY <1>1, <1>2 DEF Scaling!NewPass, FreshOptions
  <2> QED
    BY <2>1, <2>2 DEF Fresh, Phases
<1> QED
  BY <1>1, <1>2

LEMMA EndInv ==
  ASSUME ScaleInv, NEW i \in 1..3, Scaling!EndGroup(i)
  PROVE  ScaleInv'
<1>0. PassOK
  BY DEF ScaleInv
<1>1. /\ UNCHANGED <<running, load, owed>>
      /\ \/ i < 3 /\ phase' = Scaling!Groups[i + 1] /\ UNCHANGED <<opts, done>>
         \/ Fresh'
  BY <1>0, EndShape
<1>2. ASSUME i < 3, phase' = Scaling!Groups[i + 1], UNCHANGED <<opts, done>>
      PROVE  ScaleInv'
  <2>1. phase' \in {"startStop", "stopOnly"}
    BY <1>2 DEF Scaling!Groups
  <2>2. PassOK'
    BY <1>0, <1>1, <1>2 DEF PassOK
  <2> QED
    BY <2>1, <2>2 DEF ScaleInv, PlanInv, Phases
<1> QED
  BY <1>1, <1>2, FreshNext

(* A start made up for: one instance more, which a pass that applies its plan does
   not see, and one that has planned nothing yet does. *)
LEMMA LateShape ==
  ASSUME PassOK, phase \in Phases, NEW n \in Nodes, NEW c \in Comps, Scaling!StartsLate(n, c)
  PROVE  /\ UNCHANGED <<load, recent, phase, done, left, aborted, unstarted>>
         /\ late' = late \cup {n} /\ owed[n][c] > 0
         /\ running' \in [Nodes -> [Comps -> Nat]] /\ owed' \in [Nodes -> [Comps -> Nat]]
         /\ running'[n][c] = running[n][c] + 1 /\ owed'[n][c] = owed[n][c] - 1
         /\ \A d \in Comps \ {c} : running'[n][d] = running[n][d] /\ owed'[n][d] = owed[n][d]
         /\ \A m \in Nodes \ {n} : running'[m] = running[m] /\ owed'[m] = owed[m]
         /\ (Applying /\ opts' = opts) \/ (phase = "plan" /\ Fresh')
<1>1. /\ UNCHANGED <<load, recent, phase, done, left, aborted, unstarted>>
      /\ late' = late \cup {n} /\ owed[n][c] > 0
      /\ running' = [running EXCEPT ![n][c] = @ + 1] /\ owed' = [owed EXCEPT ![n][c] = @ - 1]
      /\ Scaling!Applying \/ Scaling!Unplanned
      /\ opts' = IF Scaling!Applying THEN opts
                 ELSE [opts EXCEPT ![n] = Scaling!NewOption(n, running'[n])]
  BY Zenon DEF Scaling!StartsLate
<1>2. /\ running \in [Nodes -> [Comps -> Nat]] /\ owed \in [Nodes -> [Comps -> Nat]]
      /\ load \in [Comps -> Nat]
  BY DEF PassOK
<1>3. /\ running' \in [Nodes -> [Comps -> Nat]]
      /\ running'[n][c] = running[n][c] + 1
      /\ \A d \in Comps \ {c} : running'[n][d] = running[n][d]
      /\ \A m \in Nodes \ {n} : running'[m] = running[m]
  BY <1>1, <1>2
<1>4. /\ owed' \in [Nodes -> [Comps -> Nat]]
      /\ owed'[n][c] = owed[n][c] - 1
      /\ \A d \in Comps \ {c} : owed'[n][d] = owed[n][d]
      /\ \A m \in Nodes \ {n} : owed'[m] = owed[m]
  <2>1. owed[n][c] - 1 \in Nat
    BY <1>1, <1>2
  <2> QED
    BY <1>1, <1>2, <2>1
<1>5. Scaling!Applying <=> Applying
  BY DEF Scaling!Applying, Scaling!Groups, Applying
<1>6. CASE Applying
  BY <1>1, <1>3, <1>4, <1>5, <1>6
<1>7. CASE ~Applying
  <2>1. /\ phase = "plan" /\ opts = FreshOptions(running) /\ done = [d \in Comps |-> 0]
        /\ opts' = [opts EXCEPT ![n] = Scaling!NewOption(n, running'[n])]
    BY <1>1, <1>5, <1>7 DEF Scaling!Unplanned, FreshOptions
  <2>2. opts' = FreshOptions(running')
    BY <1>3, <2>1 DEF FreshOptions
  <2>3. Fresh'
    BY <1>1, <1>2, <1>3, <1>4, <2>1, <2>2 DEF Fresh, Phases
  <2> QED
    BY <1>1, <1>3, <1>4, <2>1, <2>3
<1> QED
  BY <1>6, <1>7

LEMMA LateInv ==
  ASSUME ScaleInv, NEW n \in Nodes, NEW c \in Comps, Scaling!StartsLate(n, c)
  PROVE  ScaleInv'
<1>1. /\ UNCHANGED <<load, phase, done>>
      /\ running' \in [Nodes -> [Comps -> Nat]] /\ owed' \in [Nodes -> [Comps -> Nat]]
      /\ (Applying /\ opts' = opts) \/ Fresh'
  BY LateShape DEF ScaleInv
<1>2. ASSUME Applying, opts' = opts PROVE ScaleInv'
  <2>1. PassOK'
    BY <1>1, <1>2 DEF ScaleInv, PassOK
  <2> QED
    BY <1>1, <1>2, <2>1 DEF ScaleInv, PlanInv, Phases, Applying
<1> QED
  BY <1>1, <1>2, FreshNext

LEMMA LoadInv ==
  ASSUME ScaleInv, Scaling!LoadChanges
  PROVE  ScaleInv'
<1>1. /\ opts = FreshOptions(running) /\ done = [c \in Comps |-> 0]
      /\ UNCHANGED <<running, phase, opts, done, owed>>
      /\ \E c \in Comps, l \in Loads : load' = [load EXCEPT ![c] = l]
  BY Zenon DEF Scaling!LoadChanges, Scaling!Unplanned, Scaling!planVars, Scaling!callVars,
               FreshOptions
<1>2. load' \in [Comps -> Nat]
  BY <1>1, ScaleConstants DEF ScaleInv, PassOK
<1>3. Fresh'
  BY <1>1, <1>2 DEF ScaleInv, PassOK, Fresh
<1> QED
  BY <1>3, FreshNext

LEMMA StartInv ==
  ASSUME ScaleInv, Scaling!StartRebalance \/ Scaling!StartApplying
  PROVE  ScaleInv'
<1>1. /\ phase \in {"plan", "rebalance"} /\ phase' \in {"rebalance", "startOnly"}
      /\ UNCHANGED <<running, load, recent, opts, done, owed>>
  BY DEF Scaling!StartRebalance, Scaling!StartApplying, Scaling!Groups, Scaling!planVars,
         Scaling!callVars
<1>2. PassOK'
  BY <1>1 DEF ScaleInv, PassOK
<1>3. \A c \in Comps : OnTheWay(c)'
  <2>1. ASSUME NEW c \in Comps PROVE OnTheWay(c)'
    <3>1. /\ OnTheWay(c)
          /\ Scaling!Instances(c)' = Scaling!Instances(c)
          /\ Scaling!CalcScaleTarget(c)' = Scaling!CalcScaleTarget(c)
          /\ Scaling!AbsDelta(c)' = Scaling!AbsDelta(c)
      BY <1>1, SameTargets DEF ScaleInv, PlanInv
    <3>2. Scaling!Planned(c)' = Scaling!Planned(c)
      BY <1>1, PlannedIs
    <3> QED
      BY <1>1, <3>1, <3>2 DEF OnTheWay
  <2> QED
    BY <2>1
<1> QED
  BY <1>1, <1>2, <1>3 DEF ScaleInv, PlanInv, Phases

LEMMA ScaleInit == Scaling!Init => Fresh
<1> SUFFICES ASSUME Scaling!Init PROVE Fresh
  OBVIOUS
<1>1. /\ running \in [Nodes -> [Comps -> 0..MaxPerComp]]
      /\ load \in [Comps -> Loads] /\ phase = "plan"
      /\ opts = FreshOptions(running) /\ done = [c \in Comps |-> 0]
  BY Zenon DEF Scaling!Init, FreshOptions
<1>2. 0..MaxPerComp \subseteq Nat
  BY ScaleConstants
<1>3. running \in [Nodes -> [Comps -> Nat]]
  BY <1>1, <1>2
<1>4. load \in [Comps -> Nat]
  BY <1>1, ScaleConstants
<1>5. owed \in [Nodes -> [Comps -> Nat]]
  BY DEF Scaling!Init, Scaling!NoFailure
<1> QED
  BY <1>1, <1>3, <1>4, <1>5 DEF Fresh, Phases

ScalingInv == part = "autoscale" => ScaleInv

LEMMA ScalingInit == Init => ScalingInv
BY ScaleInit, FreshInv DEF Init, ScalingInv

LEMMA ScalingStep == ScalingInv /\ [Next]_vars => ScalingInv'
<1> SUFFICES ASSUME ScalingInv, [Next]_vars PROVE ScalingInv'
  OBVIOUS
<1>1. ASSUME UNCHANGED <<part, scaleVars>>
      PROVE  ScalingInv'
  <2> SUFFICES ASSUME part = "autoscale" PROVE ScaleInv'
    BY <1>1 DEF ScalingInv
  <2>1. ScaleInv
    BY DEF ScalingInv
  <2>2. ASSUME NEW c \in Comps, OnTheWay(c) PROVE OnTheWay(c)'
    BY <1>1, <2>2, SameTargets, PlannedIs DEF OnTheWay, scaleVars
  <2> QED
    BY <1>1, <2>1, <2>2 DEF ScaleInv, PassOK, PlanInv, scaleVars
<1>2. CASE ScaleOnly /\ Scaling!Next
  <2> SUFFICES ASSUME part = "autoscale" PROVE ScaleInv'
    BY <1>2 DEF ScalingInv, ScaleOnly
  <2>1. ScaleInv
    BY DEF ScalingInv
  <2> QED
    BY <1>2, <2>1, ScaleComponentInv, RebalanceInv, ApplyInv, EndInv, LateInv, LoadInv, StartInv
    DEF Scaling!Next, Scaling!Pass
<1>3. CASE RolloutOnly
  BY <1>1, <1>3 DEF RolloutOnly, scaleVars
<1>4. CASE PlacementOnly
  BY <1>1, <1>4 DEF PlacementOnly, scaleVars
<1>5. CASE UNCHANGED vars
  BY <1>1, <1>5 DEF vars, scaleVars
<1> QED
  BY <1>2, <1>3, <1>4, <1>5 DEF Next

LEMMA ScalingAlways == Spec => []ScalingInv
BY ScalingInit, ScalingStep, PTL DEF Spec

(* While a pass plans and moves containers to empty nodes, what is planned for a
   component lies between what runs and its target (scale.go:334-418): whatever
   option is the best one, and whether or not the one merged into the plan counts. *)
THEOREM PlansStayWithinTarget == Spec => []WithinTarget
<1>1. ScalingInv => WithinTarget
  BY WithinImplied DEF ScalingInv, ScaleInv, WithinTarget
<1> QED
  BY <1>1, ScalingAlways, PTL

-----------------------------------------------------------------------------
(***************************************************************************)
(* Memory: what an option charges is what its containers state.            *)
(***************************************************************************)

Charged(r) == [c \in Comps |-> r[c] * ReserveMemory[c]]
Charge(r) == Scaling!SumFunction(Charged(r))

(* A limit of a component that states its memory. *)
Limit(c) == ReserveMemory[c] > 0 /\ MaxInstancesPerNode[c] > 0
(* An option charges at least what the components state: 128 MiB to those that do not. *)
Charges(o) == \A c \in DOMAIN o.to : o.to[c].ram \in Nat /\ ReserveMemory[c] <= o.to[c].ram

LEMMA Product ==
  ASSUME NEW a \in Nat, NEW b \in Nat
  PROVE  /\ a * b \in Nat /\ (a * b = 0 /\ b > 0 => a = 0)
         /\ (a + 1) * b = a * b + b /\ (a > 0 => (a + (-1)) * b = a * b - b)
OBVIOUS

LEMMA ProductGrows ==
  ASSUME NEW a \in Nat, NEW b \in Nat, NEW c \in Nat, NEW d \in Nat, a <= c, b <= d
  PROVE  a * b \in Nat /\ c * d \in Nat /\ a * b <= c * d
<1>1. PICK x \in Nat : c = a + x
  <2>1. c - a \in Nat /\ c = a + (c - a)
    OBVIOUS
  <2> QED
    BY <2>1
<1>2. PICK y \in Nat : d = b + y
  <2>1. d - b \in Nat /\ d = b + (d - b)
    OBVIOUS
  <2> QED
    BY <2>1
<1>3. (a + x) * (b + y) = a * b + a * y + x * b + x * y
  OBVIOUS
<1>4. a * b \in Nat /\ a * y \in Nat /\ x * b \in Nat /\ x * y \in Nat /\ c * d \in Nat
  BY Product
<1> QED
  BY <1>1, <1>2, <1>3, <1>4

(* A sum grows with its numbers. *)
LEMMA SumGrows ==
  ASSUME NEW S, IsFiniteSet(S), NEW f \in [S -> Nat], NEW g \in [S -> Nat],
         \A x \in S : f[x] <= g[x]
  PROVE  Scaling!SumFunction(f) <= Scaling!SumFunction(g)
<1>1. f \in [S -> Int] /\ g \in [S -> Int]
  OBVIOUS
<1>2. PICK it : AddsUp(f, it, S) /\ Scaling!SumFunction(f) = it[S]
  BY <1>1, SumParts
<1>3. PICK jt : AddsUp(g, jt, S) /\ Scaling!SumFunction(g) = jt[S]
  BY <1>1, SumParts
<1>4. /\ it[{}] = 0 /\ jt[{}] = 0
      /\ \A s \in SUBSET S : /\ it[s] \in Int /\ \A x \in s : it[s] = f[x] + it[s \ {x}]
                             /\ jt[s] \in Int /\ \A x \in s : jt[s] = g[x] + jt[s \ {x}]
  BY <1>2, <1>3 DEF AddsUp
<1> DEFINE G == {s \in SUBSET S : it[s] <= jt[s]}
<1>5. G = SUBSET S
  <2>1. {} \in G
    BY <1>4
  <2>2. ASSUME NEW s \in SUBSET S, NEW x \in s, s \ {x} \in G PROVE s \in G
    <3>1. it[s] = f[x] + it[s \ {x}] /\ jt[s] = g[x] + jt[s \ {x}]
      BY <1>4
    <3>2. /\ it[s \ {x}] \in Int /\ jt[s \ {x}] \in Int /\ it[s \ {x}] <= jt[s \ {x}]
          /\ f[x] \in Nat /\ g[x] \in Nat /\ f[x] <= g[x]
      BY <1>4, <2>2
    <3> QED
      BY <3>1, <3>2
  <2>3. G \in SUBSET SUBSET S
    OBVIOUS
  <2> HIDE DEF G
  <2> QED
    BY <2>1, <2>2, <2>3, SubsetInduction
<1> QED
  BY <1>2, <1>3, <1>5

LEMMA ChargeNat ==
  ASSUME NEW r \in [Comps -> Nat]
  PROVE  /\ Charge(r) \in Nat /\ Charged(r) \in [Comps -> Nat]
         /\ \A c \in Comps : r[c] * ReserveMemory[c] \in Nat /\ r[c] * ReserveMemory[c] <= Charge(r)
<1>1. \A c \in Comps : r[c] * ReserveMemory[c] \in Nat
  <2>1. ASSUME NEW c \in Comps PROVE r[c] * ReserveMemory[c] \in Nat
    <3>1. r[c] \in Nat /\ ReserveMemory[c] \in Nat
      BY ScaleConstants
    <3> QED
      BY <3>1, Product
  <2> QED
    BY <2>1
<1>2. Charged(r) \in [Comps -> Nat] /\ \A c \in Comps : Charged(r)[c] = r[c] * ReserveMemory[c]
  BY <1>1 DEF Charged
<1>3. Scaling!SumFunction(Charged(r)) \in Nat
      /\ \A c \in Comps : Charged(r)[c] <= Scaling!SumFunction(Charged(r))
  BY <1>2, SumNat, ScaleConstants
<1> QED
  BY <1>1, <1>2, <1>3 DEF Charge

(* Fewer containers are charged no more. *)
LEMMA ChargeGrows ==
  ASSUME NEW r \in [Comps -> Nat], NEW s \in [Comps -> Nat], \A c \in Comps : r[c] <= s[c]
  PROVE  Charge(r) <= Charge(s)
<1>1. ASSUME NEW c \in Comps PROVE r[c] * ReserveMemory[c] <= s[c] * ReserveMemory[c]
  <2>1. r[c] \in Nat /\ s[c] \in Nat /\ ReserveMemory[c] \in Nat /\ ReserveMemory[c] <= ReserveMemory[c]
    BY ScaleConstants
  <2> QED
    BY <2>1, ProductGrows
<1>2. PICK f : f = Charged(r)
  OBVIOUS
<1>3. PICK g : g = Charged(s)
  OBVIOUS
<1>4. f \in [Comps -> Nat] /\ g \in [Comps -> Nat] /\ \A c \in Comps : f[c] <= g[c]
  BY <1>1, <1>2, <1>3, ChargeNat DEF Charged
<1> QED
  BY <1>2, <1>3, <1>4, SumGrows, ScaleConstants DEF Charge

LEMMA RamIs ==
  ASSUME NEW o, OptionOK(o), Charges(o)
  PROVE  Charge(Scaling!After(o)) <= Scaling!RamUsed(o) /\ Scaling!RamUsed(o) \in Nat
<1>1. Scaling!After(o) \in [Comps -> Nat] /\ \A c \in Comps : Scaling!After(o)[c] = Scaling!Count(o, c)
  BY AfterIs
<1> DEFINE f == [c \in Comps |-> IF c \in DOMAIN o.to THEN o.to[c].count * o.to[c].ram
                                 ELSE o.has[c] * ReserveMemory[c]]
<1>2. PICK g : g = Charged(Scaling!After(o))
  OBVIOUS
<1>3. g \in [Comps -> Nat] /\ \A c \in Comps : g[c] = Scaling!Count(o, c) * ReserveMemory[c]
  BY <1>1, <1>2, ChargeNat DEF Charged
<1>4. ASSUME NEW c \in Comps PROVE f[c] \in Nat /\ g[c] <= f[c]
  <2>1. CASE c \in DOMAIN o.to
    <3>1. /\ o.to[c].count \in Nat /\ o.to[c].ram \in Nat /\ ReserveMemory[c] \in Nat
          /\ ReserveMemory[c] <= o.to[c].ram /\ o.to[c].count <= o.to[c].count
      BY <2>1, ScaleConstants DEF OptionOK, Charges
    <3>2. /\ o.to[c].count * o.to[c].ram \in Nat
          /\ o.to[c].count * ReserveMemory[c] <= o.to[c].count * o.to[c].ram
      BY <3>1, ProductGrows
    <3>3. f[c] = o.to[c].count * o.to[c].ram /\ g[c] = o.to[c].count * ReserveMemory[c]
      BY <1>3, <2>1 DEF Scaling!Count
    <3> QED
      BY <3>2, <3>3
  <2>2. CASE c \notin DOMAIN o.to
    <3>1. f[c] = o.has[c] * ReserveMemory[c] /\ g[c] = o.has[c] * ReserveMemory[c]
      BY <1>3, <2>2 DEF Scaling!Count
    <3>2. g[c] \in Nat
      BY <1>3
    <3> QED
      BY <3>1, <3>2
  <2> QED
    BY <2>1, <2>2
<1>5. f \in [Comps -> Nat] /\ \A c \in Comps : g[c] <= f[c]
  BY <1>4
<1>6. Scaling!RamUsed(o) = Scaling!SumFunction(f)
  BY DEF Scaling!RamUsed
<1> HIDE DEF f
<1>7. Scaling!SumFunction(f) \in Nat
  BY <1>5, SumNat, ScaleConstants
<1>8. Scaling!SumFunction(g) <= Scaling!SumFunction(f)
  BY <1>3, <1>5, SumGrows, ScaleConstants
<1> QED
  BY <1>2, <1>6, <1>7, <1>8 DEF Charge

(* A container there is takes at least what its component states. *)
LEMMA RamForIs ==
  ASSUME NEW o, OptionOK(o), Charges(o), NEW c \in Comps, Scaling!Count(o, c) > 0
  PROVE  /\ Scaling!RamForComponent(o, c) \in Nat
         /\ ReserveMemory[c] <= Scaling!RamForComponent(o, c)
<1> DEFINE known == {ReserveMemory[d] : d \in {d \in {c} : o.has[d] > 0}}
                    \cup {o.to[d].ram : d \in {c} \cap DOMAIN o.to}
<1>1. ReserveMemory[c] \in Nat
  BY ScaleConstants
<1>2. PICK most : /\ most \in Nat /\ ReserveMemory[c] <= most
                  /\ most = Scaling!Max(known \cup {0})
  <2>1. Scaling!Max(known \cup {0}) = CHOOSE m \in known \cup {0} : \A z \in known \cup {0} : m >= z
    BY Zenon DEF Scaling!Max
  <2>2. CASE c \in DOMAIN o.to /\ o.has[c] > 0
    <3>1. known \cup {0} = {ReserveMemory[c], o.to[c].ram, 0}
      BY <2>2
    <3>2. PICK x : x = o.to[c].ram
      OBVIOUS
    <3>3. x \in Nat /\ ReserveMemory[c] <= x
      BY <2>2, <3>2 DEF Charges
    <3>4. /\ x \in {ReserveMemory[c], x, 0}
          /\ \A m \in {ReserveMemory[c], x, 0} : (\A z \in {ReserveMemory[c], x, 0} : m >= z) => m = x
          /\ \A z \in {ReserveMemory[c], x, 0} : x >= z
      BY <1>1, <3>3
    <3>5. Scaling!Max(known \cup {0}) = x
      BY <2>1, <3>1, <3>2, <3>4
    <3> QED
      BY <3>3, <3>5
  <2>3. CASE c \in DOMAIN o.to /\ ~(o.has[c] > 0)
    <3>1. known \cup {0} = {o.to[c].ram, 0}
      BY <2>3
    <3>2. PICK x : x = o.to[c].ram
      OBVIOUS
    <3>3. x \in Nat /\ ReserveMemory[c] <= x
      BY <2>3, <3>2 DEF Charges
    <3>4. Scaling!Max({x, 0}) = PairMax(x, 0)
      BY <3>3, MaxMin
    <3>5. PairMax(x, 0) = x
      BY <3>3 DEF PairMax
    <3> QED
      BY <3>1, <3>2, <3>3, <3>4, <3>5
  <2>4. CASE c \notin DOMAIN o.to
    <3>1. o.has[c] > 0
      BY <2>4 DEF Scaling!Count
    <3>2. known \cup {0} = {ReserveMemory[c], 0}
      BY <2>4, <3>1
    <3>3. PICK x : x = ReserveMemory[c] /\ x \in Nat
      BY <1>1
    <3>4. Scaling!Max({x, 0}) = PairMax(x, 0)
      BY <3>3, MaxMin
    <3>5. PairMax(x, 0) = x
      BY <3>3 DEF PairMax
    <3> QED
      BY <3>2, <3>3, <3>4, <3>5
  <2> QED
    BY <2>2, <2>3, <2>4
<1>3. Scaling!RamForComponent(o, c) = IF most = 0 THEN Scaling!DefaultMemory ELSE most
  BY <1>2 DEF Scaling!RamForComponent
<1> HIDE DEF known
<1> QED
  BY <1>1, <1>2, <1>3 DEF Scaling!DefaultMemory

(* The charge goes up or down by what the component states. *)
LEMMA ChargeOne ==
  ASSUME NEW o, OptionOK(o), Charges(o), NEW c \in Comps, NEW delta \in {-1, 1},
         Scaling!Count(o, c) + delta \in Nat,
         NEW ram \in Nat, ReserveMemory[c] <= ram,
         NEW w, w = Scaling!WithTargetDelta(o, c, delta, ram)
  PROVE  /\ OptionOK(w) /\ w.node = o.node /\ Charges(w)
         /\ Charge(Scaling!After(w)) =
              IF delta = 1 THEN Charge(Scaling!After(o)) + ReserveMemory[c]
              ELSE Charge(Scaling!After(o)) - ReserveMemory[c]
         /\ Scaling!After(w)[c] = Scaling!After(o)[c] + delta
         /\ \A d \in Comps \ {c} : Scaling!After(w)[d] = Scaling!After(o)[d]
<1>1. delta \in Int
  OBVIOUS
<1>2. /\ OptionOK(w) /\ w.node = o.node /\ w.has = o.has
      /\ DOMAIN w.to = DOMAIN o.to \cup {c}
      /\ w.to[c].ram = ram /\ \A d \in DOMAIN o.to \ {c} : w.to[d] = o.to[d]
      /\ Scaling!Count(w, c) = Scaling!Count(o, c) + delta
      /\ \A d \in Comps \ {c} : Scaling!Count(w, d) = Scaling!Count(o, d)
  BY <1>1, WithDelta
<1>3. Charges(w)
  BY <1>2 DEF Charges
<1>4. PICK r : r = Scaling!After(o)
  OBVIOUS
<1>5. PICK s : s = Scaling!After(w)
  OBVIOUS
<1>6. /\ r \in [Comps -> Nat] /\ s \in [Comps -> Nat]
      /\ s[c] = r[c] + delta /\ \A d \in Comps \ {c} : s[d] = r[d]
  BY <1>2, <1>4, <1>5, AfterIs
<1>7. Charge(s) = IF delta = 1 THEN Charge(r) + ReserveMemory[c] ELSE Charge(r) - ReserveMemory[c]
  <2>1. PICK f : f = Charged(r)
    OBVIOUS
  <2>2. PICK g : g = Charged(s)
    OBVIOUS
  <2>3. f \in [Comps -> Nat] /\ g \in [Comps -> Nat]
    BY <1>6, <2>1, <2>2, ChargeNat
  <2>4. f[c] = r[c] * ReserveMemory[c] /\ g[c] = (r[c] + delta) * ReserveMemory[c]
    BY <1>6, <2>1, <2>2 DEF Charged
  <2>5. \A d \in Comps \ {c} : g[d] = f[d]
    BY <1>6, <2>1, <2>2 DEF Charged
  <2>6. f \in [Comps -> Int] /\ g \in [Comps -> Int]
    BY <2>3
  <2>7. /\ Scaling!SumFunction(f) \in Int
        /\ Scaling!SumFunction(g) = Scaling!SumFunction(f) + (g[c] - f[c])
    BY <2>5, <2>6, SumChange, ScaleConstants
  <2>8. PICK a : a = r[c]
    OBVIOUS
  <2>9. PICK b : b = ReserveMemory[c]
    OBVIOUS
  <2>10. a \in Nat /\ b \in Nat /\ a + delta \in Nat
    BY <1>4, <1>6, <2>8, <2>9, ScaleConstants
  <2>11. a * b \in Nat /\ (a + delta) * b = IF delta = 1 THEN a * b + b ELSE a * b - b
    BY <2>10, Product
  <2>12. g[c] - f[c] = IF delta = 1 THEN b ELSE -b
    BY <2>4, <2>8, <2>9, <2>10, <2>11
  <2> QED
    BY <2>1, <2>2, <2>7, <2>9, <2>10, <2>12 DEF Charge
<1> QED
  BY <1>2, <1>3, <1>4, <1>5, <1>6, <1>7

(* An option charges enough; what its node is to run keeps the limits and, but for
   the nodes of L, fits the node. *)
OptionFits(n, o, L) ==
  /\ Charges(o)
  /\ \A c \in Comps : Limit(c) => Scaling!After(o)[c] <= MaxInstancesPerNode[c]
  /\ n \notin L => Charge(Scaling!After(o)) <= TotalMemory[n]
OptionsFit(p, L) == \A n \in Nodes : OptionFits(n, p[n], L)

(* One container less fits. *)
LEMMA StopFits ==
  ASSUME NEW p, NEW L, OptionsOK(p), OptionsFit(p, L), NEW n \in Nodes, NEW c \in Comps,
         Scaling!Count(p[n], c) > 0,
         NEW q, q = Redone(p, n, c, -1, Scaling!RamForComponent(p[n], c))
  PROVE  OptionsFit(q, L)
<1>1. OptionOK(p[n]) /\ Charges(p[n]) /\ OptionFits(n, p[n], L) /\ p[n].node = n
  BY DEF OptionsOK, OptionsFit, OptionFits
<1>2. PICK ram : ram = Scaling!RamForComponent(p[n], c) /\ ram \in Nat /\ ReserveMemory[c] <= ram
  BY <1>1, RamForIs
<1>3. Scaling!Count(p[n], c) + (-1) \in Nat
  <2>1. Scaling!Count(p[n], c) \in Nat
    BY <1>1, CountNat
  <2> QED
    BY <2>1
<1>4. PICK w : w = Scaling!WithTargetDelta(p[n], c, -1, ram)
  OBVIOUS
<1>5. q = [p EXCEPT ![n] = w]
  BY <1>2, <1>4 DEF Redone, Replaced
<1>6. /\ OptionOK(w) /\ w.node = n /\ Charges(w)
      /\ Charge(Scaling!After(w)) = Charge(Scaling!After(p[n])) - ReserveMemory[c]
      /\ Scaling!After(w)[c] = Scaling!After(p[n])[c] + (-1)
      /\ \A d \in Comps \ {c} : Scaling!After(w)[d] = Scaling!After(p[n])[d]
  BY <1>1, <1>2, <1>3, <1>4, ChargeOne
<1>7. OptionFits(n, w, L)
  <2>1. /\ Charge(Scaling!After(p[n])) \in Nat /\ ReserveMemory[c] \in Nat /\ TotalMemory[n] \in Nat
        /\ Scaling!After(p[n]) \in [Comps -> Nat] /\ MaxInstancesPerNode \in [Comps -> Nat]
    BY <1>1, AfterIs, ChargeNat, ScaleConstants
  <2>2. n \notin L => Charge(Scaling!After(w)) <= TotalMemory[n]
    BY <1>1, <1>6, <2>1 DEF OptionFits
  <2>3. ASSUME NEW d \in Comps, Limit(d)
        PROVE  Scaling!After(w)[d] <= MaxInstancesPerNode[d]
    <3>1. /\ Scaling!After(p[n])[d] <= MaxInstancesPerNode[d]
          /\ Scaling!After(p[n])[d] \in Nat /\ MaxInstancesPerNode[d] \in Nat
      BY <1>1, <2>1, <2>3 DEF OptionFits
    <3> QED
      BY <1>6, <3>1
  <2> QED
    BY <1>6, <2>2, <2>3 DEF OptionFits
<1> QED
  BY <1>5, <1>6, <1>7 DEF OptionsFit, OptionsOK

(* One container more fits where there is memory and the limit is not reached. *)
LEMMA StartFits ==
  ASSUME NEW p, NEW L, OptionsOK(p), OptionsFit(p, L), NEW n \in Nodes, NEW c \in Comps,
         NEW ram \in Nat, ReserveMemory[c] <= ram,
         Charge(Scaling!After(p[n])) + ReserveMemory[c] <= TotalMemory[n],
         Limit(c) => Scaling!Count(p[n], c) < MaxInstancesPerNode[c],
         NEW q, q = Redone(p, n, c, 1, ram)
  PROVE  OptionsFit(q, L)
<1>1. OptionOK(p[n]) /\ Charges(p[n]) /\ OptionFits(n, p[n], L) /\ p[n].node = n
  BY DEF OptionsOK, OptionsFit, OptionFits
<1>3. Scaling!Count(p[n], c) + 1 \in Nat
  <2>1. Scaling!Count(p[n], c) \in Nat
    BY <1>1, CountNat
  <2> QED
    BY <2>1
<1>4. PICK w : w = Scaling!WithTargetDelta(p[n], c, 1, ram)
  OBVIOUS
<1>5. q = [p EXCEPT ![n] = w]
  BY <1>4 DEF Redone, Replaced
<1>6. /\ OptionOK(w) /\ w.node = n /\ Charges(w)
      /\ Charge(Scaling!After(w)) = Charge(Scaling!After(p[n])) + ReserveMemory[c]
      /\ Scaling!After(w)[c] = Scaling!After(p[n])[c] + 1
      /\ \A d \in Comps \ {c} : Scaling!After(w)[d] = Scaling!After(p[n])[d]
  BY <1>1, <1>3, <1>4, ChargeOne
<1>7. OptionFits(n, w, L)
  <2>1. /\ Scaling!After(p[n]) \in [Comps -> Nat] /\ MaxInstancesPerNode \in [Comps -> Nat]
        /\ Scaling!After(p[n])[c] = Scaling!Count(p[n], c)
    BY <1>1, AfterIs, ScaleConstants
  <2>2. Charge(Scaling!After(w)) <= TotalMemory[n]
    BY <1>6
  <2>3. ASSUME NEW d \in Comps, Limit(d)
        PROVE  Scaling!After(w)[d] <= MaxInstancesPerNode[d]
    <3>1. /\ Scaling!After(p[n])[d] <= MaxInstancesPerNode[d]
          /\ Scaling!After(p[n])[d] \in Nat /\ MaxInstancesPerNode[d] \in Nat
      BY <1>1, <2>1, <2>3 DEF OptionFits
    <3>2. CASE d = c
      BY <1>6, <2>1, <2>3, <3>1, <3>2
    <3>3. CASE d # c
      BY <1>6, <3>1, <3>3
    <3> QED
      BY <3>2, <3>3
  <2> QED
    BY <1>6, <2>2, <2>3 DEF OptionFits
<1> QED
  BY <1>5, <1>6, <1>7 DEF OptionsFit, OptionsOK

LEMMA ScaleFits ==
  ASSUME PassOK, NEW L, OptionsFit(opts, L), NEW c \in Comps, Scaling!ScaleComponent(c)
  PROVE  OptionsFit(opts', L)
<1>1. \/ opts' = opts
      \/ \E n \in Nodes : Stopping(n, c)
      \/ \E n \in Nodes : Starting(n, c)
  BY ScaleShape
<1>2. OptionsOK(opts)
  BY DEF PassOK
<1>3. PICK q : q = opts'
  OBVIOUS
<1>4. ASSUME NEW n \in Nodes, Stopping(n, c) PROVE OptionsFit(q, L)
  <2>1. /\ Scaling!Count(opts[n], c) > 0
        /\ q = Redone(opts, n, c, -1, Scaling!RamForComponent(opts[n], c))
    BY <1>3, <1>4 DEF Stopping
  <2> QED
    BY <1>2, <2>1, StopFits
<1>5. ASSUME NEW n \in Nodes, Starting(n, c) PROVE OptionsFit(q, L)
  <2>1. /\ Scaling!HasRoom(opts[n], c, ReserveMemory[c]) /\ Scaling!Free(opts[n]) >= ReserveMemory[c]
        /\ q = Redone(opts, n, c, 1, ReserveMemory[c])
    BY <1>3, <1>5 DEF Starting
  <2>2. OptionOK(opts[n]) /\ Charges(opts[n]) /\ opts[n].node = n
    BY <1>2 DEF OptionsOK, OptionsFit, OptionFits
  <2>3. /\ Charge(Scaling!After(opts[n])) <= Scaling!RamUsed(opts[n])
        /\ Scaling!RamUsed(opts[n]) \in Nat /\ Charge(Scaling!After(opts[n])) \in Nat
    BY <2>2, RamIs, AfterIs, ChargeNat
  <2>4. /\ Charge(Scaling!After(opts[n])) + ReserveMemory[c] <= TotalMemory[n]
        /\ ReserveMemory[c] \in Nat /\ ReserveMemory[c] <= ReserveMemory[c]
    <3>1. TotalMemory[n] \in Nat /\ ReserveMemory[c] \in Nat
      BY ScaleConstants
    <3>2. TotalMemory[n] - Scaling!RamUsed(opts[n]) >= ReserveMemory[c]
      BY <2>1, <2>2 DEF Scaling!Free
    <3> QED
      BY <2>3, <3>1, <3>2
  <2>5. Limit(c) => Scaling!Count(opts[n], c) < MaxInstancesPerNode[c]
    <3>1. MaxInstancesPerNode[c] \in Nat
      BY ScaleConstants
    <3> QED
      BY <2>1, <3>1 DEF Scaling!HasRoom, Limit
  <2> QED
    BY <1>2, <2>1, <2>4, <2>5, StartFits
<1> QED
  BY <1>1, <1>3, <1>4, <1>5

LEMMA RebalanceFits ==
  ASSUME PassOK, NEW L, OptionsFit(opts, L), NEW n \in Nodes, Scaling!Rebalance(n)
  PROVE  OptionsFit(opts', L)
<1>1. \/ opts' = opts
      \/ \E m \in Nodes \ {n}, c \in Comps : \E ram :
           /\ ram = Scaling!RamForComponent(opts[m], c)
           /\ Scaling!Count(opts[m], c) > 0
           /\ Scaling!RamUsed(opts[n]) = 0
           /\ ram <= TotalMemory[n]
           /\ opts' = MoveTo(m, n, c, ram)
  BY RebalanceShape
<1>2. ASSUME NEW m \in Nodes \ {n}, NEW c \in Comps, NEW ram,
             ram = Scaling!RamForComponent(opts[m], c),
             Scaling!Count(opts[m], c) > 0,
             Scaling!RamUsed(opts[n]) = 0,
             ram <= TotalMemory[n],
             opts' = MoveTo(m, n, c, ram)
      PROVE  OptionsFit(opts', L)
  <2>0. OptionsOK(opts)
    BY DEF PassOK
  <2>1. PICK p : p = Redone(opts, m, c, -1, ram)
    OBVIOUS
  <2>2. PICK q : q = opts'
    OBVIOUS
  <2>3. OptionsFit(p, L)
    BY <1>2, <2>0, <2>1, StopFits
  <2>4. /\ OptionOK(opts[m]) /\ Charges(opts[m])
        /\ OptionOK(opts[n]) /\ Charges(opts[n])
    BY <2>0 DEF OptionsOK, OptionsFit, OptionFits
  <2>5. ram \in Nat /\ ReserveMemory[c] <= ram
    BY <1>2, <2>4, RamForIs
  <2>6. OptionsOK(p)
    <3>1. Scaling!Count(opts[m], c) + (-1) \in Nat
      <4>1. Scaling!Count(opts[m], c) \in Nat
        BY <2>4, CountNat
      <4> QED
        BY <1>2, <4>1
    <3> QED
      BY <2>0, <2>1, <3>1, ChangeOne
  <2>7. p[n] = opts[n]
    BY <2>0, <2>1 DEF Redone, Replaced, OptionsOK
  <2>8. PICK r : r = Scaling!After(opts[n])
    OBVIOUS
  <2>9. r \in [Comps -> Nat] /\ Charge(r) = 0 /\ r[c] = Scaling!Count(opts[n], c)
    <3>1. r \in [Comps -> Nat] /\ r[c] = Scaling!Count(opts[n], c)
      BY <2>4, <2>8, AfterIs
    <3>2. Charge(r) \in Nat /\ Charge(r) <= 0
      BY <1>2, <2>4, <2>8, <3>1, ChargeNat, RamIs
    <3> QED
      BY <3>1, <3>2
  <2>10. ReserveMemory[c] > 0 => r[c] = 0
    <3>1. r[c] * ReserveMemory[c] \in Nat /\ r[c] * ReserveMemory[c] <= 0
      BY <2>9, ChargeNat
    <3>2. r[c] \in Nat /\ ReserveMemory[c] \in Nat
      BY <2>9, ScaleConstants
    <3>3. r[c] * ReserveMemory[c] = 0
      BY <3>1
    <3> QED
      BY <3>2, <3>3, Product
  <2>11. Limit(c) => Scaling!Count(p[n], c) < MaxInstancesPerNode[c]
    BY <2>7, <2>9, <2>10 DEF Limit
  <2>12. Charge(Scaling!After(p[n])) + ReserveMemory[c] <= TotalMemory[n]
    <3>1. ReserveMemory[c] \in Nat /\ TotalMemory[n] \in Nat
      BY ScaleConstants
    <3> QED
      BY <1>2, <2>5, <2>7, <2>8, <2>9, <3>1
  <2>13. q = Redone(p, n, c, 1, ram)
    BY <1>2, <2>1, <2>2 DEF MoveTo
  <2> QED
    BY <2>2, <2>3, <2>5, <2>6, <2>11, <2>12, <2>13, StartFits
<1> QED
  BY <1>1, <1>2

(* What the nodes run, and the limits with what they still are to start. *)
Holds(r, w, L) ==
  \A n \in Nodes :
    /\ n \notin L => Charge(r[n]) <= TotalMemory[n]
    /\ \A c \in Comps : Limit(c) => r[n][c] + w[n][c] <= MaxInstancesPerNode[c]
RunsFit == Holds(running, owed, late)

(* A node that starts a pass is charged for what it runs. *)
LEMMA FreshFits ==
  ASSUME NEW r \in [Nodes -> [Comps -> Nat]], NEW w \in [Nodes -> [Comps -> Nat]], NEW L,
         Holds(r, w, L), NEW p, p = FreshOptions(r)
  PROVE  OptionsFit(p, L)
<1> SUFFICES ASSUME NEW n \in Nodes PROVE OptionFits(n, p[n], L)
  BY DEF OptionsFit
<1>1. /\ OptionOK(p[n]) /\ DOMAIN p[n].to = {}
      /\ \A c \in Comps : Scaling!Count(p[n], c) = r[n][c]
  BY FreshOptionsAre DEF OptionsOK
<1>2. r[n] \in [Comps -> Nat] /\ w[n] \in [Comps -> Nat]
  OBVIOUS
<1>3. Scaling!After(p[n]) = r[n]
  BY <1>1, <1>2, AfterIs
<1>4. \A c \in Comps : Limit(c) => r[n][c] <= MaxInstancesPerNode[c]
  <2>1. ASSUME NEW c \in Comps, Limit(c) PROVE r[n][c] <= MaxInstancesPerNode[c]
    <3>1. /\ r[n][c] + w[n][c] <= MaxInstancesPerNode[c]
          /\ r[n][c] \in Nat /\ w[n][c] \in Nat /\ MaxInstancesPerNode[c] \in Nat
      BY <1>2, <2>1, ScaleConstants DEF Holds
    <3> QED
      BY <3>1
  <2> QED
    BY <2>1
<1> QED
  BY <1>1, <1>3, <1>4 DEF Charges, OptionFits, Holds

(* While the plan is applied, a node that has told nothing of a component runs what
   the pass saw of it, but for late starts. *)
Untouched ==
  Applying => \A n \in Nodes \ late : \A c \in Comps \ DOMAIN opts[n].to :
                running[n][c] = opts[n].has[c]

FittingInv == part = "autoscale" => RunsFit /\ OptionsFit(opts, late) /\ Untouched

LEMMA ApplyFits ==
  ASSUME PassOK, OptionsFit(opts, late), RunsFit, Untouched, NEW n \in Nodes, Scaling!Apply(n)
  PROVE  RunsFit' /\ OptionsFit(opts', late') /\ Untouched'
<1>1. /\ Applying /\ UNCHANGED <<phase, opts, late>>
      /\ running' \in [Nodes -> [Comps -> Nat]] /\ owed' \in [Nodes -> [Comps -> Nat]]
      /\ \A m \in Nodes \ {n} : running'[m] = running[m] /\ owed'[m] = owed[m]
      /\ \/ running'[n] = running[n] /\ owed'[n] = owed[n]
         \/ /\ \A c \in DOMAIN opts[n].to : AsTold(n, c)
            /\ \A c \in Comps \ DOMAIN opts[n].to :
                 running'[n][c] = running[n][c] /\ owed'[n][c] = owed[n][c]
  BY ApplyShape
<1>2. PICK r : r = running'
  OBVIOUS
<1>3. PICK w : w = owed'
  OBVIOUS
<1>4. /\ r \in [Nodes -> [Comps -> Nat]] /\ w \in [Nodes -> [Comps -> Nat]]
      /\ running \in [Nodes -> [Comps -> Nat]] /\ OptionOK(opts[n])
  BY <1>1, <1>2, <1>3 DEF PassOK, OptionsOK
<1>5. PICK s : s = Scaling!After(opts[n])
  OBVIOUS
<1>6. s \in [Comps -> Nat] /\ \A c \in Comps : s[c] = Scaling!Count(opts[n], c)
  BY <1>4, <1>5, AfterIs
<1>7. /\ n \notin late => Charge(s) <= TotalMemory[n]
      /\ \A c \in Comps : Limit(c) => s[c] <= MaxInstancesPerNode[c]
  BY <1>5 DEF OptionsFit, OptionFits
<1>8. ASSUME n \notin late PROVE Charge(r[n]) <= TotalMemory[n]
  <2>1. CASE running'[n] = running[n]
    BY <1>2, <1>8, <2>1 DEF RunsFit, Holds
  <2>2. CASE /\ \A c \in DOMAIN opts[n].to : AsTold(n, c)
             /\ \A c \in Comps \ DOMAIN opts[n].to : running'[n][c] = running[n][c]
    <3>1. ASSUME NEW c \in Comps PROVE r[n][c] <= s[c]
      <4>1. CASE c \in DOMAIN opts[n].to
        <5>1. r[n][c] + w[n][c] = s[c] /\ r[n][c] \in Nat /\ w[n][c] \in Nat
          BY <1>2, <1>3, <1>4, <1>6, <2>2, <4>1 DEF AsTold
        <5> QED
          BY <5>1
      <4>2. CASE c \notin DOMAIN opts[n].to
        <5>1. r[n][c] = opts[n].has[c]
          BY <1>1, <1>2, <1>8, <2>2, <4>2 DEF Untouched
        <5>2. s[c] = opts[n].has[c] /\ r[n][c] \in Nat
          BY <1>4, <1>6, <4>2 DEF Scaling!Count
        <5> QED
          BY <5>1, <5>2
      <4> QED
        BY <4>1, <4>2
    <3>2. r[n] \in [Comps -> Nat]
      BY <1>4
    <3>3. Charge(r[n]) <= Charge(s)
      BY <1>6, <3>1, <3>2, ChargeGrows
    <3>4. Charge(r[n]) \in Nat /\ Charge(s) \in Nat /\ TotalMemory[n] \in Nat
      BY <1>6, <3>2, ChargeNat, ScaleConstants
    <3> QED
      BY <1>7, <1>8, <3>3, <3>4
  <2> QED
    BY <1>1, <2>1, <2>2
<1>9. ASSUME NEW c \in Comps, Limit(c) PROVE r[n][c] + w[n][c] <= MaxInstancesPerNode[c]
  <2>1. running[n][c] + owed[n][c] <= MaxInstancesPerNode[c]
    BY <1>9 DEF RunsFit, Holds
  <2>2. CASE r[n][c] = running[n][c] /\ w[n][c] = owed[n][c]
    BY <2>1, <2>2
  <2>3. CASE AsTold(n, c)
    <3>1. r[n][c] + w[n][c] = s[c]
      BY <1>2, <1>3, <1>6, <2>3 DEF AsTold
    <3> QED
      BY <1>7, <1>9, <3>1
  <2> QED
    BY <1>1, <1>2, <1>3, <2>2, <2>3
<1>10. Holds(r, w, late)
  BY <1>1, <1>2, <1>3, <1>8, <1>9 DEF RunsFit, Holds
<1>11. RunsFit'
  BY <1>1, <1>2, <1>3, <1>10 DEF RunsFit
<1>12. ASSUME NEW m \in Nodes \ late, NEW c \in Comps \ DOMAIN opts[m].to
       PROVE  running'[m][c] = opts[m].has[c]
  <2>1. running'[m][c] = running[m][c]
    BY <1>1, <1>12
  <2> QED
    BY <1>1, <1>12, <2>1 DEF Untouched
<1>13. Untouched'
  BY <1>1, <1>12 DEF Untouched, Applying
<1> QED
  BY <1>1, <1>11, <1>13

LEMMA EndFits ==
  ASSUME PassOK, OptionsFit(opts, late), RunsFit, Untouched, NEW i \in 1..3, Scaling!EndGroup(i)
  PROVE  RunsFit' /\ OptionsFit(opts', late') /\ Untouched'
<1>1. /\ UNCHANGED <<running, owed, late>> /\ phase = Scaling!Groups[i]
      /\ \/ i < 3 /\ phase' = Scaling!Groups[i + 1] /\ opts' = opts
         \/ phase' = "plan" /\ Fresh'
  BY EndShape
<1>2. Applying
  BY <1>1 DEF Scaling!Groups, Applying
<1>3. RunsFit'
  BY <1>1 DEF RunsFit
<1>4. CASE i < 3 /\ phase' = Scaling!Groups[i + 1] /\ opts' = opts
  BY <1>1, <1>2, <1>3, <1>4 DEF Untouched
<1>5. CASE phase' = "plan" /\ Fresh'
  <2>1. /\ running \in [Nodes -> [Comps -> Nat]] /\ owed \in [Nodes -> [Comps -> Nat]]
        /\ opts' = FreshOptions(running)
    BY <1>1, <1>5 DEF PassOK, Fresh
  <2>2. PICK p : p = opts'
    OBVIOUS
  <2>3. OptionsFit(p, late)
    BY <2>1, <2>2, FreshFits DEF RunsFit
  <2> QED
    BY <1>1, <1>3, <1>5, <2>2, <2>3 DEF Untouched, Applying
<1> QED
  BY <1>1, <1>4, <1>5

LEMMA LateFits ==
  ASSUME PassOK, phase \in Phases, OptionsFit(opts, late), RunsFit, Untouched,
         NEW n \in Nodes, NEW c \in Comps, Scaling!StartsLate(n, c)
  PROVE  RunsFit' /\ OptionsFit(opts', late') /\ Untouched'
<1>1. /\ phase' = phase /\ late' = late \cup {n} /\ owed[n][c] > 0
      /\ running' \in [Nodes -> [Comps -> Nat]] /\ owed' \in [Nodes -> [Comps -> Nat]]
      /\ running'[n][c] = running[n][c] + 1 /\ owed'[n][c] = owed[n][c] - 1
      /\ \A d \in Comps \ {c} : running'[n][d] = running[n][d] /\ owed'[n][d] = owed[n][d]
      /\ \A m \in Nodes \ {n} : running'[m] = running[m] /\ owed'[m] = owed[m]
      /\ (Applying /\ opts' = opts) \/ (phase = "plan" /\ Fresh')
  BY LateShape
<1>2. PICK r : r = running'
  OBVIOUS
<1>3. PICK w : w = owed'
  OBVIOUS
<1>4. PICK L : L = late \cup {n}
  OBVIOUS
<1>5. ASSUME NEW m \in Nodes, NEW d \in Comps PROVE r[m][d] + w[m][d] = running[m][d] + owed[m][d]
  <2>1. CASE m = n /\ d = c
    <3>1. running[n][c] \in Nat /\ owed[n][c] \in Nat
      BY DEF PassOK
    <3>2. r[n][c] = running[n][c] + 1 /\ w[n][c] = owed[n][c] - 1
      BY <1>1, <1>2, <1>3
    <3> QED
      BY <2>1, <3>1, <3>2
  <2>2. CASE m # n \/ d # c
    BY <1>1, <1>2, <1>3, <2>2
  <2> QED
    BY <2>1, <2>2
<1>6. Holds(r, w, L)
  BY <1>1, <1>2, <1>4, <1>5 DEF RunsFit, Holds
<1>7. RunsFit'
  BY <1>1, <1>2, <1>3, <1>4, <1>6 DEF RunsFit
<1>8. CASE Applying /\ opts' = opts
  <2>1. OptionsFit(opts, L)
    BY <1>4 DEF OptionsFit, OptionFits
  <2>2. ASSUME NEW m \in Nodes \ L, NEW d \in Comps \ DOMAIN opts[m].to
        PROVE  running'[m][d] = opts[m].has[d]
    <3>1. m # n /\ m \notin late /\ running'[m] = running[m]
      BY <1>1, <1>4, <2>2
    <3> QED
      BY <1>8, <2>2, <3>1 DEF Untouched
  <2> QED
    BY <1>1, <1>4, <1>7, <1>8, <2>1, <2>2 DEF Untouched, Applying
<1>9. CASE phase = "plan" /\ Fresh'
  <2>1. /\ r \in [Nodes -> [Comps -> Nat]] /\ w \in [Nodes -> [Comps -> Nat]]
        /\ opts' = FreshOptions(r)
    BY <1>1, <1>2, <1>3, <1>9 DEF Fresh
  <2>2. PICK p : p = opts'
    OBVIOUS
  <2>3. OptionsFit(p, L)
    BY <1>6, <2>1, <2>2, FreshFits
  <2> QED
    BY <1>1, <1>4, <1>7, <1>9, <2>2, <2>3 DEF Untouched, Applying
<1> QED
  BY <1>1, <1>8, <1>9

LEMMA ChargeIs == \A r : Scaling!StatedMemory(r) = Charge(r)
BY DEF Scaling!StatedMemory, Charge, Charged

LEMMA InitFits == Scaling!Init => RunsFit /\ OptionsFit(opts, late) /\ Untouched
<1> SUFFICES ASSUME Scaling!Init PROVE RunsFit /\ OptionsFit(opts, late) /\ Untouched
  OBVIOUS
<1>1. /\ \A n \in Nodes :
           /\ Scaling!StatedMemory(running[n]) <= TotalMemory[n]
           /\ \A c \in Comps : MaxInstancesPerNode[c] > 0 => running[n][c] <= MaxInstancesPerNode[c]
      /\ opts = FreshOptions(running) /\ phase = "plan"
      /\ owed = [n \in Nodes |-> Scaling!NoFailure]
  BY Zenon DEF Scaling!Init, FreshOptions
<1>2. running \in [Nodes -> [Comps -> Nat]] /\ owed \in [Nodes -> [Comps -> Nat]]
  BY ScaleInit DEF Fresh
<1>3. \A n \in Nodes, c \in Comps : owed[n][c] = 0
  BY <1>1 DEF Scaling!NoFailure
<1>4. RunsFit
  <2>1. ASSUME NEW n \in Nodes PROVE Charge(running[n]) <= TotalMemory[n]
    BY <1>1, ChargeIs
  <2>2. ASSUME NEW n \in Nodes, NEW c \in Comps, Limit(c)
        PROVE  running[n][c] + owed[n][c] <= MaxInstancesPerNode[c]
    <3>1. running[n][c] <= MaxInstancesPerNode[c] /\ running[n][c] \in Nat /\ owed[n][c] = 0
      BY <1>1, <1>2, <1>3, <2>2 DEF Limit
    <3> QED
      BY <3>1
  <2> QED
    BY <2>1, <2>2 DEF RunsFit, Holds
<1>5. OptionsFit(opts, late)
  BY <1>1, <1>2, <1>4, FreshFits DEF RunsFit
<1> QED
  BY <1>1, <1>4, <1>5 DEF Untouched, Applying

LEMMA FitsImplied ==
  ASSUME PassOK, RunsFit, OptionsFit(opts, late)
  PROVE  Scaling!Fits
<1> SUFFICES ASSUME NEW n \in Nodes
             PROVE  /\ n \notin late =>
                         /\ Scaling!StatedMemory(running[n]) <= TotalMemory[n]
                         /\ Scaling!StatedMemory(Scaling!After(opts[n])) <= TotalMemory[n]
                    /\ \A c \in Comps : ReserveMemory[c] > 0 /\ MaxInstancesPerNode[c] > 0 =>
                         {running[n][c], Scaling!Count(opts[n], c)} \subseteq 0..MaxInstancesPerNode[c]
  BY DEF Scaling!Fits
<1>1. OptionOK(opts[n]) /\ running[n] \in [Comps -> Nat] /\ owed[n] \in [Comps -> Nat]
  BY DEF PassOK, OptionsOK
<1>2. n \notin late => /\ Scaling!StatedMemory(running[n]) <= TotalMemory[n]
                       /\ Scaling!StatedMemory(Scaling!After(opts[n])) <= TotalMemory[n]
  BY ChargeIs DEF RunsFit, Holds, OptionsFit, OptionFits
<1>3. ASSUME NEW c \in Comps, Limit(c)
      PROVE  {running[n][c], Scaling!Count(opts[n], c)} \subseteq 0..MaxInstancesPerNode[c]
  <2>1. /\ running[n][c] + owed[n][c] <= MaxInstancesPerNode[c]
        /\ running[n][c] \in Nat /\ owed[n][c] \in Nat /\ MaxInstancesPerNode[c] \in Nat
    BY <1>1, <1>3, ScaleConstants DEF RunsFit, Holds
  <2>2. Scaling!Count(opts[n], c) \in Nat /\ Scaling!Count(opts[n], c) <= MaxInstancesPerNode[c]
    BY <1>1, <1>3, AfterIs, CountNat DEF OptionsFit, OptionFits
  <2> QED
    BY <2>1, <2>2
<1> QED
  BY <1>2, <1>3 DEF Limit

LEMMA FittingStep == ScalingInv /\ FittingInv /\ [Next]_vars => FittingInv'
<1> SUFFICES ASSUME ScalingInv, FittingInv, [Next]_vars PROVE FittingInv'
  OBVIOUS
<1>1. ASSUME UNCHANGED <<part, scaleVars>> PROVE FittingInv'
  BY <1>1 DEF FittingInv, RunsFit, Untouched, Applying, scaleVars
<1>2. CASE ScaleOnly /\ Scaling!Next
  <2> SUFFICES ASSUME part = "autoscale"
               PROVE  RunsFit' /\ OptionsFit(opts', late') /\ Untouched'
    BY <1>2 DEF FittingInv, ScaleOnly
  <2>1. ScaleInv /\ PassOK /\ phase \in Phases /\ RunsFit /\ OptionsFit(opts, late) /\ Untouched
    BY DEF ScalingInv, ScaleInv, FittingInv
  <2>2. ASSUME NEW c \in Comps, Scaling!ScaleComponent(c)
        PROVE  RunsFit' /\ OptionsFit(opts', late') /\ Untouched'
    <3>1. phase' = "plan" /\ UNCHANGED <<running, owed, late>>
      BY <2>1, <2>2, ScaleShape DEF CallVars
    <3>2. OptionsFit(opts', late)
      BY <2>1, <2>2, ScaleFits
    <3> QED
      BY <2>1, <3>1, <3>2 DEF RunsFit, Untouched, Applying
  <2>3. ASSUME NEW n \in Nodes, Scaling!Rebalance(n)
        PROVE  RunsFit' /\ OptionsFit(opts', late') /\ Untouched'
    <3>1. phase' = "rebalance" /\ UNCHANGED <<running, owed, late>>
      BY <2>1, <2>3, RebalanceShape DEF CallVars
    <3>2. OptionsFit(opts', late)
      BY <2>1, <2>3, RebalanceFits
    <3> QED
      BY <2>1, <3>1, <3>2 DEF RunsFit, Untouched, Applying
  <2>4. CASE Scaling!StartRebalance \/ Scaling!StartApplying \/ Scaling!LoadChanges
    <3>1. UNCHANGED <<running, opts, owed, late>> /\ phase \in {"plan", "rebalance"}
      BY <2>4, Zenon DEF Scaling!StartRebalance, Scaling!StartApplying, Scaling!LoadChanges,
         Scaling!Unplanned, Scaling!planVars, Scaling!callVars
    <3>2. \A n \in Nodes : opts[n].has = running[n]
      BY <2>1, <3>1 DEF ScaleInv, PlanInv
    <3> QED
      BY <2>1, <3>1, <3>2 DEF RunsFit, Untouched
  <2> QED
    BY <1>2, <2>1, <2>2, <2>3, <2>4, ApplyFits, EndFits, LateFits DEF Scaling!Next, Scaling!Pass
<1>3. CASE RolloutOnly
  BY <1>1, <1>3 DEF RolloutOnly
<1>4. CASE PlacementOnly
  BY <1>1, <1>4 DEF PlacementOnly
<1>5. CASE UNCHANGED vars
  BY <1>1, <1>5 DEF vars
<1> QED
  BY <1>2, <1>3, <1>4, <1>5 DEF Next

(* No pass gives a node more than its memory or the limits of components allow, with
   calls and starts that fail at any point (placement.go:187-249, scale.go:334-418,
   node_svc.go:546-622), of what the components state: those that state no memory are
   not counted, with or without them on the node.  A node that started an instance
   after it had answered is left out. *)
THEOREM NodesAreNeverOverfull == Spec => []Fits
<1>1. Init => FittingInv
  BY InitFits DEF Init, FittingInv
<1>2. ScalingInv /\ FittingInv => Fits
  BY FitsImplied DEF ScalingInv, ScaleInv, FittingInv, Fits
<1> QED
  BY <1>1, <1>2, FittingStep, ScalingAlways, PTL DEF Spec

-----------------------------------------------------------------------------
(***************************************************************************)
(* Components in use: plans leave them an instance, and so do the calls.   *)
(***************************************************************************)

LEMMA SumZero ==
  ASSUME NEW S, IsFiniteSet(S), NEW f \in [S -> Int], \A x \in S : f[x] = 0
  PROVE  Scaling!SumFunction(f) = 0
<1>1. PICK it : AddsUp(f, it, S) /\ Scaling!SumFunction(f) = it[S]
  BY SumParts
<1>2. /\ it[{}] = 0
      /\ \A s \in SUBSET S : it[s] \in Int /\ \A x \in s : it[s] = f[x] + it[s \ {x}]
  BY <1>1 DEF AddsUp
<1> DEFINE G == {s \in SUBSET S : it[s] = 0}
<1>3. G = SUBSET S
  <2>1. {} \in G
    BY <1>2
  <2>2. ASSUME NEW s \in SUBSET S, NEW x \in s, s \ {x} \in G PROVE s \in G
    <3>1. it[s] = f[x] + it[s \ {x}] /\ f[x] = 0 /\ it[s \ {x}] = 0
      BY <1>2, <2>2
    <3> QED
      BY <3>1
  <2>3. G \in SUBSET SUBSET S
    OBVIOUS
  <2> HIDE DEF G
  <2> QED
    BY <2>1, <2>2, <2>3, SubsetInduction
<1> QED
  BY <1>1, <1>3

(* What runs or is planned runs, or is planned, somewhere. *)
LEMMA RunsSomewhere ==
  ASSUME PassOK, NEW c \in Comps
  PROVE  /\ Scaling!Instances(c) > 0 => \E n \in Nodes : running[n][c] > 0
         /\ Scaling!Planned(c) > 0 => \E n \in Nodes : Scaling!Count(opts[n], c) > 0
<1>1. ASSUME \A n \in Nodes : ~(running[n][c] > 0) PROVE Scaling!Instances(c) = 0
  <2>1. PICK f : f = [n \in Nodes |-> running[n][c]]
    OBVIOUS
  <2>2. f \in [Nodes -> Int] /\ \A n \in Nodes : f[n] = 0
    BY <1>1, <2>1, InstancesNat
  <2> QED
    BY <2>1, <2>2, SumZero, ScaleConstants DEF Scaling!Instances
<1>2. ASSUME \A n \in Nodes : ~(Scaling!Count(opts[n], c) > 0) PROVE Scaling!Planned(c) = 0
  <2>1. PICK f : f = [n \in Nodes |-> Scaling!Count(opts[n], c)]
    OBVIOUS
  <2>2. f \in [Nodes -> Int] /\ \A n \in Nodes : f[n] = 0
    BY <1>2, <2>1, PlannedNat
  <2> QED
    BY <2>1, <2>2, SumZero, ScaleConstants DEF Scaling!Planned
<1> QED
  BY <1>1, <1>2

(* Nodes that only start lose nothing, and those that only stop gain nothing. *)
LEMMA GroupIs ==
  ASSUME PassOK, NEW n \in Nodes, NEW c \in Comps
  PROVE  /\ n \in Scaling!InGroup("startOnly") => opts[n].has[c] <= Scaling!Count(opts[n], c)
         /\ n \in Scaling!InGroup("stopOnly") => Scaling!Count(opts[n], c) <= opts[n].has[c]
         /\ \/ n \in Scaling!InGroup("startOnly") \/ n \in Scaling!InGroup("startStop")
            \/ n \in Scaling!InGroup("stopOnly") \/ Scaling!Count(opts[n], c) = opts[n].has[c]
<1>1. PICK o : o = opts[n]
  OBVIOUS
<1>0. OptionOK(o)
  BY <1>1 DEF PassOK, OptionsOK
<1>2. OptionOK(o) /\ Scaling!Count(o, c) \in Nat /\ o.has[c] \in Nat
  <2>1. Scaling!Count(o, c) \in Nat
    BY <1>0, CountNat
  <2>2. o.has[c] \in Nat
    BY <1>0 DEF OptionOK
  <2> QED
    BY <1>0, <2>1, <2>2
<1>3. \A S : Scaling!Cardinality(S) = Cardinality(S)
  BY Zenon DEF Scaling!Cardinality, Cardinality
<1> DEFINE Up == {d \in DOMAIN o.to : o.to[d].count > o.has[d]}
           Down == {d \in DOMAIN o.to : o.to[d].count < o.has[d]}
<1>4. Scaling!ScaledUp(o) = Cardinality(Up) /\ Scaling!ScaledDown(o) = Cardinality(Down)
  BY <1>3 DEF Scaling!ScaledUp, Scaling!ScaledDown
<1>5. c \notin Up => Scaling!Count(o, c) <= o.has[c]
  BY <1>2 DEF OptionOK, Scaling!Count
<1>6. c \notin Down => o.has[c] <= Scaling!Count(o, c)
  BY <1>2 DEF OptionOK, Scaling!Count
<1>7. Up \subseteq Comps /\ Down \subseteq Comps
  BY <1>2 DEF OptionOK
<1> HIDE DEF Up, Down
<1>8. IsFiniteSet(Up) /\ IsFiniteSet(Down)
  BY <1>7, ScaleConstants, FS_Subset
<1>9. /\ Cardinality(Up) \in Nat /\ (Cardinality(Up) = 0 => Up = {})
      /\ Cardinality(Down) \in Nat /\ (Cardinality(Down) = 0 => Down = {})
  BY <1>8, FS_CardinalityType, FS_EmptySet
<1>10. (~(Scaling!ScaledUp(o) > 0) => Up = {}) /\ (~(Scaling!ScaledDown(o) > 0) => Down = {})
  BY <1>4, <1>9
<1>11. \A g : n \in Scaling!InGroup(g) <=> DOMAIN o.to # {} /\ Scaling!Group(o) = g
  BY <1>1 DEF Scaling!InGroup
<1>12. n \in Scaling!InGroup("startOnly") => Down = {}
  BY <1>10, <1>11 DEF Scaling!Group
<1>13. n \in Scaling!InGroup("stopOnly") => Up = {}
  BY <1>10, <1>11 DEF Scaling!Group
<1>14. \/ n \in Scaling!InGroup("startOnly") \/ n \in Scaling!InGroup("startStop")
       \/ n \in Scaling!InGroup("stopOnly") \/ DOMAIN o.to = {}
  BY <1>11 DEF Scaling!Group
<1>15. DOMAIN o.to = {} => Scaling!Count(o, c) = o.has[c]
  BY DEF Scaling!Count
<1> QED
  BY <1>1, <1>5, <1>6, <1>12, <1>13, <1>14, <1>15

LEMMA OneGroup ==
  ASSUME NEW g, NEW h, NEW n \in Scaling!InGroup(g), n \in Scaling!InGroup(h)
  PROVE  g = h
BY DEF Scaling!InGroup

(* The nodes told: those of an earlier group, and of this one those it has come to. *)
Told(n) ==
  \/ phase = "startStop" /\ n \in Scaling!InGroup("startOnly")
  \/ /\ phase = "stopOnly"
     /\ n \in Scaling!InGroup("startOnly") \/ n \in Scaling!InGroup("startStop")
  \/ n \in Scaling!InGroup(phase) /\ n \notin left

(* While a plan is applied: it leaves each component in use an instance; nodes not
   told yet run what they did, and more after a late start; those told run what they
   shall unless a node has not started an instance or a call of the group has failed;
   and what runs and shall run is not stopped in between. *)
KeepInv ==
  /\ recent \subseteq Comps
  /\ Applying =>
       /\ left \subseteq Scaling!InGroup(phase)
       /\ \A c \in Scaling!Kept :
            Scaling!Seen(c) => \E n \in Nodes : Scaling!Count(opts[n], c) > 0
       /\ \A n \in Nodes, c \in Comps :
            /\ ~Told(n) => running[n][c] >= opts[n].has[c]
            /\ Told(n) /\ Scaling!Count(opts[n], c) > 0 =>
                 \/ running[n][c] > 0 \/ c \in unstarted
                 \/ aborted = TRUE /\ n \in Scaling!InGroup(phase)
            /\ opts[n].has[c] > 0 /\ Scaling!Count(opts[n], c) > 0 => running[n][c] > 0

LEMMA KeptAre == recent \subseteq Comps => Scaling!Kept \subseteq Comps
BY DEF Scaling!Kept

(* The numbers of a pass. *)
LEMMA NumbersAre ==
  ASSUME PassOK, NEW n \in Nodes, NEW c \in Comps
  PROVE  running[n][c] \in Nat /\ Scaling!Count(opts[n], c) \in Nat /\ opts[n].has[c] \in Nat
<1>1. OptionOK(opts[n])
  BY DEF PassOK, OptionsOK
<1>2. Scaling!Count(opts[n], c) \in Nat
  BY <1>1, CountNat
<1>3. opts[n].has[c] \in Nat
  BY <1>1 DEF OptionOK
<1>4. running[n][c] \in Nat
  BY DEF PassOK
<1> QED
  BY <1>2, <1>3, <1>4

LEMMA StartApplyingKeeps ==
  ASSUME ScaleInv, KeepInv, Scaling!StartApplying
  PROVE  KeepInv'
<1>1. /\ phase = "rebalance" /\ phase' = "startOnly" /\ left' = Scaling!InGroup("startOnly")
      /\ UNCHANGED <<running, recent, opts, done>>
  BY DEF Scaling!StartApplying, Scaling!Groups, Scaling!planVars
<1>2. PassOK /\ (\A n \in Nodes : opts[n].has = running[n]) /\ \A c \in Comps : OnTheWay(c)
  BY <1>1 DEF ScaleInv, PlanInv
<1>3. \A n : n \in Scaling!InGroup("startOnly")' <=> n \in Scaling!InGroup("startOnly")
  BY <1>1 DEF Scaling!InGroup
<1>4. \A n \in Nodes : ~Told(n)'
  BY <1>1, <1>3 DEF Told
<1>5. ASSUME NEW c \in Scaling!Kept, Scaling!Seen(c)
      PROVE  \E m \in Nodes : Scaling!Count(opts[m], c) > 0
  <2>0. c \in Comps
    BY KeptAre DEF KeepInv
  <2>1. PICK n \in Nodes : opts[n].has[c] > 0
    BY <1>5 DEF Scaling!Seen
  <2>2. running[n][c] > 0 /\ running[n][c] <= Scaling!Instances(c) /\ running[n][c] \in Nat
    BY <1>2, <2>0, <2>1, InstancesNat
  <2>3. Scaling!Instances(c) \in Nat /\ Scaling!Instances(c) > 0
    BY <1>2, <2>0, <2>2, InstancesNat
  <2>4. Scaling!CalcScaleTarget(c) \in Nat /\ Scaling!CalcScaleTarget(c) > 0
    BY <1>2, <2>0, <2>3, TargetNat
  <2>5. Scaling!Planned(c) \in Nat /\ done[c] \in Nat
    BY <1>2, <2>0, PlannedNat DEF PassOK
  <2>6. Scaling!Planned(c) > 0
    BY <1>2, <2>0, <2>3, <2>4, <2>5 DEF OnTheWay, Scaling!AbsDelta, Scaling!Delta
  <2> QED
    BY <1>2, <2>0, <2>6, RunsSomewhere
<1>6. \A c \in Scaling!Kept' :
         Scaling!Seen(c)' => \E n \in Nodes : Scaling!Count(opts'[n], c) > 0
  BY <1>1, <1>5 DEF Scaling!Kept, Scaling!Idling, Scaling!Seen
<1>7. \A n \in Nodes, c \in Comps :
         /\ running'[n][c] = opts'[n].has[c] /\ running'[n][c] \in Nat
         /\ running'[n][c] >= opts'[n].has[c]
  BY <1>1, <1>2, NumbersAre
<1>8. left' \subseteq Scaling!InGroup("startOnly")'
  BY <1>1, <1>3
<1>9. \A n \in Nodes, c \in Comps :
        /\ ~Told(n)' => running'[n][c] >= opts'[n].has[c]
        /\ Told(n)' /\ Scaling!Count(opts'[n], c) > 0 =>
             \/ running'[n][c] > 0 \/ c \in unstarted'
             \/ aborted' = TRUE /\ n \in Scaling!InGroup(phase)'
        /\ opts'[n].has[c] > 0 /\ Scaling!Count(opts'[n], c) > 0 => running'[n][c] > 0
  BY <1>4, <1>7
<1> QED
  BY <1>1, <1>6, <1>8, <1>9 DEF KeepInv

LEMMA GroupsAre ==
  ASSUME NEW i \in 1..3
  PROVE  /\ \/ i = 1 /\ Scaling!Groups[i] = "startOnly"
            \/ i = 2 /\ Scaling!Groups[i] = "startStop"
            \/ i = 3 /\ Scaling!Groups[i] = "stopOnly"
         /\ i = 1 => Scaling!Groups[i + 1] = "startStop"
         /\ i = 2 => Scaling!Groups[i + 1] = "stopOnly"
BY DEF Scaling!Groups

(* What KeepInv says of a node and a component. *)
KeepsAt(n, c) ==
  /\ ~Told(n) => running[n][c] >= opts[n].has[c]
  /\ Told(n) /\ Scaling!Count(opts[n], c) > 0 =>
       \/ running[n][c] > 0 \/ c \in unstarted
       \/ aborted = TRUE /\ n \in Scaling!InGroup(phase)
  /\ opts[n].has[c] > 0 /\ Scaling!Count(opts[n], c) > 0 => running[n][c] > 0

(* The plan and the components in use stay while it is applied. *)
LEMMA PlanStays ==
  ASSUME KeepInv, Applying, Applying', UNCHANGED <<recent, opts>>,
         left' \subseteq Scaling!InGroup(phase)',
         \A n \in Nodes, c \in Comps : KeepsAt(n, c)'
  PROVE  KeepInv'
<1>1. /\ Scaling!Kept' = Scaling!Kept
      /\ \A c : Scaling!Seen(c)' <=> Scaling!Seen(c)
  BY DEF Scaling!Kept, Scaling!Idling, Scaling!Seen
<1>2. \A c \in Scaling!Kept' :
         Scaling!Seen(c)' => \E n \in Nodes : Scaling!Count(opts'[n], c) > 0
  BY <1>1 DEF KeepInv
<1> QED
  BY <1>2 DEF KeepInv, KeepsAt

LEMMA GroupsStay ==
  ASSUME UNCHANGED opts
  PROVE  \A g : Scaling!InGroup(g)' = Scaling!InGroup(g)
BY DEF Scaling!InGroup

LEMMA ApplyKeeps ==
  ASSUME ScaleInv, KeepInv, NEW n \in Nodes, Scaling!Apply(n)
  PROVE  KeepInv'
<1>0. PassOK
  BY DEF ScaleInv
<1>1. /\ Applying /\ n \in left /\ left' = left \ {n}
      /\ UNCHANGED <<recent, phase, opts>>
      /\ \A m \in Nodes \ {n} : running'[m] = running[m]
      /\ \/ running'[n] = running[n]
         \/ /\ \A c \in DOMAIN opts[n].to : AsTold(n, c)
            /\ \A c \in Comps \ DOMAIN opts[n].to : running'[n][c] = running[n][c]
      /\ unstarted \subseteq unstarted' /\ aborted' \in {aborted, TRUE}
      /\ \/ aborted' = TRUE
         \/ \A c \in DOMAIN opts[n].to :
              running'[n][c] >= Scaling!Count(opts[n], c) \/ c \in unstarted'
      /\ running' \in [Nodes -> [Comps -> Nat]]
  BY <1>0, ApplyShape
<1>2. /\ left \subseteq Scaling!InGroup(phase)
      /\ \A m \in Nodes, c \in Comps : KeepsAt(m, c)
  BY <1>1 DEF KeepInv, KeepsAt
<1>3. n \in Scaling!InGroup(phase) /\ ~Told(n)
  BY <1>1, <1>2, OneGroup DEF Told
<1>4. \A g : Scaling!InGroup(g)' = Scaling!InGroup(g)
  BY <1>1, GroupsStay
<1>5. Told(n)' /\ \A m \in Nodes \ {n} : Told(m)' <=> Told(m)
  BY <1>1, <1>3, <1>4 DEF Told
<1>6. ASSUME NEW m \in Nodes \ {n}, NEW c \in Comps PROVE KeepsAt(m, c)'
  <2>1. /\ running'[m][c] = running[m][c] /\ opts'[m] = opts[m]
        /\ aborted = TRUE => aborted' = TRUE
        /\ n \in Scaling!InGroup(phase)
    BY <1>1, <1>3, <1>6
  <2>2. Scaling!InGroup(phase)' = Scaling!InGroup(phase)
    BY <1>1, <1>4
  <2>3. KeepsAt(m, c) /\ (Told(m)' <=> Told(m))
    BY <1>2, <1>5, <1>6
  <2> QED
    BY <1>1, <2>1, <2>2, <2>3 DEF KeepsAt
<1>7. ASSUME NEW c \in Comps PROVE KeepsAt(n, c)'
  <2>1. /\ running[n][c] \in Nat /\ Scaling!Count(opts[n], c) \in Nat /\ opts[n].has[c] \in Nat
        /\ running'[n][c] \in Nat
    BY <1>0, <1>1, NumbersAre
  <2>2. running[n][c] >= opts[n].has[c]
    BY <1>2, <1>3 DEF KeepsAt
  <2>3. running[n][c] > 0 /\ Scaling!Count(opts[n], c) > 0 => running'[n][c] > 0
    BY <1>1, <2>1 DEF AsTold, PairMin
  <2>4. c \notin DOMAIN opts[n].to => Scaling!Count(opts[n], c) = opts[n].has[c]
    BY DEF Scaling!Count
  <2>5. Scaling!Count(opts[n], c) > 0 =>
          running'[n][c] > 0 \/ c \in unstarted' \/ aborted' = TRUE
    <3>1. CASE c \in DOMAIN opts[n].to
      BY <1>1, <2>1, <3>1
    <3>2. CASE c \notin DOMAIN opts[n].to
      BY <2>1, <2>2, <2>3, <2>4, <3>2
    <3> QED
      BY <3>1, <3>2
  <2>6. opts[n].has[c] > 0 /\ Scaling!Count(opts[n], c) > 0 => running'[n][c] > 0
    BY <2>1, <2>2, <2>3
  <2>7. n \in Scaling!InGroup(phase)'
    BY <1>1, <1>3, <1>4
  <2> QED
    BY <1>1, <1>5, <2>5, <2>6, <2>7 DEF KeepsAt
<1>8. Applying' /\ left' \subseteq Scaling!InGroup(phase)'
  BY <1>1, <1>2, <1>4 DEF Applying
<1> QED
  BY <1>1, <1>6, <1>7, <1>8, PlanStays

LEMMA EndKeeps ==
  ASSUME ScaleInv, KeepInv, NEW i \in 1..3, Scaling!EndGroup(i)
  PROVE  KeepInv'
<1>1. /\ phase = Scaling!Groups[i] /\ left = {} /\ UNCHANGED <<running, recent>>
      /\ \/ /\ i < 3 /\ ~aborted
            /\ phase' = Scaling!Groups[i + 1] /\ left' = Scaling!InGroup(Scaling!Groups[i + 1])
            /\ UNCHANGED <<opts, aborted, unstarted>>
         \/ phase' = "plan"
  BY EndShape DEF ScaleInv
<1>2. CASE phase' = "plan"
  BY <1>1, <1>2 DEF KeepInv, Applying
<1>3. ASSUME i < 3, ~aborted, phase' = Scaling!Groups[i + 1],
             left' = Scaling!InGroup(Scaling!Groups[i + 1]),
             UNCHANGED <<opts, aborted, unstarted>>
      PROVE  KeepInv'
  <2>1. \/ phase = "startOnly" /\ phase' = "startStop"
        \/ phase = "startStop" /\ phase' = "stopOnly"
    BY <1>1, <1>3, GroupsAre
  <2>2. \A g : Scaling!InGroup(g)' = Scaling!InGroup(g)
    BY <1>3, GroupsStay
  <2>3. left' = Scaling!InGroup(phase')
    BY <1>3
  <2>4. \A n \in Nodes : Told(n)' <=> Told(n)
    BY <1>1, <2>1, <2>2, <2>3 DEF Told
  <2>5. Applying /\ Applying' /\ left' \subseteq Scaling!InGroup(phase)'
    BY <2>1, <2>2, <2>3 DEF Applying
  <2>6. ~(aborted = TRUE)
    BY <1>3
  <2>7. ASSUME NEW n \in Nodes, NEW c \in Comps PROVE KeepsAt(n, c)'
    <3>1. /\ ~Told(n) => running[n][c] >= opts[n].has[c]
          /\ Told(n) /\ Scaling!Count(opts[n], c) > 0 => running[n][c] > 0 \/ c \in unstarted
          /\ opts[n].has[c] > 0 /\ Scaling!Count(opts[n], c) > 0 => running[n][c] > 0
      BY <2>5, <2>6 DEF KeepInv
    <3> QED
      BY <1>1, <1>3, <2>4, <3>1 DEF KeepsAt
  <2> QED
    BY <1>1, <1>3, <2>5, <2>7, PlanStays
<1> QED
  BY <1>1, <1>2, <1>3

(* Where nothing stops, the last instance stays. *)
LEMMA GrowingStays ==
  ASSUME PassOK, running' \in [Nodes -> [Comps -> Nat]], NEW c \in Comps,
         Scaling!Instances(c) > 0, \A n \in Nodes : running[n][c] > 0 => running'[n][c] > 0
  PROVE  Scaling!Instances(c)' > 0
<1>1. PICK n \in Nodes : running[n][c] > 0
  BY RunsSomewhere
<1>2. PICK r : r = running'
  OBVIOUS
<1>3. PICK f : f = [m \in Nodes |-> r[m][c]]
  OBVIOUS
<1>4. f \in [Nodes -> Nat] /\ f[n] = r[n][c]
  BY <1>2, <1>3
<1>5. Scaling!SumFunction(f) \in Nat /\ f[n] <= Scaling!SumFunction(f)
  BY <1>4, SumNat, ScaleConstants
<1>6. Scaling!Instances(c)' = Scaling!SumFunction(f)
  BY <1>2, <1>3 DEF Scaling!Instances
<1>7. f[n] \in Nat /\ f[n] > 0
  BY <1>1, <1>2, <1>4
<1> QED
  BY <1>5, <1>6, <1>7

LEMMA LateKeeps ==
  ASSUME ScaleInv, KeepInv, NEW n \in Nodes, NEW c \in Comps, Scaling!StartsLate(n, c)
  PROVE  KeepInv' /\ Scaling!RecentStays
<1>0. PassOK /\ phase \in Phases
  BY DEF ScaleInv
<1>1. /\ UNCHANGED <<recent, phase, left, aborted, unstarted>>
      /\ running' \in [Nodes -> [Comps -> Nat]]
      /\ running'[n][c] = running[n][c] + 1
      /\ \A d \in Comps \ {c} : running'[n][d] = running[n][d]
      /\ \A m \in Nodes \ {n} : running'[m] = running[m]
      /\ (Applying /\ opts' = opts) \/ (phase = "plan" /\ Fresh')
  BY <1>0, LateShape
<1>2. ASSUME NEW m \in Nodes, NEW d \in Comps
      PROVE  /\ running'[m][d] >= running[m][d]
             /\ running'[m][d] \in Nat /\ running[m][d] \in Nat
  <2>1. running'[m][d] \in Nat /\ running[m][d] \in Nat
    BY <1>0, <1>1, NumbersAre
  <2>2. CASE m = n /\ d = c
    BY <1>1, <2>1, <2>2
  <2>3. CASE m # n \/ d # c
    BY <1>1, <2>1, <2>3
  <2> QED
    BY <2>1, <2>2, <2>3
<1>3. Scaling!RecentStays
  <2> SUFFICES ASSUME NEW d \in Scaling!Kept, Scaling!Instances(d) > 0
               PROVE  Scaling!Instances(d)' > 0
    BY DEF Scaling!RecentStays
  <2>1. d \in Comps
    BY KeptAre DEF KeepInv
  <2>2. \A m \in Nodes : running[m][d] > 0 => running'[m][d] > 0
    BY <1>2, <2>1
  <2> QED
    BY <1>0, <1>1, <2>1, <2>2, GrowingStays
<1>4. CASE phase = "plan"
  BY <1>1, <1>3, <1>4 DEF KeepInv, Applying
<1>5. CASE Applying /\ opts' = opts
  <2>1. \A g : Scaling!InGroup(g)' = Scaling!InGroup(g)
    BY <1>5, GroupsStay
  <2>2. \A m \in Nodes : Told(m)' <=> Told(m)
    BY <1>1, <2>1 DEF Told
  <2>3. Applying' /\ left' \subseteq Scaling!InGroup(phase)'
    BY <1>1, <1>5, <2>1 DEF Applying, KeepInv
  <2>4. ASSUME NEW m \in Nodes, NEW d \in Comps PROVE KeepsAt(m, d)'
    <3>1. KeepsAt(m, d) /\ (Told(m)' <=> Told(m))
      BY <1>5, <2>2 DEF KeepInv, KeepsAt
    <3>2. Scaling!InGroup(phase)' = Scaling!InGroup(phase)
      BY <1>1, <2>1
    <3>3. /\ running'[m][d] >= running[m][d] /\ opts[m].has[d] \in Nat
          /\ running'[m][d] \in Nat /\ running[m][d] \in Nat
      BY <1>0, <1>2, NumbersAre
    <3>4. running[m][d] >= opts[m].has[d] => running'[m][d] >= opts[m].has[d]
      BY <3>3
    <3>5. running[m][d] > 0 => running'[m][d] > 0
      BY <3>3
    <3> QED
      BY <1>1, <1>5, <3>1, <3>2, <3>4, <3>5 DEF KeepsAt
  <2> QED
    BY <1>1, <1>3, <1>5, <2>3, <2>4, PlanStays
<1> QED
  BY <1>1, <1>4, <1>5

(* A call never takes the last instance of a component in use, but as RecentStays has
   it: the plan has a node to run it, and that node runs it when another is told to
   stop. *)
LEMMA ApplyStays ==
  ASSUME ScaleInv, KeepInv, NEW n \in Nodes, Scaling!Apply(n)
  PROVE  Scaling!RecentStays
<1>0. PassOK
  BY DEF ScaleInv
<1>1. /\ Applying /\ n \in left
      /\ running' \in [Nodes -> [Comps -> Nat]]
      /\ \A m \in Nodes \ {n} : running'[m] = running[m]
      /\ \/ running'[n] = running[n]
         \/ /\ \A c \in DOMAIN opts[n].to : AsTold(n, c)
            /\ \A c \in Comps \ DOMAIN opts[n].to : running'[n][c] = running[n][c]
  BY <1>0, ApplyShape
<1> SUFFICES ASSUME NEW c \in Scaling!Kept, Scaling!Seen(c), Scaling!Instances(c) > 0,
                    c \notin unstarted,
                    ~(/\ phase = "startStop"
                      /\ \E m \in Scaling!InGroup(phase) :
                           running[m][c] = 0 /\ Scaling!Count(opts[m], c) > 0)
             PROVE  Scaling!Instances(c)' > 0
  BY DEF Scaling!RecentStays
<1>2. c \in Comps
  BY KeptAre DEF KeepInv
<1>3. \A m \in Nodes : /\ running[m][c] \in Nat /\ running'[m][c] \in Nat
                       /\ Scaling!Count(opts[m], c) \in Nat /\ opts[m].has[c] \in Nat
  BY <1>0, <1>1, <1>2, NumbersAre
<1>4. /\ left \subseteq Scaling!InGroup(phase)
      /\ \A m \in Nodes : KeepsAt(m, c)
      /\ \E m \in Nodes : Scaling!Count(opts[m], c) > 0
  BY <1>1, <1>2 DEF KeepInv, KeepsAt
<1>5. ASSUME NEW m \in Nodes, running'[m][c] > 0 PROVE Scaling!Instances(c)' > 0
  <2>1. PICK r : r = running'
    OBVIOUS
  <2>2. PICK f : f = [x \in Nodes |-> r[x][c]]
    OBVIOUS
  <2>3. f \in [Nodes -> Nat] /\ f[m] = r[m][c]
    BY <1>1, <1>2, <2>1, <2>2
  <2>4. Scaling!SumFunction(f) \in Nat /\ f[m] <= Scaling!SumFunction(f)
    BY <2>3, SumNat, ScaleConstants
  <2>5. Scaling!Instances(c)' = Scaling!SumFunction(f)
    BY <2>1, <2>2 DEF Scaling!Instances
  <2>6. f[m] \in Nat /\ f[m] > 0
    BY <1>5, <2>1, <2>3
  <2> QED
    BY <2>4, <2>5, <2>6
<1>6. \A m \in Nodes : running[m][c] > 0 /\ Scaling!Count(opts[m], c) > 0 => running'[m][c] > 0
  <2>1. running[n][c] > 0 /\ Scaling!Count(opts[n], c) > 0 => running'[n][c] > 0
    BY <1>1, <1>2, <1>3 DEF AsTold, PairMin
  <2> QED
    BY <1>1, <2>1
<1>7. PICK m \in Nodes : Scaling!Count(opts[m], c) > 0
  BY <1>4
<1>8. CASE running[m][c] > 0
  BY <1>5, <1>6, <1>7, <1>8
<1>9. CASE ~(running[m][c] > 0)
  <2>1. running[m][c] = 0 /\ opts[m].has[c] = 0
    BY <1>3, <1>4, <1>7, <1>9 DEF KeepsAt
  <2>2. m \in Scaling!InGroup("startOnly") \/ m \in Scaling!InGroup("startStop")
    <3>1. ~(Scaling!Count(opts[m], c) <= opts[m].has[c])
      BY <1>3, <1>7, <2>1
    <3> QED
      BY <1>0, <1>2, <1>3, <3>1, GroupIs
  <2>3. ASSUME Told(m), m \notin Scaling!InGroup(phase) PROVE FALSE
    BY <1>4, <1>7, <1>9, <2>3 DEF KeepsAt
  <2>4. CASE phase = "startOnly"
    <3>1. PICK x \in Nodes : opts[x].has[c] > 0
      BY DEF Scaling!Seen
    <3>2. CASE x \in Scaling!InGroup("startOnly")
      <4>1. Scaling!Count(opts[x], c) > 0
        BY <1>0, <1>2, <1>3, <3>1, <3>2, GroupIs
      <4>2. running[x][c] > 0
        BY <1>4, <3>1, <4>1 DEF KeepsAt
      <4> QED
        BY <1>5, <1>6, <4>1, <4>2
    <3>3. CASE x \notin Scaling!InGroup("startOnly")
      <4>1. x # n /\ ~Told(x)
        BY <1>1, <1>4, <2>4, <3>3 DEF Told
      <4>2. running[x][c] > 0
        BY <1>3, <1>4, <3>1, <4>1 DEF KeepsAt
      <4> QED
        BY <1>1, <1>5, <4>1, <4>2
    <3> QED
      BY <3>2, <3>3
  <2>5. CASE phase = "startStop"
    <3>1. m \notin Scaling!InGroup(phase)
      BY <1>7, <2>1, <2>5
    <3>2. Told(m)
      BY <2>2, <2>5, <3>1 DEF Told
    <3> QED
      BY <2>3, <3>1, <3>2
  <2>6. CASE phase = "stopOnly"
    <3>1. m \notin Scaling!InGroup(phase)
      BY <2>2, <2>6, OneGroup
    <3>2. Told(m)
      BY <2>2, <2>6 DEF Told
    <3> QED
      BY <2>3, <3>1, <3>2
  <2> QED
    BY <1>1, <2>4, <2>5, <2>6 DEF Applying
<1> QED
  BY <1>8, <1>9

KeepingInv == part = "autoscale" => KeepInv

LEMMA KeepingStep ==
  ScalingInv /\ KeepingInv /\ [Next]_vars
    => KeepingInv' /\ (part = "autoscale" => Scaling!RecentStays)
<1> SUFFICES ASSUME ScalingInv, KeepingInv, [Next]_vars
             PROVE  KeepingInv' /\ (part = "autoscale" => Scaling!RecentStays)
  OBVIOUS
<1>1. ASSUME UNCHANGED running PROVE Scaling!RecentStays
  <2>1. \A c : Scaling!Instances(c)' = Scaling!Instances(c)
    BY <1>1 DEF Scaling!Instances
  <2> QED
    BY <2>1 DEF Scaling!RecentStays
<1>2. ASSUME UNCHANGED <<part, scaleVars>>
      PROVE  KeepingInv' /\ Scaling!RecentStays
  <2>1. UNCHANGED <<part, running, recent, phase, opts, left, aborted, unstarted>>
    BY <1>2 DEF scaleVars
  <2>2. \A g : Scaling!InGroup(g)' = Scaling!InGroup(g)
    BY <2>1, GroupsStay
  <2>3. /\ Applying' <=> Applying
        /\ \A n : Told(n)' <=> Told(n)
    BY <2>1, <2>2 DEF Told, Applying
  <2>4. ASSUME KeepInv, ~Applying PROVE KeepInv'
    BY <2>1, <2>3, <2>4 DEF KeepInv
  <2>5. ASSUME KeepInv, Applying PROVE KeepInv'
    <3>1. ASSUME NEW n \in Nodes, NEW c \in Comps PROVE KeepsAt(n, c)'
      <4>1. KeepsAt(n, c)
        BY <2>5 DEF KeepInv, KeepsAt
      <4>2. Scaling!InGroup(phase)' = Scaling!InGroup(phase)
        BY <2>1, <2>2
      <4> QED
        BY <2>1, <2>3, <4>1, <4>2 DEF KeepsAt
    <3>2. left' \subseteq Scaling!InGroup(phase)'
      BY <2>1, <2>2, <2>5 DEF KeepInv
    <3> QED
      BY <2>1, <2>3, <2>5, <3>1, <3>2, PlanStays
  <2>6. KeepingInv'
    BY <2>1, <2>4, <2>5 DEF KeepingInv
  <2> QED
    BY <1>1, <2>1, <2>6
<1>3. CASE ScaleOnly /\ Scaling!Next
  <2> SUFFICES ASSUME part = "autoscale" PROVE KeepInv' /\ Scaling!RecentStays
    BY <1>3 DEF KeepingInv, ScaleOnly
  <2>1. ScaleInv /\ PassOK /\ KeepInv
    BY DEF ScalingInv, ScaleInv, KeepingInv
  <2>2. ASSUME NEW c \in Comps, Scaling!ScaleComponent(c) PROVE KeepInv' /\ Scaling!RecentStays
    <3>1. UNCHANGED <<running, recent, phase>> /\ phase = "plan"
      BY <2>1, <2>2, ScaleShape
    <3> QED
      BY <1>1, <2>1, <3>1 DEF KeepInv, Applying
  <2>3. ASSUME NEW n \in Nodes, Scaling!Rebalance(n) PROVE KeepInv' /\ Scaling!RecentStays
    <3>1. UNCHANGED <<running, recent, phase>> /\ phase = "rebalance"
      BY <2>1, <2>3, RebalanceShape
    <3> QED
      BY <1>1, <2>1, <3>1 DEF KeepInv, Applying
  <2>4. ASSUME NEW n \in Nodes, Scaling!Apply(n) PROVE KeepInv' /\ Scaling!RecentStays
    BY <2>1, <2>4, ApplyKeeps, ApplyStays
  <2>5. ASSUME NEW i \in 1..3, Scaling!EndGroup(i) PROVE KeepInv' /\ Scaling!RecentStays
    <3>1. UNCHANGED running
      BY <2>1, <2>5, EndShape
    <3> QED
      BY <1>1, <2>1, <2>5, <3>1, EndKeeps
  <2>6. CASE Scaling!StartRebalance
    <3>1. UNCHANGED <<running, recent>> /\ phase' = "rebalance"
      BY <2>6 DEF Scaling!StartRebalance
    <3> QED
      BY <1>1, <2>1, <3>1 DEF KeepInv, Applying
  <2>7. CASE Scaling!StartApplying
    <3>1. UNCHANGED running
      BY <2>7 DEF Scaling!StartApplying
    <3> QED
      BY <1>1, <2>1, <2>7, <3>1, StartApplyingKeeps
  <2>8. CASE Scaling!LoadChanges
    <3>1. /\ UNCHANGED <<running, phase>> /\ phase = "plan"
          /\ \E c \in Comps : recent' \in {recent \cup ({c} \cap Scaling!Idling), recent \ {c}}
      BY <2>8, Zenon DEF Scaling!LoadChanges, Scaling!Unplanned
    <3>2. recent' \subseteq Comps
      BY <2>1, <3>1 DEF KeepInv
    <3> QED
      BY <1>1, <3>1, <3>2 DEF KeepInv, Applying
  <2> QED
    BY <1>3, <2>1, <2>2, <2>3, <2>4, <2>5, <2>6, <2>7, <2>8, LateKeeps
    DEF Scaling!Next, Scaling!Pass
<1>4. CASE RolloutOnly
  BY <1>2, <1>4 DEF RolloutOnly
<1>5. CASE PlacementOnly
  BY <1>2, <1>5 DEF PlacementOnly
<1>6. CASE UNCHANGED vars
  BY <1>2, <1>6 DEF vars
<1> QED
  BY <1>3, <1>4, <1>5, <1>6 DEF Next

(* A component that has a minimum or was used lately keeps an instance through a pass,
   whatever calls fail at any point of it, but where a node leaves out one it was told
   to start or the group that starts and stops is being told: plans leave it one,
   nodes that only start come first, and a group with a failed call is the last of its
   pass (scale.go:100-115, node_svc.go:546-582). *)
THEOREM RecentComponentsStay == Spec => KeepsRecent
<1>1. Init => KeepingInv
  <2>1. Scaling!Init => recent \subseteq Comps /\ phase = "plan"
    BY DEF Scaling!Init, Scaling!Idling
  <2> QED
    BY <2>1 DEF Init, KeepingInv, KeepInv, Applying
<1>2. ScalingInv /\ KeepingInv /\ [Next]_vars
        => KeepingInv' /\ (part = "autoscale" => Scaling!RecentStays)
  BY KeepingStep
<1>3. ScalingInv /\ KeepingInv /\ [Next]_vars => [part = "autoscale" => Scaling!RecentStays]_vars
  BY <1>2
<1> QED
  BY <1>1, <1>2, <1>3, ScalingAlways, PTL DEF Spec, KeepsRecent
=============================================================================
