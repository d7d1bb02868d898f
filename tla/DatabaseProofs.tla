--------------------------- MODULE DatabaseProofs ---------------------------
(***************************************************************************)
(* Proofs about what is kept in the database: about RoleLock, for any      *)
(* nodes, goroutines, durations and clock skew, and about MaelService, for *)
(* any components, event sources, clients, calls and failures.             *)
(***************************************************************************)
EXTENDS RoleLock, MaelService, FiniteSetTheorems, SequenceTheorems, WellFoundedInduction, TLAPS

(* The variables keep their types (sql_db.go:77-179). *)
THEOREM TypeCorrect == Spec => []TypeOK
<1>1. Init => TypeOK
  BY LockAssumption DEF Init, TypeOK, NoLease
<1>2. TypeOK /\ [Next]_vars => TypeOK'
  <2> SUFFICES ASSUME TypeOK, [Next]_vars PROVE TypeOK'
    OBVIOUS
  <2>0. /\ NodeOf \in [Procs -> Nodes] /\ MaxDur \in Nat /\ MaxTries \in Nat \ {0}
        /\ \A n \in Nodes : Durs[n] \subseteq 1 .. MaxDur
        /\ 0 \in 0 .. MaxDur
    BY LockAssumption
  <2> USE <2>0 DEF TypeOK, Row, NoLease
  <2>r. ASSUME NEW p \in Procs, Retry(p), row' \in Row \cup {None}, clock' = clock
        PROVE  TypeOK'
    <3>1. CASE Return(p)
      BY <2>r, <3>1 DEF Return, Retry
    <3>2. CASE ~Return(p)
      <4>1. /\ tries[p] > 0 /\ tries[p] \in Nat /\ pc' = [pc EXCEPT ![p] = "select"]
            /\ seen' = [seen EXCEPT ![p] = None] /\ now' = [now EXCEPT ![p] = 0]
            /\ tries' = [tries EXCEPT ![p] = tries[p] - 1] /\ UNCHANGED <<dur, lease>>
        BY <2>r, <3>2 DEF Retry
      <4>2. tries[p] - 1 \in Nat
        BY <4>1
      <4> QED
        BY <2>r, <4>1, <4>2
    <3> QED
      BY <3>1, <3>2
  <2>1. ASSUME NEW p \in Procs, Call(p) PROVE TypeOK'
    <3>1. PICK d \in Durs[NodeOf[p]] :
            /\ dur' = [dur EXCEPT ![p] = d]
            /\ lease' = [lease EXCEPT ![NodeOf[p]] = Counted(NodeOf[p], d)]
      BY <2>1 DEF Call
    <3>2. d \in 0 .. MaxDur /\ d \in Nat /\ Counted(NodeOf[p], d) \in Nat \cup {NoLease}
      BY DEF Counted
    <3> QED
      BY <2>1, <3>1, <3>2 DEF Call
  <2>2. ASSUME NEW p \in Procs, Select(p) PROVE TypeOK'
    BY <2>2 DEF Select
  <2>3. ASSUME NEW p \in Procs, ReadClock(p) PROVE TypeOK'
    BY <2>3 DEF ReadClock, Return
  <2>4. ASSUME NEW p \in Procs, Update(p) PROVE TypeOK'
    BY <2>4 DEF Update, Granted, Return, NewRow
  <2>5. ASSUME NEW p \in Procs, UpdateNoRows(p) PROVE TypeOK'
    BY <2>5 DEF UpdateNoRows
  <2>6. ASSUME NEW p \in Procs, Insert(p) PROVE TypeOK'
    BY <2>6 DEF Insert, Granted, Return, NewRow
  <2>7. ASSUME NEW p \in Procs, InsertConflict(p) PROVE TypeOK'
    BY <2>7, <2>r DEF InsertConflict
  <2>8. ASSUME NEW p \in Procs, StatementError(p) PROVE TypeOK'
    BY <2>8 DEF StatementError, Return, NewRow
  <2>9. ASSUME NEW p \in Procs, RetryableError(p) PROVE TypeOK'
    <3>1. row' \in Row \cup {None} /\ clock' = clock /\ Retry(p)
      BY <2>9 DEF RetryableError, NewRow
    <3> QED
      BY <3>1, <2>r
  <2>10. ASSUME NEW n \in Nodes, Release(n) PROVE TypeOK'
    BY <2>10 DEF Release, callVars
  <2>11. ASSUME NEW n \in Nodes, Crash(n) PROVE TypeOK'
    BY <2>11 DEF Crash
  <2>12. ASSUME NEW n \in Nodes, Tick(n) PROVE TypeOK'
    BY <2>12 DEF Tick, callVars
  <2>13. CASE UNCHANGED vars
    BY <2>13 DEF vars
  <2> QED
    BY <2>1, <2>2, <2>3, <2>4, <2>5, <2>6, <2>7, <2>8, <2>9, <2>10, <2>11,
       <2>12, <2>13 DEF Next, Step
<1> QED
  BY <1>1, <1>2, PTL DEF Spec

-----------------------------------------------------------------------------
(* NoLease never passes for a lease. *)
LEMMA NoLeaseNotHeld ==
  ASSUME TypeOK, NEW n \in Nodes, lease[n] = NoLease
  PROVE  ~Holds(n)
BY LockAssumption DEF TypeOK, Holds, NoLease

(* A step that writes p's row gives it to p's node, shortens it by no more
   than the durations differ, and not below what the node counts on. *)
LEMMA WriteSafe ==
  ASSUME IInv, NEW p \in Procs,
         \/ pc[p] = "update" /\ UpdateMatches(p)
         \/ pc[p] = "insert" /\ row = None
  PROVE  /\ NewRow(p) \in Row /\ dur[p] \in Durs[NodeOf[p]]
         /\ NewRow(p).expires <= clock[NodeOf[p]] + dur[p]
         /\ row # None => \E long, short \in Durs[NodeOf[p]] :
              NewRow(p).expires >= row.expires - (long - short)
         /\ Holds(NodeOf[p]) => lease[NodeOf[p]] <= NewRow(p).expires
         /\ \A m \in Nodes \ {NodeOf[p]} : ~Holds(m)
<1> USE LockAssumption DEF IInv, TypeOK, Row, NewRow
<1> DEFINE n == NodeOf[p]
<1>1. NewRow(p) \in Row /\ n \in Nodes
  OBVIOUS
<1>2. dur[p] \in Durs[n] /\ now[p] <= clock[n]
  BY DEF ReadingFresh
<1>3. \A d \in Durs[n] : d \in Nat
  OBVIOUS
<1>4. NewRow(p).expires <= clock[n] + dur[p]
  BY <1>2, <1>3
<1>5. ASSUME row # None
      PROVE  \E long, short \in Durs[n] : NewRow(p).expires >= row.expires - (long - short)
  <2>1. pc[p] = "update" /\ (row.expires < now[p] \/ row.expires = seen[p].expires)
    BY <1>5 DEF UpdateMatches
  <2>2. PICK d \in Durs[n] : seen[p].expires <= now[p] + d
    BY <2>1 DEF ReadingFresh
  <2>3. row.expires \in Nat /\ now[p] \in Nat /\ seen[p].expires \in Nat
    BY <1>5, <2>1 DEF ReadingFresh
  <2>4. NewRow(p).expires >= row.expires - (d - dur[p])
    BY <1>2, <1>3, <2>1, <2>2, <2>3
  <2> QED
    BY <1>2, <2>4
<1>6. ASSUME Holds(n) PROVE lease[n] <= NewRow(p).expires
  <2>1. row # None /\ lease[n] <= row.expires
    BY <1>1, <1>6 DEF HolderOwnsRow
  <2>2. pc[p] = "update"
    BY <2>1
  <2>3. CASE Alone(p)
    BY <2>2, <2>3 DEF CountsOnLess
  <2>4. CASE ~Alone(p)
    <3>1. \A d, e \in Durs[n] : d = e
      BY <2>4 DEF Alone
    <3>2. PICK long, short \in Durs[n] : NewRow(p).expires >= row.expires - (long - short)
      BY <1>5, <2>1
    <3>3. long - short = 0
      BY <1>3, <3>1
    <3>4. row.expires \in Nat /\ NewRow(p).expires \in Nat /\ lease[n] \in Int
      BY <1>1, <2>1 DEF NoLease
    <3> QED
      BY <2>1, <3>2, <3>3, <3>4
  <2> QED
    BY <2>3, <2>4
<1>7. ASSUME NEW m \in Nodes \ {n} PROVE ~Holds(m)
  <2> SUFFICES ASSUME Holds(m) PROVE FALSE
    OBVIOUS
  <2>1. row # None /\ row.node = m /\ lease[m] <= row.expires
    BY DEF HolderOwnsRow
  <2>2. row.expires < now[p]
    BY <2>1 DEF UpdateMatches
  <2>3. now[p] <= clock[m] + Skew
    BY DEF ReadingFresh, ClocksClose
  <2> QED
    BY <2>1, <2>2, <2>3 DEF Holds, NoLease
<1> QED
  BY <1>1, <1>2, <1>4, <1>5, <1>6, <1>7

(* Steps that change neither the row nor the clocks, and grant nothing. *)
LEMMA QuietStep ==
  ASSUME IInv, UNCHANGED <<row, clock>>,
         \A n \in Nodes : lease'[n] <= lease[n], TypeOK'
  PROVE  HolderOwnsRow' /\ RowNotFar' /\ ClocksClose'
<1> USE LockAssumption DEF IInv, TypeOK, NoLease
<1>1. ASSUME NEW n \in Nodes, Holds(n)'
      PROVE  row' # None /\ row'.node = n /\ lease'[n] <= row'.expires
  <2>1. lease[n] \in Int /\ lease'[n] \in Int /\ clock[n] \in Nat /\ lease'[n] <= lease[n]
    OBVIOUS
  <2>2. Holds(n)
    BY <1>1, <2>1 DEF Holds
  <2>3. row # None /\ row.node = n /\ lease[n] <= row.expires /\ row.expires \in Nat
    BY <2>2 DEF HolderOwnsRow, Row
  <2> QED
    BY <2>1, <2>3
<1>2. RowNotFar' /\ ClocksClose'
  BY DEF RowNotFar, ClocksClose
<1> QED
  BY <1>1, <1>2 DEF HolderOwnsRow

(* The call variables of the goroutines other than p stay as they are. *)
OnlyOf(p) ==
  \A q \in Procs \ {p} :
    pc'[q] = pc[q] /\ seen'[q] = seen[q] /\ now'[q] = now[q] /\ dur'[q] = dur[q]

(* p returns, or tries again: its readings are dropped. *)
LEMMA OtherReadings ==
  ASSUME IInv, TypeOK', NEW p \in Procs, clock' = clock, OnlyOf(p),
         pc'[p] \in {"idle", "select"} /\ now'[p] = 0,
         pc'[p] = "select" => pc[p] # "idle" /\ dur'[p] = dur[p]
  PROVE  ReadingFresh'
BY LockAssumption DEF IInv, ReadingFresh, TypeOK, OnlyOf

(* The goroutines alone on their node: only p, or none of p's node, may be
   affected by what p does. *)
LEMMA OthersCount ==
  ASSUME IInv, TypeOK', NEW p \in Procs, clock' = clock, OnlyOf(p),
         \A n \in Nodes \ {NodeOf[p]} : lease'[n] <= lease[n],
         Alone(p) =>
           /\ pc'[p] \in {"select", "decide"} => lease'[NodeOf[p]] <= clock[NodeOf[p]] + dur'[p]
           /\ pc'[p] \in {"update", "insert"} => lease'[NodeOf[p]] <= now'[p] + dur'[p]
  PROVE  CountsOnLess'
<1> USE LockAssumption DEF IInv, TypeOK, NoLease
<1> SUFFICES ASSUME NEW q \in Procs, Alone(q)
    PROVE  /\ pc'[q] \in {"select", "decide"} => lease'[NodeOf[q]] <= clock'[NodeOf[q]] + dur'[q]
           /\ pc'[q] \in {"update", "insert"} => lease'[NodeOf[q]] <= now'[q] + dur'[q]
  BY DEF CountsOnLess, Alone
<1>1. CASE q = p
  BY <1>1
<1>2. CASE q # p
  <2>1. NodeOf[q] \in Nodes \ {NodeOf[p]}
    BY <1>2 DEF Alone
  <2>2. /\ lease'[NodeOf[q]] \in Int /\ lease[NodeOf[q]] \in Int
        /\ lease'[NodeOf[q]] <= lease[NodeOf[q]]
        /\ clock[NodeOf[q]] \in Nat /\ dur[q] \in Nat /\ now[q] \in Nat
    BY <2>1
  <2>3. pc'[q] = pc[q] /\ now'[q] = now[q] /\ dur'[q] = dur[q]
    BY <1>2 DEF OnlyOf
  <2>4. /\ pc[q] \in {"select", "decide"} => lease[NodeOf[q]] <= clock[NodeOf[q]] + dur[q]
        /\ pc[q] \in {"update", "insert"} => lease[NodeOf[q]] <= now[q] + dur[q]
    BY DEF CountsOnLess
  <2> QED
    BY <2>2, <2>3, <2>4
<1> QED
  BY <1>1, <1>2

(* p writes its row, with or without learning of it. *)
LEMMA WriteStep ==
  ASSUME IInv, TypeOK', NEW p \in Procs,
         \/ pc[p] = "update" /\ UpdateMatches(p)
         \/ pc[p] = "insert" /\ row = None,
         row' = NewRow(p), clock' = clock,
         lease' \in {lease, [lease EXCEPT ![NodeOf[p]] = now[p] + dur[p]]}
  PROVE  HolderOwnsRow' /\ RowNotFar' /\ ClocksClose'
<1> USE LockAssumption
<1>1. /\ NewRow(p) \in Row /\ dur[p] \in Durs[NodeOf[p]]
      /\ NewRow(p).expires <= clock[NodeOf[p]] + dur[p]
      /\ Holds(NodeOf[p]) => lease[NodeOf[p]] <= NewRow(p).expires
      /\ \A m \in Nodes \ {NodeOf[p]} : ~Holds(m)
  BY WriteSafe
<1>2. ASSUME NEW n \in Nodes, Holds(n)'
      PROVE  row' # None /\ row'.node = n /\ lease'[n] <= row'.expires
  <2>1. n = NodeOf[p]
    BY <1>1, <1>2 DEF Holds, IInv, TypeOK
  <2>2. row' # None /\ row'.node = n
    BY <1>1, <2>1 DEF NewRow, Row
  <2>3. CASE lease' = lease
    <3>1. Holds(n)
      BY <1>2, <2>3 DEF Holds
    <3> QED
      BY <1>1, <2>1, <2>2, <2>3, <3>1
  <2>4. CASE lease' = [lease EXCEPT ![NodeOf[p]] = now[p] + dur[p]]
    BY <2>1, <2>2, <2>4 DEF IInv, TypeOK, NewRow
  <2> QED
    BY <2>3, <2>4
<1>3. RowNotFar'
  <2>1. row' # None /\ row'.node = NodeOf[p] /\ row'.expires <= clock'[NodeOf[p]] + dur[p]
    BY <1>1 DEF NewRow, Row
  <2> QED
    BY <1>1, <2>1 DEF RowNotFar
<1>4. ClocksClose'
  BY DEF IInv, ClocksClose
<1> QED
  BY <1>2, <1>3, <1>4 DEF HolderOwnsRow

(* The inductive invariant (sql_db.go:77-179). *)
THEOREM Inductive == Spec => []IInv
<1>1. Init => IInv
  BY LockAssumption
  DEF Init, IInv, TypeOK, HolderOwnsRow, RowNotFar, ReadingFresh, ClocksClose,
      CountsOnLess, Holds, NoLease
<1>2. IInv /\ TypeOK' /\ [Next]_vars => IInv'
  <2> SUFFICES ASSUME IInv, TypeOK', [Next]_vars PROVE IInv'
    OBVIOUS
  <2> USE LockAssumption
  <2>0. \A n \in Nodes : lease[n] \in Int /\ clock[n] \in Nat
    BY DEF IInv, TypeOK, NoLease
  <2>1. ASSUME NEW p \in Procs, Call(p) PROVE IInv'
    <3>1. PICK d \in Durs[NodeOf[p]] :
            /\ dur' = [dur EXCEPT ![p] = d]
            /\ lease' = [lease EXCEPT ![NodeOf[p]] = Counted(NodeOf[p], d)]
      BY <2>1 DEF Call
    <3>2. d \in Nat /\ NodeOf[p] \in Nodes
      OBVIOUS
    <3>3. /\ \A n \in Nodes : lease'[n] <= lease[n]
          /\ lease'[NodeOf[p]] <= clock[NodeOf[p]] + d
      BY <2>0, <3>1, <3>2 DEF Counted, IInv, TypeOK
    <3>4. OnlyOf(p) /\ pc'[p] = "select" /\ dur'[p] = d /\ UNCHANGED <<row, clock, seen, now>>
      BY <2>1, <3>1 DEF Call, OnlyOf, IInv, TypeOK
    <3>5. ReadingFresh'
      BY <3>4 DEF IInv, ReadingFresh, OnlyOf
    <3>6. CountsOnLess'
      BY <3>3, <3>4, OthersCount
    <3> QED
      BY <3>3, <3>4, <3>5, <3>6, QuietStep DEF IInv
  <2>2. ASSUME NEW p \in Procs, Select(p) PROVE IInv'
    <3>1. OnlyOf(p) /\ UNCHANGED <<row, clock, now, dur, lease>> /\ pc'[p] = "decide"
      BY <2>2 DEF Select, OnlyOf, IInv, TypeOK
    <3>2. ReadingFresh'
      BY <2>2 DEF Select, IInv, ReadingFresh, RowNotFar, TypeOK
    <3>3. CountsOnLess'
      BY <2>0, <2>2, <3>1, OthersCount DEF Select, IInv, CountsOnLess
    <3> QED
      BY <2>0, <3>1, <3>2, <3>3, QuietStep DEF IInv
  <2>3. ASSUME NEW p \in Procs, ReadClock(p) PROVE IInv'
    <3>0. OnlyOf(p) /\ UNCHANGED <<row, clock, lease>>
      BY <2>3 DEF ReadClock, Return, OnlyOf, IInv, TypeOK
    <3>1. CASE HeldByOther(p, clock[NodeOf[p]]) /\ Return(p)
      <4>1. pc'[p] = "idle" /\ now'[p] = 0
        BY <3>1 DEF Return, IInv, TypeOK
      <4>2. ReadingFresh'
        BY <3>0, <4>1, OtherReadings
      <4>3. CountsOnLess'
        BY <2>0, <3>0, <4>1, OthersCount
      <4> QED
        BY <2>0, <3>0, <4>2, <4>3, QuietStep DEF IInv
    <3>2. CASE ~HeldByOther(p, clock[NodeOf[p]]) /\ ~ (HeldByOther(p, clock[NodeOf[p]]) /\ Return(p))
      <4>1. /\ pc[p] = "decide" /\ now'[p] = clock[NodeOf[p]]
            /\ pc'[p] = (IF seen[p] = None THEN "insert" ELSE "update")
            /\ UNCHANGED <<seen, dur>>
        BY <2>3, <3>2 DEF ReadClock, IInv, TypeOK
      <4>2. dur[p] \in Durs[NodeOf[p]] /\ dur[p] \in Nat
        BY <4>1 DEF IInv, ReadingFresh
      <4>3. seen[p] # None => \E d \in Durs[NodeOf[p]] : seen[p].expires <= clock[NodeOf[p]] + d
        <5> SUFFICES ASSUME seen[p] # None
                     PROVE  \E d \in Durs[NodeOf[p]] : seen[p].expires <= clock[NodeOf[p]] + d
          OBVIOUS
        <5>1. CASE seen[p].node = NodeOf[p]
          BY <4>1, <5>1 DEF IInv, ReadingFresh
        <5>2. CASE seen[p].node # NodeOf[p]
          <6>1. ~ (seen[p].expires > clock[NodeOf[p]])
            BY <3>2, <5>2 DEF HeldByOther
          <6>2. seen[p].expires \in Nat /\ clock[NodeOf[p]] \in Nat
            BY DEF IInv, TypeOK, Row
          <6>3. seen[p].expires <= clock[NodeOf[p]] + dur[p]
            BY <4>2, <6>1, <6>2
          <6> QED
            BY <4>2, <6>3
        <5> QED
          BY <5>1, <5>2
      <4>4. ReadingFresh'
        BY <3>0, <4>1, <4>3, <4>2 DEF IInv, ReadingFresh, TypeOK, OnlyOf
      <4>5. CountsOnLess'
        BY <2>0, <3>0, <4>1, OthersCount DEF IInv, CountsOnLess
      <4> QED
        BY <2>0, <3>0, <4>4, <4>5, QuietStep DEF IInv
    <3> QED
      BY <2>3, <3>1, <3>2 DEF ReadClock
  <2>4. ASSUME NEW p \in Procs, Update(p) \/ Insert(p) PROVE IInv'
    <3>1. /\ \/ pc[p] = "update" /\ UpdateMatches(p)
             \/ pc[p] = "insert" /\ row = None
          /\ row' = NewRow(p) /\ clock' = clock
          /\ lease' = [lease EXCEPT ![NodeOf[p]] = now[p] + dur[p]] /\ Return(p)
      BY <2>4 DEF Update, Insert, Granted
    <3>2. OnlyOf(p) /\ pc'[p] = "idle" /\ now'[p] = 0
      BY <3>1 DEF Return, OnlyOf, IInv, TypeOK
    <3>3. ReadingFresh'
      BY <3>1, <3>2, OtherReadings
    <3>4. CountsOnLess'
      <4>1. \A n \in Nodes \ {NodeOf[p]} : lease'[n] <= lease[n]
        BY <2>0, <3>1 DEF IInv, TypeOK
      <4> QED
        BY <3>1, <3>2, <4>1, OthersCount
    <3> QED
      BY <3>1, <3>3, <3>4, WriteStep DEF IInv
  <2>5. ASSUME NEW p \in Procs, UpdateNoRows(p) PROVE IInv'
    <3>1. OnlyOf(p) /\ UNCHANGED <<row, clock, now, dur, lease>>
          /\ pc[p] = "update" /\ pc'[p] = "insert"
      BY <2>5 DEF UpdateNoRows, OnlyOf, IInv, TypeOK
    <3>2. ReadingFresh'
      BY <3>1 DEF IInv, ReadingFresh, OnlyOf
    <3>3. CountsOnLess'
      BY <2>0, <3>1, OthersCount DEF IInv, CountsOnLess
    <3> QED
      BY <2>0, <3>1, <3>2, <3>3, QuietStep DEF IInv
  <2>6. ASSUME NEW p \in Procs, InsertConflict(p) \/ StatementError(p) \/ RetryableError(p)
        PROVE  IInv'
    <3>1. /\ OnlyOf(p) /\ UNCHANGED <<clock, lease>> /\ now'[p] = 0
          /\ \/ pc'[p] = "idle"
             \/ pc'[p] = "select" /\ pc[p] \in {"update", "insert"} /\ dur'[p] = dur[p]
      BY <2>6 DEF InsertConflict, StatementError, RetryableError, Retry, Return, OnlyOf,
                  IInv, TypeOK
    <3>2. ReadingFresh'
      BY <3>1, OtherReadings
    <3>3. CountsOnLess'
      <4>1. now[p] <= clock[NodeOf[p]] /\ now[p] \in Nat /\ dur[p] \in Nat
        BY DEF IInv, ReadingFresh, TypeOK
      <4> QED
        BY <2>0, <3>1, <4>1, OthersCount DEF IInv, CountsOnLess
    <3>4. CASE UNCHANGED row
      BY <2>0, <3>1, <3>2, <3>3, <3>4, QuietStep DEF IInv
    <3>5. CASE /\ \/ pc[p] = "update" /\ UpdateMatches(p)
                  \/ pc[p] = "insert" /\ row = None
               /\ row' = NewRow(p)
      BY <3>1, <3>2, <3>3, <3>5, WriteStep DEF IInv
    <3> QED
      BY <2>6, <3>4, <3>5 DEF InsertConflict, StatementError, RetryableError
  <2>7. ASSUME NEW n \in Nodes, Release(n) PROVE IInv'
    <3>0. lease' = [lease EXCEPT ![n] = NoLease] /\ UNCHANGED <<clock, pc, seen, now, tries, dur>>
      BY <2>7 DEF Release, callVars
    <3>1. ReadingFresh' /\ ClocksClose'
      BY <3>0 DEF IInv, ReadingFresh, ClocksClose
    <3>2. RowNotFar'
      BY <2>7 DEF Release, IInv, RowNotFar
    <3>3. HolderOwnsRow'
      BY <2>7 DEF Release, IInv, HolderOwnsRow, Holds, TypeOK, NoLease
    <3>4. CountsOnLess'
      BY <2>0, <3>0 DEF IInv, CountsOnLess, TypeOK, NoLease, Alone
    <3> QED
      BY <3>1, <3>2, <3>3, <3>4 DEF IInv
  <2>8. ASSUME NEW n \in Nodes, Crash(n) PROVE IInv'
    <3>0. \A m \in Nodes : lease'[m] <= lease[m]
      BY <2>0, <2>8 DEF Crash, IInv, TypeOK, NoLease
    <3>1. ReadingFresh'
      BY <2>8 DEF Crash, IInv, ReadingFresh, TypeOK
    <3>2. CountsOnLess'
      BY <2>0, <2>8 DEF Crash, IInv, CountsOnLess, TypeOK, NoLease, Alone
    <3> QED
      BY <2>8, <3>0, <3>1, <3>2, QuietStep DEF Crash, IInv
  <2>9. ASSUME NEW n \in Nodes, Tick(n) PROVE IInv'
    <3>1. \A m \in Nodes : clock'[m] \in Nat /\ clock[m] <= clock'[m]
      BY <2>9 DEF Tick, IInv, TypeOK
    <3>2. ReadingFresh'
      <4> SUFFICES ASSUME NEW p \in Procs
          PROVE  /\ now[p] <= clock'[NodeOf[p]]
                 /\ pc[p] = "decide" /\ seen[p] # None /\ seen[p].node = NodeOf[p]
                    => \E d \in Durs[NodeOf[p]] : seen[p].expires <= clock'[NodeOf[p]] + d
        BY <2>9 DEF Tick, callVars, IInv, ReadingFresh
      <4>1. NodeOf[p] \in Nodes /\ now[p] \in Nat
        BY DEF IInv, TypeOK
      <4>2. now[p] <= clock'[NodeOf[p]]
        BY <2>0, <3>1, <4>1 DEF IInv, ReadingFresh
      <4>3. ASSUME pc[p] = "decide", seen[p] # None, seen[p].node = NodeOf[p]
            PROVE  \E d \in Durs[NodeOf[p]] : seen[p].expires <= clock'[NodeOf[p]] + d
        <5>1. PICK d \in Durs[NodeOf[p]] : seen[p].expires <= clock[NodeOf[p]] + d
          BY <4>3 DEF IInv, ReadingFresh
        <5>2. d \in Nat /\ seen[p].expires \in Nat
          BY <4>1, <4>3 DEF IInv, TypeOK, Row
        <5>3. seen[p].expires <= clock'[NodeOf[p]] + d
          BY <2>0, <3>1, <4>1, <5>1, <5>2
        <5> QED
          BY <5>3
      <4> QED
        BY <4>2, <4>3
    <3>3. RowNotFar'
      <4> SUFFICES ASSUME row # None
                   PROVE  \E d \in Durs[row.node] : row.expires <= clock'[row.node] + d
        BY <2>9 DEF Tick, RowNotFar
      <4>1. PICK d \in Durs[row.node] : row.expires <= clock[row.node] + d
        BY DEF IInv, RowNotFar
      <4>2. row.node \in Nodes /\ row.expires \in Nat
        BY DEF IInv, TypeOK, Row
      <4>3. d \in Nat
        BY <4>2
      <4>4. row.expires <= clock'[row.node] + d
        BY <2>0, <3>1, <4>1, <4>2, <4>3
      <4> QED
        BY <4>4
    <3>4. ClocksClose'
      BY <2>9 DEF Tick, IInv, ClocksClose, TypeOK
    <3>5. HolderOwnsRow'
      BY <2>9, <3>1 DEF Tick, IInv, HolderOwnsRow, Holds, TypeOK, NoLease
    <3>6. CountsOnLess'
      <4> SUFFICES ASSUME NEW p \in Procs, Alone(p)
          PROVE  /\ pc[p] \in {"select", "decide"} => lease[NodeOf[p]] <= clock'[NodeOf[p]] + dur[p]
                 /\ pc[p] \in {"update", "insert"} => lease[NodeOf[p]] <= now[p] + dur[p]
        BY <2>9 DEF Tick, callVars, CountsOnLess, Alone
      <4>1. /\ pc[p] \in {"select", "decide"} => lease[NodeOf[p]] <= clock[NodeOf[p]] + dur[p]
            /\ pc[p] \in {"update", "insert"} => lease[NodeOf[p]] <= now[p] + dur[p]
        BY DEF IInv, CountsOnLess
      <4>2. NodeOf[p] \in Nodes /\ dur[p] \in Nat
        BY DEF IInv, TypeOK
      <4> QED
        BY <2>0, <3>1, <4>1, <4>2
    <3> QED
      BY <3>2, <3>3, <3>4, <3>5, <3>6 DEF IInv
  <2>10. CASE UNCHANGED vars
    BY <2>10
    DEF vars, IInv, TypeOK, HolderOwnsRow, Holds, RowNotFar, ReadingFresh, CountsOnLess,
        ClocksClose, Alone
  <2> QED
    BY <2>1, <2>2, <2>3, <2>4, <2>5, <2>6, <2>7, <2>8, <2>9, <2>10 DEF Next, Step
<1> QED
  BY <1>1, <1>2, TypeCorrect, PTL DEF Spec

(* At most one node at a time can act on the role (sql_db.go:77-179). *)
THEOREM Exclusive == Spec => []MutualExclusion
<1>1. IInv => MutualExclusion
  BY DEF IInv, HolderOwnsRow, MutualExclusion
<1> QED
  BY <1>1, Inductive, PTL

(* What one step does to the row: nothing, a release, or a write of p's row. *)
LEMMA RowSteps ==
  ASSUME [Next]_vars
  PROVE  \/ UNCHANGED row
         \/ row' = None
         \/ \E p \in Procs : /\ \/ pc[p] = "update" /\ UpdateMatches(p)
                                \/ pc[p] = "insert" /\ row = None
                             /\ row' = NewRow(p)
BY DEF Next, Step, vars, Call, Select, ReadClock, Update, UpdateNoRows, Insert,
       InsertConflict, StatementError, RetryableError, Release, Crash, Tick

(* No write shortens the row by more than two of its new owner's durations
   differ (sql_db.go:116-133). *)
THEOREM RenewalsKeepTime == Spec => RenewalKeepsTime
<1>1. IInv /\ [Next]_vars
        => [row # None /\ row' # None =>
              \E long, short \in Durs[row'.node] :
                row'.expires >= row.expires - (long - short)]_row
  <2> SUFFICES ASSUME IInv, [Next]_vars, row # None, row' # None, row' # row
               PROVE  \E long, short \in Durs[row'.node] :
                        row'.expires >= row.expires - (long - short)
    OBVIOUS
  <2>1. PICK p \in Procs : /\ \/ pc[p] = "update" /\ UpdateMatches(p)
                              \/ pc[p] = "insert" /\ row = None
                           /\ row' = NewRow(p)
    BY RowSteps
  <2>2. row'.node = NodeOf[p] /\ row'.expires = NewRow(p).expires
    BY <2>1 DEF NewRow
  <2> QED
    BY <2>1, <2>2, WriteSafe
<1> QED
  BY <1>1, Inductive, PTL DEF Spec, RenewalKeepsTime

(* A grant in RoleLock is a grant of the abstract lease. *)
LEMMA GrantMaps ==
  ASSUME IInv, NEW p \in Procs, UNCHANGED clock,
         \/ pc[p] = "update" /\ UpdateMatches(p)
         \/ pc[p] = "insert" /\ row = None,
         lease' = [lease EXCEPT ![NodeOf[p]] = now[p] + dur[p]]
  PROVE  L!Grant(NodeOf[p])
<1> USE LockAssumption
<1>1. \A m \in Nodes \ {NodeOf[p]} : ~L!Holds(m)
  BY WriteSafe DEF Holds, L!Holds
<1>2. now[p] + dur[p] \in 0 .. clock[NodeOf[p]] + MaxDur
  BY DEF IInv, TypeOK, ReadingFresh
<1> QED
  BY <1>1, <1>2 DEF L!Grant

(* A call for a shorter time gives up a part of the lease. *)
LEMMA CallMaps ==
  ASSUME IInv, NEW p \in Procs, Call(p)
  PROVE  L!Shorten(NodeOf[p]) \/ UNCHANGED <<clock, lease>>
<1> USE LockAssumption
<1>1. PICK d \in Durs[NodeOf[p]] : lease' = [lease EXCEPT ![NodeOf[p]] = Counted(NodeOf[p], d)]
  BY DEF Call
<1>2. /\ clock' = clock /\ d \in Nat /\ NodeOf[p] \in Nodes
      /\ lease \in [Nodes -> Nat \cup {NoLease}] /\ clock[NodeOf[p]] \in Nat
  <2>1. clock' = clock
    BY DEF Call
  <2>2. NodeOf[p] \in Nodes /\ Durs[NodeOf[p]] \subseteq 1 .. MaxDur /\ MaxDur \in Nat
    OBVIOUS
  <2>3. d \in Nat
    BY <2>2
  <2> QED
    BY <2>1, <2>2, <2>3 DEF IInv, TypeOK
<1>3. CASE lease[NodeOf[p]] > clock[NodeOf[p]] + d
  <2>1. clock[NodeOf[p]] + d \in 0 .. lease[NodeOf[p]]
    BY <1>2, <1>3 DEF NoLease
  <2> QED
    BY <1>1, <1>2, <1>3, <2>1 DEF Counted, L!Shorten
<1>4. CASE ~ (lease[NodeOf[p]] > clock[NodeOf[p]] + d)
  BY <1>1, <1>2, <1>4 DEF Counted
<1> QED
  BY <1>3, <1>4

(* The table, the two statements and the retries implement a lease
   (sql_db.go:77-179 against the contract of db.go:22-24). *)
THEOREM Implements == Spec => ImplementsLease
<1>1. Init => L!Init
  BY DEF Init, L!Init, NoLease, L!NoLease
<1>2. IInv /\ [Next]_vars => [L!Next]_(L!vars)
  <2> SUFFICES ASSUME IInv, [Next]_vars PROVE L!Next \/ UNCHANGED <<clock, lease>>
    BY DEF L!vars
  <2> USE LockAssumption DEF L!Next
  <2>1. ASSUME NEW p \in Procs,
               Select(p) \/ ReadClock(p) \/ UpdateNoRows(p)
               \/ InsertConflict(p) \/ StatementError(p) \/ RetryableError(p)
        PROVE  UNCHANGED <<clock, lease>>
    BY <2>1 DEF Select, ReadClock, UpdateNoRows, InsertConflict,
                StatementError, RetryableError, Retry
  <2>2. ASSUME NEW p \in Procs, Update(p) \/ Insert(p) PROVE L!Next
    BY <2>2, GrantMaps DEF Update, Insert, Granted
  <2>3. ASSUME NEW n \in Nodes, Release(n) \/ Crash(n) PROVE L!Next
    BY <2>3 DEF Release, Crash, L!Drop, NoLease, L!NoLease
  <2>4. ASSUME NEW n \in Nodes, Tick(n) PROVE L!Next
    BY <2>4 DEF Tick, L!Tick
  <2>5. ASSUME NEW p \in Procs, Call(p) PROVE L!Next \/ UNCHANGED <<clock, lease>>
    BY <2>5, CallMaps
  <2>6. CASE UNCHANGED vars
    BY <2>6 DEF vars
  <2> QED
    BY <2>1, <2>2, <2>3, <2>4, <2>5, <2>6 DEF Next, Step
<1> QED
  BY <1>1, <1>2, Inductive, PTL DEF Spec, ImplementsLease, L!Spec

-----------------------------------------------------------------------------
(* The service.  The lists of statements are built by folds, which are     *)
(* functions on numbers here.                                              *)

(* Induction over the natural numbers, for sets. *)
LEMMA SetInduction ==
  ASSUME NEW T \in SUBSET Nat, 0 \in T, \A m \in T : m + 1 \in T
  PROVE  T = Nat
<1> SUFFICES ASSUME Nat \ T # {} PROVE FALSE
  OBVIOUS
<1>1. PICK x \in Nat \ T : \A y \in Nat \ T : ~ (<<y, x>> \in OpToRel(<, Nat))
  BY NatLessThanWellFounded, WFMin
<1>2. x - 1 \in T
  <2>1. x - 1 \in Nat /\ x - 1 < x
    OBVIOUS
  <2> QED
    BY <1>1, <2>1 DEF OpToRel
<1> QED
  BY <1>2

-----------------------------------------------------------------------------
(* Lists of statements.                                                    *)

Joined(ss, i, f) == IF i = 1 THEN ss[1] ELSE f[i - 1] \o ss[i]
IsJoin(f, m, ss) == f = [i \in 1 .. m |-> Joined(ss, i, f)]

(* The sequences of ss are joined one after the other. *)
LEMMA FlattenIs ==
  ASSUME NEW ss, Len(ss) \in Nat, Len(ss) # 0
  PROVE  \E f : IsJoin(f, Len(ss), ss) /\ FlattenSeq(ss) = f[Len(ss)]
<1> DEFINE T == {m \in Nat : \E f : IsJoin(f, m, ss)}
<1>1. 0 \in T
  <2>1. IsJoin([i \in 1 .. 0 |-> 0], 0, ss)
    BY DEF IsJoin
  <2> QED
    BY <2>1
<1>2. ASSUME NEW m \in T PROVE m + 1 \in T
  <2>1. PICK g : IsJoin(g, m, ss)
    OBVIOUS
  <2> DEFINE f == [i \in 1 .. m + 1 |->
                     IF i = m + 1 THEN Joined(ss, m + 1, g) ELSE g[i]]
             h == [i \in 1 .. m + 1 |-> Joined(ss, i, f)]
  <2>2. ASSUME NEW i \in 1 .. m + 1 PROVE f[i] = h[i]
    <3>0. i - 1 < i /\ (i # 1 => i - 1 \in 1 .. m)
      OBVIOUS
    <3>1. CASE i = m + 1
      <4>1. f[i] = Joined(ss, i, g) /\ (i # 1 => f[i - 1] = g[i - 1])
        BY <3>1, <3>0
      <4> QED
        BY <4>1 DEF Joined
    <3>2. CASE i \in 1 .. m
      <4>1. f[i] = g[i] /\ (i # 1 => f[i - 1] = g[i - 1])
        BY <3>2, <3>0
      <4>2. g[i] = Joined(ss, i, g)
        BY <2>1, <3>2 DEF IsJoin
      <4>3. h[i] = Joined(ss, i, f)
        OBVIOUS
      <4> QED
        BY <4>1, <4>2, <4>3 DEF Joined
    <3> QED
      BY <3>1, <3>2
  <2>3. f = h
    <3> HIDE DEF f
    <3>1. DOMAIN f = 1 .. m + 1 /\ f = [i \in 1 .. m + 1 |-> f[i]]
      BY DEF f
    <3> QED
      BY <2>2, <3>1
  <2>4. IsJoin(f, m + 1, ss)
    BY <2>3 DEF IsJoin
  <2> QED
    BY <2>4
<1>3. \E f : IsJoin(f, Len(ss), ss)
  <2> HIDE DEF T
  <2>1. T \in SUBSET Nat
    BY DEF T
  <2>2. T = Nat
    BY <1>1, <1>2, <2>1, SetInduction
  <2> QED
    BY <2>2 DEF T
<1> DEFINE join == CHOOSE flatten : flatten = [i \in 1 .. Len(ss) |->
                     IF i = 1 THEN ss[i] ELSE flatten[i - 1] \o ss[i]]
<1>4. \E f : f = [i \in 1 .. Len(ss) |-> IF i = 1 THEN ss[i] ELSE f[i - 1] \o ss[i]]
  <2>1. PICK f : IsJoin(f, Len(ss), ss)
    BY <1>3
  <2>2. ASSUME NEW i \in 1 .. Len(ss)
        PROVE  Joined(ss, i, f) = IF i = 1 THEN ss[i] ELSE f[i - 1] \o ss[i]
    BY DEF Joined
  <2>3. f = [i \in 1 .. Len(ss) |-> IF i = 1 THEN ss[i] ELSE f[i - 1] \o ss[i]]
    BY <2>1, <2>2, Zenon DEF IsJoin
  <2> QED
    BY <2>3
<1>5. join = [i \in 1 .. Len(ss) |-> IF i = 1 THEN ss[i] ELSE join[i - 1] \o ss[i]]
  BY <1>4, Zenon
<1>6. IsJoin(join, Len(ss), ss)
  <2> HIDE DEF join
  <2>2. ASSUME NEW i \in 1 .. Len(ss)
        PROVE  Joined(ss, i, join) = IF i = 1 THEN ss[i] ELSE join[i - 1] \o ss[i]
    BY DEF Joined
  <2> QED
    BY <1>5, <2>2, Zenon DEF IsJoin
<1>7. FlattenSeq(ss) = join[Len(ss)]
  BY Zenon DEF FlattenSeq
<1> QED
  BY <1>6, <1>7

(* What joining returns: each element with the one before it in its sequence. *)
JoinedOf(r, ss, m, S) ==
  /\ r \in Seq(S)
  /\ \A i \in 1 .. Len(r) : \E p \in 1 .. m : \E q \in 1 .. Len(ss[p]) :
       r[i] = ss[p][q] /\ (q > 1 => i > 1 /\ r[i - 1] = ss[p][q - 1])
  /\ \A p \in 1 .. m : \A q \in 1 .. Len(ss[p]) : \E i \in 1 .. Len(r) : r[i] = ss[p][q]

LEMMA JoinStep ==
  ASSUME NEW S, NEW ss, NEW m \in Nat \ {0}, NEW r, JoinedOf(r, ss, m, S), ss[m + 1] \in Seq(S)
  PROVE  JoinedOf(r \o ss[m + 1], ss, m + 1, S)
<1> DEFINE b == ss[m + 1]
           c == r \o ss[m + 1]
<1>0. b = ss[m + 1] /\ c = r \o b
  OBVIOUS
<1> HIDE DEF b, c
<1>1. /\ r \in Seq(S) /\ b \in Seq(S) /\ Len(r) \in Nat /\ Len(b) \in Nat
  BY <1>0, LenProperties DEF JoinedOf
<1>2. /\ c \in Seq(S) /\ Len(c) = Len(r) + Len(b)
      /\ \A i \in 1 .. Len(r) + Len(b) : c[i] = IF i <= Len(r) THEN r[i] ELSE b[i - Len(r)]
  BY <1>0, <1>1, ConcatProperties
<1>3. ASSUME NEW i \in 1 .. Len(c)
      PROVE  \E p \in 1 .. m + 1 : \E q \in 1 .. Len(ss[p]) :
               c[i] = ss[p][q] /\ (q > 1 => i > 1 /\ c[i - 1] = ss[p][q - 1])
  <2>1. CASE i <= Len(r)
    <3>1. i \in 1 .. Len(r) /\ c[i] = r[i] /\ (i > 1 => c[i - 1] = r[i - 1])
      <4>1. i \in 1 .. Len(r) + Len(b) /\ (i > 1 => i - 1 \in 1 .. Len(r) + Len(b) /\ i - 1 <= Len(r))
        BY <1>1, <1>2, <2>1
      <4> QED
        BY <1>1, <1>2, <2>1, <4>1
    <3>2. PICK p \in 1 .. m : \E q \in 1 .. Len(ss[p]) :
            r[i] = ss[p][q] /\ (q > 1 => i > 1 /\ r[i - 1] = ss[p][q - 1])
      BY <3>1 DEF JoinedOf
    <3>3. p \in 1 .. m + 1
      OBVIOUS
    <3> QED
      BY <3>1, <3>2, <3>3
  <2>2. CASE i > Len(r)
    <3> DEFINE q == i - Len(r)
    <3>1. q \in 1 .. Len(b) /\ c[i] = b[q]
      BY <1>1, <1>2, <2>2
    <3>2. q > 1 => i > 1 /\ c[i - 1] = b[q - 1]
      <4>1. q > 1 => /\ i > 1 /\ i - 1 \in 1 .. Len(r) + Len(b) /\ ~ (i - 1 <= Len(r))
                     /\ (i - 1) - Len(r) = q - 1
        BY <1>1, <1>2, <2>2
      <4> QED
        BY <1>2, <4>1
    <3>3. m + 1 \in 1 .. m + 1
      OBVIOUS
    <3> HIDE DEF q
    <3> QED
      BY <1>0, <3>1, <3>2, <3>3
  <2> QED
    BY <1>1, <1>2, <2>1, <2>2
<1>4. ASSUME NEW p \in 1 .. m + 1, NEW q \in 1 .. Len(ss[p])
      PROVE  \E i \in 1 .. Len(c) : c[i] = ss[p][q]
  <2>1. CASE p \in 1 .. m
    <3>1. PICK i \in 1 .. Len(r) : r[i] = ss[p][q]
      BY <2>1 DEF JoinedOf
    <3>2. i \in 1 .. Len(r) + Len(b) /\ i <= Len(r)
      BY <1>1
    <3>3. i \in 1 .. Len(c) /\ c[i] = r[i]
      BY <1>2, <3>2
    <3> QED
      BY <3>1, <3>3
  <2>2. CASE p = m + 1
    <3>0. q \in 1 .. Len(b)
      BY <1>0, <2>2
    <3>1. /\ Len(r) + q \in 1 .. Len(r) + Len(b) /\ ~ (Len(r) + q <= Len(r))
          /\ (Len(r) + q) - Len(r) = q
      BY <1>1, <3>0
    <3>2. c[Len(r) + q] = b[q]
      BY <1>2, <3>1
    <3> QED
      BY <1>0, <1>2, <2>2, <3>1, <3>2
  <2> QED
    BY <2>1, <2>2
<1>5. JoinedOf(c, ss, m + 1, S)
  <2>1. \A i \in 1 .. Len(c) : \E p \in 1 .. m + 1 : \E q \in 1 .. Len(ss[p]) :
          c[i] = ss[p][q] /\ (q > 1 => i > 1 /\ c[i - 1] = ss[p][q - 1])
    BY <1>3
  <2>2. \A p \in 1 .. m + 1 : \A q \in 1 .. Len(ss[p]) : \E i \in 1 .. Len(c) : c[i] = ss[p][q]
    BY <1>4
  <2> QED
    BY <1>2, <2>1, <2>2, Zenon DEF JoinedOf
<1> QED
  BY <1>0, <1>5

LEMMA FlattenReturns ==
  ASSUME NEW S, NEW ss, Len(ss) \in Nat, \A p \in 1 .. Len(ss) : ss[p] \in Seq(S),
         Len(ss) = 0 => ss = <<>>
  PROVE  JoinedOf(FlattenSeq(ss), ss, Len(ss), S)
<1>1. CASE Len(ss) = 0
  <2>1. FlattenSeq(ss) = <<>> /\ Len(<<>>) = 0 /\ <<>> \in Seq(S)
    BY <1>1 DEF FlattenSeq
  <2> QED
    BY <1>1, <2>1 DEF JoinedOf
<1>2. CASE Len(ss) # 0
  <2>1. PICK f : IsJoin(f, Len(ss), ss) /\ FlattenSeq(ss) = f[Len(ss)]
    BY <1>2, FlattenIs
  <2> DEFINE T == {m \in Nat : m + 1 <= Len(ss) => JoinedOf(f[m + 1], ss, m + 1, S)}
  <2>2. T \in SUBSET Nat
    OBVIOUS
  <2>3. 0 \in T
    <3>1. f[1] = ss[1] /\ ss[1] \in Seq(S) /\ Len(ss[1]) \in Nat
      <4>1. 1 \in 1 .. Len(ss)
        BY <1>2
      <4>2. f[1] = Joined(ss, 1, f) /\ ss[1] \in Seq(S)
        BY <2>1, <4>1 DEF IsJoin
      <4> QED
        BY <4>2, LenProperties DEF Joined
    <3>2. JoinedOf(ss[1], ss, 1, S)
      <4>1. ASSUME NEW i \in 1 .. Len(ss[1])
            PROVE  i > 1 => i > 1 /\ ss[1][i - 1] = ss[1][i - 1]
        OBVIOUS
      <4> QED
        BY <3>1, <4>1 DEF JoinedOf
    <3>3. 0 + 1 = 1 /\ 0 \in Nat
      OBVIOUS
    <3> QED
      BY <3>1, <3>2, <3>3
  <2>4. ASSUME NEW m \in T PROVE m + 1 \in T
    <3>0. m \in Nat /\ m + 1 \in Nat /\ m + 1 # 0 /\ m + 1 \in Nat \ {0}
      OBVIOUS
    <3>1. ASSUME (m + 1) + 1 <= Len(ss) PROVE JoinedOf(f[(m + 1) + 1], ss, (m + 1) + 1, S)
      <4>1. JoinedOf(f[m + 1], ss, m + 1, S)
        BY <3>0, <3>1
      <4>2. (m + 1) + 1 \in 1 .. Len(ss) /\ (m + 1) + 1 # 1 /\ ((m + 1) + 1) - 1 = m + 1
        BY <3>0, <3>1
      <4>3. f[(m + 1) + 1] = f[m + 1] \o ss[(m + 1) + 1] /\ ss[(m + 1) + 1] \in Seq(S)
        <5>1. f[(m + 1) + 1] = Joined(ss, (m + 1) + 1, f)
          BY <2>1, <4>2 DEF IsJoin
        <5> QED
          BY <4>2, <5>1 DEF Joined
      <4> QED
        BY <3>0, <4>1, <4>3, JoinStep
    <3> QED
      BY <3>0, <3>1
  <2>5. T = Nat
    <3> HIDE DEF T
    <3> QED
      BY <2>2, <2>3, <2>4, SetInduction
  <2>6. Len(ss) - 1 \in T /\ (Len(ss) - 1) + 1 = Len(ss)
    <3> HIDE DEF T
    <3> QED
      BY <1>2, <2>5
  <2> QED
    BY <2>1, <2>6
<1> QED
  BY <1>1, <1>2

(* Every element of a finite set is listed. *)
LEMMA SetToSeqLists ==
  ASSUME NEW S, IsFiniteSet(S)
  PROVE  /\ SetToSeq(S) \in Seq(S) /\ Len(SetToSeq(S)) \in Nat
         /\ \A x \in S : \E i \in 1 .. Len(SetToSeq(S)) : SetToSeq(S)[i] = x
<1> DEFINE n == Cardinality(S)
<1>1. n \in Nat /\ ExistsBijection(1 .. n, S)
  BY FS_CardinalityType
<1> HIDE DEF n
<1>2. PICK g \in [1 .. n -> S] : IsInjective(g)
  BY <1>1 DEF ExistsBijection, Bijection, Injection
<1> DEFINE f == SetToSeq(S)
<1>3. f \in [1 .. n -> S] /\ IsInjective(f)
  BY <1>2 DEF SetToSeq, n
<1> HIDE DEF f
<1>4. f \in Injection(1 .. n, S)
  BY <1>3 DEF Injection
<1>5. IsFiniteSet(1 .. n) /\ Cardinality(1 .. n) = n
  BY <1>1, FS_Interval
<1>6. f \in Surjection(1 .. n, S)
  BY <1>4, <1>5, FS_Injection DEF n
<1>7. f \in Seq(S) /\ Len(f) = n
  BY <1>1, <1>3
<1> QED
  BY <1>1, <1>6, <1>7 DEF Surjection, f

LEMMA StatementsAre ==
  ASSUME NEW f, IsFiniteSet(DOMAIN f), NEW S, \A x \in DOMAIN f : f[x] \in S
  PROVE  /\ Statements(f) \in Seq(S) /\ Len(Statements(f)) \in Nat
         /\ \A i \in 1 .. Len(Statements(f)) : \E x \in DOMAIN f : Statements(f)[i] = f[x]
         /\ \A x \in DOMAIN f : \E i \in 1 .. Len(Statements(f)) : Statements(f)[i] = f[x]
<1> DEFINE list == SetToSeq(DOMAIN f)
           ss == Statements(f)
<1>1. /\ list \in Seq(DOMAIN f) /\ Len(list) \in Nat
      /\ \A x \in DOMAIN f : \E i \in 1 .. Len(list) : list[i] = x
  BY SetToSeqLists
<1>2. ss = [i \in 1 .. Len(list) |-> f[list[i]]]
  BY DEF Statements
<1> HIDE DEF list, ss
<1>3. \A i \in 1 .. Len(list) : list[i] \in DOMAIN f
  BY <1>1, ElementOfSeq
<1>4. ss \in Seq(S) /\ Len(ss) = Len(list)
  BY <1>1, <1>2, <1>3
<1>5. \A i \in 1 .. Len(ss) : \E x \in DOMAIN f : ss[i] = f[x]
  BY <1>2, <1>3, <1>4
<1>6. \A x \in DOMAIN f : \E i \in 1 .. Len(ss) : ss[i] = f[x]
  <2> TAKE x \in DOMAIN f
  <2>1. PICK i \in 1 .. Len(list) : list[i] = x
    BY <1>1
  <2>2. ss[i] = f[x] /\ i \in 1 .. Len(ss)
    BY <1>2, <1>4, <2>1
  <2> QED
    BY <2>2
<1> QED
  BY <1>1, <1>4, <1>5, <1>6 DEF ss

LEMMA EachIs ==
  ASSUME NEW f, IsFiniteSet(DOMAIN f), NEW S, \A x \in DOMAIN f : f[x] \in Seq(S)
  PROVE  /\ Each(f) \in Seq(S) /\ Len(Each(f)) \in Nat
         /\ \A i \in 1 .. Len(Each(f)) : \E x \in DOMAIN f : \E q \in 1 .. Len(f[x]) :
              Each(f)[i] = f[x][q] /\ (q > 1 => i > 1 /\ Each(f)[i - 1] = f[x][q - 1])
         /\ \A x \in DOMAIN f : \A q \in 1 .. Len(f[x]) :
              \E i \in 1 .. Len(Each(f)) : Each(f)[i] = f[x][q]
<1> DEFINE ss == Statements(f)
           r == Each(f)
<1>1. /\ ss \in Seq(Seq(S)) /\ Len(ss) \in Nat
      /\ \A i \in 1 .. Len(ss) : \E x \in DOMAIN f : ss[i] = f[x]
      /\ \A x \in DOMAIN f : \E i \in 1 .. Len(ss) : ss[i] = f[x]
  BY StatementsAre
<1>2. r = FlattenSeq(ss)
  BY DEF Each
<1> HIDE DEF ss, r
<1>3. \A p \in 1 .. Len(ss) : ss[p] \in Seq(S)
  BY <1>1, ElementOfSeq
<1>4. Len(ss) = 0 => ss = <<>>
  BY <1>1, EmptySeq
<1>5. JoinedOf(r, ss, Len(ss), S)
  BY <1>1, <1>2, <1>3, <1>4, FlattenReturns
<1>6. r \in Seq(S) /\ Len(r) \in Nat
  BY <1>5, LenProperties DEF JoinedOf
<1>7. ASSUME NEW i \in 1 .. Len(r)
      PROVE  \E x \in DOMAIN f : \E q \in 1 .. Len(f[x]) :
               r[i] = f[x][q] /\ (q > 1 => i > 1 /\ r[i - 1] = f[x][q - 1])
  <2>1. PICK p \in 1 .. Len(ss) : \E q \in 1 .. Len(ss[p]) :
          r[i] = ss[p][q] /\ (q > 1 => i > 1 /\ r[i - 1] = ss[p][q - 1])
    BY <1>5 DEF JoinedOf
  <2>2. PICK x \in DOMAIN f : ss[p] = f[x]
    BY <1>1
  <2> QED
    BY <2>1, <2>2
<1>8. ASSUME NEW x \in DOMAIN f, NEW q \in 1 .. Len(f[x])
      PROVE  \E i \in 1 .. Len(r) : r[i] = f[x][q]
  <2>1. PICK p \in 1 .. Len(ss) : ss[p] = f[x]
    BY <1>1
  <2> QED
    BY <1>5, <2>1 DEF JoinedOf
<1> QED
  BY <1>6, <1>7, <1>8 DEF r

-----------------------------------------------------------------------------
(* The statements there are.                                               *)

Lists == {"list", "listOf", "diff"}
CompOps == {"listOf", "check", "removeSources", "removeRow", "tellPut", "tellRemoved"}
DiffOps == {"removeSources", "removeRow", "tellRemoved", "removeSource", "putComponent", "tellPut",
            "putSource"}

Stmts ==
  [op : {"list", "listSources"}, key : BOOLEAN] \cup [op : {"diff"}, key : {Nothing}]
  \cup [op : CompOps, key : Comps] \cup [op : {"removeSource"}, key : Sources]
  \cup [op : {"putComponent"}, key : Comps, version : Nat, val : Contents]
  \cup [op : {"putSource"}, key : Sources, version : Nat, val : Comps]
  \cup [op : {"toggle"}, key : SUBSET Sources, version : {0}, val : BOOLEAN]

LEMMA StatementFields ==
  ASSUME NEW st \in Stmts
  PROVE  /\ st.op \in {"list", "listSources", "diff", "removeSource", "putComponent", "putSource",
                       "toggle"} \cup CompOps
         /\ st.op \in CompOps \cup {"putComponent"} => st.key \in Comps
         /\ st.op \in {"removeSource", "putSource"} => st.key \in Sources
         /\ st.op = "putComponent" => st.val \in Contents /\ st.version \in Nat
         /\ st.op = "putSource" => st.val \in Comps /\ st.version \in Nat
         /\ st.op = "toggle" => st.key \in SUBSET Sources /\ st.val \in BOOLEAN
BY DEF Stmts, CompOps

LEMMA StatementForms ==
  /\ \A b \in BOOLEAN : Do("list", b) \in Stmts /\ Do("listSources", b) \in Stmts
  /\ Do("diff", Nothing) \in Stmts
  /\ \A o \in CompOps, c \in Comps : Do(o, c) \in Stmts
  /\ \A s \in Sources : Do("removeSource", s) \in Stmts
  /\ \A c \in Comps, v \in Nat, x \in Contents : Put("putComponent", c, v, x) \in Stmts
  /\ \A s \in Sources, v \in Nat, c \in Comps : Put("putSource", s, v, c) \in Stmts
  /\ \A T \in SUBSET Sources, b \in BOOLEAN : Put("toggle", T, 0, b) \in Stmts
BY DEF Stmts, Do, Put, CompOps

(* What is left of a list when its first statement is done. *)
LEMMA TailIs ==
  ASSUME NEW t \in Seq(Stmts), t # <<>>
  PROVE  /\ Len(t) \in Nat /\ Len(t) >= 1 /\ Head(t) = t[1] /\ t[1] \in Stmts
         /\ Tail(t) \in Seq(Stmts) /\ Len(Tail(t)) = Len(t) - 1
         /\ \A i \in 1 .. Len(t) - 1 : i + 1 \in 1 .. Len(t) /\ Tail(t)[i] = t[i + 1]
         /\ \A i \in 1 .. Len(t) : t[i] \in Stmts
<1>1. Len(t) \in Nat \ {0}
  BY EmptySeq
<1>2. /\ Tail(t) \in Seq(Stmts) /\ Len(Tail(t)) = Len(t) - 1
      /\ \A i \in 1 .. Len(Tail(t)) : Tail(t)[i] = t[i + 1]
  BY HeadTailProperties
<1>3. Head(t) = t[1]
  OBVIOUS
<1>4. \A i \in 1 .. Len(t) : t[i] \in Stmts
  BY ElementOfSeq
<1>5. \A i \in 1 .. Len(t) - 1 : i + 1 \in 1 .. Len(t)
  BY <1>1
<1>6. 1 \in 1 .. Len(t)
  BY <1>1
<1> QED
  BY <1>1, <1>2, <1>3, <1>4, <1>5, <1>6

(* Two lists, one after the other. *)
LEMMA JoinedLists ==
  ASSUME NEW a \in Seq(Stmts), NEW b \in Seq(Stmts)
  PROVE  /\ a \o b \in Seq(Stmts) /\ Len(a) \in Nat /\ Len(b) \in Nat
         /\ Len(a \o b) = Len(a) + Len(b)
         /\ \A i \in 1 .. Len(a) : i \in 1 .. Len(a \o b) /\ (a \o b)[i] = a[i]
         /\ \A i \in 1 .. Len(b) : Len(a) + i \in 1 .. Len(a \o b) /\ (a \o b)[Len(a) + i] = b[i]
         /\ \A i \in 1 .. Len(a \o b) :
              i \in 1 .. Len(a) \/ \E j \in 1 .. Len(b) : i = Len(a) + j
<1>1. /\ a \o b \in Seq(Stmts) /\ Len(a \o b) = Len(a) + Len(b)
      /\ \A i \in 1 .. Len(a) + Len(b) : (a \o b)[i] = IF i <= Len(a) THEN a[i] ELSE b[i - Len(a)]
  BY ConcatProperties
<1>2. Len(a) \in Nat /\ Len(b) \in Nat
  BY LenProperties
<1> DEFINE c == a \o b
<1> HIDE DEF c
<1>3. \A i \in 1 .. Len(a) : i \in 1 .. Len(c) /\ c[i] = a[i]
  BY <1>1, <1>2 DEF c
<1>4. ASSUME NEW i \in 1 .. Len(b) PROVE Len(a) + i \in 1 .. Len(c) /\ c[Len(a) + i] = b[i]
  <2>1. /\ Len(a) + i \in 1 .. Len(a) + Len(b) /\ ~ (Len(a) + i <= Len(a))
        /\ (Len(a) + i) - Len(a) = i
    BY <1>2
  <2> QED
    BY <1>1, <2>1 DEF c
<1>5. ASSUME NEW i \in 1 .. Len(c), i \notin 1 .. Len(a)
      PROVE  \E j \in 1 .. Len(b) : i = Len(a) + j
  <2>1. i - Len(a) \in 1 .. Len(b) /\ i = Len(a) + (i - Len(a))
    BY <1>1, <1>2, <1>5 DEF c
  <2> QED
    BY <2>1
<1> QED
  BY <1>1, <1>2, <1>3, <1>4, <1>5 DEF c

-----------------------------------------------------------------------------
(* What a list of statements will do to the tables cs and ss.              *)

Sourced(ss, c) == {s \in Sources : ss[s].version > 0 /\ ss[s].comp = c}

(* A component is removed when its event sources are ... *)
RemovesBare(t, ss) ==
  \A i \in 1 .. Len(t) : t[i].op = "removeRow" =>
    \/ i > 1 /\ t[i - 1].op = "removeSources" /\ t[i - 1].key = t[i].key
    \/ i = 1 /\ Sourced(ss, t[i].key) = {}
(* ... and an event source is put for a component that is there by then, and
   stays. *)
PutsOwned(t, cs) ==
  \A i \in 1 .. Len(t) : t[i].op = "putSource" =>
    /\ \/ cs[t[i].val].version > 0
       \/ \E j \in 1 .. Len(t) : /\ j < i /\ t[j].op \in {"putComponent", "check"}
                                 /\ t[j].key = t[i].val
    /\ \A j \in 1 .. Len(t) : t[j].op = "removeRow" => t[j].key # t[i].val

Ready(t, cs, ss) == RemovesBare(t, ss) /\ PutsOwned(t, cs)
Owned(cs, ss) == \A s \in Sources : ss[s].version > 0 => cs[ss[s].comp].version > 0

(* What a statement does. *)
Does(st, cs, ss, ds, ts) ==
  /\ \A c \in Comps :
       IF st.op = "putComponent" /\ st.key = c THEN ds[c].version > 0 /\ ds[c].content = st.val
       ELSE IF st.op = "removeRow" /\ st.key = c THEN ds[c].version = 0
       ELSE ds[c] = cs[c]
  /\ \A s \in Sources :
       IF st.op = "putSource" /\ st.key = s THEN ts[s].version > 0 /\ ts[s].comp = st.val
       ELSE IF \/ st.op = "removeSource" /\ st.key = s
               \/ st.op = "removeSources" /\ ss[s].comp = st.key
       THEN ts[s].version = 0
       ELSE ts[s].version = ss[s].version /\ ts[s].comp = ss[s].comp
  /\ st.op = "check" => cs[st.key].version > 0

(* A statement done leaves the others ready. *)
LEMMA ReadyTail ==
  ASSUME NEW t \in Seq(Stmts), t # <<>>, NEW cs, NEW ss, Ready(t, cs, ss), NEW ds, NEW ts,
         Does(t[1], cs, ss, ds, ts)
  PROVE  Ready(Tail(t), ds, ts)
<1>5. t[1] \in Stmts
  BY TailIs
<1>6. ASSUME NEW c \in Comps, cs[c].version > 0, ~ (ds[c].version > 0)
      PROVE  t[1].op = "removeRow" /\ t[1].key = c
  <2>1. IF t[1].op = "putComponent" /\ t[1].key = c THEN ds[c].version > 0
        ELSE IF t[1].op = "removeRow" /\ t[1].key = c THEN ds[c].version = 0
        ELSE ds[c] = cs[c]
    BY Zenon DEF Does
  <2> QED
    BY <1>6, <2>1
<1>7. t[1].op \in {"putComponent", "check"} => ds[t[1].key].version > 0
  BY <1>5, StatementFields DEF Does, CompOps
<1>8. t[1].op = "removeSources" => Sourced(ts, t[1].key) = {}
  BY DEF Does, Sourced
<1> DEFINE u == Tail(t)
<1>1. /\ Len(t) \in Nat /\ Len(t) >= 1 /\ Len(u) = Len(t) - 1
      /\ \A i \in 1 .. Len(t) - 1 : i + 1 \in 1 .. Len(t) /\ u[i] = t[i + 1]
      /\ \A i \in 1 .. Len(t) : t[i] \in Stmts
      /\ 1 \in 1 .. Len(t)
  BY TailIs
<1> HIDE DEF u
<1>2. ASSUME NEW i \in 1 .. Len(u), u[i].op = "removeRow"
      PROVE  \/ i > 1 /\ u[i - 1].op = "removeSources" /\ u[i - 1].key = u[i].key
             \/ i = 1 /\ Sourced(ts, u[i].key) = {}
  <2>1. i + 1 \in 1 .. Len(t) /\ u[i] = t[i + 1] /\ (i + 1) - 1 = i /\ i + 1 # 1
    BY <1>1
  <2>2. t[i].op = "removeSources" /\ t[i].key = t[i + 1].key
    BY <1>2, <2>1 DEF Ready, RemovesBare
  <2>3. CASE i = 1
    BY <2>1, <2>2, <2>3, <1>8
  <2>4. CASE i > 1
    <3>1. i - 1 \in 1 .. Len(t) - 1 /\ (i - 1) + 1 = i
      BY <1>1, <2>4
    <3>2. u[i - 1] = t[i]
      BY <1>1, <3>1
    <3> QED
      BY <2>1, <2>2, <2>4, <3>2
  <2> QED
    BY <2>3, <2>4
<1>3. ASSUME NEW i \in 1 .. Len(u), u[i].op = "putSource"
      PROVE  /\ \/ ds[u[i].val].version > 0
                \/ \E j \in 1 .. Len(u) : /\ j < i /\ u[j].op \in {"putComponent", "check"}
                                          /\ u[j].key = u[i].val
             /\ \A j \in 1 .. Len(u) : u[j].op = "removeRow" => u[j].key # u[i].val
  <2>1. i + 1 \in 1 .. Len(t) /\ u[i] = t[i + 1] /\ t[i + 1] \in Stmts
    BY <1>1
  <2>2. /\ \/ cs[u[i].val].version > 0
           \/ \E j \in 1 .. Len(t) : /\ j < i + 1 /\ t[j].op \in {"putComponent", "check"}
                                     /\ t[j].key = u[i].val
        /\ \A j \in 1 .. Len(t) : t[j].op = "removeRow" => t[j].key # u[i].val
    BY <1>3, <2>1 DEF Ready, PutsOwned
  <2>3. u[i].val \in Comps
    BY <1>3, <2>1, StatementFields
  <2>4. \A j \in 1 .. Len(u) : u[j].op = "removeRow" => u[j].key # u[i].val
    BY <1>1, <2>2
  <2>5. CASE cs[u[i].val].version > 0
    BY <1>1, <1>6, <2>2, <2>3, <2>4, <2>5
  <2>6. ASSUME NEW j \in 1 .. Len(t), j < i + 1, t[j].op \in {"putComponent", "check"},
               t[j].key = u[i].val
        PROVE  \/ ds[u[i].val].version > 0
               \/ \E l \in 1 .. Len(u) : /\ l < i /\ u[l].op \in {"putComponent", "check"}
                                         /\ u[l].key = u[i].val
    <3>1. CASE j = 1
      BY <1>7, <2>6, <3>1
    <3>2. CASE j # 1
      <4>1. j - 1 \in 1 .. Len(t) - 1 /\ (j - 1) + 1 = j /\ j - 1 < i
        BY <1>1, <2>6, <3>2
      <4>2. u[j - 1] = t[j] /\ j - 1 \in 1 .. Len(u)
        BY <1>1, <4>1
      <4> QED
        BY <2>6, <4>1, <4>2
    <3> QED
      BY <3>1, <3>2
  <2> QED
    BY <2>2, <2>4, <2>5, <2>6
<1>4. Ready(u, ds, ts)
  BY <1>2, <1>3 DEF Ready, RemovesBare, PutsOwned
<1> QED
  BY <1>4 DEF u

LEMMA OwnedStep ==
  ASSUME NEW t \in Seq(Stmts), t # <<>>, NEW cs, NEW ss, Ready(t, cs, ss), Owned(cs, ss),
         \A s \in Sources : ss[s].version > 0 => ss[s].comp \in Comps,
         NEW ds, NEW ts, Does(t[1], cs, ss, ds, ts)
  PROVE  Owned(ds, ts)
<1>1. /\ Len(t) \in Nat /\ Len(t) >= 1 /\ 1 \in 1 .. Len(t) /\ t[1] \in Stmts
  BY TailIs
<1>2. SUFFICES ASSUME NEW s \in Sources, ts[s].version > 0
               PROVE  ds[ts[s].comp].version > 0
  BY DEF Owned
<1>3. CASE t[1].op = "putSource" /\ t[1].key = s
  <2>1. ts[s].comp = t[1].val /\ t[1].val \in Comps
    BY <1>1, <1>3, StatementFields DEF Does
  <2>2. cs[t[1].val].version > 0
    BY <1>1, <1>3 DEF Ready, PutsOwned
  <2>3. ds[t[1].val] = cs[t[1].val]
    BY <1>3, <2>1 DEF Does
  <2> QED
    BY <2>1, <2>2, <2>3
<1>4. CASE ~ (t[1].op = "putSource" /\ t[1].key = s)
  <2>1. ts[s].version = ss[s].version /\ ts[s].comp = ss[s].comp
    BY <1>2, <1>4 DEF Does
  <2>2. ss[s].comp \in Comps /\ cs[ss[s].comp].version > 0
    BY <1>2, <2>1 DEF Owned
  <2>3. ~ (t[1].op = "removeRow" /\ t[1].key = ss[s].comp)
    BY <1>1, <1>2, <2>1 DEF Ready, RemovesBare, Sourced
  <2> QED
    BY <2>1, <2>2, <2>3 DEF Does
<1> QED
  BY <1>3, <1>4

-----------------------------------------------------------------------------
(* What is still to be done of a project put.                              *)

Listed(t, op, key) == \E i \in 1 .. Len(t) : t[i].op = op /\ t[i].key = key

(* Statements that fit the project in. *)
Fitting(in) ==
  {st \in Stmts :
     /\ st.op \in DiffOps
     /\ st.op \in {"removeSources", "removeRow"} => st.key \notin DOMAIN in.comps
     /\ st.op = "removeSource" => st.key \notin DOMAIN in.sources
     /\ st.op = "putComponent" => st.key \in DOMAIN in.comps /\ st.val = in.comps[st.key]
     /\ st.op = "putSource" => st.key \in DOMAIN in.sources /\ st.val = in.sources[st.key]}

(* Where the tables differ from the project, among the components in C and the
   event sources in S, a statement puts that right. *)
Missing(t, in, C, S, cs, ss) ==
  /\ \A c \in DOMAIN in.comps :
       \/ cs[c].version > 0 /\ cs[c].content = in.comps[c]
       \/ Listed(t, "putComponent", c)
  /\ \A c \in C \ DOMAIN in.comps : cs[c].version > 0 => Listed(t, "removeRow", c)
  /\ \A s \in DOMAIN in.sources :
       \/ ss[s].version > 0 /\ ss[s].comp = in.sources[s]
       \/ Listed(t, "putSource", s)
  /\ \A s \in S \ DOMAIN in.sources : ss[s].version > 0 => Listed(t, "removeSource", s)

Due(t, in, C, S, cs, ss) == t \in Seq(Fitting(in)) /\ Missing(t, in, C, S, cs, ss)

IsProject(in) ==
  /\ in.comps = [c \in DOMAIN in.comps |-> in.comps[c]] /\ DOMAIN in.comps \subseteq Comps
  /\ in.sources = [s \in DOMAIN in.sources |-> in.sources[s]] /\ DOMAIN in.sources \subseteq Sources
  /\ \A c \in DOMAIN in.comps : in.comps[c] \in Contents
  /\ \A s \in DOMAIN in.sources : in.sources[s] \in DOMAIN in.comps

LEMMA ProjectsAre ==
  ASSUME NEW contents \in SUBSET Contents, NEW eventSources \in SUBSET Sources,
         NEW in \in Projects(contents, eventSources)
  PROVE  IsProject(in)
<1>1. /\ in.comps \in UNION {[D -> contents] : D \in SUBSET Comps \ {{}}}
      /\ in.sources \in UNION {[S -> Comps] : S \in SUBSET eventSources}
      /\ \A s \in DOMAIN in.sources : in.sources[s] \in DOMAIN in.comps
  BY DEF Projects
<1>2. PICK D \in SUBSET Comps : in.comps \in [D -> contents]
  BY <1>1
<1>3. PICK S \in SUBSET eventSources : in.sources \in [S -> Comps]
  BY <1>1
<1> QED
  BY <1>1, <1>2, <1>3 DEF IsProject

LEMMA ListedTail ==
  ASSUME NEW t \in Seq(Stmts), t # <<>>, NEW op, NEW key, Listed(t, op, key)
  PROVE  (t[1].op = op /\ t[1].key = key) \/ Listed(Tail(t), op, key)
<1>1. /\ Len(t) \in Nat /\ Len(Tail(t)) = Len(t) - 1
      /\ \A i \in 1 .. Len(t) - 1 : Tail(t)[i] = t[i + 1]
  BY TailIs
<1>2. PICK i \in 1 .. Len(t) : t[i].op = op /\ t[i].key = key
  BY DEF Listed
<1>3. i # 1 => i - 1 \in 1 .. Len(t) - 1 /\ (i - 1) + 1 = i
  BY <1>1
<1> QED
  BY <1>1, <1>2, <1>3 DEF Listed

(* A statement done leaves no more to be done than the others. *)
LEMMA DueTail ==
  ASSUME NEW in, IsProject(in), NEW t, t # <<>>, NEW cs, NEW ss,
         NEW C \in SUBSET Comps, NEW S \in SUBSET Sources, Due(t, in, C, S, cs, ss),
         NEW ds, NEW ts, Does(t[1], cs, ss, ds, ts)
  PROVE  Due(Tail(t), in, C, S, ds, ts)
<1>1. t \in Seq(Fitting(in)) /\ t \in Seq(Stmts)
  <2>1. Fitting(in) \subseteq Stmts
    BY DEF Fitting
  <2> QED
    BY <2>1, SeqMonotonic DEF Due
<1>2. Tail(t) \in Seq(Fitting(in)) /\ t[1] \in Fitting(in)
  BY <1>1, HeadTailProperties
<1> DEFINE st == t[1]
<1>3. /\ st.op \in {"removeSources", "removeRow"} => st.key \notin DOMAIN in.comps
      /\ st.op = "removeSource" => st.key \notin DOMAIN in.sources
      /\ st.op = "putComponent" => st.key \in DOMAIN in.comps /\ st.val = in.comps[st.key]
      /\ st.op = "putSource" => st.key \in DOMAIN in.sources /\ st.val = in.sources[st.key]
  BY <1>2 DEF Fitting
<1>4. \A op, key : Listed(t, op, key) => (st.op = op /\ st.key = key) \/ Listed(Tail(t), op, key)
  BY <1>1, ListedTail
<1>5. /\ DOMAIN in.comps \subseteq Comps /\ DOMAIN in.sources \subseteq Sources
      /\ \A s \in DOMAIN in.sources : in.sources[s] \in DOMAIN in.comps
  BY DEF IsProject
<1> HIDE DEF st
<1>6. /\ \A c \in Comps :
           IF st.op = "putComponent" /\ st.key = c THEN ds[c].version > 0 /\ ds[c].content = st.val
           ELSE IF st.op = "removeRow" /\ st.key = c THEN ds[c].version = 0
           ELSE ds[c] = cs[c]
      /\ \A s \in Sources :
           IF st.op = "putSource" /\ st.key = s THEN ts[s].version > 0 /\ ts[s].comp = st.val
           ELSE IF \/ st.op = "removeSource" /\ st.key = s
                   \/ st.op = "removeSources" /\ ss[s].comp = st.key
           THEN ts[s].version = 0
           ELSE ts[s].version = ss[s].version /\ ts[s].comp = ss[s].comp
  BY DEF Does, st
<1>7. ASSUME NEW c \in DOMAIN in.comps
      PROVE  (ds[c].version > 0 /\ ds[c].content = in.comps[c]) \/ Listed(Tail(t), "putComponent", c)
  <2>1. (cs[c].version > 0 /\ cs[c].content = in.comps[c]) \/ Listed(t, "putComponent", c)
    BY DEF Due, Missing
  <2>2. st.op = "putComponent" /\ st.key = c => ds[c].version > 0 /\ ds[c].content = in.comps[c]
    BY <1>3, <1>5, <1>6
  <2>3. ~ (st.op = "putComponent" /\ st.key = c) => ds[c] = cs[c]
    BY <1>3, <1>5, <1>6
  <2> QED
    BY <1>4, <2>1, <2>2, <2>3
<1>8. ASSUME NEW c \in C \ DOMAIN in.comps, ds[c].version > 0
      PROVE  Listed(Tail(t), "removeRow", c)
  <2>1. ~ (st.op = "putComponent" /\ st.key = c)
    BY <1>3
  <2>2. ~ (st.op = "removeRow" /\ st.key = c) /\ ds[c] = cs[c]
    BY <1>6, <1>8, <2>1
  <2>3. Listed(t, "removeRow", c)
    BY <1>8, <2>2 DEF Due, Missing
  <2> QED
    BY <1>4, <2>2, <2>3
<1>9. ASSUME NEW s \in DOMAIN in.sources
      PROVE  (ts[s].version > 0 /\ ts[s].comp = in.sources[s]) \/ Listed(Tail(t), "putSource", s)
  <2>1. (ss[s].version > 0 /\ ss[s].comp = in.sources[s]) \/ Listed(t, "putSource", s)
    BY DEF Due, Missing
  <2>2. st.op = "putSource" /\ st.key = s => ts[s].version > 0 /\ ts[s].comp = in.sources[s]
    BY <1>3, <1>5, <1>6
  <2>3. ~ (st.op = "putSource" /\ st.key = s) /\ ss[s].version > 0 /\ ss[s].comp = in.sources[s]
          => ts[s].version > 0 /\ ts[s].comp = in.sources[s]
    <3>1. ~ (st.op = "removeSource" /\ st.key = s)
      BY <1>3
    <3>2. ss[s].comp = in.sources[s] => ~ (st.op = "removeSources" /\ ss[s].comp = st.key)
      BY <1>3, <1>5
    <3>3. s \in Sources
      BY <1>5
    <3> QED
      BY <1>6, <3>1, <3>2, <3>3
  <2> QED
    BY <1>4, <2>1, <2>2, <2>3
<1>10. ASSUME NEW s \in S \ DOMAIN in.sources, ts[s].version > 0
       PROVE  Listed(Tail(t), "removeSource", s)
  <2>1. ~ (st.op = "putSource" /\ st.key = s)
    BY <1>3
  <2>2. ~ (st.op = "removeSource" /\ st.key = s) /\ ss[s].version > 0
    BY <1>6, <1>10, <2>1
  <2>3. Listed(t, "removeSource", s)
    BY <1>10, <2>2 DEF Due, Missing
  <2> QED
    BY <1>4, <2>2, <2>3
<1>11. Missing(Tail(t), in, C, S, ds, ts)
  BY <1>7, <1>8, <1>9, <1>10 DEF Missing
<1> QED
  BY <1>2, <1>11 DEF Due

-----------------------------------------------------------------------------
(* The statements of a removal, and those that DiffProject comes to.       *)

NoRows(t) == \A i \in 1 .. Len(t) : t[i].op # "removeRow"
Bare(t) ==
  \A i \in 1 .. Len(t) : t[i].op = "removeRow" =>
    i > 1 /\ t[i - 1].op = "removeSources" /\ t[i - 1].key = t[i].key

LEMMA BareJoined ==
  ASSUME NEW a \in Seq(Stmts), NEW b \in Seq(Stmts), Bare(a), NoRows(b)
  PROVE  Bare(a \o b)
<1> DEFINE c == a \o b
<1>1. /\ Len(a) \in Nat /\ Len(b) \in Nat
      /\ \A i \in 1 .. Len(a) : i \in 1 .. Len(c) /\ c[i] = a[i]
      /\ \A i \in 1 .. Len(b) : Len(a) + i \in 1 .. Len(c) /\ c[Len(a) + i] = b[i]
      /\ \A i \in 1 .. Len(c) : i \in 1 .. Len(a) \/ \E j \in 1 .. Len(b) : i = Len(a) + j
  BY JoinedLists
<1> HIDE DEF c
<1>2. ASSUME NEW i \in 1 .. Len(c), c[i].op = "removeRow"
      PROVE  i > 1 /\ c[i - 1].op = "removeSources" /\ c[i - 1].key = c[i].key
  <2>1. i \in 1 .. Len(a)
    <3>1. ASSUME NEW j \in 1 .. Len(b), i = Len(a) + j PROVE FALSE
      <4>1. c[i] = b[j] /\ b[j].op # "removeRow"
        BY <1>1, <3>1 DEF NoRows
      <4> QED
        BY <1>2, <4>1
    <3> QED
      BY <1>1, <3>1
  <2>2. c[i] = a[i]
    BY <1>1, <2>1
  <2>3. i > 1 /\ a[i - 1].op = "removeSources" /\ a[i - 1].key = a[i].key
    BY <1>2, <2>1, <2>2 DEF Bare
  <2>4. i - 1 \in 1 .. Len(a)
    BY <1>1, <2>1, <2>3
  <2> QED
    BY <1>1, <2>2, <2>3, <2>4
<1> QED
  BY <1>2 DEF Bare, c

LEMMA NoRowsJoined ==
  ASSUME NEW a \in Seq(Stmts), NEW b \in Seq(Stmts), NoRows(a), NoRows(b)
  PROVE  NoRows(a \o b)
BY JoinedLists DEF NoRows

LEMMA ListedJoined ==
  ASSUME NEW a \in Seq(Stmts), NEW b \in Seq(Stmts), NEW op, NEW key,
         Listed(a, op, key) \/ Listed(b, op, key)
  PROVE  Listed(a \o b, op, key)
<1> DEFINE c == a \o b
<1>1. /\ \A i \in 1 .. Len(a) : i \in 1 .. Len(c) /\ c[i] = a[i]
      /\ \A i \in 1 .. Len(b) : Len(a) + i \in 1 .. Len(c) /\ c[Len(a) + i] = b[i]
  BY JoinedLists
<1> HIDE DEF c
<1>2. CASE Listed(a, op, key)
  <2>1. PICK i \in 1 .. Len(a) : a[i].op = op /\ a[i].key = key
    BY <1>2 DEF Listed
  <2>2. i \in 1 .. Len(c) /\ c[i] = a[i]
    BY <1>1
  <2> QED
    BY <2>1, <2>2 DEF Listed, c
<1>3. CASE Listed(b, op, key)
  <2>1. PICK i \in 1 .. Len(b) : b[i].op = op /\ b[i].key = key
    BY <1>3 DEF Listed
  <2>2. Len(a) + i \in 1 .. Len(c) /\ c[Len(a) + i] = b[i]
    BY <1>1
  <2> QED
    BY <2>1, <2>2 DEF Listed, c
<1> QED
  BY <1>2, <1>3

(* RemoveComponent for each component of a set. *)
Removals(C) == Each([c \in C |-> RemoveWith(c)])

LEMMA RemoveWithIs ==
  ASSUME NEW c \in Comps
  PROVE  LET r == RemoveWith(c) IN
         /\ Len(r) = 3
         /\ r[1] = Do("removeSources", c) /\ r[2] = Do("removeRow", c)
         /\ r[3] = Do("tellRemoved", c)
BY DEF RemoveWith

LEMMA RemovalsAre ==
  ASSUME NEW C \in SUBSET Comps, NEW E,
         \A c \in C : \A o \in {"removeSources", "removeRow", "tellRemoved"} : Do(o, c) \in E
  PROVE  /\ Removals(C) \in Seq(E) /\ Bare(Removals(C))
         /\ \A i \in 1 .. Len(Removals(C)) :
              Removals(C)[i].op \in {"removeSources", "removeRow", "tellRemoved"}
         /\ \A c \in C : Listed(Removals(C), "removeRow", c)
<1> DEFINE f == [c \in C |-> RemoveWith(c)]
           r == Removals(C)
<1>0. IsFiniteSet(DOMAIN f)
  BY ServiceAssumption, FS_Subset
<1>1. \A c \in C : f[c] = RemoveWith(c)
  OBVIOUS
<1>2. \A c \in C : f[c] \in Seq(E)
  <2> TAKE c \in C
  <2>1. RemoveWith(c) = <<Do("removeSources", c), Do("removeRow", c), Do("tellRemoved", c)>>
    BY DEF RemoveWith
  <2>2. Do("removeSources", c) \in E /\ Do("removeRow", c) \in E /\ Do("tellRemoved", c) \in E
    OBVIOUS
  <2>3. <<Do("removeSources", c), Do("removeRow", c), Do("tellRemoved", c)>> \in Seq(E)
    BY <2>2
  <2> QED
    BY <1>1, <2>1, <2>3
<1>3. r = Each(f) /\ DOMAIN f = C
  BY DEF Removals
<1> HIDE DEF f, r
<1>4. /\ r \in Seq(E) /\ Len(r) \in Nat
      /\ \A i \in 1 .. Len(r) : \E x \in C : \E q \in 1 .. Len(f[x]) :
           r[i] = f[x][q] /\ (q > 1 => i > 1 /\ r[i - 1] = f[x][q - 1])
      /\ \A x \in C : \A q \in 1 .. Len(f[x]) : \E i \in 1 .. Len(r) : r[i] = f[x][q]
  <2>1. \A x \in DOMAIN f : f[x] \in Seq(E)
    BY <1>2, <1>3
  <2>2. /\ Each(f) \in Seq(E) /\ Len(Each(f)) \in Nat
        /\ \A i \in 1 .. Len(Each(f)) : \E x \in DOMAIN f : \E q \in 1 .. Len(f[x]) :
             Each(f)[i] = f[x][q] /\ (q > 1 => i > 1 /\ Each(f)[i - 1] = f[x][q - 1])
        /\ \A x \in DOMAIN f : \A q \in 1 .. Len(f[x]) :
             \E i \in 1 .. Len(Each(f)) : Each(f)[i] = f[x][q]
    BY <1>0, <2>1, EachIs
  <2>3. DOMAIN f = C /\ Each(f) = r
    BY <1>3
  <2>4. r \in Seq(E) /\ Len(r) \in Nat
    BY <2>2, <2>3
  <2>5. \A i \in 1 .. Len(r) : \E x \in C : \E q \in 1 .. Len(f[x]) :
          r[i] = f[x][q] /\ (q > 1 => i > 1 /\ r[i - 1] = f[x][q - 1])
    BY <2>2, <2>3
  <2>6. \A x \in C : \A q \in 1 .. Len(f[x]) : \E i \in 1 .. Len(r) : r[i] = f[x][q]
    BY <2>2, <2>3
  <2> QED
    BY <2>4, <2>5, <2>6
<1>5. ASSUME NEW i \in 1 .. Len(r)
      PROVE  /\ r[i].op \in {"removeSources", "removeRow", "tellRemoved"}
             /\ r[i].op = "removeRow" =>
                  i > 1 /\ r[i - 1].op = "removeSources" /\ r[i - 1].key = r[i].key
  <2>1. PICK x \in C : \E q \in 1 .. Len(f[x]) :
               r[i] = f[x][q] /\ (q > 1 => i > 1 /\ r[i - 1] = f[x][q - 1])
    BY <1>4
  <2>2. /\ Len(f[x]) = 3
        /\ f[x][1] = Do("removeSources", x) /\ f[x][2] = Do("removeRow", x)
        /\ f[x][3] = Do("tellRemoved", x)
    BY <1>1, RemoveWithIs
  <2>3. PICK q \in 1 .. 3 : r[i] = f[x][q] /\ (q > 1 => i > 1 /\ r[i - 1] = f[x][q - 1])
    BY <2>1, <2>2
  <2>4. CASE q = 1
    BY <2>2, <2>3, <2>4 DEF Do
  <2>5. CASE q = 2
    <3>1. r[i] = Do("removeRow", x) /\ i > 1 /\ r[i - 1] = Do("removeSources", x)
      BY <2>2, <2>3, <2>5
    <3> QED
      BY <3>1 DEF Do
  <2>6. CASE q = 3
    BY <2>2, <2>3, <2>6 DEF Do
  <2> QED
    BY <2>4, <2>5, <2>6
<1>6. ASSUME NEW x \in C PROVE Listed(r, "removeRow", x)
  <2>1. Len(f[x]) = 3 /\ f[x][2] = Do("removeRow", x)
    BY <1>1, RemoveWithIs
  <2>2. PICK i \in 1 .. Len(r) : r[i] = f[x][2]
    <3>1. 2 \in 1 .. Len(f[x])
      BY <2>1
    <3> QED
      BY <1>4, <3>1
  <2> QED
    BY <2>1, <2>2 DEF Listed, Do
<1> QED
  BY <1>4, <1>5, <1>6 DEF r, Bare

(* What a project put has read of the project before. *)
IsOld(old) ==
  /\ DOMAIN old.comps \subseteq Comps /\ DOMAIN old.sources \subseteq Sources
  /\ \A c \in DOMAIN old.comps : old.comps[c].version \in Nat
  /\ \A s \in DOMAIN old.sources : old.sources[s].version \in Nat

SourceRemovals(old, new) ==
  Statements([s \in DOMAIN old.sources \ DOMAIN new.sources |-> Do("removeSource", s)])
ComponentPuts(old, new) ==
  Each([c \in ComponentPut(old, new) |->
          <<Put("putComponent", c, ComponentVersion(old, c), new.comps[c]), Do("tellPut", c)>>])
SourcePuts(old, new) ==
  Statements([s \in EventSourcePut(old, new) |->
                Put("putSource", s, EventSourceVersion(old, new, s), new.sources[s])])

LEMMA SourceRemovalsAre ==
  ASSUME NEW old, IsOld(old), NEW new, IsProject(new)
  PROVE  LET r == SourceRemovals(old, new) IN
         /\ r \in Seq(Fitting(new)) /\ \A i \in 1 .. Len(r) : r[i].op = "removeSource"
         /\ \A s \in DOMAIN old.sources \ DOMAIN new.sources : Listed(r, "removeSource", s)
<1> DEFINE S == DOMAIN old.sources \ DOMAIN new.sources
           f == [s \in S |-> Do("removeSource", s)]
           r == SourceRemovals(old, new)
<1>1. /\ DOMAIN f = S /\ S \subseteq Sources
      /\ \A s \in S : f[s] = Do("removeSource", s) /\ s \notin DOMAIN new.sources
  BY DEF IsOld
<1>2. r = Statements(f)
  BY DEF SourceRemovals
<1> HIDE DEF f, r, S
<1>3. IsFiniteSet(DOMAIN f)
  BY <1>1, ServiceAssumption, FS_Subset
<1>4. \A x \in DOMAIN f : f[x] \in Fitting(new)
  BY <1>1, StatementForms DEF Fitting, DiffOps, Do
<1>5. /\ r \in Seq(Fitting(new))
      /\ \A i \in 1 .. Len(r) : \E x \in DOMAIN f : r[i] = f[x]
      /\ \A x \in DOMAIN f : \E i \in 1 .. Len(r) : r[i] = f[x]
  BY <1>2, <1>3, <1>4, StatementsAre
<1>6. \A i \in 1 .. Len(r) : r[i].op = "removeSource"
  BY <1>1, <1>5 DEF Do
<1>7. \A s \in S : Listed(r, "removeSource", s)
  BY <1>1, <1>5 DEF Do, Listed
<1> QED
  BY <1>5, <1>6, <1>7 DEF r, S

LEMMA ComponentPutsAre ==
  ASSUME NEW old, IsOld(old), NEW new, IsProject(new)
  PROVE  LET r == ComponentPuts(old, new) IN
         /\ r \in Seq(Fitting(new)) /\ \A i \in 1 .. Len(r) : r[i].op \in {"putComponent", "tellPut"}
         /\ \A c \in ComponentPut(old, new) : Listed(r, "putComponent", c)
<1> DEFINE C == ComponentPut(old, new)
           Is1(c) == Put("putComponent", c, ComponentVersion(old, c), new.comps[c])
           f == [c \in C |-> <<Is1(c), Do("tellPut", c)>>]
           r == ComponentPuts(old, new)
<1>1. DOMAIN f = C /\ C \subseteq DOMAIN new.comps /\ C \subseteq Comps
  BY DEF ComponentPut, IsProject
<1>2. r = Each(f)
  BY DEF ComponentPuts
<1>3. \A c \in C : Len(f[c]) = 2 /\ f[c][1] = Is1(c) /\ f[c][2] = Do("tellPut", c)
  OBVIOUS
<1>4. IsFiniteSet(DOMAIN f)
  BY <1>1, ServiceAssumption, FS_Subset
<1>5. ASSUME NEW c \in C PROVE f[c] \in Seq(Fitting(new))
  <2>1. ComponentVersion(old, c) \in Nat
    BY DEF ComponentVersion, IsOld
  <2>2. new.comps[c] \in Contents /\ c \in Comps /\ c \in DOMAIN new.comps
    BY <1>1 DEF IsProject
  <2>3. Is1(c) \in Stmts /\ Do("tellPut", c) \in Stmts
    BY <2>1, <2>2, StatementForms DEF CompOps
  <2>4. Is1(c) \in Fitting(new)
    BY <2>2, <2>3 DEF Fitting, DiffOps, Put
  <2>5. Do("tellPut", c) \in Fitting(new)
    BY <2>3 DEF Fitting, DiffOps, Do
  <2> HIDE DEF Is1
  <2>6. <<Is1(c), Do("tellPut", c)>> \in Seq(Fitting(new))
    BY <2>4, <2>5
  <2> QED
    BY <2>6
<1>6. \A c \in C : /\ Is1(c).op = "putComponent" /\ Is1(c).key = c
                   /\ Do("tellPut", c).op = "tellPut"
  BY DEF Put, Do
<1> HIDE DEF f, r
<1>7. \A x \in DOMAIN f : f[x] \in Seq(Fitting(new))
  BY <1>1, <1>5
<1>8. /\ r \in Seq(Fitting(new))
      /\ \A i \in 1 .. Len(r) : \E x \in DOMAIN f : \E q \in 1 .. Len(f[x]) : r[i] = f[x][q]
      /\ \A x \in DOMAIN f : \A q \in 1 .. Len(f[x]) : \E i \in 1 .. Len(r) : r[i] = f[x][q]
  <2>1. /\ Each(f) \in Seq(Fitting(new)) /\ Len(Each(f)) \in Nat
        /\ \A i \in 1 .. Len(Each(f)) : \E x \in DOMAIN f : \E q \in 1 .. Len(f[x]) :
             Each(f)[i] = f[x][q] /\ (q > 1 => i > 1 /\ Each(f)[i - 1] = f[x][q - 1])
        /\ \A x \in DOMAIN f : \A q \in 1 .. Len(f[x]) :
             \E i \in 1 .. Len(Each(f)) : Each(f)[i] = f[x][q]
    BY <1>4, <1>7, EachIs
  <2> QED
    BY <1>2, <2>1
<1>9. ASSUME NEW i \in 1 .. Len(r) PROVE r[i].op \in {"putComponent", "tellPut"}
  <2>1. PICK x \in C : \E q \in 1 .. Len(f[x]) : r[i] = f[x][q]
    BY <1>1, <1>8
  <2>2. PICK q \in 1 .. 2 : r[i] = f[x][q]
    BY <1>3, <2>1
  <2>3. q = 1 \/ q = 2
    OBVIOUS
  <2> HIDE DEF Is1
  <2> QED
    BY <1>3, <1>6, <2>2, <2>3
<1>10. ASSUME NEW c \in C PROVE Listed(r, "putComponent", c)
  <2>1. 1 \in 1 .. Len(f[c])
    BY <1>3
  <2>2. PICK i \in 1 .. Len(r) : r[i] = f[c][1]
    BY <1>1, <1>8, <2>1
  <2> HIDE DEF Is1
  <2> QED
    BY <1>3, <1>6, <2>2 DEF Listed
<1> QED
  BY <1>8, <1>9, <1>10 DEF r

LEMMA SourcePutsAre ==
  ASSUME NEW old, IsOld(old), NEW new, IsProject(new)
  PROVE  LET r == SourcePuts(old, new) IN
         /\ r \in Seq(Fitting(new)) /\ \A i \in 1 .. Len(r) : r[i].op = "putSource"
         /\ \A s \in EventSourcePut(old, new) : Listed(r, "putSource", s)
<1> DEFINE S == EventSourcePut(old, new)
           Is1(s) == Put("putSource", s, EventSourceVersion(old, new, s), new.sources[s])
           f == [s \in S |-> Is1(s)]
           r == SourcePuts(old, new)
<1>1. DOMAIN f = S /\ S \subseteq DOMAIN new.sources /\ S \subseteq Sources
  BY DEF EventSourcePut, IsProject
<1>2. r = Statements(f)
  BY DEF SourcePuts
<1>3. \A s \in S : f[s] = Is1(s)
  OBVIOUS
<1>4. IsFiniteSet(DOMAIN f)
  BY <1>1, ServiceAssumption, FS_Subset
<1>5. ASSUME NEW s \in S PROVE Is1(s) \in Fitting(new)
  <2>1. EventSourceVersion(old, new, s) \in Nat
    BY DEF EventSourceVersion, IsOld
  <2>2. new.sources[s] \in Comps /\ s \in Sources /\ s \in DOMAIN new.sources
    BY <1>1 DEF IsProject
  <2>3. Is1(s) \in Stmts
    BY <2>1, <2>2, StatementForms
  <2> QED
    BY <2>2, <2>3 DEF Fitting, DiffOps, Put
<1>6. \A s \in S : Is1(s).op = "putSource" /\ Is1(s).key = s
  BY DEF Put
<1> HIDE DEF f, r, Is1
<1>7. \A x \in DOMAIN f : f[x] \in Fitting(new)
  BY <1>1, <1>3, <1>5
<1>8. /\ r \in Seq(Fitting(new))
      /\ \A i \in 1 .. Len(r) : \E x \in DOMAIN f : r[i] = f[x]
      /\ \A x \in DOMAIN f : \E i \in 1 .. Len(r) : r[i] = f[x]
  BY <1>2, <1>4, <1>7, StatementsAre
<1>9. \A i \in 1 .. Len(r) : r[i].op = "putSource"
  BY <1>1, <1>3, <1>6, <1>8
<1>10. \A s \in S : Listed(r, "putSource", s)
  BY <1>1, <1>3, <1>6, <1>8 DEF Listed
<1> QED
  BY <1>8, <1>9, <1>10 DEF r

(* Everything in a difference fits the new project, in an order in which each
   statement finds what it needs, and nothing is missing. *)
LEMMA DiffIs ==
  ASSUME NEW old, IsOld(old), NEW new, IsProject(new)
  PROVE  LET t == Diff(old, new) IN
         /\ t \in Seq(Fitting(new)) /\ t \in Seq(Stmts) /\ Bare(t)
         /\ \A i \in 1 .. Len(t) : t[i].op = "putSource" =>
              \/ t[i].val \in DOMAIN old.comps
              \/ \E j \in 1 .. Len(t) : /\ j < i /\ t[j].op \in {"putComponent", "check"}
                                        /\ t[j].key = t[i].val
         /\ \A c \in DOMAIN old.comps \ DOMAIN new.comps : Listed(t, "removeRow", c)
         /\ \A s \in DOMAIN old.sources \ DOMAIN new.sources : Listed(t, "removeSource", s)
         /\ \A c \in ComponentPut(old, new) : Listed(t, "putComponent", c)
         /\ \A s \in EventSourcePut(old, new) : Listed(t, "putSource", s)
<1> DEFINE gone == DOMAIN old.comps \ DOMAIN new.comps
           a == Removals(gone)
           b == SourceRemovals(old, new)
           c == ComponentPuts(old, new)
           d == SourcePuts(old, new)
           F == Fitting(new)
<1>1. Diff(old, new) = ((a \o b) \o c) \o d
  <2>1. Diff(old, new) = a \o b \o c \o d
    BY DEF Diff, Removals, SourceRemovals, ComponentPuts, SourcePuts
  <2> QED
    BY <2>1
<1>2. gone \in SUBSET Comps
  BY DEF IsOld
<1>3. \A x \in gone : \A o \in {"removeSources", "removeRow", "tellRemoved"} : Do(o, x) \in F
  <2> TAKE x \in gone
  <2> TAKE o \in {"removeSources", "removeRow", "tellRemoved"}
  <2>1. Do(o, x) \in Stmts
    BY <1>2, StatementForms DEF CompOps
  <2> QED
    BY <2>1 DEF Fitting, DiffOps, Do
<1>4. /\ a \in Seq(F) /\ Bare(a)
      /\ \A i \in 1 .. Len(a) : a[i].op \in {"removeSources", "removeRow", "tellRemoved"}
      /\ \A x \in gone : Listed(a, "removeRow", x)
  <2> HIDE DEF F, gone
  <2> QED
    BY <1>2, <1>3, RemovalsAre
<1>5. /\ b \in Seq(F) /\ \A i \in 1 .. Len(b) : b[i].op = "removeSource"
      /\ \A s \in DOMAIN old.sources \ DOMAIN new.sources : Listed(b, "removeSource", s)
  BY SourceRemovalsAre
<1>6. /\ c \in Seq(F) /\ \A i \in 1 .. Len(c) : c[i].op \in {"putComponent", "tellPut"}
      /\ \A x \in ComponentPut(old, new) : Listed(c, "putComponent", x)
  BY ComponentPutsAre
<1>7. /\ d \in Seq(F) /\ \A i \in 1 .. Len(d) : d[i].op = "putSource"
      /\ \A s \in EventSourcePut(old, new) : Listed(d, "putSource", s)
  BY SourcePutsAre
<1>8. F \subseteq Stmts
  BY DEF Fitting
<1> HIDE DEF a, b, c, d, F, gone
<1> DEFINE e == a \o b
           g == e \o c
           t == g \o d
<1>9. /\ a \in Seq(Stmts) /\ b \in Seq(Stmts) /\ c \in Seq(Stmts) /\ d \in Seq(Stmts)
  BY <1>4, <1>5, <1>6, <1>7, <1>8, SeqMonotonic
<1>10. e \in Seq(F) /\ e \in Seq(Stmts)
  BY <1>4, <1>5, <1>9, ConcatProperties
<1>11. NoRows(b) /\ NoRows(c) /\ NoRows(d)
  BY <1>5, <1>6, <1>7 DEF NoRows
<1>12. Bare(e)
  BY <1>4, <1>9, <1>11, BareJoined
<1>13. \A op, x : Listed(a, op, x) \/ Listed(b, op, x) => Listed(e, op, x)
  BY <1>9, ListedJoined
<1>14. \A i \in 1 .. Len(e) : e[i].op # "putSource"
  <2>1. \A i \in 1 .. Len(e) : i \in 1 .. Len(a) \/ \E j \in 1 .. Len(b) : i = Len(a) + j
    BY <1>9, JoinedLists
  <2>2. \A i \in 1 .. Len(a) : e[i] = a[i]
    BY <1>9, JoinedLists
  <2>3. \A i \in 1 .. Len(b) : e[Len(a) + i] = b[i]
    BY <1>9, JoinedLists
  <2> HIDE DEF e
  <2> QED
    BY <1>4, <1>5, <2>1, <2>2, <2>3
<1> HIDE DEF e
<1>15. g \in Seq(F) /\ g \in Seq(Stmts) /\ Bare(g)
  BY <1>6, <1>9, <1>10, <1>11, <1>12, ConcatProperties, BareJoined
<1>16. \A op, x : Listed(e, op, x) \/ Listed(c, op, x) => Listed(g, op, x)
  BY <1>9, <1>10, ListedJoined
<1>17. \A i \in 1 .. Len(g) : g[i].op # "putSource"
  <2>1. \A i \in 1 .. Len(g) : i \in 1 .. Len(e) \/ \E j \in 1 .. Len(c) : i = Len(e) + j
    BY <1>9, <1>10, JoinedLists
  <2>2. \A i \in 1 .. Len(e) : g[i] = e[i]
    BY <1>9, <1>10, JoinedLists
  <2>3. \A i \in 1 .. Len(c) : g[Len(e) + i] = c[i]
    BY <1>9, <1>10, JoinedLists
  <2> HIDE DEF g
  <2> QED
    BY <1>6, <1>14, <2>1, <2>2, <2>3
<1> HIDE DEF g
<1>18. t \in Seq(F) /\ t \in Seq(Stmts) /\ Bare(t)
  BY <1>7, <1>9, <1>11, <1>15, ConcatProperties, BareJoined
<1>19. \A op, x : Listed(g, op, x) \/ Listed(d, op, x) => Listed(t, op, x)
  BY <1>9, <1>15, ListedJoined
<1>20. ASSUME NEW i \in 1 .. Len(t), t[i].op = "putSource"
       PROVE  \/ t[i].val \in DOMAIN old.comps
              \/ \E j \in 1 .. Len(t) : /\ j < i /\ t[j].op \in {"putComponent", "check"}
                                        /\ t[j].key = t[i].val
  <2>1. /\ i \in 1 .. Len(g) \/ \E j \in 1 .. Len(d) : i = Len(g) + j
        /\ \A j \in 1 .. Len(g) : j \in 1 .. Len(t) /\ t[j] = g[j]
        /\ Len(g) \in Nat
    BY <1>9, <1>15, JoinedLists
  <2>2. t[i] \in F
    BY <1>18, ElementOfSeq
  <2> HIDE DEF t
  <2>3. PICK l \in 1 .. Len(d) : i = Len(g) + l
    BY <1>17, <1>20, <2>1
  <2>4. t[i].val = new.sources[t[i].key] /\ t[i].key \in DOMAIN new.sources
    BY <1>20, <2>2 DEF F, Fitting
  <2>5. t[i].val \in DOMAIN new.comps
    BY <2>4 DEF IsProject
  <2>6. CASE t[i].val \in ComponentPut(old, new)
    <3>1. PICK j \in 1 .. Len(g) : g[j].op = "putComponent" /\ g[j].key = t[i].val
      BY <1>6, <1>16, <2>6 DEF Listed
    <3>2. j < i
      BY <2>1, <2>3
    <3> QED
      BY <2>1, <3>1, <3>2
  <2>7. CASE t[i].val \notin ComponentPut(old, new)
    BY <2>5, <2>7 DEF ComponentPut
  <2> QED
    BY <2>6, <2>7
<1>21. t = Diff(old, new)
  BY <1>1 DEF t, g, e
<1> HIDE DEF t
<1> QED
  BY <1>4, <1>5, <1>6, <1>7, <1>13, <1>16, <1>18, <1>19, <1>20, <1>21 DEF F, gone

-----------------------------------------------------------------------------
(* The invariant.                                                          *)

CompRow == {NoComp} \cup [version : Nat \ {0}, content : Contents, filed : BOOLEAN]
SourceRow == {NoSource} \cup [version : Nat \ {0}, comp : Comps, enabled : BOOLEAN]
TablesOK == comps \in [Comps -> CompRow] /\ sources \in [Sources -> SourceRow]

Fields(r) == [op |-> r.op, in |-> r.in, old |-> r.old, todo |-> r.todo, status |-> r.status,
              alone |-> r.alone, whole |-> r.whole]
With(r, t) == [op |-> r.op, in |-> r.in, old |-> r.old, todo |-> t, status |-> r.status,
               alone |-> r.alone, whole |-> r.whole]
Overtaken(r) == [op |-> r.op, in |-> r.in, old |-> r.old, todo |-> r.todo, status |-> r.status,
                 alone |-> FALSE, whole |-> r.whole]

(* A call reads, and then does. *)
ReadsNothing(t) == \A i \in 1 .. Len(t) : t[i].op \notin Lists
ListsFirst(t) ==
  \/ ReadsNothing(t)
  \/ Len(t) = 1 /\ t[1].op = "list"
  \/ /\ Len(t) >= 1 /\ t[Len(t)].op = "diff"
     /\ \A i \in 1 .. Len(t) - 1 : t[i].op = "listOf"

CallOK(r) ==
  /\ r.todo \in Seq(Stmts)
  /\ r.status = "running" =>
       /\ ListsFirst(r.todo)
       /\ r.op = "putProject" => IsProject(r.in)
       /\ \A i \in 1 .. Len(r.todo) :
            /\ r.todo[i].op \in {"listOf", "diff"} => r.op = "putProject" /\ IsOld(r.old)
            /\ r.todo[i].op = "list" => (r.todo[i].key = TRUE <=> r.op = "putProject")

(* What a project put that is still reading has read is in the tables; and when
   nothing is filed otherwise or beyond a page, it reads everything. *)
HasRead(t, r, cs, ss) ==
  /\ \A c \in DOMAIN r.old.comps : cs[c].version > 0 /\ r.old.comps[c] = cs[c]
  /\ \A s \in DOMAIN r.old.sources : ss[s].version > 0 /\ r.old.sources[s] = ss[s]
  /\ r.whole =>
       /\ \A c \in Comps : cs[c].version > 0 => c \in DOMAIN r.old.comps
       /\ \A s \in Sources : ss[s].version > 0 =>
            s \in DOMAIN r.old.sources \/ Listed(t, "listOf", ss[s].comp)

(* The components and event sources that it knows of. *)
Known(r) == {c \in Comps : r.whole \/ c \in DOMAIN r.old.comps}
KnownSources(r) == {s \in Sources : r.whole \/ s \in DOMAIN r.old.sources}

(* What is true of a call that nobody overtook. *)
Fresh(r, cs, ss) ==
  r.status = "running" /\ r.alone =>
    /\ Ready(r.todo, cs, ss)
    /\ ~ ReadsNothing(r.todo) /\ Len(r.todo) >= 1 /\ r.todo[Len(r.todo)].op = "diff"
         => HasRead(r.todo, r, cs, ss)
    /\ r.op = "putProject" /\ ReadsNothing(r.todo)
         => Due(r.todo, r.in, Known(r), KnownSources(r), cs, ss)

ServiceInv ==
  /\ scene \in Scenes /\ TablesOK /\ tainted \in BOOLEAN
  /\ call = [k \in Clients |-> Fields(call[k])]
  /\ \A k \in Clients : CallOK(call[k])
  /\ ~ tainted => /\ Owned(comps, sources)
                  /\ \A k \in Clients : Fresh(call[k], comps, sources)

LEMMA SceneIs ==
  ASSUME scene \in Scenes
  PROVE  /\ scene.clients \subseteq Clients /\ scene.contents \in SUBSET Contents
         /\ scene.sources \in SUBSET Sources
BY ServiceAssumption

LEMMA TablesAre ==
  ASSUME TablesOK
  PROVE  /\ \A c \in Comps : comps[c].version \in Nat
         /\ \A s \in Sources : sources[s].version \in Nat
         /\ \A s \in Sources : sources[s].version > 0 => sources[s].comp \in Comps
BY DEF TablesOK, CompRow, SourceRow, NoComp, NoSource

LEMMA ReadsNothingTail ==
  ASSUME NEW t \in Seq(Stmts), t # <<>>, ListsFirst(t), t[1].op \notin Lists
  PROVE  ReadsNothing(t) /\ ReadsNothing(Tail(t))
<1>1. /\ Len(t) \in Nat /\ Len(t) >= 1 /\ Len(Tail(t)) = Len(t) - 1
      /\ \A i \in 1 .. Len(t) - 1 : i + 1 \in 1 .. Len(t) /\ Tail(t)[i] = t[i + 1]
  BY TailIs
<1>2. ReadsNothing(t)
  <2>1. CASE Len(t) = 1
    BY <2>1 DEF ListsFirst, Lists
  <2>2. CASE Len(t) # 1
    <3>1. 1 \in 1 .. Len(t) - 1
      BY <1>1, <2>2
    <3> QED
      BY <2>2, <3>1 DEF ListsFirst, Lists
  <2> QED
    BY <2>1, <2>2
<1> QED
  BY <1>1, <1>2 DEF ReadsNothing

(* A call that does its first statement keeps what is true of it. *)
LEMMA TailFresh ==
  ASSUME NEW r, CallOK(r), r.todo # <<>>, r.status = "running", r.todo[1].op \notin Lists,
         NEW cs, NEW ss, NEW ds, NEW ts
  PROVE  /\ CallOK(With(r, Tail(r.todo)))
         /\ Does(r.todo[1], cs, ss, ds, ts) /\ Fresh(r, cs, ss)
              => Fresh(With(r, Tail(r.todo)), ds, ts)
<1> DEFINE t == r.todo
           w == With(r, Tail(t))
<1>1. /\ t \in Seq(Stmts) /\ t # <<>> /\ ListsFirst(t) /\ t[1].op \notin Lists
      /\ r.op = "putProject" => IsProject(r.in)
  BY DEF CallOK
<1>2. Tail(t) \in Seq(Stmts) /\ ReadsNothing(t) /\ ReadsNothing(Tail(t))
  BY <1>1, TailIs, ReadsNothingTail
<1>3. /\ w.todo = Tail(t) /\ w.op = r.op /\ w.in = r.in /\ w.old = r.old
      /\ w.status = r.status /\ w.alone = r.alone /\ w.whole = r.whole
  BY DEF With
<1> HIDE DEF w, t
<1>0. /\ Known(w) = Known(r) /\ KnownSources(w) = KnownSources(r)
      /\ Known(r) \in SUBSET Comps /\ KnownSources(r) \in SUBSET Sources
  BY <1>3 DEF Known, KnownSources
<1>4. CallOK(w)
  <2>1. \A i \in 1 .. Len(Tail(t)) : Tail(t)[i].op \notin {"list", "listOf", "diff"}
    BY <1>2 DEF ReadsNothing, Lists
  <2> QED
    BY <1>1, <1>2, <1>3, <2>1 DEF CallOK, ListsFirst
<1>5. ASSUME Does(t[1], cs, ss, ds, ts), Fresh(r, cs, ss), r.alone
      PROVE  /\ Ready(Tail(t), ds, ts)
             /\ r.op = "putProject" => Due(Tail(t), r.in, Known(r), KnownSources(r), ds, ts)
  <2>1. /\ Ready(t, cs, ss)
        /\ r.op = "putProject" => Due(t, r.in, Known(r), KnownSources(r), cs, ss)
    BY <1>2, <1>5 DEF Fresh, t
  <2> QED
    BY <1>0, <1>1, <1>5, <2>1, ReadyTail, DueTail
<1>6. ASSUME Does(t[1], cs, ss, ds, ts), Fresh(r, cs, ss) PROVE Fresh(w, ds, ts)
  BY <1>0, <1>2, <1>3, <1>5, <1>6 DEF Fresh
<1> QED
  BY <1>4, <1>6 DEF w, t

(* A step of one call that does not write. *)
LEMMA Rests ==
  ASSUME ServiceInv, NEW k \in Clients, NEW r, r = Fields(r), CallOK(r),
         call' = [j \in Clients |-> IF j = k THEN r ELSE call[j]],
         UNCHANGED <<scene, comps, sources>>, tainted' \in BOOLEAN, tainted => tainted',
         ~ tainted' => Fresh(r, comps, sources)
  PROVE  ServiceInv'
<1>1. \A j \in Clients : call'[j] = IF j = k THEN r ELSE call[j]
  OBVIOUS
<1>2. \A j \in Clients : call[j] = Fields(call[j])
  BY DEF ServiceInv
<1>3. call' = [j \in Clients |-> Fields(call'[j])]
  <2>1. \A j \in Clients : call'[j] = Fields(call'[j])
    BY <1>1, <1>2
  <2> QED
    BY <2>1
<1>4. \A j \in Clients : CallOK(call'[j])
  BY <1>1 DEF ServiceInv
<1>5. TablesOK'
  BY DEF ServiceInv, TablesOK
<1>6. ~ tainted' => Owned(comps', sources') /\ \A j \in Clients : Fresh(call'[j], comps', sources')
  BY <1>1 DEF ServiceInv
<1> QED
  BY <1>3, <1>4, <1>5, <1>6 DEF ServiceInv

(* A step that writes, after which the call goes on or has failed. *)
LEMMA WriteKeeps ==
  ASSUME ServiceInv, NEW k \in Clients, Running(k), call[k].todo # <<>>,
         Does(call[k].todo[1], comps, sources, comps', sources'), TablesOK', UNCHANGED scene,
         NEW w, w = Fields(w), CallOK(w),
         Fresh(call[k], comps, sources) => Fresh(w, comps', sources'),
         call' = [j \in Clients |-> IF j = k THEN w ELSE Overtaken(call[j])],
         tainted' \in BOOLEAN, tainted => tainted',
         call[k].todo[1].op \in {"putSource", "removeRow"} /\ ~ call[k].alone => tainted'
  PROVE  ServiceInv'
<1> DEFINE r == call[k]
<1>1. \A j \in Clients : call'[j] = IF j = k THEN w ELSE Overtaken(call[j])
  OBVIOUS
<1>2. CallOK(r) /\ r.status = "running"
  BY DEF ServiceInv, Running
<1>3. CallOK(w) /\ (Fresh(r, comps, sources) => Fresh(w, comps', sources'))
  OBVIOUS
<1>4. call' = [j \in Clients |-> Fields(call'[j])]
  <2>1. \A j \in Clients : Overtaken(call[j]) = Fields(Overtaken(call[j]))
    BY DEF Fields, Overtaken
  <2>2. \A j \in Clients : call'[j] = Fields(call'[j])
    BY <1>1, <2>1
  <2> QED
    BY <2>2
<1>5. \A j \in Clients : CallOK(call'[j])
  <2>1. \A j \in Clients : CallOK(Overtaken(call[j]))
    BY DEF ServiceInv, CallOK, Overtaken
  <2> QED
    BY <1>1, <1>3, <2>1
<1>6. ASSUME ~ tainted'
      PROVE  /\ Owned(comps', sources')
             /\ \A j \in Clients : Fresh(call'[j], comps', sources')
  <2>1. Owned(comps, sources) /\ Fresh(r, comps, sources)
    BY <1>6 DEF ServiceInv
  <2>2. \A j \in Clients : j # k => Fresh(call'[j], comps', sources')
    BY <1>1 DEF Fresh, Overtaken
  <2>3. Fresh(call'[k], comps', sources')
    BY <1>1, <1>3, <2>1
  <2>4. Owned(comps', sources')
    <3>0. \A s \in Sources : sources[s].version > 0 => sources[s].comp \in Comps
      BY TablesAre DEF ServiceInv
    <3>1. CASE r.alone
      <4>1. Ready(r.todo, comps, sources) /\ r.todo \in Seq(Stmts)
        BY <1>2, <2>1, <3>1 DEF Fresh, CallOK
      <4> QED
        BY <2>1, <3>0, <4>1, OwnedStep
    <3>2. CASE ~ r.alone
      <4>1. r.todo[1].op \notin {"putSource", "removeRow"}
        BY <1>6, <3>2
      <4>2. ASSUME NEW s \in Sources, sources'[s].version > 0
            PROVE  comps'[sources'[s].comp].version > 0
        <5>1. sources'[s].version = sources[s].version /\ sources'[s].comp = sources[s].comp
          BY <4>1, <4>2 DEF Does
        <5>2. sources[s].comp \in Comps /\ comps[sources[s].comp].version > 0
          BY <2>1, <3>0, <4>2, <5>1 DEF Owned
        <5>3. \A c \in Comps : comps'[c].version > 0 \/ comps'[c] = comps[c]
          BY <4>1 DEF Does
        <5> QED
          BY <5>1, <5>2, <5>3
      <4> QED
        BY <4>2 DEF Owned
    <3> QED
      BY <3>1, <3>2
  <2> QED
    BY <2>2, <2>3, <2>4
<1> QED
  BY <1>4, <1>5, <1>6 DEF ServiceInv

-----------------------------------------------------------------------------
(* The steps.                                                              *)

NewCall(op, in, todo) ==
  [op |-> op, in |-> in, old |-> Nothing, todo |-> todo, status |-> "running", alone |-> TRUE,
   whole |-> TRUE]

LEMMA BeginKeeps ==
  ASSUME ServiceInv, UNCHANGED scene, NEW k \in Clients, NEW op, NEW in, NEW todo,
         Begin(k, op, in, todo), CallOK(NewCall(op, in, todo)),
         Fresh(NewCall(op, in, todo), comps, sources)
  PROVE  ServiceInv'
<1> DEFINE r == NewCall(op, in, todo)
<1>1. r = Fields(r)
  BY DEF NewCall, Fields
<1>2. call' = [j \in Clients |-> IF j = k THEN r ELSE call[j]]
  BY DEF Begin, ServiceInv, NewCall
<1>3. tainted' \in BOOLEAN /\ tainted' = tainted
  BY DEF Begin, ServiceInv
<1>4. UNCHANGED <<scene, comps, sources>>
  BY DEF Begin
<1> HIDE DEF r
<1>5. CallOK(r) /\ Fresh(r, comps, sources)
  BY DEF r
<1> QED
  BY <1>1, <1>2, <1>3, <1>4, <1>5, Rests

(* A call that only does, and neither removes a row nor puts an event source. *)
LEMMA SimpleCall ==
  ASSUME NEW op, op # "putProject", NEW todo \in Seq(Stmts),
         \A i \in 1 .. Len(todo) :
           todo[i].op \notin {"list", "listOf", "diff", "removeRow", "putSource"}
  PROVE  CallOK(NewCall(op, Nothing, todo)) /\ Fresh(NewCall(op, Nothing, todo), comps, sources)
<1> DEFINE r == NewCall(op, Nothing, todo)
<1>1. r.todo = todo /\ r.op = op /\ r.status = "running"
  BY DEF NewCall
<1> HIDE DEF r
<1>2. ReadsNothing(todo)
  BY DEF ReadsNothing, Lists
<1>3. CallOK(r)
  BY <1>1, <1>2 DEF CallOK, ListsFirst
<1>4. Ready(todo, comps, sources)
  BY DEF Ready, RemovesBare, PutsOwned
<1>5. Fresh(r, comps, sources)
  BY <1>1, <1>2, <1>4 DEF Fresh
<1> QED
  BY <1>3, <1>5 DEF r

LEMMA CallsKeep ==
  ASSUME ServiceInv, UNCHANGED scene, NEW k \in Clients, Calls(k)
  PROVE  ServiceInv'
<1>0. /\ scene.contents \in SUBSET Contents /\ scene.sources \in SUBSET Sources
      /\ \A c \in Comps : comps[c].version \in Nat
      /\ \A s \in Sources : sources[s].version \in Nat
  BY SceneIs, TablesAre DEF ServiceInv
<1>1. ASSUME NEW p \in Projects(scene.contents, scene.sources),
             Begin(k, "putProject", p, <<Do("list", TRUE)>>)
      PROVE  ServiceInv'
  <2> DEFINE t == <<Do("list", TRUE)>>
             r == NewCall("putProject", p, t)
  <2>1. /\ t \in Seq(Stmts) /\ Len(t) = 1 /\ t[1].op = "list" /\ t[1].key = TRUE
    <3>1. Do("list", TRUE) \in Stmts
      BY StatementForms
    <3> QED
      BY <3>1 DEF Do
  <2>2. IsProject(p)
    BY <1>0, <1>1, ProjectsAre
  <2>3. r.todo = t /\ r.op = "putProject" /\ r.in = p /\ r.status = "running"
    BY DEF NewCall
  <2>4. r = NewCall("putProject", p, t)
    OBVIOUS
  <2> HIDE DEF r
  <2>5. Begin(k, "putProject", p, t)
    BY <1>1
  <2> HIDE DEF t
  <2>6. CallOK(r)
    <3>1. \A i \in 1 .. Len(t) : i = 1
      BY <2>1
    <3> QED
      BY <2>1, <2>2, <2>3, <3>1 DEF CallOK, ListsFirst
  <2>7. ~ ReadsNothing(t)
    BY <2>1 DEF ReadsNothing, Lists
  <2>8. Ready(t, comps, sources)
    <3>1. \A i \in 1 .. Len(t) : t[i].op = "list"
      BY <2>1
    <3> QED
      BY <3>1 DEF Ready, RemovesBare, PutsOwned
  <2>9. Fresh(r, comps, sources)
    BY <2>1, <2>3, <2>7, <2>8 DEF Fresh
  <2> QED
    BY <2>4, <2>5, <2>6, <2>9, BeginKeeps
<1>2. ASSUME Begin(k, "removeProject", Nothing, <<Do("list", FALSE)>>) PROVE ServiceInv'
  <2> DEFINE t == <<Do("list", FALSE)>>
             r == NewCall("removeProject", Nothing, t)
  <2>1. /\ t \in Seq(Stmts) /\ Len(t) = 1 /\ t[1].op = "list" /\ t[1].key = FALSE
    <3>1. Do("list", FALSE) \in Stmts
      BY StatementForms
    <3> QED
      BY <3>1 DEF Do
  <2>3. r.todo = t /\ r.op = "removeProject" /\ r.status = "running"
    BY DEF NewCall
  <2>4. r = NewCall("removeProject", Nothing, t)
    OBVIOUS
  <2> HIDE DEF r
  <2>5. Begin(k, "removeProject", Nothing, t)
    BY <1>2
  <2> HIDE DEF t
  <2>6. CallOK(r)
    <3>1. \A i \in 1 .. Len(t) : i = 1
      BY <2>1
    <3> QED
      BY <2>1, <2>3, <3>1 DEF CallOK, ListsFirst
  <2>8. Ready(t, comps, sources)
    <3>1. \A i \in 1 .. Len(t) : t[i].op = "list"
      BY <2>1
    <3> QED
      BY <3>1 DEF Ready, RemovesBare, PutsOwned
  <2>9. Fresh(r, comps, sources)
    BY <2>1, <2>3, <2>8 DEF Fresh
  <2> QED
    BY <2>4, <2>5, <2>6, <2>9, BeginKeeps
<1>3. ASSUME NEW c \in Comps, NEW x \in scene.contents, NEW v \in {0, comps[c].version},
             Begin(k, "putComponent", Nothing, <<Put("putComponent", c, v, x), Do("tellPut", c)>>)
      PROVE  ServiceInv'
  <2> DEFINE t == <<Put("putComponent", c, v, x), Do("tellPut", c)>>
  <2>1. t \in Seq(Stmts) /\ \A i \in 1 .. Len(t) : t[i].op \in {"putComponent", "tellPut"}
    <3>1. Put("putComponent", c, v, x) \in Stmts /\ Do("tellPut", c) \in Stmts
      BY <1>0, StatementForms DEF CompOps
    <3> QED
      BY <3>1 DEF Put, Do
  <2>2. Begin(k, "putComponent", Nothing, t)
    BY <1>3
  <2> HIDE DEF t
  <2> QED
    BY <2>1, <2>2, SimpleCall, BeginKeeps
<1>4. ASSUME NEW c \in Comps, Begin(k, "removeComponent", Nothing, RemoveWith(c))
      PROVE  ServiceInv'
  <2> DEFINE t == RemoveWith(c)
             r == NewCall("removeComponent", Nothing, t)
  <2>1. t \in Seq(Stmts)
    <3>1. /\ Do("removeSources", c) \in Stmts /\ Do("removeRow", c) \in Stmts
          /\ Do("tellRemoved", c) \in Stmts
      BY StatementForms DEF CompOps
    <3> QED
      BY <3>1 DEF RemoveWith
  <2>2. /\ Len(t) = 3 /\ t[1].op = "removeSources" /\ t[2].op = "removeRow" /\ t[3].op = "tellRemoved"
        /\ t[1].key = c /\ t[2].key = c
    <3>1. /\ Len(t) = 3
          /\ t[1] = Do("removeSources", c) /\ t[2] = Do("removeRow", c)
          /\ t[3] = Do("tellRemoved", c)
      BY RemoveWithIs
    <3> HIDE DEF t
    <3> QED
      BY <3>1 DEF Do
  <2>3. r.todo = t /\ r.op = "removeComponent" /\ r.status = "running"
    BY DEF NewCall
  <2>4. r = NewCall("removeComponent", Nothing, t)
    OBVIOUS
  <2> HIDE DEF r
  <2>5. Begin(k, "removeComponent", Nothing, t)
    BY <1>4
  <2> HIDE DEF t
  <2>6. \A i \in 1 .. Len(t) : i \in {1, 2, 3}
    BY <2>2
  <2>7. ReadsNothing(t)
    BY <2>2, <2>6 DEF ReadsNothing, Lists
  <2>8. CallOK(r)
    BY <2>1, <2>3, <2>7 DEF CallOK, ListsFirst, ReadsNothing, Lists
  <2>9. Ready(t, comps, sources)
    <3>1. \A i \in 1 .. Len(t) : t[i].op = "removeRow" => i = 2
      BY <2>2, <2>6
    <3>2. 2 > 1 /\ 2 - 1 = 1
      OBVIOUS
    <3>3. RemovesBare(t, sources)
      BY <2>2, <3>1, <3>2 DEF RemovesBare
    <3>4. PutsOwned(t, comps)
      BY <2>2, <2>6 DEF PutsOwned
    <3> QED
      BY <3>3, <3>4 DEF Ready
  <2>10. Fresh(r, comps, sources)
    BY <2>3, <2>7, <2>9 DEF Fresh
  <2> QED
    BY <2>4, <2>5, <2>8, <2>10, BeginKeeps
<1>5. ASSUME NEW c \in Comps, NEW s \in scene.sources, NEW v \in {0, sources[s].version},
             Begin(k, "putSource", Nothing, <<Do("check", c), Put("putSource", s, v, c)>>)
      PROVE  ServiceInv'
  <2> DEFINE t == <<Do("check", c), Put("putSource", s, v, c)>>
             r == NewCall("putSource", Nothing, t)
  <2>1. /\ t \in Seq(Stmts) /\ Len(t) = 2 /\ t[1].op = "check" /\ t[2].op = "putSource"
        /\ t[1].key = c /\ t[2].val = c
    <3>1. Do("check", c) \in Stmts /\ Put("putSource", s, v, c) \in Stmts
      BY <1>0, StatementForms DEF CompOps
    <3> QED
      BY <3>1 DEF Put, Do
  <2>3. r.todo = t /\ r.op = "putSource" /\ r.status = "running"
    BY DEF NewCall
  <2>4. r = NewCall("putSource", Nothing, t)
    OBVIOUS
  <2> HIDE DEF r
  <2>5. Begin(k, "putSource", Nothing, t)
    BY <1>5
  <2> HIDE DEF t
  <2>6. \A i \in 1 .. Len(t) : i \in {1, 2}
    BY <2>1
  <2>7. ReadsNothing(t)
    BY <2>1, <2>6 DEF ReadsNothing, Lists
  <2>8. CallOK(r)
    BY <2>1, <2>3, <2>7 DEF CallOK, ListsFirst, ReadsNothing, Lists
  <2>9. Ready(t, comps, sources)
    <3>1. RemovesBare(t, sources)
      BY <2>1, <2>6 DEF RemovesBare
    <3>2. PutsOwned(t, comps)
      <4>1. 1 \in 1 .. Len(t) /\ 1 < 2
        BY <2>1
      <4> QED
        BY <2>1, <2>6, <4>1 DEF PutsOwned
    <3> QED
      BY <3>1, <3>2 DEF Ready
  <2>10. Fresh(r, comps, sources)
    BY <2>3, <2>7, <2>9 DEF Fresh
  <2> QED
    BY <2>4, <2>5, <2>8, <2>10, BeginKeeps
<1>6. ASSUME NEW s \in scene.sources, Begin(k, "removeSource", Nothing, <<Do("removeSource", s)>>)
      PROVE  ServiceInv'
  <2> DEFINE t == <<Do("removeSource", s)>>
  <2>1. t \in Seq(Stmts) /\ \A i \in 1 .. Len(t) : t[i].op = "removeSource"
    <3>1. Do("removeSource", s) \in Stmts
      BY <1>0, StatementForms
    <3> QED
      BY <3>1 DEF Do
  <2>2. Begin(k, "removeSource", Nothing, t)
    BY <1>6
  <2> HIDE DEF t
  <2> QED
    BY <2>1, <2>2, SimpleCall, BeginKeeps
<1>7. ASSUME NEW enabled \in BOOLEAN, Begin(k, "toggle", Nothing, <<Do("listSources", enabled)>>)
      PROVE  ServiceInv'
  <2> DEFINE t == <<Do("listSources", enabled)>>
  <2>1. t \in Seq(Stmts) /\ \A i \in 1 .. Len(t) : t[i].op = "listSources"
    <3>1. Do("listSources", enabled) \in Stmts
      BY StatementForms
    <3> QED
      BY <3>1 DEF Do
  <2>2. Begin(k, "toggle", Nothing, t)
    BY <1>7
  <2> HIDE DEF t
  <2> QED
    BY <2>1, <2>2, SimpleCall, BeginKeeps
<1> QED
  BY <1>1, <1>2, <1>3, <1>4, <1>5, <1>6, <1>7 DEF Calls

(* A call goes on with other statements. *)
LEMMA ContinuesIs ==
  ASSUME ServiceInv, NEW k \in Clients, NEW t, Continues(k, t)
  PROVE  call' = [j \in Clients |-> IF j = k THEN With(call[k], t) ELSE call[j]]
<1>1. call = [j \in Clients |-> Fields(call[j])]
  BY DEF ServiceInv
<1>2. call[k] \in [op : {call[k].op}, in : {call[k].in}, old : {call[k].old},
                   todo : {call[k].todo}, status : {call[k].status}, alone : {call[k].alone},
                   whole : {call[k].whole}]
  <2>1. call[k] = Fields(call[k])
    BY <1>1
  <2> QED
    BY <2>1 DEF Fields
<1>3. call' = [call EXCEPT ![k] = [call[k] EXCEPT !.todo = t]]
  BY <1>1 DEF Continues
<1>4. [call[k] EXCEPT !.todo = t] = With(call[k], t)
  BY <1>2 DEF With
<1> QED
  BY <1>1, <1>3, <1>4

LEMMA WithIs ==
  ASSUME NEW r, NEW t
  PROVE  LET w == With(r, t) IN
         /\ w = Fields(w) /\ w.todo = t /\ w.op = r.op /\ w.in = r.in /\ w.old = r.old
         /\ w.status = r.status /\ w.alone = r.alone /\ w.whole = r.whole
BY DEF With, Fields

(* What is to be done, and how it is asked for. *)
LEMMA ThisIs ==
  ASSUME ServiceInv, NEW k \in Clients, NEW op, Is(k, op)
  PROVE  /\ CallOK(call[k]) /\ call[k].status = "running" /\ Running(k)
         /\ call[k].todo \in Seq(Stmts) /\ call[k].todo # <<>> /\ 1 \in 1 .. Len(call[k].todo)
         /\ This(k) = call[k].todo[1] /\ call[k].todo[1].op = op /\ call[k].todo[1] \in Stmts
         /\ Len(call[k].todo) \in Nat
<1>1. CallOK(call[k]) /\ Running(k) /\ call[k].todo # <<>> /\ This(k).op = op
  BY DEF ServiceInv, Is
<1>2. call[k].todo \in Seq(Stmts)
  BY <1>1 DEF CallOK
<1>3. Len(call[k].todo) \in Nat /\ Len(call[k].todo) >= 1 /\ This(k) = call[k].todo[1]
      /\ call[k].todo[1] \in Stmts
  BY <1>1, <1>2, TailIs DEF This
<1> QED
  BY <1>1, <1>2, <1>3 DEF Running

(* A statement that is passed over, or tells others. *)
LEMMA PassedKeeps ==
  ASSUME ServiceInv, NEW k \in Clients, NEW op, Is(k, op), op \notin Lists,
         Continues(k, Tail(call[k].todo)), UNCHANGED <<scene, comps, sources>>,
         tainted' \in BOOLEAN, tainted => tainted',
         ~ tainted' => op \in {"check", "tellPut", "tellRemoved"},
         op = "check" /\ ~ tainted' => comps[call[k].todo[1].key].version > 0
  PROVE  ServiceInv'
<1> DEFINE r == call[k]
           w == With(r, Tail(r.todo))
<1>1. /\ CallOK(r) /\ r.status = "running" /\ r.todo # <<>> /\ r.todo[1].op = op
  BY ThisIs
<1>2. ~ tainted' => Does(r.todo[1], comps, sources, comps, sources)
  BY <1>1 DEF Does
<1>3. CallOK(w) /\ (~ tainted' /\ Fresh(r, comps, sources) => Fresh(w, comps, sources))
  BY <1>1, <1>2, TailFresh
<1>4. ~ tainted' => Fresh(r, comps, sources)
  BY DEF ServiceInv
<1>5. call' = [j \in Clients |-> IF j = k THEN w ELSE call[j]]
  BY ContinuesIs
<1>6. w = Fields(w)
  BY WithIs
<1> HIDE DEF w
<1> QED
  BY <1>3, <1>4, <1>5, <1>6, Rests

(* Calls that are over. *)
LEMMA OverKeeps ==
  ASSUME ServiceInv, NEW k \in Clients, NEW r, r = Fields(r), r.todo = <<>>,
         r.status # "running", call' = [call EXCEPT ![k] = r],
         UNCHANGED <<scene, comps, sources, tainted>>
  PROVE  ServiceInv'
<1>1. call' = [j \in Clients |-> IF j = k THEN r ELSE call[j]]
  BY DEF ServiceInv
<1>2. CallOK(r) /\ Fresh(r, comps, sources)
  BY DEF CallOK, Fresh
<1>3. tainted' \in BOOLEAN /\ tainted => tainted'
  BY DEF ServiceInv
<1> QED
  BY <1>1, <1>2, <1>3, Rests DEF ServiceInv

LEMMA FailedIs ==
  ASSUME NEW k \in Clients
  PROVE  /\ Failed(k) = Fields(Failed(k)) /\ Failed(k).todo = <<>>
         /\ Failed(k).status = "failed" /\ Failed(k).alone = call[k].alone
         /\ Failed(k).whole = call[k].whole
BY DEF Failed, Fields

LEMMA FailsKeep ==
  ASSUME ServiceInv, NEW k \in Clients, Fails(k), UNCHANGED <<scene, comps, sources, tainted>>
  PROVE  ServiceInv'
<1>1. call' = [call EXCEPT ![k] = Failed(k)]
  BY DEF Fails
<1> QED
  BY <1>1, FailedIs, OverKeeps

LEMMA QuickSteps ==
  ASSUME ServiceInv, UNCHANGED scene, NEW k \in Clients,
         Check(k) \/ CheckErrs(k) \/ Refused(k) \/ Errs(k) \/ Tell(k) \/ Answer(k)
  PROVE  ServiceInv'
<1>0. tainted \in BOOLEAN
  BY DEF ServiceInv
<1>1. CASE Check(k)
  <2>1. Is(k, "check") /\ UNCHANGED <<scene, comps, sources, tainted>>
    BY <1>1 DEF Check, Reads
  <2>2. This(k) = call[k].todo[1]
    BY <2>1, ThisIs
  <2>3. CASE comps[This(k).key].version = 0
    BY <1>1, <2>1, <2>3, FailsKeep DEF Check
  <2>4. CASE comps[This(k).key].version # 0
    <3>1. Continues(k, Tail(call[k].todo))
      BY <1>1, <2>4 DEF Check
    <3>2. call[k].todo[1].key \in Comps
      BY <2>1, ThisIs, StatementFields DEF CompOps
    <3>3. comps[call[k].todo[1].key].version > 0
      BY <2>2, <2>4, <3>2, TablesAre DEF ServiceInv
    <3>4. "check" \notin Lists
      BY DEF Lists
    <3> QED
      BY <1>0, <2>1, <3>1, <3>3, <3>4, PassedKeeps
  <2> QED
    BY <2>3, <2>4
<1>2. CASE CheckErrs(k)
  <2>1. /\ Is(k, "check") /\ UNCHANGED <<scene, comps, sources>> /\ tainted' = TRUE
        /\ Continues(k, Tail(call[k].todo)) /\ "check" \notin Lists
    BY <1>2 DEF CheckErrs, Lists
  <2> QED
    BY <2>1, PassedKeeps
<1>3. CASE Refused(k) \/ Errs(k)
  <2>1. Fails(k) /\ UNCHANGED <<scene, comps, sources, tainted>>
    BY <1>3 DEF Refused, Errs, Reads
  <2> QED
    BY <2>1, FailsKeep
<1>4. CASE Tell(k)
  <2>1. PICK op \in {"tellPut", "tellRemoved"} : Is(k, op)
    BY <1>4 DEF Tell
  <2>2. UNCHANGED <<scene, comps, sources, tainted>> /\ Continues(k, Tail(call[k].todo))
    BY <1>4 DEF Tell
  <2>3. op \notin Lists /\ op # "check"
    BY DEF Lists
  <2> QED
    BY <1>0, <2>1, <2>2, <2>3, PassedKeeps
<1>5. CASE Answer(k)
  <2>1. call' = [call EXCEPT ![k] = NoCall] /\ UNCHANGED <<scene, comps, sources, tainted>>
    BY <1>5 DEF Answer, Reads
  <2>2. NoCall = Fields(NoCall) /\ NoCall.todo = <<>> /\ NoCall.status # "running"
    BY DEF NoCall, Fields
  <2> QED
    BY <2>1, <2>2, OverKeeps
<1> QED
  BY <1>1, <1>2, <1>3, <1>4, <1>5

(* A call that has read something. *)
HavingRead(r, old, todo, whole) ==
  [op |-> r.op, in |-> r.in, old |-> old, todo |-> todo, status |-> r.status, alone |-> r.alone,
   whole |-> whole]

HasListed(k, old, todo, whole) ==
  \/ call' = [call EXCEPT ![k].old = old, ![k].todo = todo, ![k].whole = whole]
  \/ call' = [call EXCEPT ![k].todo = todo, ![k].old = old, ![k].whole = whole]

LEMMA HavingReadIs ==
  ASSUME ServiceInv, NEW k \in Clients, NEW old, NEW todo, NEW whole,
         HasListed(k, old, todo, whole)
  PROVE  call' = [j \in Clients |-> IF j = k THEN HavingRead(call[k], old, todo, whole) ELSE call[j]]
<1> DEFINE r == call[k]
           w == HavingRead(r, old, todo, whole)
<1>1. call = [j \in Clients |-> Fields(call[j])]
  BY DEF ServiceInv
<1>2. r \in [op : {r.op}, in : {r.in}, old : {r.old}, todo : {r.todo}, status : {r.status},
             alone : {r.alone}, whole : {r.whole}]
  <2>1. r = Fields(r)
    BY <1>1
  <2> QED
    BY <2>1 DEF Fields
<1> DEFINE y == HavingRead(r, old, todo, r.whole)
<1>3. [[r EXCEPT !.old = old] EXCEPT !.todo = todo] = y
  <2> DEFINE x == HavingRead(r, old, r.todo, r.whole)
  <2>1. [r EXCEPT !.old = old] = x
    BY <1>2 DEF HavingRead
  <2>2. x \in [op : {r.op}, in : {r.in}, old : {old}, todo : {r.todo}, status : {r.status},
               alone : {r.alone}, whole : {r.whole}]
    BY DEF HavingRead
  <2>3. /\ x.op = r.op /\ x.in = r.in /\ x.old = old /\ x.status = r.status
        /\ x.alone = r.alone /\ x.whole = r.whole
    BY DEF HavingRead
  <2> HIDE DEF x
  <2>4. [x EXCEPT !.todo = todo] = y
    BY <2>2, <2>3 DEF HavingRead
  <2> QED
    BY <2>1, <2>4
<1>4. [[r EXCEPT !.todo = todo] EXCEPT !.old = old] = y
  <2> DEFINE x == HavingRead(r, r.old, todo, r.whole)
  <2>1. [r EXCEPT !.todo = todo] = x
    BY <1>2 DEF HavingRead
  <2>2. x \in [op : {r.op}, in : {r.in}, old : {r.old}, todo : {todo}, status : {r.status},
               alone : {r.alone}, whole : {r.whole}]
    BY DEF HavingRead
  <2>3. /\ x.op = r.op /\ x.in = r.in /\ x.todo = todo /\ x.status = r.status
        /\ x.alone = r.alone /\ x.whole = r.whole
    BY DEF HavingRead
  <2> HIDE DEF x
  <2>4. [x EXCEPT !.old = old] = y
    BY <2>2, <2>3 DEF HavingRead
  <2> QED
    BY <2>1, <2>4
<1>5. [y EXCEPT !.whole = whole] = w
  <2>1. y \in [op : {r.op}, in : {r.in}, old : {old}, todo : {todo}, status : {r.status},
               alone : {r.alone}, whole : {r.whole}]
    BY DEF HavingRead
  <2>2. /\ y.op = r.op /\ y.in = r.in /\ y.old = old /\ y.todo = todo /\ y.status = r.status
        /\ y.alone = r.alone
    BY DEF HavingRead
  <2> HIDE DEF y
  <2> QED
    BY <2>1, <2>2 DEF HavingRead
<1> HIDE DEF w, y
<1>6. \/ call' = [call EXCEPT ![k] = [[[r EXCEPT !.old = old] EXCEPT !.todo = todo]
                                      EXCEPT !.whole = whole]]
      \/ call' = [call EXCEPT ![k] = [[[r EXCEPT !.todo = todo] EXCEPT !.old = old]
                                      EXCEPT !.whole = whole]]
  BY <1>1 DEF HasListed
<1>7. call' = [call EXCEPT ![k] = w]
  BY <1>3, <1>4, <1>5, <1>6
<1> QED
  BY <1>1, <1>7 DEF w

(* What a list returns of a set. *)
LEMMA FirstPageIs ==
  ASSUME NEW S, NEW T \in FirstPage(S)
  PROVE  T \subseteq S /\ (Cardinality(S) <= scene.page => T = S)
BY DEF FirstPage, kSubset

(* Where the components that a project is found to have go. *)
LEMMA ListKeeps ==
  ASSUME ServiceInv, UNCHANGED scene, NEW k \in Clients, List(k)
  PROVE  ServiceInv'
<1> DEFINE r == call[k]
           filed == {c \in Rows : comps[c].filed}
           whole == (\A c \in Rows : comps[c].filed) /\ Cardinality(Rows) <= scene.page
<1>1. /\ CallOK(r) /\ r.status = "running" /\ r.todo \in Seq(Stmts) /\ r.todo # <<>>
      /\ This(k) = r.todo[1] /\ r.todo[1].op = "list" /\ 1 \in 1 .. Len(r.todo)
  BY ThisIs DEF List
<1>2. UNCHANGED <<scene, comps, sources, tainted>> /\ tainted \in BOOLEAN
  BY DEF List, Reads, ServiceInv
<1>3. r.todo[1].key = TRUE <=> r.op = "putProject"
  BY <1>1 DEF CallOK
<1> DEFINE Listing(C, f, key) ==
             IF key
             THEN call' = [call EXCEPT
                    ![k].old = [comps |-> [c \in C |-> comps[c]], sources |-> [s \in {} |-> NoSource]],
                    ![k].todo = Append(Statements(f), Do("diff", Nothing)),
                    ![k].whole = whole]
             ELSE Continues(k, Each([c \in C |-> RemoveWith(c)]))
<1>9. PICK C \in FirstPage(filed) : Listing(C, [c \in C |-> Do("listOf", c)], This(k).key)
  BY DEF List
<1>4. C \subseteq Comps /\ C \subseteq Rows /\ (\A c \in C : comps[c].version > 0) /\ (whole => C = Rows)
  <2>1. filed \subseteq Rows /\ (whole => filed = Rows)
    OBVIOUS
  <2>2. Rows \subseteq Comps /\ \A c \in Rows : comps[c].version > 0
    BY DEF Rows
  <2> HIDE DEF filed
  <2>3. C \subseteq filed /\ (Cardinality(filed) <= scene.page => C = filed)
    BY FirstPageIs
  <2> QED
    BY <2>1, <2>2, <2>3
<1> HIDE DEF whole, filed
<1>5. CASE r.todo[1].key = TRUE
  <2> DEFINE f == [c \in C |-> Do("listOf", c)]
             a == Statements(f)
             t == Append(a, Do("diff", Nothing))
             old == [comps |-> [c \in C |-> comps[c]], sources |-> [s \in {} |-> NoSource]]
             w == HavingRead(r, old, t, whole)
  <2>1. call' = [j \in Clients |-> IF j = k THEN w ELSE call[j]]
    <3>1. call' = [call EXCEPT ![k].old = old, ![k].todo = t, ![k].whole = whole]
      BY <1>1, <1>5, <1>9
    <3> HIDE DEF old, t
    <3>2. HasListed(k, old, t, whole)
      BY <3>1 DEF HasListed
    <3> QED
      BY <3>2, HavingReadIs
  <2>2. /\ w.todo = t /\ w.op = r.op /\ w.in = r.in /\ w.old = old /\ w.status = r.status
        /\ w.alone = r.alone /\ w.whole = whole /\ w = Fields(w)
    BY DEF Fields, HavingRead
  <2>3. old.comps = [c \in C |-> comps[c]] /\ old.sources = [s \in {} |-> NoSource]
    OBVIOUS
  <2>4. /\ a \in Seq(Stmts) /\ Len(a) \in Nat
        /\ \A i \in 1 .. Len(a) : a[i].op = "listOf"
        /\ \A c \in C : \E i \in 1 .. Len(a) : a[i] = Do("listOf", c)
    <3>1. IsFiniteSet(DOMAIN f)
      BY <1>4, ServiceAssumption, FS_Subset
    <3>2. \A c \in DOMAIN f : f[c] \in Stmts /\ f[c].op = "listOf" /\ f[c] = Do("listOf", c)
      <4>1. \A c \in C : Do("listOf", c) \in Stmts
        BY <1>4, StatementForms DEF CompOps
      <4> QED
        BY <4>1 DEF Do
    <3>3. DOMAIN f = C
      OBVIOUS
    <3> HIDE DEF f
    <3>4. /\ a \in Seq(Stmts) /\ Len(a) \in Nat
          /\ \A i \in 1 .. Len(a) : \E x \in DOMAIN f : a[i] = f[x]
          /\ \A x \in DOMAIN f : \E i \in 1 .. Len(a) : a[i] = f[x]
      BY <3>1, <3>2, StatementsAre
    <3> HIDE DEF a
    <3>5. \A i \in 1 .. Len(a) : a[i].op = "listOf"
      BY <3>2, <3>4
    <3>6. \A c \in C : \E i \in 1 .. Len(a) : a[i] = Do("listOf", c)
      BY <3>2, <3>3, <3>4
    <3> QED
      BY <3>4, <3>5, <3>6
  <2> HIDE DEF a, w, old
  <2>5. /\ t \in Seq(Stmts) /\ Len(t) = Len(a) + 1 /\ t[Len(t)] = Do("diff", Nothing)
        /\ \A i \in 1 .. Len(t) - 1 : t[i] = a[i] /\ i \in 1 .. Len(a)
        /\ \A i \in 1 .. Len(a) : t[i] = a[i] /\ i \in 1 .. Len(t)
    <3>1. Do("diff", Nothing) \in Stmts
      BY StatementForms
    <3> QED
      BY <2>4, <3>1
  <2> HIDE DEF t
  <2>6. /\ Len(t) \in Nat /\ Len(t) >= 1 /\ t[Len(t)].op = "diff"
        /\ \A i \in 1 .. Len(t) - 1 : t[i].op = "listOf"
        /\ \A i \in 1 .. Len(t) : t[i].op \in {"listOf", "diff"}
    <3>1. \A i \in 1 .. Len(t) : i \in 1 .. Len(t) - 1 \/ i = Len(t)
      BY <2>4, <2>5
    <3>2. Len(t) \in Nat /\ Len(t) >= 1
      BY <2>4, <2>5
    <3> QED
      BY <2>4, <2>5, <3>1, <3>2 DEF Do
  <2>7. IsOld(old)
    <3>1. \A c \in Comps : comps[c].version \in Nat
      BY TablesAre DEF ServiceInv
    <3> QED
      BY <1>4, <2>3, <3>1 DEF IsOld
  <2>8. CallOK(w)
    BY <1>1, <1>3, <1>5, <2>2, <2>5, <2>6, <2>7 DEF CallOK, ListsFirst
  <2>9. ~ ReadsNothing(t)
    <3>1. Len(t) \in 1 .. Len(t)
      BY <2>6
    <3> QED
      BY <2>6, <3>1 DEF ReadsNothing, Lists
  <2>10. Ready(t, comps, sources)
    BY <2>6 DEF Ready, RemovesBare, PutsOwned
  <2>11. ASSUME ~ tainted PROVE HasRead(t, w, comps, sources)
    <3>1. /\ Owned(comps, sources)
          /\ \A s \in Sources : sources[s].version > 0 => sources[s].comp \in Comps
      BY <2>11, TablesAre DEF ServiceInv
    <3>2. \A s \in Sources : sources[s].version > 0 => sources[s].comp \in Rows
      BY <3>1 DEF Owned, Rows
    <3>3. \A c \in C : Listed(t, "listOf", c)
      <4> TAKE c \in C
      <4>1. PICK i \in 1 .. Len(a) : a[i] = Do("listOf", c)
        BY <2>4
      <4> QED
        BY <2>5, <4>1 DEF Listed, Do
    <3>4. Rows = {c \in Comps : comps[c].version > 0}
      BY DEF Rows
    <3> QED
      BY <1>4, <2>2, <2>3, <3>2, <3>3, <3>4 DEF HasRead
  <2>12. ~ tainted => Fresh(w, comps, sources)
    BY <2>2, <2>9, <2>10, <2>11 DEF Fresh
  <2> QED
    BY <1>2, <2>1, <2>2, <2>8, <2>12, Rests
<1>6. CASE r.todo[1].key # TRUE
  <2> DEFINE t == Removals(C)
             w == With(r, t)
  <2>1. Continues(k, t)
    <3>1. r.todo[1].key \in BOOLEAN
      BY <1>1, ThisIs DEF Stmts, CompOps, List
    <3> QED
      BY <1>1, <1>6, <1>9, <3>1 DEF Removals
  <2>2. call' = [j \in Clients |-> IF j = k THEN w ELSE call[j]]
    BY <2>1, ContinuesIs
  <2>3. w = Fields(w) /\ w.todo = t /\ w.op = r.op /\ w.status = r.status
    BY WithIs
  <2>4. \A c \in C : \A o \in {"removeSources", "removeRow", "tellRemoved"} : Do(o, c) \in Stmts
    BY <1>4, StatementForms DEF CompOps
  <2>5. /\ t \in Seq(Stmts) /\ Bare(t)
        /\ \A i \in 1 .. Len(t) : t[i].op \in {"removeSources", "removeRow", "tellRemoved"}
    BY <1>4, <2>4, RemovalsAre
  <2> HIDE DEF w, t
  <2>6. ReadsNothing(t)
    BY <2>5 DEF ReadsNothing, Lists
  <2>7. CallOK(w)
    BY <1>3, <1>6, <2>3, <2>5, <2>6 DEF CallOK, ListsFirst
  <2>8. Ready(t, comps, sources)
    BY <2>5 DEF Ready, RemovesBare, PutsOwned, Bare
  <2>9. Fresh(w, comps, sources)
    BY <1>3, <1>6, <2>3, <2>6, <2>8 DEF Fresh
  <2> QED
    BY <1>2, <2>2, <2>3, <2>7, <2>9, Rests
<1> QED
  BY <1>5, <1>6

LEMMA ListOfKeeps ==
  ASSUME ServiceInv, UNCHANGED scene, NEW k \in Clients, ListOf(k)
  PROVE  ServiceInv'
<1> DEFINE r == call[k]
           c == r.todo[1].key
           whole == r.whole /\ Cardinality(SourcesOf(c)) <= scene.page
           Listing(found, key) ==
             LET o == call[k].old
                 reads == [s \in DOMAIN o.sources \cup found |->
                             IF s \in found THEN sources[s] ELSE o.sources[s]]
             IN  call' = [call EXCEPT
                            ![k].todo = Tail(@),
                            ![k].old = [comps |-> o.comps, sources |-> reads],
                            ![k].whole = @ /\ Cardinality(SourcesOf(key)) <= scene.page]
<1>18. PICK theirs \in FirstPage(SourcesOf(This(k).key)) : Listing(theirs, This(k).key)
  BY DEF ListOf
<1> DEFINE read == [s \in DOMAIN r.old.sources \cup theirs |->
                      IF s \in theirs THEN sources[s] ELSE r.old.sources[s]]
           old == [comps |-> r.old.comps, sources |-> read]
           t == Tail(r.todo)
           w == HavingRead(r, old, t, whole)
<1>1. /\ CallOK(r) /\ r.status = "running" /\ r.todo \in Seq(Stmts) /\ r.todo # <<>>
      /\ This(k) = r.todo[1] /\ r.todo[1].op = "listOf" /\ r.todo[1] \in Stmts
      /\ 1 \in 1 .. Len(r.todo)
  BY ThisIs DEF ListOf
<1>2. UNCHANGED <<scene, comps, sources, tainted>> /\ tainted \in BOOLEAN
  BY DEF ListOf, Reads, ServiceInv
<1>3. r.op = "putProject" /\ IsOld(r.old) /\ ListsFirst(r.todo) /\ IsProject(r.in)
  BY <1>1 DEF CallOK
<1>4. call' = [j \in Clients |-> IF j = k THEN w ELSE call[j]]
  <2>1. call' = [call EXCEPT ![k].todo = t, ![k].old = old, ![k].whole = whole]
    BY <1>1, <1>18
  <2> HIDE DEF old, t, whole
  <2>2. HasListed(k, old, t, whole)
    BY <2>1 DEF HasListed
  <2> QED
    BY <2>2, HavingReadIs
<1>5. /\ w.todo = t /\ w.op = r.op /\ w.in = r.in /\ w.old = old /\ w.status = r.status
      /\ w.alone = r.alone /\ w.whole = whole /\ w = Fields(w)
  BY DEF Fields, HavingRead
<1>6. /\ old.comps = r.old.comps /\ old.sources = read
      /\ DOMAIN read = DOMAIN r.old.sources \cup theirs
      /\ \A s \in DOMAIN read : read[s] = IF s \in theirs THEN sources[s] ELSE r.old.sources[s]
  OBVIOUS
<1>7. /\ \A s \in theirs : s \in Sources /\ sources[s].version > 0 /\ sources[s].comp = c
      /\ whole => theirs = {s \in Sources : sources[s].version > 0 /\ sources[s].comp = c}
      /\ whole => r.whole
  <2>1. SourcesOf(c) = {s \in Sources : sources[s].version > 0 /\ sources[s].comp = c}
    BY DEF SourcesOf, SourceRows
  <2>2. This(k).key = c
    BY <1>1
  <2>3. theirs \subseteq SourcesOf(c) /\ (Cardinality(SourcesOf(c)) <= scene.page => theirs = SourcesOf(c))
    BY <2>2, FirstPageIs
  <2> QED
    BY <2>1, <2>3
<1> HIDE DEF w, old, read, whole
<1>8. /\ Len(r.todo) \in Nat /\ Len(r.todo) >= 1 /\ t \in Seq(Stmts) /\ Len(t) = Len(r.todo) - 1
      /\ \A i \in 1 .. Len(r.todo) - 1 : i + 1 \in 1 .. Len(r.todo) /\ t[i] = r.todo[i + 1]
  BY <1>1, TailIs
<1>9. /\ Len(r.todo) > 1 /\ r.todo[Len(r.todo)].op = "diff"
      /\ \A i \in 1 .. Len(r.todo) - 1 : r.todo[i].op = "listOf"
  <2>1. ~ ReadsNothing(r.todo)
    BY <1>1 DEF ReadsNothing, Lists
  <2> QED
    BY <1>1, <1>3, <1>8, <2>1 DEF ListsFirst
<1> DEFINE n == Len(r.todo)
<1> HIDE DEF t, n
<1>10. /\ Len(t) \in Nat /\ Len(t) >= 1 /\ t[Len(t)].op = "diff"
       /\ \A i \in 1 .. Len(t) - 1 : t[i].op = "listOf"
  <2>1. n \in Nat /\ n > 1 /\ Len(t) = n - 1 /\ \A i \in 1 .. n - 1 : t[i] = r.todo[i + 1]
    BY <1>8, <1>9 DEF n
  <2>2. r.todo[n].op = "diff" /\ \A i \in 1 .. n - 1 : r.todo[i].op = "listOf"
    BY <1>9 DEF n
  <2>3. n - 1 \in 1 .. n - 1 /\ (n - 1) + 1 = n
    BY <2>1
  <2>4. t[n - 1] = r.todo[n]
    BY <2>1, <2>3
  <2>5. \A i \in 1 .. Len(t) - 1 : i \in 1 .. n - 1 /\ i + 1 \in 1 .. n - 1
    BY <2>1
  <2>6. Len(t) \in Nat /\ Len(t) >= 1
    BY <2>1
  <2>7. t[Len(t)].op = "diff"
    BY <2>1, <2>2, <2>4
  <2>8. \A i \in 1 .. Len(t) - 1 : t[i].op = "listOf"
    BY <2>1, <2>2, <2>5
  <2> QED
    BY <2>6, <2>7, <2>8
<1>11. \A i \in 1 .. Len(t) : t[i].op \in {"listOf", "diff"}
  <2>1. \A i \in 1 .. Len(t) : i \in 1 .. Len(t) - 1 \/ i = Len(t)
    BY <1>10
  <2> QED
    BY <1>10, <2>1
<1>12. IsOld(old)
  <2>1. \A s \in Sources : sources[s].version \in Nat
    BY TablesAre DEF ServiceInv
  <2>2. theirs \subseteq Sources
    BY <1>7
  <2> QED
    BY <1>3, <1>6, <2>1, <2>2 DEF IsOld
<1>13. CallOK(w)
  <2>1. ListsFirst(t)
    BY <1>10 DEF ListsFirst
  <2> QED
    BY <1>3, <1>5, <1>8, <1>11, <1>12, <2>1 DEF CallOK
<1>14. ~ ReadsNothing(t)
  <2>1. Len(t) \in 1 .. Len(t)
    BY <1>10
  <2> QED
    BY <1>10, <2>1 DEF ReadsNothing, Lists
<1>15. Ready(t, comps, sources)
  BY <1>11 DEF Ready, RemovesBare, PutsOwned
<1>16. ASSUME ~ tainted, r.alone PROVE HasRead(t, w, comps, sources)
  <2>1. HasRead(r.todo, r, comps, sources)
    <3>1. ~ ReadsNothing(r.todo)
      BY <1>1 DEF ReadsNothing, Lists
    <3> QED
      BY <1>1, <1>8, <1>9, <1>16, <3>1 DEF ServiceInv, Fresh
  <2>2. \A s \in DOMAIN old.sources : sources[s].version > 0 /\ old.sources[s] = sources[s]
    BY <1>6, <1>7, <2>1 DEF HasRead
  <2>3. ASSUME whole, NEW s \in Sources, sources[s].version > 0
        PROVE  s \in DOMAIN old.sources \/ Listed(t, "listOf", sources[s].comp)
    <3>1. CASE s \in DOMAIN r.old.sources
      BY <1>6, <3>1
    <3>2. CASE s \notin DOMAIN r.old.sources
      <4>1. Listed(r.todo, "listOf", sources[s].comp)
        BY <1>7, <2>1, <2>3, <3>2 DEF HasRead
      <4>2. c = sources[s].comp \/ Listed(t, "listOf", sources[s].comp)
        BY <1>1, <4>1, ListedTail DEF t
      <4> QED
        BY <1>6, <1>7, <2>3, <4>2
    <3> QED
      BY <3>1, <3>2
  <2>4. /\ \A d \in DOMAIN old.comps : comps[d].version > 0 /\ old.comps[d] = comps[d]
        /\ whole => \A d \in Comps : comps[d].version > 0 => d \in DOMAIN old.comps
    BY <1>6, <1>7, <2>1 DEF HasRead
  <2> QED
    BY <1>5, <2>2, <2>3, <2>4 DEF HasRead
<1>17. ~ tainted => Fresh(w, comps, sources)
  BY <1>5, <1>10, <1>14, <1>15, <1>16 DEF Fresh
<1> QED
  BY <1>2, <1>4, <1>5, <1>13, <1>17, Rests

LEMMA DiffKeeps ==
  ASSUME ServiceInv, UNCHANGED scene, NEW k \in Clients, DiffProject(k)
  PROVE  ServiceInv'
<1> DEFINE r == call[k]
           t == Diff(r.old, r.in)
           w == With(r, t)
<1>1. /\ CallOK(r) /\ r.status = "running" /\ r.todo \in Seq(Stmts) /\ r.todo # <<>>
      /\ r.todo[1].op = "diff" /\ 1 \in 1 .. Len(r.todo) /\ Len(r.todo) \in Nat
  BY ThisIs DEF DiffProject
<1>2. /\ UNCHANGED <<scene, comps, sources, tainted>> /\ tainted \in BOOLEAN
      /\ Continues(k, t)
  BY DEF DiffProject, Reads, ServiceInv
<1>3. r.op = "putProject" /\ IsOld(r.old) /\ ListsFirst(r.todo) /\ IsProject(r.in)
  BY <1>1 DEF CallOK
<1>4. ~ ReadsNothing(r.todo)
  BY <1>1 DEF ReadsNothing, Lists
<1>5. Len(r.todo) = 1
  <2>1. CASE /\ r.todo[Len(r.todo)].op = "diff"
             /\ \A i \in 1 .. Len(r.todo) - 1 : r.todo[i].op = "listOf"
    <3> DEFINE n == Len(r.todo)
    <3>1. n \in Nat /\ 1 \in 1 .. n
      BY <1>1
    <3>2. 1 \notin 1 .. n - 1
      BY <1>1, <2>1
    <3> HIDE DEF n
    <3>3. n = 1
      BY <3>1, <3>2
    <3> QED
      BY <3>3 DEF n
  <2> QED
    BY <1>3, <1>4, <2>1 DEF ListsFirst
<1>6. call' = [j \in Clients |-> IF j = k THEN w ELSE call[j]]
  BY <1>2, ContinuesIs
<1>7. /\ w = Fields(w) /\ w.todo = t /\ w.op = r.op /\ w.in = r.in /\ w.old = r.old
      /\ w.status = r.status /\ w.alone = r.alone /\ w.whole = r.whole
  BY WithIs
<1>8. /\ t \in Seq(Fitting(r.in)) /\ t \in Seq(Stmts) /\ Bare(t)
      /\ \A i \in 1 .. Len(t) : t[i].op = "putSource" =>
           \/ t[i].val \in DOMAIN r.old.comps
           \/ \E j \in 1 .. Len(t) : /\ j < i /\ t[j].op \in {"putComponent", "check"}
                                     /\ t[j].key = t[i].val
      /\ \A c \in DOMAIN r.old.comps \ DOMAIN r.in.comps : Listed(t, "removeRow", c)
      /\ \A s \in DOMAIN r.old.sources \ DOMAIN r.in.sources : Listed(t, "removeSource", s)
      /\ \A c \in ComponentPut(r.old, r.in) : Listed(t, "putComponent", c)
      /\ \A s \in EventSourcePut(r.old, r.in) : Listed(t, "putSource", s)
  BY <1>3, DiffIs
<1> HIDE DEF t, w
<1>9. \A i \in 1 .. Len(t) : t[i] \in Fitting(r.in)
  BY <1>8
<1>10. ReadsNothing(t)
  BY <1>9 DEF ReadsNothing, Lists, Fitting, DiffOps
<1>11. CallOK(w)
  BY <1>3, <1>7, <1>8, <1>10 DEF CallOK, ListsFirst, ReadsNothing, Lists
<1>12. ASSUME ~ tainted, r.alone
       PROVE  /\ Ready(t, comps, sources)
              /\ Due(t, r.in, Known(r), KnownSources(r), comps, sources)
  <2>1. HasRead(r.todo, r, comps, sources)
    BY <1>1, <1>4, <1>5, <1>12 DEF ServiceInv, Fresh
  <2>2. /\ \A c \in DOMAIN r.old.comps : comps[c].version > 0 /\ r.old.comps[c] = comps[c]
        /\ \A c \in Known(r) : comps[c].version > 0 => c \in DOMAIN r.old.comps
    BY <2>1 DEF HasRead, Known
  <2>3. /\ \A s \in DOMAIN r.old.sources : sources[s].version > 0 /\ r.old.sources[s] = sources[s]
        /\ \A s \in KnownSources(r) : sources[s].version > 0 => s \in DOMAIN r.old.sources
    <3>1. \A key : ~ Listed(r.todo, "listOf", key)
      BY <1>1, <1>5 DEF Listed
    <3> QED
      BY <2>1, <3>1 DEF HasRead, KnownSources
  <2>4. Ready(t, comps, sources)
    <3>1. RemovesBare(t, sources)
      BY <1>8 DEF RemovesBare, Bare
    <3>2. ASSUME NEW i \in 1 .. Len(t), t[i].op = "putSource"
          PROVE  \A j \in 1 .. Len(t) : t[j].op = "removeRow" => t[j].key # t[i].val
      <4>1. t[i].val \in DOMAIN r.in.comps
        BY <1>3, <1>9, <3>2 DEF Fitting, IsProject
      <4> QED
        BY <1>9, <4>1 DEF Fitting
    <3> QED
      BY <1>8, <2>2, <3>1, <3>2 DEF Ready, PutsOwned
  <2>5. Missing(t, r.in, Known(r), KnownSources(r), comps, sources)
    <3>1. \A c \in DOMAIN r.in.comps :
            \/ comps[c].version > 0 /\ comps[c].content = r.in.comps[c]
            \/ Listed(t, "putComponent", c)
      BY <1>8, <2>2 DEF ComponentPut
    <3>2. \A c \in Known(r) \ DOMAIN r.in.comps : comps[c].version > 0 => Listed(t, "removeRow", c)
      BY <1>8, <2>2
    <3>3. \A s \in DOMAIN r.in.sources :
            \/ sources[s].version > 0 /\ sources[s].comp = r.in.sources[s]
            \/ Listed(t, "putSource", s)
      BY <1>8, <2>3 DEF EventSourcePut
    <3>4. \A s \in KnownSources(r) \ DOMAIN r.in.sources :
            sources[s].version > 0 => Listed(t, "removeSource", s)
      BY <1>8, <2>3
    <3> QED
      BY <3>1, <3>2, <3>3, <3>4 DEF Missing
  <2> QED
    BY <1>8, <2>4, <2>5 DEF Due
<1>13. ~ tainted => Fresh(w, comps, sources)
  BY <1>7, <1>10, <1>12 DEF Fresh, Known, KnownSources
<1> QED
  BY <1>2, <1>6, <1>7, <1>11, <1>13, Rests

LEMMA ListSourcesKeeps ==
  ASSUME ServiceInv, UNCHANGED scene, NEW k \in Clients, ListSources(k)
  PROVE  ServiceInv'
<1> DEFINE r == call[k]
           key == r.todo[1].key
           S == {s \in SourceRows : sources[s].enabled # key}
           t == IF S = {} THEN <<>> ELSE <<Put("toggle", S, 0, key)>>
           w == With(r, t)
<1>1. /\ CallOK(r) /\ r.status = "running" /\ r.todo \in Seq(Stmts) /\ r.todo # <<>>
      /\ This(k) = r.todo[1] /\ r.todo[1].op = "listSources" /\ r.todo[1] \in Stmts
  BY ThisIs DEF ListSources
<1>2. /\ UNCHANGED <<scene, comps, sources, tainted>> /\ tainted \in BOOLEAN
      /\ Continues(k, t)
  BY <1>1 DEF ListSources, Reads, ServiceInv
<1>3. call' = [j \in Clients |-> IF j = k THEN w ELSE call[j]]
  BY <1>2, ContinuesIs
<1>4. /\ w = Fields(w) /\ w.todo = t /\ w.op = r.op /\ w.in = r.in /\ w.status = r.status
      /\ w.alone = r.alone
  BY WithIs
<1>5. t \in Seq(Stmts) /\ \A i \in 1 .. Len(t) : t[i].op = "toggle"
  <2>1. S \in SUBSET Sources
    BY DEF SourceRows
  <2>2. key \in BOOLEAN
    BY <1>1 DEF Stmts, CompOps
  <2> HIDE DEF S, key
  <2>3. Put("toggle", S, 0, key) \in Stmts
    BY <2>1, <2>2, StatementForms
  <2> QED
    BY <2>3 DEF Put
<1> HIDE DEF t, w, S
<1>6. ReadsNothing(r.todo) /\ ReadsNothing(t)
  BY <1>1, <1>5, ReadsNothingTail DEF CallOK, ReadsNothing, Lists
<1>7. CallOK(w)
  BY <1>1, <1>4, <1>5, <1>6 DEF CallOK, ListsFirst
<1>8. Ready(t, comps, sources)
  BY <1>5 DEF Ready, RemovesBare, PutsOwned
<1>9. ASSUME ~ tainted, r.alone PROVE r.op # "putProject"
  <2>1. r.op = "putProject" => Due(r.todo, r.in, Known(r), KnownSources(r), comps, sources)
    BY <1>1, <1>6, <1>9 DEF ServiceInv, Fresh
  <2>2. 1 \in 1 .. Len(r.todo)
    BY <1>1, ThisIs DEF ListSources
  <2>3. r.todo \in Seq(Fitting(r.in)) => r.todo[1] \in Fitting(r.in)
    BY <2>2
  <2> QED
    BY <1>1, <2>1, <2>3 DEF Due, Fitting, DiffOps
<1>10. ~ tainted => Fresh(w, comps, sources)
  BY <1>4, <1>6, <1>8, <1>9 DEF Fresh
<1> QED
  BY <1>2, <1>3, <1>4, <1>7, <1>10, Rests

(* How a call that writes goes on, and the others. *)
LEMMA OvertakesIs ==
  ASSUME ServiceInv, NEW k \in Clients, NEW mine, NEW matters \in BOOLEAN,
         Overtakes(k, mine, matters)
  PROVE  /\ call' = [j \in Clients |-> IF j = k THEN mine ELSE Overtaken(call[j])]
         /\ tainted' \in BOOLEAN /\ (tainted => tainted')
         /\ (matters /\ ~ call[k].alone => tainted')
<1>1. ASSUME NEW j \in Clients PROVE [call[j] EXCEPT !.alone = FALSE] = Overtaken(call[j])
  <2>1. call[j] = Fields(call[j])
    BY DEF ServiceInv
  <2>2. call[j] \in [op : {call[j].op}, in : {call[j].in}, old : {call[j].old},
                     todo : {call[j].todo}, status : {call[j].status}, alone : {call[j].alone},
                     whole : {call[j].whole}]
    BY <2>1 DEF Fields
  <2>3. \A v : [call[j] EXCEPT !.alone = v]
                = [op |-> call[j].op, in |-> call[j].in, old |-> call[j].old, todo |-> call[j].todo,
                   status |-> call[j].status, alone |-> v, whole |-> call[j].whole]
    BY <2>2
  <2> QED
    BY <2>3 DEF Overtaken
<1>2. call' = [j \in Clients |-> IF j = k THEN mine ELSE [call[j] EXCEPT !.alone = FALSE]]
  BY DEF Overtakes
<1>3. tainted' = (tainted \/ (matters /\ ~ call[k].alone)) /\ tainted \in BOOLEAN
  BY DEF Overtakes, ServiceInv
<1> QED
  BY <1>1, <1>2, <1>3

(* A call that goes on after a write. *)
LEMMA WrittenIs ==
  ASSUME ServiceInv, NEW k \in Clients
  PROVE  [call[k] EXCEPT !.todo = Tail(@)] = With(call[k], Tail(call[k].todo))
<1>1. ASSUME NEW r, r = Fields(r), NEW todo PROVE [r EXCEPT !.todo = todo] = With(r, todo)
  <2>1. r \in [op : {r.op}, in : {r.in}, old : {r.old}, todo : {r.todo}, status : {r.status},
               alone : {r.alone}, whole : {r.whole}]
    BY <1>1 DEF Fields
  <2> QED
    BY <2>1 DEF With
<1>2. call[k] = Fields(call[k])
  BY DEF ServiceInv
<1>3. [call[k] EXCEPT !.todo = Tail(call[k].todo)] = With(call[k], Tail(call[k].todo))
  BY <1>1, <1>2
<1> QED
  BY <1>3

LEMMA RowsAre ==
  /\ NoComp.version = 0 /\ NoSource.version = 0
  /\ NoComp \in CompRow /\ NoSource \in SourceRow
  /\ \A v \in Nat, x \in Contents, b \in BOOLEAN :
       [version |-> v + 1, content |-> x, filed |-> b] \in CompRow
  /\ \A v \in Nat, c \in Comps, b \in BOOLEAN :
       [version |-> v + 1, comp |-> c, enabled |-> b] \in SourceRow
  /\ \A r0 \in CompRow : r0.filed \in BOOLEAN
<1>1. \A v \in Nat : v + 1 \in Nat \ {0}
  OBVIOUS
<1>2. \A r0 \in CompRow : r0.filed \in BOOLEAN
  <2>1. NoComp.filed \in BOOLEAN
    BY DEF NoComp
  <2> QED
    BY <2>1 DEF CompRow
<1> QED
  BY <1>1, <1>2 DEF NoComp, NoSource, CompRow, SourceRow

(* What the statement does that is executed. *)
LEMMA ExecutesIs ==
  ASSUME ServiceInv, NEW k \in Clients, Executes(k)
  PROVE  /\ TablesOK' /\ Does(call[k].todo[1], comps, sources, comps', sources')
         /\ Running(k) /\ call[k].todo # <<>> /\ call[k].todo[1].op \notin Lists
         /\ This(k) = call[k].todo[1]
<1> DEFINE st == call[k].todo[1]
<1>0. /\ comps \in [Comps -> CompRow] /\ sources \in [Sources -> SourceRow]
      /\ \A c \in Comps : comps[c].version \in Nat
      /\ \A s \in Sources : sources[s].version \in Nat
  BY TablesAre DEF ServiceInv, TablesOK
<1>1. ASSUME NEW op \in {"putComponent", "putSource", "removeSources", "removeRow", "removeSource",
                         "toggle"},
             Is(k, op)
      PROVE  Running(k) /\ call[k].todo # <<>> /\ st.op \notin Lists /\ This(k) = st
  BY <1>1, ThisIs DEF Lists
<1>2. CASE /\ Is(k, "putComponent") /\ PutComponent(This(k).key, This(k).version, This(k).val)
  <2>1. /\ This(k) = st /\ st.op = "putComponent" /\ st.key \in Comps /\ st.val \in Contents
        /\ st.version \in Nat
    BY <1>2, ThisIs, StatementFields
  <2> DEFINE b == Filed(st.version, st.val, comps[st.key].filed)
             written == [version |-> st.version + 1, content |-> st.val, filed |-> b]
  <2>2. comps' = [comps EXCEPT ![st.key] = written] /\ sources' = sources
    BY <1>2, <2>1 DEF PutComponent
  <2>3. written \in CompRow /\ written.version > 0 /\ written.content = st.val
    <3>1. b \in BOOLEAN
      <4>0. comps[st.key] \in CompRow
        BY <1>0, <2>1
      <4>1. comps[st.key].filed \in BOOLEAN
        BY <4>0, RowsAre
      <4> QED
        BY <4>1 DEF Filed
    <3> HIDE DEF b, st
    <3>2. written \in CompRow
      BY <2>1, <3>1, RowsAre
    <3> QED
      BY <2>1, <3>2
  <2> HIDE DEF written, st
  <2>4. TablesOK'
    BY <1>0, <2>1, <2>2, <2>3 DEF TablesOK
  <2>5. Does(st, comps, sources, comps', sources')
    BY <1>0, <2>1, <2>2, <2>3 DEF Does
  <2> QED
    BY <1>1, <1>2, <2>4, <2>5 DEF st
<1>3. CASE /\ Is(k, "putSource") /\ PutEventSource(This(k).key, This(k).version, This(k).val)
  <2>1. /\ This(k) = st /\ st.op = "putSource" /\ st.key \in Sources /\ st.val \in Comps
        /\ st.version \in Nat
    BY <1>3, ThisIs, StatementFields
  <2> DEFINE b == st.version = 0 \/ sources[st.key].enabled
             written == [version |-> st.version + 1, comp |-> st.val, enabled |-> b]
  <2>2. sources' = [sources EXCEPT ![st.key] = written] /\ comps' = comps
    BY <1>3, <2>1 DEF PutEventSource
  <2>3. written \in SourceRow /\ written.version > 0 /\ written.comp = st.val
    <3>1. b \in BOOLEAN
      OBVIOUS
    <3> HIDE DEF b, st
    <3>2. written \in SourceRow
      BY <2>1, <3>1, RowsAre
    <3> QED
      BY <2>1, <3>2
  <2> HIDE DEF written, st
  <2>4. TablesOK'
    BY <1>0, <2>1, <2>2, <2>3 DEF TablesOK
  <2>5. Does(st, comps, sources, comps', sources')
    BY <1>0, <2>1, <2>2, <2>3 DEF Does
  <2> QED
    BY <1>1, <1>3, <2>4, <2>5 DEF st
<1>4. CASE Is(k, "removeSources") /\ RemoveSourcesOf(This(k).key)
  <2>1. This(k) = st /\ st.op = "removeSources"
    BY <1>4, ThisIs
  <2>2. /\ sources' = [s \in Sources |-> IF sources[s].comp = st.key THEN NoSource ELSE sources[s]]
        /\ comps' = comps
    BY <1>4, <2>1 DEF RemoveSourcesOf
  <2> HIDE DEF st
  <2>3. TablesOK'
    BY <1>0, <2>2, RowsAre DEF TablesOK
  <2>4. Does(st, comps, sources, comps', sources')
    BY <1>0, <2>1, <2>2, RowsAre DEF Does
  <2> QED
    BY <1>1, <1>4, <2>3, <2>4 DEF st
<1>5. CASE Is(k, "removeRow") /\ RemoveComponentRow(This(k).key)
  <2>1. This(k) = st /\ st.op = "removeRow"
    BY <1>5, ThisIs
  <2>2. comps' = [comps EXCEPT ![st.key] = NoComp] /\ sources' = sources
    BY <1>5, <2>1 DEF RemoveComponentRow
  <2> HIDE DEF st
  <2>3. TablesOK'
    BY <1>0, <2>2, RowsAre DEF TablesOK
  <2>4. Does(st, comps, sources, comps', sources')
    BY <1>0, <2>1, <2>2, RowsAre DEF Does
  <2> QED
    BY <1>1, <1>5, <2>3, <2>4 DEF st
<1>6. CASE Is(k, "removeSource") /\ RemoveEventSource(This(k).key)
  <2>1. This(k) = st /\ st.op = "removeSource"
    BY <1>6, ThisIs
  <2>2. sources' = [sources EXCEPT ![st.key] = NoSource] /\ comps' = comps
    BY <1>6, <2>1 DEF RemoveEventSource
  <2> HIDE DEF st
  <2>3. TablesOK'
    BY <1>0, <2>2, RowsAre DEF TablesOK
  <2>4. Does(st, comps, sources, comps', sources')
    BY <1>0, <2>1, <2>2, RowsAre DEF Does
  <2> QED
    BY <1>1, <1>6, <2>3, <2>4 DEF st
<1>7. CASE Is(k, "toggle") /\ SetEventSourcesEnabled(This(k).key, This(k).val)
  <2>1. This(k) = st /\ st.op = "toggle" /\ st.val \in BOOLEAN
    BY <1>7, ThisIs, StatementFields
  <2> DEFINE Changed(s) == s \in st.key /\ s \in SourceRows
             Turned(s) == [version |-> sources[s].version, comp |-> sources[s].comp,
                           enabled |-> st.val]
  <2>2. \A s \in SourceRows : /\ [sources[s] EXCEPT !.enabled = st.val] = Turned(s)
                              /\ Turned(s) \in SourceRow
    <3> TAKE s \in SourceRows
    <3>1. sources[s] \in [version : Nat \ {0}, comp : Comps, enabled : BOOLEAN]
      BY <1>0 DEF SourceRows, SourceRow, NoSource
    <3> HIDE DEF st
    <3> QED
      BY <2>1, <3>1 DEF SourceRow
  <2>3. /\ sources' = [s \in Sources |-> IF Changed(s) THEN [sources[s] EXCEPT !.enabled = st.val]
                                         ELSE sources[s]]
        /\ comps' = comps
    BY <1>7, <2>1 DEF SetEventSourcesEnabled
  <2>4. \A s \in Sources : sources'[s] = IF Changed(s) THEN Turned(s) ELSE sources[s]
    BY <2>2, <2>3
  <2>5. sources' = [s \in Sources |-> sources'[s]]
    BY <2>3
  <2> HIDE DEF st
  <2>6. TablesOK'
    <3>1. \A s \in Sources : sources'[s] \in SourceRow
      BY <1>0, <2>2, <2>4
    <3>2. sources' \in [Sources -> SourceRow]
      BY <2>5, <3>1
    <3> QED
      BY <1>0, <2>3, <3>2 DEF TablesOK
  <2>7. Does(st, comps, sources, comps', sources')
    BY <2>1, <2>3, <2>4 DEF Does
  <2> QED
    BY <1>1, <1>7, <2>6, <2>7 DEF st
<1> QED
  BY <1>2, <1>3, <1>4, <1>5, <1>6, <1>7 DEF Executes

LEMMA WritesKeep ==
  ASSUME ServiceInv, UNCHANGED scene, NEW k \in Clients, Writes(k) \/ AnswerLost(k)
  PROVE  ServiceInv'
<1> DEFINE r == call[k]
<1>1. /\ TablesOK' /\ Does(r.todo[1], comps, sources, comps', sources')
      /\ Running(k) /\ r.todo # <<>> /\ r.todo[1].op \notin Lists /\ This(k) = r.todo[1]
  BY ExecutesIs DEF Writes, AnswerLost
<1>2. PICK m \in BOOLEAN : m = Matters(k)
  <2>1. Matters(k) \in BOOLEAN
    BY DEF Matters
  <2> QED
    BY <2>1
<1>3. r.todo[1].op \in {"putSource", "removeRow"} => m
  BY <1>1, <1>2 DEF Matters
<1>4. CallOK(r) /\ r.status = "running"
  BY <1>1 DEF ServiceInv, Running
<1>5. ASSUME NEW w, w = Fields(w), CallOK(w), Overtakes(k, w, m),
             Fresh(r, comps, sources) => Fresh(w, comps', sources')
      PROVE  ServiceInv'
  <2>1. /\ call' = [j \in Clients |-> IF j = k THEN w ELSE Overtaken(call[j])]
        /\ tainted' \in BOOLEAN /\ (tainted => tainted') /\ (m /\ ~ r.alone => tainted')
    BY <1>5, OvertakesIs
  <2> QED
    BY <1>1, <1>3, <1>5, <2>1, WriteKeeps
<1>6. CASE Writes(k)
  <2> DEFINE w == With(r, Tail(r.todo))
  <2>1. Overtakes(k, w, m)
    BY <1>2, <1>6, WrittenIs DEF Writes
  <2>2. w = Fields(w)
    BY WithIs
  <2>3. CallOK(w) /\ (Fresh(r, comps, sources) => Fresh(w, comps', sources'))
    BY <1>1, <1>4, TailFresh
  <2> HIDE DEF w
  <2> QED
    BY <1>5, <2>1, <2>2, <2>3
<1>7. CASE AnswerLost(k)
  <2> DEFINE w == Failed(k)
  <2>1. Overtakes(k, w, m)
    BY <1>2, <1>7 DEF AnswerLost
  <2>2. w = Fields(w) /\ w.todo = <<>> /\ w.status # "running"
    BY FailedIs
  <2> HIDE DEF w
  <2>3. CallOK(w) /\ Fresh(w, comps', sources')
    BY <2>2 DEF CallOK, Fresh
  <2> QED
    BY <1>5, <2>1, <2>2, <2>3
<1> QED
  BY <1>6, <1>7

-----------------------------------------------------------------------------
(* The steps together.                                                     *)

LEMMA ServiceStarts == ServiceInit => ServiceInv
<1> SUFFICES ASSUME ServiceInit PROVE ServiceInv
  OBVIOUS
<1> DEFINE none == [comps |-> [c \in {} |-> Nothing], sources |-> [s \in {} |-> Nothing]]
<1>1. /\ scene \in Scenes /\ call = [k \in Clients |-> NoCall] /\ tainted = FALSE
  BY DEF ServiceInit
<1>2. PICK p \in Projects(scene.contents, scene.sources) \cup {none} :
        /\ comps = [c \in Comps |-> IF c \in DOMAIN p.comps
                                    THEN [version |-> 1, content |-> p.comps[c],
                                          filed |-> p.comps[c] \notin Misfiled] ELSE NoComp]
        /\ sources = [s \in Sources |-> IF s \in DOMAIN p.sources
                                        THEN [version |-> 1, comp |-> p.sources[s], enabled |-> TRUE]
                                        ELSE NoSource]
  BY DEF ServiceInit
<1>3. IsProject(p)
  <2>1. IsProject(none)
    BY DEF IsProject
  <2>2. p \in Projects(scene.contents, scene.sources) => IsProject(p)
    BY <1>1, SceneIs, ProjectsAre
  <2> HIDE DEF none
  <2> QED
    BY <2>1, <2>2
<1>4. /\ \A c \in DOMAIN p.comps : p.comps[c] \in Contents
      /\ \A s \in DOMAIN p.sources : p.sources[s] \in DOMAIN p.comps /\ p.sources[s] \in Comps
  BY <1>3 DEF IsProject
<1>5. TablesOK
  <2>1. \A c \in Comps : comps[c] \in CompRow
    BY <1>2, <1>4 DEF CompRow
  <2>2. \A s \in Sources : sources[s] \in SourceRow
    BY <1>2, <1>4 DEF SourceRow
  <2> QED
    BY <1>2, <2>1, <2>2 DEF TablesOK
<1>6. Owned(comps, sources)
  <2> SUFFICES ASSUME NEW s \in Sources, sources[s].version > 0
               PROVE  comps[sources[s].comp].version > 0
    BY DEF Owned
  <2>1. s \in DOMAIN p.sources
    BY <1>2, RowsAre
  <2>2. sources[s].comp = p.sources[s]
    BY <1>2, <2>1
  <2>3. comps[p.sources[s]].version = 1
    BY <1>2, <1>4, <2>1
  <2> QED
    BY <2>2, <2>3
<1>7. call = [k \in Clients |-> Fields(call[k])]
  <2>1. NoCall = Fields(NoCall)
    BY DEF NoCall, Fields
  <2> QED
    BY <1>1, <2>1
<1>8. \A k \in Clients : CallOK(call[k]) /\ Fresh(call[k], comps, sources)
  <2>1. NoCall.todo = <<>> /\ NoCall.status = "idle" /\ <<>> \in Seq(Stmts)
    BY DEF NoCall
  <2> QED
    BY <1>1, <2>1 DEF CallOK, Fresh
<1> QED
  BY <1>1, <1>5, <1>6, <1>7, <1>8 DEF ServiceInv

LEMMA ServiceStep == ServiceInv /\ [ServiceNext]_serviceVars => ServiceInv'
<1> SUFFICES ASSUME ServiceInv, [ServiceNext]_serviceVars PROVE ServiceInv'
  OBVIOUS
<1>1. ASSUME UNCHANGED <<scene, comps, sources, call, tainted>> PROVE ServiceInv'
  BY <1>1 DEF ServiceInv, TablesOK
<1>2. CASE UNCHANGED serviceVars
  BY <1>1, <1>2 DEF serviceVars
<1>3. ASSUME UNCHANGED scene, NEW k \in scene.clients, Calls(k) \/ Statement(k)
      PROVE  ServiceInv'
  <2>1. k \in Clients
    BY SceneIs DEF ServiceInv
  <2> QED
    BY <1>3, <2>1, CallsKeep, QuickSteps, ListKeeps, ListOfKeeps, DiffKeeps, ListSourcesKeeps,
       WritesKeep DEF Statement
<1>4. ASSUME UNCHANGED scene, NEW m \in told,
             NotifyDataChanged(m) \/ LoseMessage(m) \/ OnComponentNotification(m)
      PROVE  ServiceInv'
  BY <1>1, <1>4 DEF NotifyDataChanged, LoseMessage, OnComponentNotification
<1>5. ASSUME UNCHANGED scene, NEW n \in Members, NEW c \in Comps, NEW expired \in BOOLEAN,
             Lookup(n, c, expired)
      PROVE  ServiceInv'
  BY <1>1, <1>5 DEF Lookup, ByName, AllEnabledHttpEventSources
<1> QED
  BY <1>2, <1>3, <1>4, <1>5 DEF ServiceNext, Changes

LEMMA ServiceAlways == ServiceSpec => []ServiceInv
  BY ServiceStarts, ServiceStep, PTL DEF ServiceSpec

CallTyped(r) ==
  r.status \in {"idle", "running", "failed"} /\ r.alone \in BOOLEAN /\ r.whole \in BOOLEAN
CallsTyped == \A j \in Clients : CallTyped(call[j])

LEMMA CallsStep ==
  ASSUME ServiceInv, CallsTyped, UNCHANGED scene, NEW k \in Clients, Calls(k) \/ Statement(k)
  PROVE  CallsTyped'
<1>0. call = [j \in Clients |-> Fields(call[j])]
  BY DEF ServiceInv
<1>1. ASSUME NEW r, CallTyped(r), call' = [call EXCEPT ![k] = r] PROVE CallsTyped'
  <2>1. \A j \in Clients : call'[j] = IF j = k THEN r ELSE call[j]
    BY <1>0, <1>1
  <2> QED
    BY <1>1, <2>1 DEF CallsTyped
<1>2. ASSUME NEW op, NEW in, NEW todo, Begin(k, op, in, todo) PROVE CallsTyped'
  <2> DEFINE r == NewCall(op, in, todo)
  <2>1. call' = [call EXCEPT ![k] = r] /\ CallTyped(r)
    BY <1>2 DEF Begin, NewCall, CallTyped
  <2> QED
    BY <1>1, <2>1
<1>3. ASSUME NEW t, Continues(k, t) PROVE CallsTyped'
  <2> DEFINE w == With(call[k], t)
  <2>1. \A j \in Clients : call'[j] = IF j = k THEN w ELSE call[j]
    BY <1>3, ContinuesIs
  <2>2. w.status = call[k].status /\ w.alone = call[k].alone /\ w.whole = call[k].whole
    BY WithIs
  <2> HIDE DEF w
  <2> QED
    BY <2>1, <2>2 DEF CallsTyped, CallTyped
<1>4. CallTyped(Failed(k)) /\ CallTyped(With(call[k], Tail(call[k].todo)))
  BY FailedIs, WithIs DEF CallsTyped, CallTyped
<1>5. ASSUME NEW w, CallTyped(w), NEW matters \in BOOLEAN, Overtakes(k, w, matters) PROVE CallsTyped'
  <2>1. \A j \in Clients : call'[j] = IF j = k THEN w ELSE Overtaken(call[j])
    BY <1>5, OvertakesIs
  <2>2. \A j \in Clients : CallTyped(Overtaken(call[j]))
    BY DEF Overtaken, CallsTyped, CallTyped
  <2> QED
    BY <1>5, <2>1, <2>2 DEF CallsTyped
<1>6. CASE Calls(k)
  BY <1>2, <1>6 DEF Calls
<1>7. ASSUME NEW old, NEW todo, NEW whole \in BOOLEAN,
             HasListed(k, old, todo, whole)
      PROVE  CallsTyped'
  <2> DEFINE w == HavingRead(call[k], old, todo, whole)
  <2>1. \A j \in Clients : call'[j] = IF j = k THEN w ELSE call[j]
    BY <1>7, HavingReadIs
  <2>2. w.status = call[k].status /\ w.alone = call[k].alone /\ w.whole = whole
    BY DEF HavingRead
  <2> HIDE DEF w
  <2> QED
    BY <1>7, <2>1, <2>2 DEF CallsTyped, CallTyped
<1>12. CASE List(k)
  <2>1. ((\A c \in Rows : comps[c].filed) /\ Cardinality(Rows) <= scene.page) \in BOOLEAN
    OBVIOUS
  <2> QED
    BY <1>3, <1>7, <1>12, <2>1 DEF List, HasListed
<1>13. CASE ListOf(k)
  <2>1. (call[k].whole /\ Cardinality(SourcesOf(This(k).key)) <= scene.page) \in BOOLEAN
    OBVIOUS
  <2> QED
    BY <1>7, <1>13, <2>1 DEF ListOf, HasListed
<1>8. CASE Answer(k)
  <2>1. CallTyped(NoCall)
    BY DEF CallTyped, NoCall
  <2> QED
    BY <1>1, <1>8, <2>1 DEF Answer
<1>9. CASE Writes(k) \/ AnswerLost(k)
  <2>1. Matters(k) \in BOOLEAN
    BY DEF Matters
  <2>2. [call[k] EXCEPT !.todo = Tail(@)] = With(call[k], Tail(call[k].todo))
    BY WrittenIs
  <2> QED
    BY <1>4, <1>5, <1>9, <2>1, <2>2 DEF Writes, AnswerLost
<1>10. CASE DiffProject(k) \/ ListSources(k) \/ CheckErrs(k) \/ Tell(k)
  BY <1>3, <1>10 DEF DiffProject, ListSources, CheckErrs, Tell
<1>11. CASE Check(k) \/ Refused(k) \/ Errs(k)
  BY <1>1, <1>3, <1>4, <1>11 DEF Check, Refused, Errs, Fails
<1> QED
  BY <1>6, <1>8, <1>9, <1>10, <1>11, <1>12, <1>13 DEF Statement

Messages ==
  [to : Members, stage : {"peer", "local"}, op : {"tellPut", "tellRemoved"}, comp : Comps]
OthersTyped == told \subseteq Messages /\ calls \in 0 .. MaxCalls /\ upsets \in 0 .. MaxUpsets

LEMMA OthersStep ==
  ASSUME ServiceInv, OthersTyped, [ServiceNext]_serviceVars
  PROVE  OthersTyped'
<1> USE ServiceAssumption
<1>1. ASSUME NEW k \in scene.clients, Calls(k) PROVE OthersTyped'
  <2>1. told' = told /\ upsets' = upsets /\ calls < MaxCalls /\ calls' = calls + 1
    BY <1>1 DEF Calls, Begin
  <2> QED
    BY <2>1 DEF OthersTyped
<1>2. ASSUME NEW k \in scene.clients, Tell(k) PROVE OthersTyped'
  <2>1. k \in Clients
    BY SceneIs DEF ServiceInv
  <2>2. PICK op \in {"tellPut", "tellRemoved"} : Is(k, op)
    BY <1>2 DEF Tell
  <2>3. This(k).op = op /\ This(k).key \in Comps
    BY <2>1, <2>2, ThisIs, StatementFields DEF CompOps
  <2>4. TellAll(op, This(k).key) \subseteq Messages
    BY <2>3 DEF TellAll, Msg, Messages
  <2>5. /\ told' \in {told, told \cup TellAll(op, This(k).key)}
        /\ calls' = calls /\ upsets' = upsets
    BY <1>2, <2>3 DEF Tell
  <2> QED
    BY <2>4, <2>5 DEF OthersTyped
<1>3. ASSUME NEW k \in scene.clients, Statement(k), ~ Tell(k) PROVE OthersTyped'
  <2>1. /\ told' = told /\ calls' = calls
        /\ upsets' = upsets \/ (upsets < MaxUpsets /\ upsets' = upsets + 1)
    <3>1. CASE List(k) \/ ListOf(k) \/ DiffProject(k) \/ ListSources(k) \/ Check(k) \/ Refused(k)
               \/ Answer(k)
      <4>1. Reads(k)
        BY <3>1 DEF List, ListOf, DiffProject, ListSources, Check, Refused, Answer
      <4> QED
        BY <4>1 DEF Reads
    <3>2. CASE CheckErrs(k) \/ Errs(k)
      BY <3>2 DEF CheckErrs, Errs
    <3>3. CASE Writes(k) \/ AnswerLost(k)
      BY <3>3 DEF Writes, AnswerLost
    <3> QED
      BY <1>3, <3>1, <3>2, <3>3 DEF Statement
  <2> QED
    BY <2>1 DEF OthersTyped
<1>4. ASSUME NEW m \in told,
             NotifyDataChanged(m) \/ LoseMessage(m) \/ OnComponentNotification(m)
      PROVE  OthersTyped'
  <2>1. m.to \in Members /\ m.op \in {"tellPut", "tellRemoved"} /\ m.comp \in Comps
    BY DEF OthersTyped, Messages
  <2>2. Msg(m.to, "local", m.op, m.comp) \in Messages
    BY <2>1 DEF Msg, Messages
  <2>3. /\ told' \subseteq told \cup {Msg(m.to, "local", m.op, m.comp)} /\ calls' = calls
        /\ upsets' = upsets \/ (upsets < MaxUpsets /\ upsets' = upsets + 1)
    <3>1. CASE NotifyDataChanged(m)
      BY <3>1 DEF NotifyDataChanged
    <3>2. CASE LoseMessage(m)
      BY <3>2 DEF LoseMessage
    <3>3. CASE OnComponentNotification(m)
      BY <3>3 DEF OnComponentNotification
    <3> QED
      BY <1>4, <3>1, <3>2, <3>3
  <2> QED
    BY <2>2, <2>3 DEF OthersTyped
<1>5. ASSUME UNCHANGED <<told, calls, upsets>> PROVE OthersTyped'
  BY <1>5 DEF OthersTyped
<1> QED
  BY <1>1, <1>2, <1>3, <1>4, <1>5 DEF ServiceNext, Changes, Lookup, ByName,
     AllEnabledHttpEventSources, serviceVars

(* The variables keep their types, whichever calls overlap: the rows of the *)
(* tables are what statements write, and each message is about a component *)
(* (sql_db.go, mael_svc.go).                                               *)
THEOREM ServiceTypes == ServiceSpec => []ServiceTypeOK
<1>1. ServiceInit => CallsTyped /\ OthersTyped
  <2> SUFFICES ASSUME ServiceInit PROVE CallsTyped /\ OthersTyped
    OBVIOUS
  <2>1. CallTyped(NoCall)
    BY DEF CallTyped, NoCall
  <2>2. CallsTyped
    BY <2>1 DEF ServiceInit, CallsTyped
  <2>3. OthersTyped
    BY ServiceAssumption DEF ServiceInit, OthersTyped
  <2> QED
    BY <2>2, <2>3
<1>2. ServiceInv /\ CallsTyped /\ [ServiceNext]_serviceVars => CallsTyped'
  <2> SUFFICES ASSUME ServiceInv, CallsTyped, [ServiceNext]_serviceVars PROVE CallsTyped'
    OBVIOUS
  <2>1. CASE UNCHANGED call
    BY <2>1 DEF CallsTyped
  <2>2. ASSUME UNCHANGED scene, NEW k \in scene.clients, Calls(k) \/ Statement(k)
        PROVE  CallsTyped'
    BY <2>2, CallsStep, SceneIs DEF ServiceInv
  <2> QED
    BY <2>1, <2>2 DEF ServiceNext, Changes, NotifyDataChanged, LoseMessage,
       OnComponentNotification, Lookup, ByName, AllEnabledHttpEventSources, serviceVars
<1>3. ServiceInv /\ OthersTyped /\ [ServiceNext]_serviceVars => OthersTyped'
  BY OthersStep
<1>4. ServiceInv /\ CallsTyped /\ OthersTyped => ServiceTypeOK
  BY DEF ServiceInv, TablesOK, CompRow, SourceRow, EntitiesTypeOK, CallsTyped, CallTyped,
     OthersTyped, Messages, ServiceTypeOK
<1> QED
  BY <1>1, <1>2, <1>3, <1>4, ServiceAlways, PTL DEF ServiceSpec

(* Calls that write one after the other leave no event source without its  *)
(* component, also when they fail half-way: RemoveComponent deletes the    *)
(* event sources before the component, PutProject puts components before   *)
(* their event sources, and PutEventSource looks for the component         *)
(* (mael_svc.go:104-193, 304-357).                                         *)
THEOREM NoSourceIsOrphaned == ServiceSpec => []NoOrphans
<1>1. ServiceInv => NoOrphans
  BY DEF ServiceInv, Owned, NoOrphans, SourceRows
<1> QED
  BY <1>1, ServiceAlways, PTL

(* Of the components and event sources that a PutProject call puts or has  *)
(* read, a call that nobody overtook leaves exactly its input, also when   *)
(* its lists were cut or some rows are filed under another name; and of    *)
(* all there are, when neither is so (mael_svc.go:104-193, 209-232,        *)
(* project.go:27-98).                                                      *)
THEOREM PutProjectsAreExact == ServiceSpec => []PutProjectIsExact
<1>1. ServiceInv => PutProjectIsExact
  <2> SUFFICES ASSUME ServiceInv, NEW k \in Clients, Done(k)
               PROVE  LET theirs == {c \in Rows : call[k].whole \/ c \in DOMAIN call[k].in.comps
                                                                    \cup DOMAIN call[k].old.comps}
                          theirSources == {s \in SourceRows :
                            call[k].whole \/ s \in DOMAIN call[k].in.sources
                                                  \cup DOMAIN call[k].old.sources}
                      IN  /\ [c \in theirs |-> comps[c].content] = call[k].in.comps
                          /\ [s \in theirSources |-> sources[s].comp] = call[k].in.sources
    BY DEF PutProjectIsExact
  <2> DEFINE r == call[k]
             in == r.in
             C == {c \in Rows : r.whole \/ c \in DOMAIN in.comps \cup DOMAIN r.old.comps}
             S == {s \in SourceRows : r.whole \/ s \in DOMAIN in.sources \cup DOMAIN r.old.sources}
  <2>0. /\ Running(k) /\ r.op = "putProject" /\ r.todo = <<>> /\ r.alone /\ ~ tainted
    BY DEF Done
  <2>1. IsProject(in)
    BY <2>0 DEF ServiceInv, CallOK, Running
  <2>2. Missing(<<>>, in, Known(r), KnownSources(r), comps, sources)
    <3>1. ReadsNothing(<<>>)
      BY DEF ReadsNothing
    <3> QED
      BY <2>0, <3>1 DEF ServiceInv, Fresh, Due, Running
  <2>3. \A op, key : ~ Listed(<<>>, op, key)
    BY DEF Listed
  <2>4. C = DOMAIN in.comps /\ \A c \in C : comps[c].content = in.comps[c]
    BY <2>1, <2>2, <2>3 DEF Missing, Known, Rows, IsProject
  <2>5. S = DOMAIN in.sources /\ \A s \in S : sources[s].comp = in.sources[s]
    BY <2>1, <2>2, <2>3 DEF Missing, KnownSources, SourceRows, IsProject
  <2>6. in.comps = [c \in DOMAIN in.comps |-> in.comps[c]]
        /\ in.sources = [s \in DOMAIN in.sources |-> in.sources[s]]
    BY <2>1 DEF IsProject
  <2>9. C = {c \in Rows : call[k].whole \/ c \in DOMAIN call[k].in.comps \cup DOMAIN call[k].old.comps}
        /\ S = {s \in SourceRows : call[k].whole \/ s \in DOMAIN call[k].in.sources
                                                          \cup DOMAIN call[k].old.sources}
    OBVIOUS
  <2> HIDE DEF in, C, S
  <2>7. [c \in C |-> comps[c].content] = in.comps
    BY <2>4, <2>6
  <2>8. [s \in S |-> sources[s].comp] = in.sources
    BY <2>5, <2>6
  <2> QED
    BY <2>7, <2>8, <2>9 DEF in
<1> QED
  BY <1>1, ServiceAlways, PTL
=============================================================================
