---------------------------- MODULE RoutingProofs ----------------------------
(***************************************************************************)
(* Proofs about Cluster and Router: what the nodes know of each other, and *)
(* what a component's router makes of the counts of its peers.             *)
(*                                                                         *)
(* Cluster, for any number of nodes, addresses and upsets: a node that has *)
(* exited stays out of the table, and no table and no map has two statuses *)
(* of a node.  Router, for any requests, handlers, peers and limits.       *)
(***************************************************************************)
EXTENDS Cluster, Router, FiniteSetTheorems, SequenceTheorems, TLAPS

Statuses == [id : Nodes, version : Nat, observed : Nat, active : 0..1]
Messages == [exiting : BOOLEAN, status : Statuses]

(* The statuses a node has, or may return, are its own. *)
Its(n) == {s \in Statuses : s.id = n}
OwnStatuses ==
  /\ own \in [Nodes -> Statuses] /\ \A n \in Nodes : own[n] \in Its(n)
  /\ past \in [Nodes -> SUBSET Statuses] /\ \A n \in Nodes : past[n] \subseteq Its(n)
  /\ recent \in [Nodes -> SUBSET Statuses] /\ \A n \in Nodes : recent[n] \subseteq Its(n)
  /\ due \in [Nodes -> SUBSET Statuses] /\ \A n \in Nodes : due[n] \subseteq Its(n)

Shape ==
  /\ terminated \subseteq alive /\ alive \subseteq Nodes
  /\ OwnStatuses
  /\ view \in [Nodes -> SUBSET Statuses] /\ rows \subseteq Statuses
  /\ listed \in [Nodes -> SUBSET SUBSET Statuses]
  /\ calls \in [Nodes -> Seq(Messages)]

OneEach(S) == \A r, s \in S : r.id = s.id => r = s
OneStatusEach ==
  /\ OneEach(rows)
  /\ \A n \in Nodes : OneEach(view[n]) /\ \A keep \in listed[n] : OneEach(keep)

IInv == Shape /\ OneStatusEach

-----------------------------------------------------------------------------
(* What the helpers on maps and queues return.                             *)

LEMMA WithOne ==
  ASSUME NEW S, NEW s, OneEach(S)
  PROVE  OneEach(With(S, s)) /\ With(S, s) \subseteq S \cup {s}
BY DEF OneEach, With, Known

LEMMA StartAdds ==
  ASSUME NEW S, NEW w \in Seq(S), NEW x \in S
  PROVE  Start(w, x) \in Seq(S)
<1>1. Append(w, x) \in Seq(S)
  BY AppendProperties
<1> QED
  BY <1>1 DEF Start

LEMMA RemoveAtKeeps ==
  ASSUME NEW S, NEW w \in Seq(S), NEW k \in DOMAIN w
  PROVE  RemoveAt(w, k) \in Seq(S)
<1> DEFINE a == SubSeq(w, 1, k - 1)
           b == SubSeq(w, k + 1, Len(w))
<1>1. /\ Len(w) \in Nat /\ DOMAIN w = 1 .. Len(w) /\ k \in Nat /\ 1 <= k /\ k <= Len(w)
      /\ \A i \in 1 .. Len(w) : w[i] \in S
  BY LenProperties, ElementOfSeq
<1>2. a \in Seq(S)
  <2>1. \A i \in 1 .. k - 1 : w[i] \in S
    BY <1>1
  <2> QED
    BY <1>1, <2>1, SubSeqProperties
<1>3. b \in Seq(S)
  <2>1. \A i \in k + 1 .. Len(w) : w[i] \in S
    BY <1>1
  <2> QED
    BY <1>1, <2>1, SubSeqProperties
<1> HIDE DEF a, b
<1>4. a \o b \in Seq(S)
  BY <1>2, <1>3, ConcatProperties
<1> USE DEF a, b
<1> QED
  BY <1>4 DEF RemoveAt

-----------------------------------------------------------------------------
(* The steps.                                                              *)

LEMMA InitInv == ClusterInit => IInv
<1> SUFFICES ASSUME ClusterInit PROVE IInv
  OBVIOUS
<1>1. /\ own = [n \in Nodes |-> [id |-> n, version |-> 0, observed |-> 0, active |-> 0]]
      /\ past = [n \in Nodes |-> IF n \in alive THEN {own[n]} ELSE {}] /\ recent = past
      /\ due = [n \in Nodes |-> {}]
      /\ rows = {own[n] : n \in alive}
      /\ view = [n \in Nodes |-> IF n \in alive THEN rows ELSE {}]
      /\ listed = [n \in Nodes |-> {}] /\ calls = [n \in Nodes |-> <<>>]
      /\ alive \subseteq Nodes /\ terminated = {}
  BY DEF ClusterInit
<1>2. \A n \in Nodes : own[n] \in Its(n)
  <2>1. \A n \in Nodes : [id |-> n, version |-> 0, observed |-> 0, active |-> 0] \in Its(n)
    BY DEF Its, Statuses
  <2>2. \A n \in Nodes : own[n] = [id |-> n, version |-> 0, observed |-> 0, active |-> 0]
    BY <1>1
  <2> QED
    BY <2>1, <2>2
<1>3. /\ own \in [Nodes -> Statuses] /\ due \in [Nodes -> SUBSET Statuses]
      /\ \A n \in Nodes : due[n] \subseteq Its(n)
  BY <1>1, <1>2 DEF Its
<1>4. past \in [Nodes -> SUBSET Statuses] /\ \A n \in Nodes : past[n] \subseteq Its(n)
  <2>1. \A n \in Nodes : (IF n \in alive THEN {own[n]} ELSE {}) \in SUBSET Its(n)
    BY <1>2
  <2> QED
    BY <1>1, <2>1 DEF Its
<1>5. OwnStatuses
  BY <1>1, <1>2, <1>3, <1>4 DEF OwnStatuses
<1>6. rows \subseteq Statuses /\ OneEach(rows)
  BY <1>1, <1>2 DEF Its, OneEach
<1>7. \A n \in Nodes : view[n] \subseteq rows /\ listed[n] = {}
  BY <1>1
<1>8. Shape
  <2>1. <<>> \in Seq(Messages)
    BY EmptySeq
  <2>2. view \in [Nodes -> SUBSET Statuses] /\ listed \in [Nodes -> SUBSET SUBSET Statuses]
    BY <1>1, <1>6
  <2> QED
    BY <1>1, <1>5, <1>6, <2>1, <2>2 DEF Shape
<1>9. OneStatusEach
  BY <1>6, <1>7 DEF OneStatusEach, OneEach
<1> QED
  BY <1>8, <1>9 DEF IInv

(* The map of one node changes: to one it may have, with nothing new in it. *)
LEMMA SetNodeView ==
  ASSUME IInv, NEW n \in Nodes, NEW s \in Statuses, SetNode(n, s)
  PROVE  /\ view' \in [Nodes -> SUBSET Statuses]
         /\ \A m \in Nodes : OneEach(view'[m]) /\ view'[m] \subseteq view[m] \cup {s}
<1>1. view \in [Nodes -> SUBSET Statuses] /\ \A m \in Nodes : OneEach(view[m])
  BY DEF IInv, Shape, OneStatusEach
<1>2. CASE view' = view
  BY <1>1, <1>2
<1>3. CASE view' = [view EXCEPT ![n] = With(view[n], s)]
  <2>1. OneEach(With(view[n], s)) /\ With(view[n], s) \subseteq view[n] \cup {s}
    BY <1>1, WithOne
  <2>2. view'[n] = With(view[n], s) /\ \A m \in Nodes : m # n => view'[m] = view[m]
    BY <1>1, <1>3
  <2>3. view' \in [Nodes -> SUBSET Statuses]
    BY <1>1, <1>3, <2>1
  <2> QED
    BY <1>1, <2>1, <2>2, <2>3
<1> QED
  BY <1>2, <1>3 DEF SetNode, SetView

LEMMA RemoveNodeView ==
  ASSUME IInv, NEW n \in Nodes, NEW id, RemoveNode(n, id)
  PROVE  /\ view' \in [Nodes -> SUBSET Statuses]
         /\ \A m \in Nodes : OneEach(view'[m]) /\ view'[m] \subseteq view[m]
<1>1. view \in [Nodes -> SUBSET Statuses] /\ \A m \in Nodes : OneEach(view[m])
  BY DEF IInv, Shape, OneStatusEach
<1>2. CASE view' = view
  BY <1>1, <1>2
<1>3. CASE view' = [view EXCEPT ![n] = view[n] \ Known(view[n], id)]
  <2>1. /\ view'[n] = view[n] \ Known(view[n], id)
        /\ \A m \in Nodes : m # n => view'[m] = view[m]
    BY <1>1, <1>3
  <2>2. view' \in [Nodes -> SUBSET Statuses]
    BY <1>1, <1>3
  <2> QED
    BY <1>1, <2>1, <2>2 DEF OneEach
<1> QED
  BY <1>2, <1>3 DEF RemoveNode, SetView

(* Calls are sent, and taken from a queue. *)
LEMMA SentCalls ==
  ASSUME IInv, NEW c \in Messages, calls' = [m \in Nodes |-> calls'[m]],
         \A m \in Nodes : calls'[m] \in {calls[m], Start(calls[m], c)}
  PROVE  calls' \in [Nodes -> Seq(Messages)]
<1>1. \A m \in Nodes : calls[m] \in Seq(Messages)
  BY DEF IInv, Shape
<1>2. \A m \in Nodes : calls'[m] \in Seq(Messages)
  <2> SUFFICES ASSUME NEW m \in Nodes PROVE calls'[m] \in Seq(Messages)
    OBVIOUS
  <2>1. CASE calls'[m] = calls[m]
    BY <1>1, <2>1
  <2>2. CASE calls'[m] = Start(calls[m], c)
    <3> DEFINE w == calls[m]
    <3>0. w \in Seq(Messages)
      BY <1>1
    <3> HIDE DEF w
    <3>1. Start(w, c) \in Seq(Messages)
      BY <3>0, StartAdds
    <3> USE DEF w
    <3> QED
      BY <2>2, <3>1
  <2> QED
    BY <2>1, <2>2
<1> QED
  BY <1>2

LEMMA TakenCalls ==
  ASSUME IInv, NEW n \in Nodes, NEW i \in DOMAIN calls[n],
         calls' = [calls EXCEPT ![n] = RemoveAt(@, i)]
  PROVE  /\ calls' \in [Nodes -> Seq(Messages)]
         /\ calls[n][i] \in Messages
<1>1. calls \in [Nodes -> Seq(Messages)] /\ calls[n] \in Seq(Messages)
  BY DEF IInv, Shape
<1>2. calls[n][i] \in Messages
  BY <1>1, LenProperties, ElementOfSeq
<1>3. RemoveAt(calls[n], i) \in Seq(Messages)
  BY <1>1, RemoveAtKeeps
<1>4. calls' \in [Nodes -> Seq(Messages)]
  BY <1>1, <1>3
<1> QED
  BY <1>2, <1>4

LEMMA BroadcastCalls ==
  ASSUME IInv, NEW n \in Nodes, NEW known, NEW c \in Messages, Broadcast(n, known, c)
  PROVE  calls' \in [Nodes -> Seq(Messages)]
<1>1. calls' = [m \in Nodes |-> calls'[m]]
      /\ \A m \in Nodes : calls'[m] \in {calls[m], Start(calls[m], c)}
  BY DEF Broadcast
<1> QED
  BY <1>1, SentCalls

LEMMA MayReturnKeeps ==
  ASSUME NEW n \in Nodes, NEW found \in SUBSET Its(n), NEW s \in Its(n)
  PROVE  MayReturn(found, s) \in SUBSET Its(n)
<1> SUFFICES ASSUME NEW f \in found PROVE [f EXCEPT !.observed = s.observed] \in Its(n)
  BY DEF MayReturn
<1>1. f \in Statuses /\ f.id = n /\ s.observed \in Nat
  BY DEF Its, Statuses
<1> QED
  BY <1>1 DEF Its, Statuses

(* The statuses of a node when it changes, and when loadStatusLock is released. *)
LEMMA BecomesKeeps ==
  ASSUME IInv, NEW n \in Nodes, NEW s \in Its(n), Becomes(n, s)
  PROVE  /\ own' \in [Nodes -> Statuses] /\ \A m \in Nodes : own'[m] \in Its(m)
         /\ past' \in [Nodes -> SUBSET Statuses] /\ \A m \in Nodes : past'[m] \subseteq Its(m)
         /\ recent' \in [Nodes -> SUBSET Statuses]
         /\ \A m \in Nodes : recent'[m] \subseteq Its(m)
         /\ own'[n] = s
<1>1. OwnStatuses
  BY DEF IInv, Shape
<1>2. /\ MayReturn(past[n], s) \subseteq Its(n) /\ MayReturn(past[n], s) \in SUBSET Statuses
      /\ MayReturn(recent[n], s) \subseteq Its(n) /\ MayReturn(recent[n], s) \in SUBSET Statuses
  BY <1>1, MayReturnKeeps DEF OwnStatuses, Its
<1>3. /\ own' = [own EXCEPT ![n] = s] /\ past' = [past EXCEPT ![n] = MayReturn(past[n], s)]
      /\ recent' = [recent EXCEPT ![n] = MayReturn(recent[n], s)]
  BY DEF Becomes
<1>4. s \in Statuses
  BY DEF Its
<1>5. own' \in [Nodes -> Statuses] /\ own'[n] = s /\ \A m \in Nodes : own'[m] \in Its(m)
  BY <1>1, <1>3, <1>4 DEF OwnStatuses
<1>6. past' \in [Nodes -> SUBSET Statuses] /\ \A m \in Nodes : past'[m] \subseteq Its(m)
  BY <1>1, <1>2, <1>3 DEF OwnStatuses
<1>7. recent' \in [Nodes -> SUBSET Statuses] /\ \A m \in Nodes : recent'[m] \subseteq Its(m)
  BY <1>1, <1>2, <1>3 DEF OwnStatuses
<1> QED
  BY <1>5, <1>6, <1>7

LEMMA ReleaseKeeps ==
  ASSUME IInv, NEW n \in Nodes, NEW waiting, Release(n, waiting)
  PROVE  OwnStatuses'
<1>1. OwnStatuses
  BY DEF IInv, Shape
<1>2. /\ recent' = [recent EXCEPT ![n] = {own[n]}] /\ own' = own /\ past' = past
      /\ \E found \in {{own[n]}, {}} : due' = [due EXCEPT ![n] = found]
  BY DEF Release
<1>3. {own[n]} \subseteq Its(n) /\ {own[n]} \in SUBSET Statuses
  BY <1>1 DEF OwnStatuses
<1>4. recent' \in [Nodes -> SUBSET Statuses] /\ \A m \in Nodes : recent'[m] \subseteq Its(m)
  BY <1>1, <1>2, <1>3 DEF OwnStatuses
<1>5. due' \in [Nodes -> SUBSET Statuses] /\ \A m \in Nodes : due'[m] \subseteq Its(m)
  BY <1>1, <1>2, <1>3 DEF OwnStatuses
<1> QED
  BY <1>1, <1>2, <1>4, <1>5 DEF OwnStatuses

(* What a step has to keep. *)
LEMMA SpreadStep ==
  ASSUME OwnStatuses', terminated' \subseteq alive', alive' \subseteq Nodes,
         rows' \subseteq Statuses, OneEach(rows'),
         view' \in [Nodes -> SUBSET Statuses], \A m \in Nodes : OneEach(view'[m]),
         listed' \in [Nodes -> SUBSET SUBSET Statuses],
         \A m \in Nodes : \A keep \in listed'[m] : OneEach(keep),
         calls' \in [Nodes -> Seq(Messages)]
  PROVE  IInv'
BY DEF IInv, Shape, OneStatusEach

(* What SpreadStep asks of the parts a step leaves alone. *)
LEMMA Before ==
  ASSUME IInv
  PROVE  /\ OwnStatuses /\ terminated \subseteq alive /\ alive \subseteq Nodes
         /\ \A m \in Nodes : own[m] \in Statuses /\ own[m] \in Its(m)
         /\ rows \subseteq Statuses /\ OneEach(rows)
         /\ view \in [Nodes -> SUBSET Statuses] /\ \A m \in Nodes : OneEach(view[m])
         /\ listed \in [Nodes -> SUBSET SUBSET Statuses]
         /\ \A m \in Nodes : \A keep \in listed[m] : OneEach(keep)
         /\ calls \in [Nodes -> Seq(Messages)]
BY DEF IInv, Shape, OneStatusEach, OwnStatuses, Its

LEMMA SameStatuses ==
  ASSUME IInv, UNCHANGED nodeVars
  PROVE  OwnStatuses'
BY DEF IInv, Shape, OwnStatuses, nodeVars

(* The node becomes s and its callback may be due, with what it may return. *)
LEMMA ChangeStep ==
  ASSUME IInv, NEW n \in Nodes, NEW s \in Its(n), Becomes(n, s),
         NEW found \in SUBSET Its(n), due' = [due EXCEPT ![n] = found],
         UNCHANGED <<alive, terminated, rows, view, calls, notices, listed, remote>>
  PROVE  IInv'
<1>1. due' \in [Nodes -> SUBSET Statuses] /\ \A m \in Nodes : due'[m] \subseteq Its(m)
  <2>1. found \in SUBSET Statuses
    BY DEF Its
  <2> QED
    BY <2>1, Before DEF OwnStatuses
<1>2. OwnStatuses'
  BY <1>1, BecomesKeeps DEF OwnStatuses
<1> QED
  BY <1>2, Before, SpreadStep

LEMMA ContainersChangeStep ==
  ASSUME IInv, NEW n \in Nodes, ContainersChange(n)
  PROVE  IInv'
<1> DEFINE s == [own[n] EXCEPT !.active = 1 - @, !.observed = @ + 1]
<1>1. s \in Its(n)
  <2>1. PICK p \in Statuses : p = own[n] /\ p.id = n
    BY Before DEF Its
  <2>2. 1 - p.active \in 0..1 /\ p.observed + 1 \in Nat /\ p.version + 1 \in Nat
    BY DEF Statuses
  <2>3. [p EXCEPT !.active = 1 - @, !.observed = @ + 1] \in Statuses
    BY <2>2 DEF Statuses
  <2>4. [p EXCEPT !.active = 1 - @, !.observed = @ + 1].id = n
    BY <2>1, <2>2 DEF Statuses
  <2> QED
    BY <2>1, <2>3, <2>4 DEF Its
<1>2. Becomes(n, s)
  BY DEF ContainersChange
<1> HIDE DEF s
<1>3. due' = [due EXCEPT ![n] = MayReturn(due[n], s)]
  BY <1>1, <1>2, BecomesKeeps DEF ContainersChange
<1>4. MayReturn(due[n], s) \in SUBSET Its(n)
  BY <1>1, MayReturnKeeps, Before DEF OwnStatuses
<1> QED
  BY <1>1, <1>2, <1>3, <1>4, ChangeStep DEF ContainersChange

LEMMA SetTargetsStep ==
  ASSUME IInv, NEW n \in Nodes, SetTargets(n)
  PROVE  IInv'
<1> DEFINE s == [own[n] EXCEPT !.version = @ + 1, !.observed = @ + 1]
<1>1. s \in Its(n)
  <2>1. PICK p \in Statuses : p = own[n] /\ p.id = n
    BY Before DEF Its
  <2>2. 1 - p.active \in 0..1 /\ p.observed + 1 \in Nat /\ p.version + 1 \in Nat
    BY DEF Statuses
  <2>3. [p EXCEPT !.version = @ + 1, !.observed = @ + 1] \in Statuses
    BY <2>2 DEF Statuses
  <2>4. [p EXCEPT !.version = @ + 1, !.observed = @ + 1].id = n
    BY <2>1, <2>2 DEF Statuses
  <2> QED
    BY <2>1, <2>3, <2>4 DEF Its
<1>2. Becomes(n, s)
  BY DEF SetTargets
<1> HIDE DEF s
<1>3. \E found \in {{}, MayReturn(due[n], s)} : due' = [due EXCEPT ![n] = found]
  BY <1>1, <1>2, BecomesKeeps DEF SetTargets
<1>4. MayReturn(due[n], s) \in SUBSET Its(n) /\ {} \in SUBSET Its(n)
  BY <1>1, MayReturnKeeps, Before DEF OwnStatuses
<1> QED
  BY <1>1, <1>2, <1>3, <1>4, ChangeStep DEF SetTargets

LEMMA NewNodeStep ==
  ASSUME IInv, NEW n \in Nodes, NewNode(n)
  PROVE  IInv'
<1> DEFINE s == [id |-> n, version |-> own[n].version + 1,
                 observed |-> own[n].observed + 1, active |-> 0]
<1>1. s \in Its(n)
  BY Before DEF Its, Statuses
<1>2. Becomes(n, s)
  BY DEF NewNode
<1> HIDE DEF s
<1>3. own'[n] = s /\ s \in Statuses
  BY <1>1, <1>2, BecomesKeeps DEF Its
<1>4. /\ rows' = With(rows, s) /\ SetNode(n, s) /\ UNCHANGED <<terminated, due, calls, listed>>
      /\ alive' = alive \cup {n}
  BY <1>3 DEF NewNode
<1>5. OwnStatuses'
  BY <1>1, <1>2, <1>4, Before, BecomesKeeps DEF OwnStatuses
<1>6. OneEach(rows') /\ rows' \subseteq Statuses
  BY <1>3, <1>4, Before, WithOne
<1>7. view' \in [Nodes -> SUBSET Statuses] /\ \A m \in Nodes : OneEach(view'[m])
  BY <1>3, <1>4, SetNodeView
<1> QED
  BY <1>4, <1>5, <1>6, <1>7, Before, SpreadStep

LEMMA OnContainersChangedStep ==
  ASSUME IInv, NEW n \in Nodes, OnContainersChanged(n)
  PROVE  IInv'
<1>1. PICK s \in due[n] :
        /\ Release(n, s # own[n])
        /\ \/ UNCHANGED <<rows, view, calls, notices>>
           \/ /\ rows' = With(rows, s) /\ SetNode(n, s)
              /\ Broadcast(n, view[n], [exiting |-> FALSE, status |-> s])
  BY DEF OnContainersChanged
<1>2. alive' = alive /\ terminated' = terminated /\ listed' = listed
  BY DEF OnContainersChanged
<1>3. OwnStatuses'
  BY <1>1, ReleaseKeeps
<1>4. CASE UNCHANGED <<rows, view, calls, notices>>
  BY <1>2, <1>3, <1>4, Before, SpreadStep
<1>5. CASE /\ rows' = With(rows, s) /\ SetNode(n, s)
           /\ Broadcast(n, view[n], [exiting |-> FALSE, status |-> s])
  <2>1. s \in Statuses
    BY <1>1, Before DEF OwnStatuses
  <2>2. rows' \subseteq Statuses /\ OneEach(rows')
    BY <1>5, <2>1, Before, WithOne
  <2>3. view' \in [Nodes -> SUBSET Statuses] /\ \A m \in Nodes : OneEach(view'[m])
    BY <1>5, <2>1, SetNodeView
  <2>4. [exiting |-> FALSE, status |-> s] \in Messages
    BY <2>1 DEF Messages
  <2>5. calls' \in [Nodes -> Seq(Messages)]
    BY <1>5, <2>4, BroadcastCalls
  <2> QED
    BY <1>2, <1>3, <2>2, <2>3, <2>5, Before, SpreadStep
<1> QED
  BY <1>1, <1>4, <1>5

LEMMA StatusChangedStep ==
  ASSUME IInv, NEW n \in Nodes, NEW i, StatusChanged(n, i)
  PROVE  IInv'
<1> DEFINE c == calls[n][i]
<1>1. /\ i \in DOMAIN calls[n] /\ calls' = [calls EXCEPT ![n] = RemoveAt(@, i)]
      /\ alive' = alive /\ terminated' = terminated /\ listed' = listed /\ rows' = rows
      /\ OwnStatuses'
  BY SameStatuses DEF StatusChanged
<1>2. calls' \in [Nodes -> Seq(Messages)] /\ c \in Messages
  BY <1>1, TakenCalls
<1>3. c.status \in Statuses
  BY <1>2 DEF Messages
<1>4. SetNode(n, c.status) \/ RemoveNode(n, c.status.id)
  BY DEF StatusChanged
<1>5. view' \in [Nodes -> SUBSET Statuses] /\ \A m \in Nodes : OneEach(view'[m])
  <2> HIDE DEF c
  <2>1. CASE SetNode(n, c.status)
    BY <1>3, <2>1, SetNodeView
  <2>2. CASE RemoveNode(n, c.status.id)
    BY <2>2, RemoveNodeView
  <2> QED
    BY <1>4, <2>1, <2>2
<1> QED
  BY <1>1, <1>2, <1>5, Before, SpreadStep

LEMMA LoseCallStep ==
  ASSUME IInv, NEW n \in Nodes, NEW i, LoseCall(n, i)
  PROVE  IInv'
<1>1. /\ i \in DOMAIN calls[n] /\ calls' = [calls EXCEPT ![n] = RemoveAt(@, i)]
      /\ alive' = alive /\ terminated' = terminated /\ listed' = listed
      /\ rows' = rows /\ view' = view /\ OwnStatuses'
  BY SameStatuses DEF LoseCall
<1>2. calls' \in [Nodes -> Seq(Messages)]
  BY <1>1, TakenCalls
<1> QED
  BY <1>1, <1>2, Before, SpreadStep

LEMMA AskStatusStep ==
  ASSUME IInv, NEW n \in Nodes, NEW m \in Nodes, AskStatus(n, m)
  PROVE  IInv'
<1>1. PICK s \in past[m] : calls' = [calls EXCEPT ![n] = Start(@, [exiting |-> FALSE, status |-> s])]
  BY DEF AskStatus
<1> DEFINE c == [exiting |-> FALSE, status |-> s]
<1>2. /\ alive' = alive /\ terminated' = terminated /\ listed' = listed
      /\ rows' = rows /\ view' = view /\ OwnStatuses'
  BY SameStatuses DEF AskStatus
<1>3. c \in Messages
  BY Before DEF Messages, OwnStatuses
<1> HIDE DEF c
<1>4. /\ calls' = [k \in Nodes |-> calls'[k]]
      /\ \A k \in Nodes : calls'[k] \in {calls[k], Start(calls[k], c)}
  BY <1>1, Before DEF c
<1>5. calls' \in [Nodes -> Seq(Messages)]
  BY <1>3, <1>4, SentCalls
<1> QED
  BY <1>2, <1>5, Before, SpreadStep

LEMMA LogStatusStep ==
  ASSUME IInv, NEW n \in Nodes, LogStatus(n)
  PROVE  IInv'
<1>1. /\ alive' = alive /\ terminated' = terminated /\ view' = view /\ calls' = calls
  BY DEF LogStatus
<1>2. OwnStatuses'
  BY ReleaseKeeps DEF LogStatus
<1>3. PICK s \in recent[n] : \E logged \in {With(rows, s), rows} : \E found \in SUBSET logged :
        /\ rows' \in {found, logged}
        /\ \/ listed' = listed
           \/ \E keep \in SUBSET found : listed' = [listed EXCEPT ![n] = {keep}]
  <2>1. PICK s \in recent[n] :
          \E logged \in {With(rows, s), rows}, stale \in SUBSET {r \in rows : r.id \notin alive} :
             LET found == {r \in logged : ~Invalid(n, r)} \ stale
                 goesOn == listed' = [listed EXCEPT ![n] =
                                        {{r \in found : r.id = n \/ At(r.id) # {}}}]
             IN  \/ s \in logged /\ Calm /\ rows' = found /\ goesOn
                 \/ Upset /\ rows' \in {found, logged} /\ goesOn
                 \/ Upset /\ rows' = logged /\ UNCHANGED listed
    BY DEF LogStatus
  <2>2. PICK lg \in {With(rows, s), rows}, stale \in SUBSET rows :
          LET fd == {r \in lg : ~Invalid(n, r)} \ stale
              goesOn == listed' = [listed EXCEPT ![n] =
                                     {{r \in fd : r.id = n \/ At(r.id) # {}}}]
          IN  \/ rows' = fd /\ goesOn
              \/ rows' \in {fd, lg} /\ goesOn
              \/ rows' = lg /\ listed' = listed
    BY <2>1
  <2> DEFINE fd == {r \in lg : ~Invalid(n, r)} \ stale
  <2>3. fd \in SUBSET lg /\ {r \in fd : r.id = n \/ At(r.id) # {}} \in SUBSET fd
    OBVIOUS
  <2> QED
    BY <2>2, <2>3
<1>4. PICK logged \in {With(rows, s), rows} : \E found \in SUBSET logged :
        /\ rows' \in {found, logged}
        /\ \/ listed' = listed
           \/ \E keep \in SUBSET found : listed' = [listed EXCEPT ![n] = {keep}]
  BY <1>3
<1>5. PICK found \in SUBSET logged :
        /\ rows' \in {found, logged}
        /\ \/ listed' = listed
           \/ \E keep \in SUBSET found : listed' = [listed EXCEPT ![n] = {keep}]
  BY <1>4
<1>6. s \in Statuses
  BY Before DEF OwnStatuses
<1>7. logged \subseteq Statuses /\ OneEach(logged)
  BY <1>6, Before, WithOne
<1>8. rows' \subseteq Statuses /\ OneEach(rows')
  BY <1>5, <1>7 DEF OneEach
<1>9. /\ listed' \in [Nodes -> SUBSET SUBSET Statuses]
      /\ \A m \in Nodes : \A keep \in listed'[m] : OneEach(keep)
  <2>1. CASE listed' = listed
    BY <2>1, Before
  <2>2. ASSUME NEW keep \in SUBSET found, listed' = [listed EXCEPT ![n] = {keep}]
        PROVE  /\ listed' \in [Nodes -> SUBSET SUBSET Statuses]
               /\ \A m \in Nodes : \A k \in listed'[m] : OneEach(k)
    <3>1. keep \subseteq Statuses /\ OneEach(keep)
      BY <1>7 DEF OneEach
    <3>2. listed'[n] = {keep} /\ \A m \in Nodes : m # n => listed'[m] = listed[m]
      BY <2>2, Before
    <3>3. listed' \in [Nodes -> SUBSET SUBSET Statuses]
      <4>1. {keep} \in SUBSET SUBSET Statuses
        BY <3>1
      <4> QED
        BY <2>2, <4>1, Before
    <3>4. ASSUME NEW m \in Nodes, NEW k \in listed'[m] PROVE OneEach(k)
      <4>1. CASE m = n
        BY <3>1, <3>2, <3>4, <4>1
      <4>2. CASE m # n
        BY <3>2, <3>4, <4>2, Before
      <4> QED
        BY <4>1, <4>2
    <3> QED
      BY <3>3, <3>4
  <2> QED
    BY <1>5, <2>1, <2>2
<1> QED
  BY <1>1, <1>2, <1>8, <1>9, Before, SpreadStep

LEMMA SetAllNodesStep ==
  ASSUME IInv, NEW n \in Nodes, SetAllNodes(n)
  PROVE  IInv'
<1>1. /\ alive' = alive /\ terminated' = terminated /\ rows' = rows /\ calls' = calls
      /\ listed' = [listed EXCEPT ![n] = {}] /\ OwnStatuses'
  BY SameStatuses DEF SetAllNodes
<1>2. PICK keep \in listed[n] : view' = [view EXCEPT ![n] = keep]
  BY DEF SetAllNodes, SetView
<1>3. OneEach(keep) /\ keep \subseteq Statuses
  BY Before
<1>4. /\ view' \in [Nodes -> SUBSET Statuses]
      /\ view'[n] = keep /\ \A m \in Nodes : m # n => view'[m] = view[m]
  BY <1>2, <1>3, Before
<1>5. /\ listed' \in [Nodes -> SUBSET SUBSET Statuses]
      /\ \A m \in Nodes : listed'[m] \subseteq listed[m]
  BY <1>1, Before
<1>6. \A m \in Nodes : OneEach(view'[m])
  BY <1>3, <1>4, Before
<1> QED
  BY <1>1, <1>4, <1>5, <1>6, Before, SpreadStep

LEMMA OnClusterUpdatedStep ==
  ASSUME IInv, NEW n \in Nodes, NEW i, OnClusterUpdated(n, i)
  PROVE  IInv'
BY Before, SameStatuses, SpreadStep DEF OnClusterUpdated

LEMMA ExitStep ==
  ASSUME IInv, NEW n \in Nodes, Exit(n)
  PROVE  IInv'
<1>1. /\ alive' = alive /\ listed' = listed /\ rows' \subseteq rows
      /\ terminated' \subseteq terminated \cup {n} /\ n \in alive /\ OwnStatuses'
  BY ReleaseKeeps DEF Exit, LoopRuns
<1>2. OneEach(rows') /\ rows' \subseteq Statuses
  BY <1>1, Before DEF OneEach
<1>3. view' \in [Nodes -> SUBSET Statuses] /\ \A m \in Nodes : OneEach(view'[m])
  BY RemoveNodeView DEF Exit
<1>4. [exiting |-> TRUE, status |-> own[n]] \in Messages
  BY Before DEF Messages
<1>5. calls' \in [Nodes -> Seq(Messages)]
  BY <1>4, BroadcastCalls DEF Exit
<1> QED
  BY <1>1, <1>2, <1>3, <1>5, Before, SpreadStep

LEMMA ClearStep ==
  ASSUME IInv, NEW n \in Nodes, Clear(n)
  PROVE  IInv'
<1>1. /\ own' = own /\ alive' = alive \ {n} /\ terminated' = terminated \ {n}
      /\ past' = [past EXCEPT ![n] = {}] /\ recent' = [recent EXCEPT ![n] = {}]
      /\ due' = [due EXCEPT ![n] = {}]
      /\ rows' = rows /\ view' = [view EXCEPT ![n] = {}]
      /\ calls' = [calls EXCEPT ![n] = <<>>] /\ listed' = [listed EXCEPT ![n] = {}]
  BY DEF Clear
<1>2. OwnStatuses'
  BY <1>1, Before DEF OwnStatuses
<1>3. /\ view' \in [Nodes -> SUBSET Statuses] /\ \A m \in Nodes : view'[m] \subseteq view[m]
      /\ listed' \in [Nodes -> SUBSET SUBSET Statuses]
      /\ \A m \in Nodes : listed'[m] \subseteq listed[m]
  BY <1>1, Before
<1>4. \A m \in Nodes : OneEach(view'[m])
  BY <1>3, Before DEF OneEach
<1>5. calls' \in [Nodes -> Seq(Messages)]
  <2>1. <<>> \in Seq(Messages)
    BY EmptySeq
  <2> QED
    BY <1>1, <2>1, Before
<1> QED
  BY <1>1, <1>2, <1>3, <1>4, <1>5, Before, SpreadStep

LEMMA StepInv == IInv /\ [ClusterNext]_clusterVars => IInv'
<1> SUFFICES ASSUME IInv, [ClusterNext]_clusterVars PROVE IInv'
  OBVIOUS
<1>1. ASSUME NEW n \in Nodes, ContainersChange(n) \/ SetTargets(n) \/ OnContainersChanged(n)
      PROVE  IInv'
  BY <1>1, ContainersChangeStep, SetTargetsStep, OnContainersChangedStep
<1>2. ASSUME NEW n \in Nodes, NEW i \in 1..MaxWaiting,
             StatusChanged(n, i) \/ LoseCall(n, i) \/ OnClusterUpdated(n, i)
      PROVE  IInv'
  BY <1>2, StatusChangedStep, LoseCallStep, OnClusterUpdatedStep
<1>3. ASSUME NEW n \in Nodes, NEW m \in Nodes, AskStatus(n, m) PROVE IInv'
  BY <1>3, AskStatusStep
<1>4. ASSUME NEW n \in Nodes, LogStatus(n) \/ SetAllNodes(n) PROVE IInv'
  BY <1>4, LogStatusStep, SetAllNodesStep
<1>5. ASSUME NEW n \in Nodes, Exit(n) \/ Shutdown(n) \/ Crash(n) \/ NewNode(n) PROVE IInv'
  BY <1>5, ExitStep, ClearStep, NewNodeStep DEF Shutdown, Crash
<1>6. CASE UNCHANGED clusterVars
  <2>1. UNCHANGED nodeVars /\ UNCHANGED <<alive, terminated, rows, view, calls, listed>>
    BY <1>6 DEF clusterVars
  <2> QED
    BY <2>1, Before, SameStatuses, SpreadStep
<1> QED
  BY <1>1, <1>2, <1>3, <1>4, <1>5, <1>6 DEF ClusterNext

LEMMA Inductive == ClusterSpec => []IInv
BY InitInv, StepInv, PTL DEF ClusterSpec

(* A step leaves no row in the table that was not there, but one of a node that
   has not left its loop. *)
LEMMA OnlyLiveWrite ==
  ASSUME IInv, [ClusterNext]_clusterVars, NEW r \in rows', r \notin rows
  PROVE  r.id \notin terminated
<1>1. /\ \A m \in Nodes : \A s \in due[m] \cup recent[m] : s.id = m
      /\ terminated \subseteq alive
  BY Before DEF OwnStatuses, Its
<1>2. ASSUME NEW n \in Nodes, OnContainersChanged(n) PROVE r.id \notin terminated
  <2>1. PICK s \in due[n] : n \notin terminated /\ rows' = With(rows, s)
    BY <1>2 DEF OnContainersChanged
  <2> QED
    BY <1>1, <2>1 DEF With
<1>3. ASSUME NEW n \in Nodes, LogStatus(n) PROVE r.id \notin terminated
  <2>1. n \notin terminated
    BY <1>3 DEF LogStatus, LoopRuns
  <2>2. PICK s \in recent[n] : \E logged \in {With(rows, s), rows} : rows' \subseteq logged
    BY <1>3 DEF LogStatus
  <2> QED
    BY <1>1, <2>1, <2>2 DEF With
<1>4. ASSUME NEW n \in Nodes, NewNode(n) PROVE r.id \notin terminated
  <2>1. n \notin alive
    BY <1>4 DEF NewNode, At
  <2> DEFINE s == [id |-> n, version |-> own[n].version + 1,
                   observed |-> own[n].observed + 1, active |-> 0]
  <2>2. s \in Its(n) /\ s.id = n
    BY Before DEF Its, Statuses
  <2>3. Becomes(n, s)
    BY <1>4 DEF NewNode
  <2> HIDE DEF s
  <2>4. rows' = With(rows, s)
    BY <1>4, <2>2, <2>3, BecomesKeeps DEF NewNode
  <2> QED
    BY <1>1, <2>1, <2>2, <2>4 DEF With
<1>5. ASSUME NEW n \in Nodes, Exit(n) PROVE FALSE
  BY <1>5 DEF Exit
<1>6. ASSUME NEW n \in Nodes,
             \/ ContainersChange(n) \/ SetTargets(n) \/ SetAllNodes(n) \/ Shutdown(n) \/ Crash(n)
             \/ \E i \in 1..MaxWaiting :
                  StatusChanged(n, i) \/ LoseCall(n, i) \/ OnClusterUpdated(n, i)
             \/ \E m \in Nodes : AskStatus(n, m)
      PROVE  FALSE
  BY <1>6 DEF ContainersChange, SetTargets, SetAllNodes, Shutdown, Crash, Clear, StatusChanged,
              LoseCall, OnClusterUpdated, AskStatus
<1>7. CASE UNCHANGED clusterVars
  BY <1>7 DEF clusterVars
<1> QED
  BY <1>2, <1>3, <1>4, <1>5, <1>6, <1>7 DEF ClusterNext

(* A node that has left its loop and is out of the table stays out of it until
   it is started anew, whatever its containers and its peers do meanwhile
   (node_svc.go:979). *)
THEOREM ExitedNodesStayOut == ClusterSpec => ExitedStaysOut
<1>1. IInv /\ [ClusterNext]_clusterVars => [StaysOut]_clusterVars
  <2> SUFFICES ASSUME IInv, [ClusterNext]_clusterVars,
                      NEW n \in terminated, Known(rows, n) = {},
                      NEW r \in rows', r.id = n
               PROVE  FALSE
    BY DEF StaysOut, Known
  <2>1. r \notin rows
    BY DEF Known
  <2> QED
    BY <2>1, OnlyLiveWrite
<1> QED
  BY <1>1, Inductive, PTL DEF ClusterSpec, ExitedStaysOut

(* The table and every map have at most one status of each node, in spite of
   calls that come late, twice or not at all and of nodes that come back
   (cluster.go:51-141). *)
THEOREM OneStatusOfEach == ClusterSpec => []OneStatusEach
<1>1. IInv => OneStatusEach
  BY DEF IInv
<1> QED
  BY <1>1, Inductive, PTL

-----------------------------------------------------------------------------
(* Router. *)

(* What the code's loop over urlToHandlerCount may be called with. *)
CountsStep ==
  \E counts \in Counts : \E fresh \in [Urls -> FreshSeqs] :
    SetRemoteHandlerCounts(counts, fresh)

LEMMA TypeCounts ==
  ASSUME TypeOK, NEW counts \in Counts, NEW fresh \in [Urls -> FreshSeqs],
         SetRemoteHandlerCounts(counts, fresh)
  PROVE  TypeOK'
<1> USE RouterAssumption DEF TypeOK
<1>1. ASSUME NEW u \in Urls PROVE TargetOf(counts, u) \in Nat
  BY DEF Counts, TargetOf
<1>2. ASSUME NEW u \in Urls
      PROVE  SubSeq(remotes[u], Excess(counts, u) + 1, Len(remotes[u])) \o fresh[u]
               \in Seq(Handlers)
  <2>1. remotes[u] \in Seq(Handlers) /\ Len(remotes[u]) \in Nat
    OBVIOUS
  <2>2. Excess(counts, u) + 1 \in 1 .. Len(remotes[u]) + 1
    <3> HIDE DEF TypeOK
    <3>1. TargetOf(counts, u) \in Nat
      BY <1>1
    <3>2. CASE TargetOf(counts, u) < Len(remotes[u])
      BY <2>1, <3>1, <3>2 DEF Excess
    <3>3. CASE ~(TargetOf(counts, u) < Len(remotes[u]))
      BY <2>1, <3>1, <3>3 DEF Excess
    <3> QED
      BY <3>2, <3>3
  <2>3. SubSeq(remotes[u], Excess(counts, u) + 1, Len(remotes[u])) \in Seq(Handlers)
    BY <2>1, <2>2, SubSeqProperties, ElementOfSeq
  <2>4. PICK k \in 0 .. MaxRemote : fresh[u] \in [1 .. k -> Fresh]
    BY DEF FreshSeqs
  <2>5. fresh[u] \in Seq(Handlers)
    <3>1. fresh[u] \in [1 .. k -> Handlers]
      BY <2>4 DEF Fresh
    <3> QED
      BY <3>1, SeqDef
  <2> QED
    BY <2>3, <2>5, ConcatProperties
<1>3. remotes' \in [Urls -> Seq(Handlers)]
  BY <1>2 DEF SetRemoteHandlerCounts
<1>4. limit' \in [Handlers -> Nat]
  <2>1. ASSUME NEW u PROVE TargetOf(counts, u) \in Nat
    BY DEF Counts, TargetOf
  <2> QED
    BY <2>1 DEF SetRemoteHandlerCounts
<1>5. cancelled' \in [Handlers -> BOOLEAN]
  BY Zenon DEF SetRemoteHandlerCounts
<1> QED
  BY <1>3, <1>4, <1>5
  DEF SetRemoteHandlerCounts, routerVars, reqVars

LEMMA TypeStart ==
  ASSUME TypeOK, NEW h \in Handlers, handlerStart(h),
         kind' \in [Handlers -> {"local", "remote"}],
         limit' \in [Handlers -> Nat],
         cancelled' \in [Handlers -> BOOLEAN]
  PROVE  TypeOK'
<1>1. chan' \in Nat /\ made' \in Nat
  BY DEF handlerStart, ensureReqChan, TypeOK
<1>2. hchan' \in [Handlers -> Nat] /\ hpc' \in [Handlers -> Registered \cup {"free", "spawned", "stopped"}]
  BY <1>1 DEF handlerStart, TypeOK, Registered
<1> QED
  BY <1>1, <1>2 DEF handlerStart, reqVars, TypeOK

(* The variables keep their types (router.go:57-325, dispenser.go:22-88). *)
THEOREM TypeCorrect == Spec => []TypeOK
<1>1. Init => TypeOK
  BY DEF Init, TypeOK, Off
<1>2. TypeOK /\ [Next]_vars => TypeOK'
  <2> SUFFICES ASSUME TypeOK, [Next]_vars PROVE TypeOK'
    OBVIOUS
  <2> USE RouterAssumption
      DEF TypeOK, Routing, Registered, routerVars, reqVars, handlerVars,
          Off, On, Pending
  <2>1. ASSUME NEW r \in Reqs, routeStart(r) PROVE TypeOK'
    BY <2>1 DEF routeStart, ensureReqChan, setPendingState
  <2>2. ASSUME NEW r \in Reqs, PreferLocalTimeout(r) PROVE TypeOK'
    BY <2>2 DEF PreferLocalTimeout
  <2>3. ASSUME NEW r \in Reqs, OpenSelect(r) PROVE TypeOK'
    BY <2>3 DEF OpenSelect
  <2>4. ASSUME NEW r \in Reqs, Deadline(r) PROVE TypeOK'
    BY <2>4 DEF Deadline
  <2>5. ASSUME NEW r \in Reqs, ProxyReturns(r) PROVE TypeOK'
    <3>1. doneCh' \in [Handlers -> Nat]
      <4>1. CASE server[r] \in Handlers
        BY <2>5, <4>1 DEF ProxyReturns
      <4>2. CASE server[r] \notin Handlers
        BY <2>5, <4>2 DEF ProxyReturns
      <4> QED
        BY <4>1, <4>2
    <3> QED
      BY <2>5, <3>1 DEF ProxyReturns
  <2>6. ASSUME NEW r \in Reqs, routeDone(r) PROVE TypeOK'
    BY <2>6 DEF routeDone, Left
  <2>7. ASSUME NEW h \in Handlers, HandlerStartRemote(h) PROVE TypeOK'
    BY <2>7, TypeStart DEF HandlerStartRemote
  <2>8. ASSUME NEW h \in Handlers, NEW max \in Limits, HandlerStartLocal(h, max)
        PROVE  TypeOK'
    BY <2>8, TypeStart DEF HandlerStartLocal
  <2>9. ASSUME NEW h \in Handlers, TakeDone(h) PROVE TypeOK'
    BY <2>9 DEF TakeDone
  <2>10. ASSUME NEW h \in Handlers, StopAccepting(h) \/ Drained(h) PROVE TypeOK'
    BY <2>10 DEF StopAccepting, Drained
  <2>11. ASSUME NEW h \in Handlers, HandlerStop(h) PROVE TypeOK'
    BY <2>11 DEF HandlerStop, setPendingState
  <2>12. ASSUME NEW h \in Handlers, CancelLocal(h) PROVE TypeOK'
    BY <2>12 DEF CancelLocal
  <2>13. ASSUME NEW h \in Handlers, NEW r \in Reqs, Accept(h, r) PROVE TypeOK'
    BY <2>13 DEF Accept
  <2>14. CASE CountsStep
    BY <2>14, TypeCounts DEF CountsStep
  <2>15. CASE DestroyIfIdle
    BY <2>15 DEF DestroyIfIdle
  <2>16. CASE LoopStep
    <3>1. loops' \in [{"check", "start", "sleep"} -> Nat]
      <4>1. ASSUME NEW from \in {"check", "start", "sleep"},
                   NEW to \in {"check", "start", "sleep"}, LoopMove(from, to)
            PROVE  loops' \in [{"check", "start", "sleep"} -> Nat]
        <5>1. loops \in [{"check", "start", "sleep"} -> Nat]
          OBVIOUS
        <5> HIDE DEF TypeOK
        <5> QED
          BY <4>1, <5>1 DEF LoopMove
      <4>2. ASSUME loops["check"] > 0, loops' = [loops EXCEPT !["check"] = @ - 1]
            PROVE  loops' \in [{"check", "start", "sleep"} -> Nat]
        BY <4>2
      <4> QED
        BY <2>16, <4>1, <4>2 DEF LoopStep, LoopCheck, LoopStarted, LoopWake
    <3> QED
      BY <2>16, <3>1 DEF LoopStep, LoopCheck, LoopStarted, LoopWake
  <2>17. CASE UNCHANGED vars
    BY <2>17 DEF vars
  <2> QED
    BY <2>1, <2>2, <2>3, <2>4, <2>5, <2>6, <2>7, <2>8, <2>9, <2>10, <2>11,
       <2>12, <2>13, <2>14, <2>15, <2>16, <2>17
    DEF Next, ReqStep, HandlerStep, CountsStep
<1> QED
  BY <1>1, <1>2, PTL DEF Spec

-----------------------------------------------------------------------------
(* The steps, by what they do to the sets of registered handlers and of
   requests inside Route. *)
Enters(r) == routeStart(r) /\ r \notin Inflight /\ Inflight' = Inflight \cup {r}
             /\ Active' = Active
Leaves(r) == routeDone(r) /\ r \in Inflight /\ Inflight' = Inflight \ {r}
             /\ Active' = Active
Joins(h) == handlerStart(h) /\ h \notin Active /\ Active' = Active \cup {h}
            /\ Inflight' = Inflight
Quits(h) == HandlerStop(h) /\ h \in Active /\ Active' = Active \ {h}
            /\ Inflight' = Inflight
Loops == LoopStep /\ Active' = Active /\ Inflight' = Inflight
Quiet == /\ Active' = Active /\ Inflight' = Inflight
         /\ UNCHANGED <<state, activeHandlers, inflightReqs, loops>>

LEMMA KindOfAction ==
  ASSUME TypeOK, [Next]_vars
  PROVE  \/ \E r \in Reqs : Enters(r) \/ Leaves(r)
         \/ \E h \in Handlers : Joins(h) \/ Quits(h)
         \/ Loops
         \/ /\ Quiet
            /\ \/ \E r \in Reqs : \/ PreferLocalTimeout(r) \/ OpenSelect(r)
                                  \/ Deadline(r) \/ ProxyReturns(r)
               \/ \E h \in Handlers : \/ TakeDone(h) \/ StopAccepting(h)
                                      \/ Drained(h) \/ CancelLocal(h)
               \/ \E h \in Handlers, r \in Reqs : Accept(h, r)
               \/ CountsStep
               \/ DestroyIfIdle
               \/ UNCHANGED vars
<1> USE DEF Active, Inflight, Routing, Registered, TypeOK, routerVars, reqVars,
            handlerVars
<1>1. ASSUME NEW r \in Reqs, routeStart(r) PROVE Enters(r)
  BY <1>1 DEF routeStart, Enters
<1>2. ASSUME NEW r \in Reqs, routeDone(r) PROVE Leaves(r)
  BY <1>2 DEF routeDone, Left, Leaves
<1>3. ASSUME NEW r \in Reqs,
             PreferLocalTimeout(r) \/ OpenSelect(r) \/ Deadline(r) \/ ProxyReturns(r)
      PROVE  Quiet
  BY <1>3 DEF PreferLocalTimeout, OpenSelect, Deadline, ProxyReturns, Quiet
<1>4. ASSUME NEW h \in Handlers, NEW max \in Limits, HandlerStartLocal(h, max)
      PROVE  Joins(h)
  BY <1>4 DEF HandlerStartLocal, handlerStart, Joins
<1>5. ASSUME NEW h \in Handlers, HandlerStartRemote(h) PROVE Joins(h)
  BY <1>5 DEF HandlerStartRemote, handlerStart, Joins
<1>6. ASSUME NEW h \in Handlers, HandlerStop(h) PROVE Quits(h)
  BY <1>6 DEF HandlerStop, Quits
<1>7. ASSUME NEW h \in Handlers,
             TakeDone(h) \/ StopAccepting(h) \/ Drained(h) \/ CancelLocal(h)
      PROVE  Quiet
  BY <1>7 DEF TakeDone, StopAccepting, Drained, CancelLocal, Quiet
<1>8. ASSUME NEW h \in Handlers, NEW r \in Reqs, Accept(h, r) PROVE Quiet
  BY <1>8 DEF Accept, Listens, Quiet
<1>9. ASSUME NEW counts \in Counts, NEW fresh \in [Urls -> FreshSeqs],
             SetRemoteHandlerCounts(counts, fresh)
      PROVE  Quiet
  <2>1. ASSUME NEW u \in Urls, NEW i \in DOMAIN fresh[u] PROVE fresh[u][i] \in Fresh
    <3> HIDE DEF TypeOK
    <3>1. PICK k \in 0 .. MaxRemote : fresh[u] \in [1 .. k -> Fresh]
      BY DEF FreshSeqs
    <3> QED
      BY <3>1
  <2>2. ASSUME NEW h \in Handlers
        PROVE  hpc'[h] = hpc[h] \/ (hpc[h] = "free" /\ hpc'[h] = "spawned")
    BY <1>9, <2>1 DEF SetRemoteHandlerCounts, Fresh
  <2>3. Active' = Active
    BY <2>2
  <2> QED
    BY <1>9, <2>3 DEF SetRemoteHandlerCounts, Quiet
<1>10. CASE DestroyIfIdle
  BY <1>10 DEF DestroyIfIdle, Quiet
<1>11. CASE LoopStep
  BY <1>11 DEF LoopStep, LoopCheck, LoopStarted, LoopWake, Loops
<1>12. CASE UNCHANGED vars
  BY <1>12 DEF vars, Quiet
<1> QED
  BY <1>1, <1>2, <1>3, <1>4, <1>5, <1>6, <1>7, <1>8, <1>9, <1>10, <1>11, <1>12
  DEF Next, ReqStep, HandlerStep, CountsStep

LEMMA StepKinds ==
  ASSUME TypeOK, [Next]_vars
  PROVE  \/ \E r \in Reqs : Enters(r) \/ Leaves(r)
         \/ \E h \in Handlers : Joins(h) \/ Quits(h)
         \/ Loops
         \/ Quiet
BY KindOfAction

LEMMA SetsFinite ==
  ASSUME NEW S, S = Active \/ S = Inflight
  PROVE  IsFiniteSet(S) /\ Cardinality(S) \in Nat
<1>1. Active \in SUBSET Handlers /\ Inflight \in SUBSET Reqs
  BY DEF Active, Inflight
<1> QED
  BY <1>1, RouterAssumption, FS_Subset, FS_CardinalityType

(* activeHandlers and inflightReqs count (router.go:186-220, 281-298). *)
THEOREM Counters == Spec => []CountersExact
<1>1. Init => CountersExact
  <2> SUFFICES ASSUME Init PROVE CountersExact
    OBVIOUS
  <2>1. Active = {} /\ Inflight = {}
    BY DEF Init, Active, Inflight, Registered, Routing
  <2> QED
    BY <2>1, FS_EmptySet DEF Init, CountersExact
<1>2. TypeOK /\ CountersExact /\ [Next]_vars => CountersExact'
  <2> SUFFICES ASSUME TypeOK, CountersExact, [Next]_vars PROVE CountersExact'
    OBVIOUS
  <2> USE DEF CountersExact
  <2>0. IsFiniteSet(Active) /\ IsFiniteSet(Inflight)
    BY SetsFinite
  <2>1. ASSUME NEW r \in Reqs, Enters(r) PROVE CountersExact'
    BY <2>0, <2>1, FS_AddElement DEF Enters, routeStart
  <2>2. ASSUME NEW r \in Reqs, Leaves(r) PROVE CountersExact'
    BY <2>0, <2>2, FS_RemoveElement DEF Leaves, routeDone, Left
  <2>3. ASSUME NEW h \in Handlers, Joins(h) PROVE CountersExact'
    BY <2>0, <2>3, FS_AddElement DEF Joins, handlerStart
  <2>4. ASSUME NEW h \in Handlers, Quits(h) PROVE CountersExact'
    BY <2>0, <2>4, FS_RemoveElement DEF Quits, HandlerStop
  <2>5. CASE Loops
    BY <2>5 DEF Loops, LoopStep, LoopCheck, LoopStarted, LoopWake
  <2>6. CASE Quiet
    BY <2>6 DEF Quiet
  <2> QED
    BY <2>1, <2>2, <2>3, <2>4, <2>5, <2>6, StepKinds
<1> QED
  BY <1>1, <1>2, TypeCorrect, PTL DEF Spec

-----------------------------------------------------------------------------
(* Comparing a counter with zero decides whether its set is empty. *)
LEMMA CountZero ==
  ASSUME NEW T, IsFiniteSet(T), NEW S \in SUBSET T
  PROVE  Cardinality(S) \in Nat /\ (Cardinality(S) = 0 <=> S = {})
BY FS_Subset, FS_EmptySet, FS_CardinalityType

(* The router's mode (router.go:186-220, 281-298). *)
THEOREM Modes == Spec => []StateMatches
<1>1. Init => StateMatches
  BY DEF Init, StateMatches, Active, Inflight, Registered, Routing
<1>2. TypeOK /\ CountersExact /\ CountersExact' /\ StateMatches /\ [Next]_vars
        => StateMatches'
  <2> SUFFICES ASSUME TypeOK, CountersExact, CountersExact', StateMatches, [Next]_vars
               PROVE  StateMatches'
    OBVIOUS
  <2>0. /\ activeHandlers = 0 <=> Active = {}
        /\ inflightReqs = 0 <=> Inflight = {}
        /\ activeHandlers' = 0 <=> Active' = {}
        /\ inflightReqs' = 0 <=> Inflight' = {}
        /\ inflightReqs \in Nat
    <3>1. /\ Active \in SUBSET Handlers /\ Active' \in SUBSET Handlers
          /\ Inflight \in SUBSET Reqs /\ Inflight' \in SUBSET Reqs
      BY DEF Active, Inflight
    <3> QED
      BY <3>1, CountZero, RouterAssumption DEF CountersExact
  <2> USE DEF StateMatches, On, Off, Pending
  <2>1. ASSUME NEW r \in Reqs, Enters(r) PROVE StateMatches'
    BY <2>1 DEF Enters, routeStart, setPendingState
  <2>2. ASSUME NEW r \in Reqs, Leaves(r) PROVE StateMatches'
    BY <2>0, <2>2 DEF Leaves, routeDone, Left
  <2>3. ASSUME NEW h \in Handlers, Joins(h) PROVE StateMatches'
    BY <2>3 DEF Joins, handlerStart
  <2>4. ASSUME NEW h \in Handlers, Quits(h) PROVE StateMatches'
    BY <2>0, <2>4 DEF Quits, HandlerStop, setPendingState
  <2>5. CASE Loops
    BY <2>5 DEF Loops, LoopStep, LoopCheck, LoopStarted, LoopWake
  <2>6. CASE Quiet
    BY <2>6 DEF Quiet
  <2> QED
    BY <2>1, <2>2, <2>3, <2>4, <2>5, <2>6, StepKinds
<1> QED
  BY <1>1, <1>2, TypeCorrect, Counters, PTL DEF Spec

(* A pending router has a loop that will look again (router.go:309-325): the
   loops that survived from an earlier pending period do no harm, and a loop
   only leaves after seeing another state under the lock. *)
THEOREM LoopAlive == Spec => []PendingHasLoop
<1>1. Init => PendingHasLoop
  BY DEF Init, PendingHasLoop, Off, Pending
<1>2. TypeOK /\ PendingHasLoop /\ [Next]_vars => PendingHasLoop'
  <2> SUFFICES ASSUME TypeOK, PendingHasLoop, [Next]_vars, state' = Pending
               PROVE  \E s \in DOMAIN loops' : loops'[s] > 0
    BY DEF PendingHasLoop
  <2>0. /\ loops \in [{"check", "start", "sleep"} -> Nat]
        /\ state = Pending => \E s \in {"check", "start", "sleep"} : loops[s] > 0
    BY DEF TypeOK, PendingHasLoop
  <2> USE DEF On, Off, Pending
  <2>1. ASSUME setPendingState PROVE \E s \in DOMAIN loops' : loops'[s] > 0
    BY <2>0, <2>1 DEF setPendingState
  <2>2. ASSUME NEW r \in Reqs, Enters(r) PROVE \E s \in DOMAIN loops' : loops'[s] > 0
    BY <2>0, <2>1, <2>2 DEF Enters, routeStart
  <2>3. ASSUME NEW r \in Reqs, Leaves(r) PROVE \E s \in DOMAIN loops' : loops'[s] > 0
    BY <2>0, <2>3 DEF Leaves, routeDone, Left
  <2>4. ASSUME NEW h \in Handlers, Joins(h) PROVE FALSE
    BY <2>4 DEF Joins, handlerStart
  <2>5. ASSUME NEW h \in Handlers, Quits(h)
        PROVE  \E s \in DOMAIN loops' : loops'[s] > 0
    BY <2>0, <2>1, <2>5 DEF Quits, HandlerStop
  <2>6. CASE Loops
    <3>1. CASE LoopCheck
      BY <2>0, <3>1 DEF LoopCheck, LoopMove
    <3>2. CASE LoopStarted
      BY <2>0, <3>2 DEF LoopStarted, LoopMove
    <3>3. CASE LoopWake
      BY <2>0, <3>3 DEF LoopWake, LoopMove
    <3> QED
      BY <2>6, <3>1, <3>2, <3>3 DEF Loops, LoopStep
  <2>7. CASE Quiet
    BY <2>0, <2>7 DEF Quiet
  <2> QED
    BY <2>2, <2>3, <2>4, <2>5, <2>6, <2>7, StepKinds
<1> QED
  BY <1>1, <1>2, TypeCorrect, PTL DEF Spec

-----------------------------------------------------------------------------
(* The channels exist while anybody is registered or inside Route. *)
ChanOpen == Active # {} \/ Inflight # {} => chan # 0

(* Requests and handlers meet on the current channel (router.go:222-237,
   253-268): DestroyIfIdle closes it only when neither is there. *)
THEOREM Channels == Spec => []ChannelsAgree
<1>1. Init => ChanOpen /\ ChannelsAgree
  BY DEF Init, ChanOpen, ChannelsAgree, Active, Inflight, Waiting, Registered, Routing
<1>2. TypeOK /\ StateMatches /\ ChanOpen /\ ChannelsAgree /\ [Next]_vars
        => ChanOpen' /\ ChannelsAgree'
  <2> SUFFICES ASSUME TypeOK, StateMatches, ChanOpen, ChannelsAgree, [Next]_vars
               PROVE  ChanOpen' /\ ChannelsAgree'
    OBVIOUS
  <2>0. Waiting \subseteq Inflight
    BY DEF Waiting, Inflight, Routing
  <2> USE DEF ChanOpen, ChannelsAgree
  <2>1. ASSUME NEW r \in Reqs, Enters(r) PROVE ChanOpen' /\ ChannelsAgree'
    <3>1. Waiting' = Waiting
      BY <2>1 DEF Enters, routeStart, Waiting, TypeOK
    <3>2. chan' # 0 /\ (chan # 0 => chan' = chan)
      BY <2>1 DEF Enters, routeStart, ensureReqChan, TypeOK
    <3> QED
      BY <2>0, <2>1, <3>1, <3>2 DEF Enters, routeStart, handlerVars
  <2>2. ASSUME NEW r \in Reqs, Leaves(r) PROVE ChanOpen' /\ ChannelsAgree'
    <3>1. Waiting' = Waiting
      BY <2>2 DEF Leaves, routeDone, Left, Waiting, TypeOK
    <3> QED
      BY <2>2, <3>1 DEF Leaves, routeDone, Left, Waiting, TypeOK, handlerVars
  <2>3. ASSUME NEW h \in Handlers, Joins(h) PROVE ChanOpen' /\ ChannelsAgree'
    <3>1. Waiting' = Waiting /\ reqChan' = reqChan
      BY <2>3 DEF Joins, handlerStart, Waiting, reqVars
    <3>2. chan' # 0 /\ (chan # 0 => chan' = chan)
      BY <2>3 DEF Joins, handlerStart, ensureReqChan, TypeOK
    <3>3. \A g \in Active' : hchan'[g] = chan'
      BY <2>3, <3>2 DEF Joins, handlerStart, TypeOK
    <3> QED
      BY <2>0, <3>1, <3>2, <3>3
  <2>4. ASSUME NEW h \in Handlers, Quits(h) PROVE ChanOpen' /\ ChannelsAgree'
    <3>1. Waiting' = Waiting
      BY <2>4 DEF Quits, HandlerStop, Waiting, reqVars
    <3> QED
      BY <2>4, <3>1 DEF Quits, HandlerStop, reqVars
  <2>5. ASSUME NEW r \in Reqs, OpenSelect(r) \/ PreferLocalTimeout(r)
        PROVE  ChanOpen' /\ ChannelsAgree'
    <3>1. Waiting' = Waiting \cup {r} /\ r \in Inflight /\ Inflight' = Inflight
      BY <2>5 DEF OpenSelect, PreferLocalTimeout, Waiting, Inflight, Routing, TypeOK
    <3> QED
      BY <2>5, <3>1
      DEF OpenSelect, PreferLocalTimeout, TypeOK, routerVars, handlerVars, Active, Waiting
  <2>6. ASSUME NEW r \in Reqs, Deadline(r) \/ ProxyReturns(r)
        PROVE  ChanOpen' /\ ChannelsAgree'
    <3>1. Waiting' \subseteq Waiting /\ Inflight' = Inflight
      BY <2>6 DEF Deadline, ProxyReturns, Waiting, Inflight, Routing, TypeOK
    <3> QED
      BY <2>6, <3>1 DEF Deadline, ProxyReturns, routerVars, handlerVars, Active
  <2>7. ASSUME NEW h \in Handlers,
               TakeDone(h) \/ StopAccepting(h) \/ Drained(h) \/ CancelLocal(h)
        PROVE  ChanOpen' /\ ChannelsAgree'
    <3>1. Active' = Active
      BY <2>7 DEF TakeDone, StopAccepting, Drained, CancelLocal, Active, Registered, TypeOK
    <3> QED
      BY <2>7, <3>1
      DEF TakeDone, StopAccepting, Drained, CancelLocal, routerVars, reqVars,
          Waiting, Inflight
  <2>8. ASSUME NEW h \in Handlers, NEW r \in Reqs, Accept(h, r)
        PROVE  ChanOpen' /\ ChannelsAgree'
    <3>1. Waiting' \subseteq Waiting /\ Inflight' = Inflight
      BY <2>8 DEF Accept, Listens, Waiting, Inflight, Routing, TypeOK
    <3> QED
      BY <2>8, <3>1 DEF Accept, routerVars, Active
  <2>9. ASSUME NEW counts \in Counts, NEW fresh \in [Urls -> FreshSeqs],
               SetRemoteHandlerCounts(counts, fresh), Quiet
        PROVE  ChanOpen' /\ ChannelsAgree'
    BY <2>9 DEF SetRemoteHandlerCounts, Quiet, routerVars, reqVars, Waiting
  <2>10. CASE DestroyIfIdle
    <3>1. Active = {} /\ Inflight = {}
      BY <2>10 DEF DestroyIfIdle, StateMatches, On, Off, Pending
    <3> QED
      BY <2>0, <2>10, <3>1
      DEF DestroyIfIdle, Active, Inflight, Waiting, reqVars, handlerVars
  <2>11. CASE Loops
    BY <2>11
    DEF Loops, LoopStep, LoopCheck, LoopStarted, LoopWake, Waiting, reqVars, handlerVars
  <2>12. CASE UNCHANGED vars
    BY <2>12
    DEF vars, routerVars, reqVars, handlerVars, Active, Inflight, Waiting
  <2> QED
    BY <2>1, <2>2, <2>3, <2>4, <2>5, <2>6, <2>7, <2>8, <2>9, <2>10, <2>11,
       <2>12, KindOfAction DEF CountsStep
<1> QED
  BY <1>1, <1>2, TypeCorrect, Modes, PTL DEF Spec

(* Whenever the router's mutex is free its counters, its mode, its loops and its
   channels fit each other (router.go:186-325): the four results together. *)
THEOREM RouterConsistent == Spec => []Consistent
<1>1. CountersExact /\ StateMatches /\ PendingHasLoop /\ ChannelsAgree <=> Consistent
  BY DEF Consistent
<1> QED
  BY <1>1, Counters, Modes, LoopAlive, Channels, PTL

-----------------------------------------------------------------------------
(* Outside its loop a dispenser counts nothing, and a request with a proxy
   knows whose it is. *)
DispenserIdle ==
  \A h \in Handlers : hpc[h] \notin {"running", "draining"} => concur[h] = 0
ServerKnown == \A r \in Reqs : rpc[r] = "proxied" => server[r] \in Handlers

DispInv == DispenserExact /\ DispenserIdle /\ ServerKnown

LEMMA ServingFinite ==
  ASSUME NEW h \in Handlers
  PROVE  IsFiniteSet(Serving(h)) /\ Cardinality(Serving(h)) \in Nat
<1>1. Serving(h) \in SUBSET Reqs
  BY DEF Serving
<1> QED
  BY <1>1, RouterAssumption, FS_Subset, FS_CardinalityType

(* Steps that touch no request in service and no dispenser's counts, and
   change a limit only where nothing is counted. *)
LEMMA DispFrame ==
  ASSUME DispInv, limit' \in [Handlers -> Nat],
         UNCHANGED <<concur, doneCh>>,
         \A r \in Reqs :
           /\ rpc'[r] = "proxied" <=> rpc[r] = "proxied"
           /\ rpc[r] = "proxied" => server'[r] = server[r],
         \A h \in Handlers :
           /\ limit'[h] = limit[h] \/ hpc[h] = "free"
           /\ hpc'[h] \notin {"running", "draining"} => concur[h] = 0
  PROVE  DispInv'
<1>1. ASSUME NEW h \in Handlers PROVE Serving(h)' = Serving(h)
  BY DEF Serving
<1>2. DispenserIdle' /\ ServerKnown'
  BY DEF DispInv, DispenserIdle, ServerKnown
<1>4. ASSUME NEW h \in Handlers, limit'[h] >= 1
      PROVE  concur[h] <= limit'[h]
  <2>1. CASE limit'[h] = limit[h]
    BY <1>4, <2>1 DEF DispInv, DispenserExact
  <2>2. CASE hpc[h] = "free"
    <3>1. concur[h] = 0
      BY <2>2 DEF DispInv, DispenserIdle
    <3>2. limit'[h] \in Nat
      OBVIOUS
    <3> QED
      BY <3>1, <3>2
  <2> QED
    BY <2>1, <2>2
<1>5. DispenserExact'
  BY <1>1, <1>2, <1>4 DEF DispInv, DispenserExact, DispenserIdle
<1> QED
  BY <1>2, <1>5 DEF DispInv

(* Every dispenser accounts for its requests (dispenser.go:22-88): it keeps
   within its limit and does not return while a request is in service. *)
THEOREM Dispensers == Spec => []DispenserExact
<1>1. Init => DispInv
  <2> SUFFICES ASSUME Init PROVE DispInv
    OBVIOUS
  <2>1. ServerKnown /\ DispenserIdle
    BY DEF Init, ServerKnown, DispenserIdle
  <2>2. ASSUME NEW h \in Handlers
        PROVE  /\ concur[h] = 0 /\ doneCh[h] = 0 /\ limit[h] = 0
               /\ hpc[h] = "free"
    BY DEF Init
  <2>3. ASSUME NEW h \in Handlers PROVE Cardinality(Serving(h)) = 0
    <3>1. Serving(h) = {}
      BY DEF Init, Serving
    <3> QED
      BY <3>1, FS_EmptySet
  <2>4. DispenserExact
    BY <2>2, <2>3 DEF DispenserExact
  <2> QED
    BY <2>1, <2>4 DEF DispInv
<1>2. TypeOK /\ TypeOK' /\ DispInv /\ [Next]_vars => DispInv'
  <2> SUFFICES ASSUME TypeOK, TypeOK', DispInv, [Next]_vars PROVE DispInv'
    OBVIOUS
  <2>0. /\ limit' \in [Handlers -> Nat]
        /\ \A h \in Handlers : hpc[h] \notin {"running", "draining"} => concur[h] = 0
        /\ rpc \in [Reqs -> Routing \cup {"idle"}]
        /\ hpc \in [Handlers -> Registered \cup {"free", "spawned", "stopped"}]
        /\ doneCh \in [Handlers -> Nat] /\ concur \in [Handlers -> Int]
        /\ limit \in [Handlers -> Nat] /\ server \in [Reqs -> Handlers \cup {None}]
    BY DEF TypeOK, DispInv, DispenserIdle
  <2> HIDE DEF TypeOK
  <2>1. ASSUME NEW r \in Reqs,
               routeStart(r) \/ PreferLocalTimeout(r) \/ OpenSelect(r)
               \/ Deadline(r) \/ routeDone(r)
        PROVE  DispInv'
    <3>1. UNCHANGED <<concur, doneCh, limit, hpc>>
      BY <2>1
      DEF routeStart, PreferLocalTimeout, OpenSelect, Deadline, routeDone, Left,
          handlerVars
    <3>2. \E s \in {"entering", "any", "local", "leaving", "idle"} :
            rpc[r] # "proxied" /\ rpc' = [rpc EXCEPT ![r] = s]
      BY <2>1
      DEF routeStart, PreferLocalTimeout, OpenSelect, Deadline, routeDone, Left
    <3>4. \A q \in Reqs \ {r} : server'[q] = server[q]
      BY <2>0, <2>1
      DEF routeStart, PreferLocalTimeout, OpenSelect, Deadline, routeDone, Left
    <3>3. \A q \in Reqs : /\ rpc'[q] = "proxied" <=> rpc[q] = "proxied"
                          /\ rpc[q] = "proxied" => server'[q] = server[q]
      BY <2>0, <3>2, <3>4
    <3> QED
      BY <2>0, <3>1, <3>3, DispFrame
  <2>2. ASSUME NEW r \in Reqs, ProxyReturns(r) PROVE DispInv'
    <3>s. PICK g \in Handlers : g = server[r]
      BY <2>2 DEF ProxyReturns, DispInv, ServerKnown
    <3>1. r \in Serving(g)
      BY <2>2, <3>s DEF ProxyReturns, Serving
    <3>0. \A q \in Reqs : /\ server'[q] = server[q]
                          /\ rpc'[q] = "proxied" <=> (rpc[q] = "proxied" /\ q # r)
      BY <2>0, <2>2 DEF ProxyReturns
    <3>a. ASSUME NEW h \in Handlers
          PROVE  Serving(h)' = {q \in Reqs : rpc[q] = "proxied" /\ q # r /\ server[q] = h}
      BY <3>0 DEF Serving
    <3>2. Serving(g)' = Serving(g) \ {r}
      BY <3>1, <3>a, <3>s DEF Serving
    <3>3. ASSUME NEW h \in Handlers \ {g}
          PROVE  Serving(h)' = Serving(h) /\ doneCh'[h] = doneCh[h]
      <4>1. Serving(h)' = Serving(h)
        BY <3>a, <3>s DEF Serving
      <4>2. doneCh'[h] = doneCh[h]
        BY <2>0, <2>2, <3>s DEF ProxyReturns
      <4> QED
        BY <4>1, <4>2
    <3>4. Cardinality(Serving(g))' = Cardinality(Serving(g)) - 1
      BY <3>1, <3>2, ServingFinite, FS_RemoveElement
    <3>5. doneCh'[g] = doneCh[g] + 1
      BY <2>0, <2>2, <3>s DEF ProxyReturns
    <3>6. UNCHANGED <<hpc, limit, concur, server>>
      BY <2>2 DEF ProxyReturns
    <3>7. DispenserIdle' /\ ServerKnown'
      BY <3>0, <3>6 DEF DispInv, DispenserIdle, ServerKnown
    <3>8. ASSUME NEW h \in Handlers
          PROVE  concur'[h] = Cardinality(Serving(h))' + doneCh'[h]
      <4>1. CASE h = g
        <5>1. /\ Cardinality(Serving(h)) \in Nat /\ doneCh[h] \in Nat
              /\ concur[h] = Cardinality(Serving(h)) + doneCh[h]
          BY <2>0, ServingFinite DEF DispInv, DispenserExact
        <5>2. /\ Cardinality(Serving(h))' = Cardinality(Serving(h)) - 1
              /\ doneCh'[h] = doneCh[h] + 1 /\ concur'[h] = concur[h]
          BY <3>4, <3>5, <3>6, <4>1
        <5> QED
          BY <5>1, <5>2
      <4>2. CASE h # g
        BY <3>3, <3>6, <4>2 DEF DispInv, DispenserExact
      <4> QED
        BY <4>1, <4>2
    <3> QED
      BY <3>6, <3>7, <3>8 DEF DispInv, DispenserExact
  <2>3. ASSUME NEW h \in Handlers, NEW max \in Limits, HandlerStartLocal(h, max)
        PROVE  DispInv'
    <3>1. UNCHANGED <<server, concur, doneCh, rpc>>
      BY <2>3 DEF HandlerStartLocal, handlerStart, reqVars
    <3>2. \A g \in Handlers : /\ limit'[g] = limit[g] \/ hpc[g] = "free"
                              /\ hpc'[g] = hpc[g] \/ hpc'[g] = "running"
      BY <2>0, <2>3 DEF HandlerStartLocal, handlerStart
    <3> QED
      BY <2>0, <3>1, <3>2, DispFrame
  <2>4. ASSUME NEW h \in Handlers, HandlerStartRemote(h) PROVE DispInv'
    <3>1. UNCHANGED <<server, concur, doneCh, rpc, limit>>
      BY <2>4 DEF HandlerStartRemote, handlerStart, reqVars
    <3>2. \A g \in Handlers : hpc'[g] = hpc[g] \/ hpc'[g] = "running"
      BY <2>0, <2>4 DEF HandlerStartRemote, handlerStart
    <3> QED
      BY <2>0, <3>1, <3>2, DispFrame
  <2>5. ASSUME NEW h \in Handlers, TakeDone(h) PROVE DispInv'
    <3>1. \A g \in Handlers : Serving(g)' = Serving(g)
      BY <2>5 DEF TakeDone, reqVars, Serving
    <3>2. UNCHANGED <<hpc, limit>> /\ UNCHANGED <<rpc, server>>
      BY <2>5 DEF TakeDone, reqVars
    <3>3. concur'[h] = concur[h] - 1 /\ doneCh'[h] = doneCh[h] - 1
      BY <2>0, <2>5 DEF TakeDone
    <3>4. \A g \in Handlers \ {h} : concur'[g] = concur[g] /\ doneCh'[g] = doneCh[g]
      BY <2>0, <2>5 DEF TakeDone
    <3>0. hpc[h] \in {"running", "draining"}
      BY <2>5 DEF TakeDone
    <3>5. DispenserIdle' /\ ServerKnown'
      BY <3>0, <3>2, <3>4 DEF DispInv, DispenserIdle, ServerKnown
    <3>6. ASSUME NEW g \in Handlers
          PROVE  /\ concur'[g] = Cardinality(Serving(g))' + doneCh'[g]
                 /\ limit'[g] >= 1 => concur'[g] <= limit'[g]
      <4>1. CASE g = h
        <5>1. /\ Cardinality(Serving(h)) \in Nat /\ doneCh[h] \in Nat
              /\ limit[h] \in Nat /\ concur[h] \in Int
              /\ concur[h] = Cardinality(Serving(h)) + doneCh[h]
              /\ limit[h] >= 1 => concur[h] <= limit[h]
          BY <2>0, ServingFinite DEF DispInv, DispenserExact
        <5>2. /\ Cardinality(Serving(h))' = Cardinality(Serving(h))
              /\ doneCh'[h] = doneCh[h] - 1 /\ concur'[h] = concur[h] - 1
              /\ limit'[h] = limit[h]
          BY <3>1, <3>2, <3>3
        <5> QED
          BY <4>1, <5>1, <5>2
      <4>2. CASE g # h
        BY <3>1, <3>2, <3>4, <4>2 DEF DispInv, DispenserExact
      <4> QED
        BY <4>1, <4>2
    <3> QED
      BY <3>5, <3>6 DEF DispInv, DispenserExact, DispenserIdle
  <2>6. ASSUME NEW h \in Handlers,
               StopAccepting(h) \/ Drained(h) \/ HandlerStop(h) \/ CancelLocal(h)
        PROVE  DispInv'
    <3>1. ASSUME Drained(h) PROVE concur[h] = 0
      <4>1. /\ Cardinality(Serving(h)) \in Nat /\ doneCh[h] \in Nat
            /\ concur[h] = Cardinality(Serving(h)) + doneCh[h]
        BY <2>0, ServingFinite DEF DispInv, DispenserExact
      <4>2. concur[h] <= 0
        BY <3>1 DEF Drained
      <4> QED
        BY <4>1, <4>2
    <3>2. UNCHANGED <<server, concur, doneCh, rpc, limit>>
      BY <2>6
      DEF StopAccepting, Drained, HandlerStop, CancelLocal, reqVars
    <3>3. \A g \in Handlers :
            \/ hpc'[g] = hpc[g]
            \/ hpc'[g] = "draining"
            \/ concur[g] = 0
      BY <2>0, <2>6, <3>1
      DEF StopAccepting, Drained, HandlerStop, CancelLocal
    <3> QED
      BY <2>0, <3>2, <3>3, DispFrame
  <2>7. ASSUME NEW h \in Handlers, NEW r \in Reqs, Accept(h, r) PROVE DispInv'
    <3>0. rpc[r] # "proxied" /\ hpc[h] = "running"
      BY <2>7 DEF Accept, Listens
    <3>a. \A q \in Reqs : /\ server'[q] = IF q = r THEN h ELSE server[q]
                          /\ rpc'[q] = "proxied" <=> (rpc[q] = "proxied" \/ q = r)
      BY <2>0, <2>7 DEF Accept
    <3>b. ASSUME NEW g \in Handlers
          PROVE  Serving(g)' = {q \in Reqs : IF q = r THEN g = h
                                 ELSE rpc[q] = "proxied" /\ server[q] = g}
      BY <3>a DEF Serving
    <3>1. r \notin Serving(h) /\ Serving(h)' = Serving(h) \cup {r}
      BY <3>0, <3>b DEF Serving
    <3>c. ASSUME NEW g \in Handlers \ {h} PROVE Serving(g)' = Serving(g)
      BY <3>0, <3>b DEF Serving
    <3>d. \A g \in Handlers \ {h} : concur'[g] = concur[g]
      BY <2>0, <2>7 DEF Accept
    <3>2. \A g \in Handlers \ {h} : Serving(g)' = Serving(g) /\ concur'[g] = concur[g]
      BY <3>c, <3>d
    <3>3. Cardinality(Serving(h))' = Cardinality(Serving(h)) + 1
      BY <3>1, ServingFinite, FS_AddElement
    <3>4. UNCHANGED <<hpc, limit, doneCh>> /\ concur'[h] = concur[h] + 1
      BY <2>0, <2>7 DEF Accept
    <3>5. DispenserIdle' /\ ServerKnown'
      BY <3>0, <3>2, <3>4, <3>a DEF DispInv, DispenserIdle, ServerKnown
    <3>6. ASSUME NEW g \in Handlers
          PROVE  /\ concur'[g] = Cardinality(Serving(g))' + doneCh'[g]
                 /\ limit'[g] >= 1 => concur'[g] <= limit'[g]
      <4>1. CASE g = h
        <5>1. /\ Cardinality(Serving(h)) \in Nat /\ doneCh[h] \in Nat
              /\ limit[h] \in Nat /\ concur[h] \in Int
              /\ concur[h] = Cardinality(Serving(h)) + doneCh[h]
              /\ limit[h] < 1 \/ concur[h] < limit[h]
          BY <2>0, <2>7, ServingFinite DEF Accept, DispInv, DispenserExact
        <5>2. /\ Cardinality(Serving(h))' = Cardinality(Serving(h)) + 1
              /\ doneCh'[h] = doneCh[h] /\ concur'[h] = concur[h] + 1
              /\ limit'[h] = limit[h]
          BY <3>3, <3>4
        <5> QED
          BY <4>1, <5>1, <5>2
      <4>2. CASE g # h
        BY <3>2, <3>4, <4>2 DEF DispInv, DispenserExact
      <4> QED
        BY <4>1, <4>2
    <3> QED
      BY <3>5, <3>6 DEF DispInv, DispenserExact, DispenserIdle
  <2>8. ASSUME NEW counts \in Counts, NEW fresh \in [Urls -> FreshSeqs],
               SetRemoteHandlerCounts(counts, fresh)
        PROVE  DispInv'
    <3> DEFINE started == UNION {{fresh[u][i] : i \in DOMAIN fresh[u]} : u \in Urls}
    <3>1. ASSUME NEW h \in started PROVE hpc[h] = "free"
      <4>1. PICK u \in Urls : \E i \in DOMAIN fresh[u] : h = fresh[u][i]
        OBVIOUS
      <4>2. PICK k \in 0 .. MaxRemote : fresh[u] \in [1 .. k -> Fresh]
        BY DEF FreshSeqs
      <4>3. h \in Fresh
        BY <4>1, <4>2
      <4> QED
        BY <4>3 DEF Fresh
    <3>0. \A h \in Handlers : h \notin started => hpc'[h] = hpc[h] /\ limit'[h] = limit[h]
      BY <2>8 DEF SetRemoteHandlerCounts
    <3>7. \A h \in Handlers : h \in started => hpc'[h] = "spawned"
      BY <2>8 DEF SetRemoteHandlerCounts
    <3> HIDE DEF started
    <3>2. ASSUME NEW h \in Handlers
          PROVE  /\ hpc'[h] = hpc[h] \/ (hpc[h] = "free" /\ hpc'[h] = "spawned")
                 /\ limit'[h] = limit[h] \/ hpc[h] = "free"
      BY <3>0, <3>1, <3>7
    <3>3. UNCHANGED <<server, concur, doneCh, rpc>>
      BY <2>8 DEF SetRemoteHandlerCounts, reqVars
    <3>4. \A h \in Handlers : hpc'[h] \notin {"running", "draining"} => concur[h] = 0
      BY <2>0, <3>2
    <3>5. \A h \in Handlers : limit'[h] = limit[h] \/ hpc[h] = "free"
      BY <3>2
    <3>6. \A q \in Reqs : rpc'[q] = "proxied" <=> rpc[q] = "proxied"
      BY <3>3
    <3> QED
      BY <2>0, <3>3, <3>4, <3>5, <3>6, DispFrame
  <2>9. CASE DestroyIfIdle \/ LoopStep \/ UNCHANGED vars
    <3>1. UNCHANGED <<server, concur, doneCh, rpc, limit, hpc>>
      BY <2>9
      DEF DestroyIfIdle, LoopStep, LoopCheck, LoopStarted, LoopWake, vars,
          reqVars, handlerVars
    <3> QED
      BY <2>0, <3>1, DispFrame
  <2> QED
    BY <2>1, <2>2, <2>3, <2>4, <2>5, <2>6, <2>7, <2>8, <2>9
    DEF Next, ReqStep, HandlerStep
<1>3. DispInv => DispenserExact
  BY DEF DispInv
<1> QED
  BY <1>1, <1>2, <1>3, TypeCorrect, PTL DEF Spec

-----------------------------------------------------------------------------
(* The handlers whose cancel funcs are kept, and the ones that ought to be. *)
Tracked(h) == \E u \in Urls : \E i \in DOMAIN remotes[u] : remotes[u][i] = h
ToTrack(h) == kind[h] = "remote" /\ hpc[h] # "free" /\ ~cancelled[h]

TrackedAll == \A h \in Handlers : Tracked(h) <=> ToTrack(h)
TrackedOnce ==
  \A u, v \in Urls : \A i \in DOMAIN remotes[u], j \in DOMAIN remotes[v] :
    remotes[u][i] = remotes[v][j] => u = v /\ i = j
(* A goroutine is not cancelled before it is started. *)
FreeUncancelled == \A h \in Handlers : hpc[h] = "free" => ~cancelled[h]

TrackInv == TrackedAll /\ TrackedOnce /\ FreeUncancelled

(* Steps that keep the lists and the handlers in them. *)
LEMMA TrackFrame ==
  ASSUME TrackInv, remotes' = remotes,
         \A h \in Handlers : /\ ToTrack(h)' <=> ToTrack(h)
                             /\ hpc'[h] = "free" => ~cancelled'[h]
  PROVE  TrackInv'
BY DEF TrackInv, TrackedAll, TrackedOnce, FreeUncancelled, Tracked

(* The goroutines that are started, url by url. *)
StartedBy(fresh) == UNION {{fresh[u][i] : i \in DOMAIN fresh[u]} : u \in Urls}

LEMMA FreshOnes ==
  ASSUME NEW fresh \in [Urls -> FreshSeqs]
  PROVE  /\ \A u \in Urls : fresh[u] \in Seq(Handlers)
         /\ \A u \in Urls : \A i \in DOMAIN fresh[u] : fresh[u][i] \in Fresh
         /\ \A h : h \in StartedBy(fresh) <=>
                     \E u \in Urls : \E i \in DOMAIN fresh[u] : fresh[u][i] = h
<1>1. ASSUME NEW u \in Urls
      PROVE  /\ fresh[u] \in Seq(Handlers)
             /\ \A i \in DOMAIN fresh[u] : fresh[u][i] \in Fresh
  <2>1. PICK k \in 0 .. MaxRemote : fresh[u] \in [1 .. k -> Fresh]
    BY DEF FreshSeqs
  <2>2. fresh[u] \in [1 .. k -> Handlers]
    BY <2>1 DEF Fresh
  <2>3. k \in Nat
    BY RouterAssumption
  <2>4. fresh[u] \in Seq(Handlers)
    BY <2>2, <2>3, SeqDef
  <2> QED
    BY <2>1, <2>4
<1>2. \A h : h \in StartedBy(fresh) <=>
               \E u \in Urls : \E i \in DOMAIN fresh[u] : fresh[u][i] = h
  BY DEF StartedBy
<1> QED
  BY <1>1, <1>2

LEMMA ExcessBound ==
  ASSUME TypeOK, NEW counts \in Counts, NEW u \in Urls
  PROVE  /\ remotes[u] \in Seq(Handlers) /\ Excess(counts, u) \in 0 .. Len(remotes[u])
<1>1. remotes[u] \in Seq(Handlers)
  BY DEF TypeOK
<1>2. Len(remotes[u]) \in Nat
  BY <1>1
<1>3. TargetOf(counts, u) \in Nat
  BY RouterAssumption DEF Counts, TargetOf
<1> QED
  BY <1>1, <1>2, <1>3 DEF Excess

(* A list keeps what is behind its oldest excess, and gets the fresh ones. *)
LEMMA ListsAfter ==
  ASSUME TypeOK, NEW counts \in Counts, NEW fresh \in [Urls -> FreshSeqs],
         SetRemoteHandlerCounts(counts, fresh), NEW u \in Urls
  PROVE  LET rest == Len(remotes[u]) - Excess(counts, u)
         IN  /\ rest \in Nat
             /\ DOMAIN remotes'[u] = 1 .. rest + Len(fresh[u])
             /\ \A i \in 1 .. rest : remotes'[u][i] = remotes[u][Excess(counts, u) + i]
             /\ \A i \in 1 .. Len(fresh[u]) : remotes'[u][rest + i] = fresh[u][i]
<1>1. fresh[u] \in Seq(Handlers)
  BY FreshOnes
<1>2. remotes[u] \in Seq(Handlers) /\ Excess(counts, u) \in 0 .. Len(remotes[u])
  BY ExcessBound
<1>3. remotes'[u] = SubSeq(remotes[u], Excess(counts, u) + 1, Len(remotes[u])) \o fresh[u]
  BY DEF SetRemoteHandlerCounts
<1>4. Len(remotes[u]) - Excess(counts, u) \in Nat
  BY <1>2
<1> DEFINE s == remotes[u]
           d == Excess(counts, u)
           f == fresh[u]
           t == remotes'[u]
<1>5. /\ f \in Seq(Handlers) /\ s \in Seq(Handlers) /\ d \in 0 .. Len(s) /\ Len(s) - d \in Nat
      /\ t = SubSeq(s, d + 1, Len(s)) \o f
  BY <1>1, <1>2, <1>3, <1>4
<1> HIDE DEF s, d, f, t
<1>6. /\ DOMAIN t = 1 .. (Len(s) - d) + Len(f)
      /\ \A i \in 1 .. Len(s) - d : t[i] = s[d + i]
      /\ \A i \in 1 .. Len(f) : t[(Len(s) - d) + i] = f[i]
  <2> DEFINE b == SubSeq(s, d + 1, Len(s))
  <2>0. t = b \o f
    BY <1>5
  <2>1. Len(s) \in Nat /\ Len(f) \in Nat /\ d \in 0 .. Len(s)
    BY <1>5
  <2>2. \A i \in d + 1 .. Len(s) : s[i] \in Handlers
    BY <1>5, <2>1, ElementOfSeq
  <2>3. /\ b \in Seq(Handlers) /\ Len(b) = Len(s) - d
        /\ \A i \in 1 .. Len(s) - d : b[i] = s[d + i]
    <3>1. /\ b \in Seq(Handlers)
          /\ Len(b) = IF d + 1 <= Len(s) THEN Len(s) - (d + 1) + 1 ELSE 0
          /\ \A i \in 1 .. Len(s) - (d + 1) + 1 : b[i] = s[d + 1 + i - 1]
      BY <2>1, <2>2, SubSeqProperties
    <3> HIDE DEF b
    <3> QED
      BY <2>1, <3>1
  <2> HIDE DEF b
  <2>4. /\ t \in Seq(Handlers) /\ Len(t) = Len(b) + Len(f)
        /\ \A i \in 1 .. Len(b) + Len(f) :
             t[i] = IF i <= Len(b) THEN b[i] ELSE f[i - Len(b)]
    <3>1. /\ b \o f \in Seq(Handlers) /\ Len(b \o f) = Len(b) + Len(f)
          /\ \A i \in 1 .. Len(b) + Len(f) :
               (b \o f)[i] = IF i <= Len(b) THEN b[i] ELSE f[i - Len(b)]
      BY <1>5, <2>3, ConcatProperties
    <3> QED
      BY <2>0, <3>1, Zenon
  <2>5. DOMAIN t = 1 .. (Len(s) - d) + Len(f)
    BY <2>3, <2>4
  <2>6. ASSUME NEW i \in 1 .. Len(s) - d PROVE t[i] = s[d + i]
    <3>1. i \in 1 .. Len(b) + Len(f) /\ i <= Len(b)
      BY <2>1, <2>3
    <3> QED
      BY <2>3, <2>4, <3>1
  <2>7. ASSUME NEW i \in 1 .. Len(f) PROVE t[(Len(s) - d) + i] = f[i]
    <3> DEFINE j == (Len(s) - d) + i
    <3>1. j \in 1 .. Len(b) + Len(f) /\ ~(j <= Len(b)) /\ j - Len(b) = i
      <4>1. Len(b) = Len(s) - d
        BY <2>3
      <4> QED
        BY <2>1, <4>1
    <3> HIDE DEF j
    <3>2. t[j] = f[j - Len(b)]
      BY <2>4, <3>1
    <3> QED
      BY <3>1, <3>2 DEF j
  <2> QED
    BY <2>5, <2>6, <2>7
<1> QED
  BY <1>5, <1>6 DEF s, d, f, t

(* The same, by the places of the handlers: what stays moves up, what is fresh
   comes after it. *)
LEMMA Places ==
  ASSUME TypeOK, NEW counts \in Counts, NEW fresh \in [Urls -> FreshSeqs],
         SetRemoteHandlerCounts(counts, fresh), NEW u \in Urls
  PROVE  LET d == Excess(counts, u)
             rest == Len(remotes[u]) - d
         IN  /\ \A i \in DOMAIN remotes'[u] :
                  \/ /\ d + i \in DOMAIN remotes[u] /\ i \in 1 .. rest
                     /\ remotes'[u][i] = remotes[u][d + i]
                  \/ /\ i - rest \in DOMAIN fresh[u]
                     /\ remotes'[u][i] = fresh[u][i - rest]
             /\ \A j \in DOMAIN remotes[u] : j > d =>
                  j - d \in DOMAIN remotes'[u] /\ remotes'[u][j - d] = remotes[u][j]
             /\ \A j \in DOMAIN fresh[u] :
                  rest + j \in DOMAIN remotes'[u] /\ remotes'[u][rest + j] = fresh[u][j]
<1> DEFINE s == remotes[u]
           d == Excess(counts, u)
           f == fresh[u]
           t == remotes'[u]
           rest == Len(s) - d
<1>1. /\ s \in Seq(Handlers) /\ d \in 0 .. Len(s) /\ f \in Seq(Handlers)
  BY ExcessBound, FreshOnes
<1>2. /\ rest \in Nat
      /\ DOMAIN t = 1 .. rest + Len(f)
      /\ \A i \in 1 .. rest : t[i] = s[d + i]
      /\ \A i \in 1 .. Len(f) : t[rest + i] = f[i]
  BY ListsAfter
<1> HIDE DEF s, d, f, t
<1>3. /\ Len(s) \in Nat /\ Len(f) \in Nat /\ d \in Nat /\ d + rest = Len(s)
      /\ DOMAIN s = 1 .. Len(s) /\ DOMAIN f = 1 .. Len(f)
  BY <1>1
<1> HIDE DEF rest
<1>4. ASSUME NEW i \in DOMAIN t
      PROVE  \/ d + i \in DOMAIN s /\ i \in 1 .. rest /\ t[i] = s[d + i]
             \/ i - rest \in DOMAIN f /\ t[i] = f[i - rest]
  <2>1. i \in 1 .. rest + Len(f)
    BY <1>2
  <2>2. CASE i <= rest
    <3>1. i \in 1 .. rest /\ d + i \in 1 .. Len(s)
      BY <1>2, <1>3, <2>1, <2>2
    <3> QED
      BY <1>2, <1>3, <3>1
  <2>3. CASE ~(i <= rest)
    <3> DEFINE j == i - rest
    <3>1. j \in 1 .. Len(f) /\ rest + j = i
      BY <1>2, <1>3, <2>1, <2>3
    <3> HIDE DEF j
    <3>2. t[rest + j] = f[j]
      BY <1>2, <3>1
    <3> QED
      BY <1>3, <3>1, <3>2 DEF j
  <2> QED
    BY <2>2, <2>3
<1>5. ASSUME NEW j \in DOMAIN s, j > d PROVE j - d \in DOMAIN t /\ t[j - d] = s[j]
  <2> DEFINE i == j - d
  <2>1. i \in 1 .. rest /\ i \in 1 .. rest + Len(f) /\ d + i = j
    BY <1>2, <1>3, <1>5
  <2> HIDE DEF i
  <2>2. t[i] = s[d + i] /\ i \in DOMAIN t
    BY <1>2, <2>1
  <2> QED
    BY <2>1, <2>2 DEF i
<1>6. ASSUME NEW j \in DOMAIN f PROVE rest + j \in DOMAIN t /\ t[rest + j] = f[j]
  <2>1. j \in 1 .. Len(f) /\ rest + j \in 1 .. rest + Len(f)
    BY <1>2, <1>3
  <2> QED
    BY <1>2, <2>1
<1> QED
  BY <1>4, <1>5, <1>6 DEF s, d, f, t, rest

(* A goroutine whose cancel func is kept is not free, nor is a dropped one. *)
LEMMA FreshUntracked ==
  ASSUME TrackInv, NEW h \in Fresh
  PROVE  ~Tracked(h)
BY DEF TrackInv, TrackedAll, ToTrack, Fresh

LEMMA DroppedIs ==
  ASSUME NEW counts, NEW h
  PROVE  h \in Dropped(counts) <=>
           \E u \in Urls : \E i \in 1 .. Excess(counts, u) : remotes[u][i] = h
BY DEF Dropped

(* The cancel funcs are kept of those that were kept and not cancelled, and of
   those that are started. *)
LEMMA TrackedAfter ==
  ASSUME TypeOK, TrackInv, NEW counts \in Counts, NEW fresh \in [Urls -> FreshSeqs],
         SetRemoteHandlerCounts(counts, fresh), NEW h
  PROVE  Tracked(h)' <=> \/ Tracked(h) /\ h \notin Dropped(counts)
                         \/ h \in StartedBy(fresh)
<1>1. ASSUME Tracked(h)'
      PROVE  \/ Tracked(h) /\ h \notin Dropped(counts)
             \/ h \in StartedBy(fresh)
  <2>1. PICK u \in Urls : \E i \in DOMAIN remotes'[u] : remotes'[u][i] = h
    BY <1>1 DEF Tracked
  <2>2. PICK i \in DOMAIN remotes'[u] : remotes'[u][i] = h
    BY <2>1
  <2> DEFINE d == Excess(counts, u)
             rest == Len(remotes[u]) - d
  <2>3. \/ d + i \in DOMAIN remotes[u] /\ i \in 1 .. rest /\ h = remotes[u][d + i]
        \/ i - rest \in DOMAIN fresh[u] /\ h = fresh[u][i - rest]
    BY <2>2, Places
  <2>0. d \in Nat
    BY ExcessBound
  <2> HIDE DEF d, rest
  <2>4. CASE i - rest \in DOMAIN fresh[u] /\ h = fresh[u][i - rest]
    BY <2>4, FreshOnes
  <2>5. CASE d + i \in DOMAIN remotes[u] /\ i \in 1 .. rest /\ h = remotes[u][d + i]
    <3>1. ASSUME NEW v \in Urls, NEW j \in 1 .. Excess(counts, v), remotes[v][j] = h
          PROVE  FALSE
      <4>1. j \in DOMAIN remotes[v]
        BY ExcessBound
      <4>2. u = v /\ d + i = j
        BY <2>5, <3>1, <4>1 DEF TrackInv, TrackedOnce
      <4>3. j <= d
        BY <4>2 DEF d
      <4> QED
        BY <2>0, <2>5, <4>2, <4>3
    <3> QED
      BY <2>5, <3>1, DroppedIs DEF Tracked
  <2> QED
    BY <2>3, <2>4, <2>5
<1>2. ASSUME Tracked(h), h \notin Dropped(counts) PROVE Tracked(h)'
  <2>1. PICK u \in Urls : \E i \in DOMAIN remotes[u] : remotes[u][i] = h
    BY <1>2 DEF Tracked
  <2>2. PICK i \in DOMAIN remotes[u] : remotes[u][i] = h
    BY <2>1
  <2> DEFINE d == Excess(counts, u)
  <2>3. remotes[u] \in Seq(Handlers) /\ d \in 0 .. Len(remotes[u])
    BY ExcessBound
  <2>4. i > d
    <3>1. i \notin 1 .. d
      BY <1>2, <2>2, DroppedIs
    <3>2. i \in 1 .. Len(remotes[u])
      BY <2>3
    <3> HIDE DEF d
    <3> QED
      BY <2>3, <3>1, <3>2
  <2>5. i - d \in DOMAIN remotes'[u] /\ remotes'[u][i - d] = h
    BY <2>2, <2>4, Places
  <2> QED
    BY <2>5 DEF Tracked
<1>3. ASSUME h \in StartedBy(fresh) PROVE Tracked(h)'
  <2>1. PICK u \in Urls : \E j \in DOMAIN fresh[u] : fresh[u][j] = h
    BY <1>3, FreshOnes
  <2>2. PICK j \in DOMAIN fresh[u] : fresh[u][j] = h
    BY <2>1
  <2> DEFINE rest == Len(remotes[u]) - Excess(counts, u)
  <2>3. rest + j \in DOMAIN remotes'[u] /\ remotes'[u][rest + j] = h
    BY <2>2, Places
  <2> QED
    BY <2>3 DEF Tracked
<1> QED
  BY <1>1, <1>2, <1>3

LEMMA CountsOnce ==
  ASSUME TypeOK, TrackInv, NEW counts \in Counts, NEW fresh \in [Urls -> FreshSeqs],
         SetRemoteHandlerCounts(counts, fresh)
  PROVE  TrackedOnce'
<1> SUFFICES ASSUME NEW u \in Urls, NEW v \in Urls,
                    NEW i \in DOMAIN remotes'[u], NEW j \in DOMAIN remotes'[v],
                    remotes'[u][i] = remotes'[v][j]
             PROVE  u = v /\ i = j
  BY DEF TrackedOnce
<1> DEFINE d(w) == Excess(counts, w)
           rest(w) == Len(remotes[w]) - d(w)
           Stays(w, k) == /\ d(w) + k \in DOMAIN remotes[w] /\ k \in 1 .. rest(w)
                          /\ remotes'[w][k] = remotes[w][d(w) + k]
           New(w, k) == /\ k - rest(w) \in DOMAIN fresh[w]
                        /\ remotes'[w][k] = fresh[w][k - rest(w)]
<1>1. (Stays(u, i) \/ New(u, i)) /\ (Stays(v, j) \/ New(v, j))
  BY Places
<1>2. /\ d(u) \in Nat /\ d(v) \in Nat /\ rest(u) \in Int /\ rest(v) \in Int
      /\ i \in Int /\ j \in Int
  <2>1. remotes[u] \in Seq(Handlers) /\ remotes[v] \in Seq(Handlers)
    BY ExcessBound
  <2>2. DOMAIN remotes'[u] \subseteq Int /\ DOMAIN remotes'[v] \subseteq Int
    BY ListsAfter
  <2> QED
    BY <2>1, <2>2, ExcessBound
<1>3. ASSUME NEW w \in Urls, NEW k, Stays(w, k), NEW x \in Urls, NEW l, New(x, l)
      PROVE  remotes'[w][k] # remotes'[x][l]
  <2>1. fresh[x][l - rest(x)] \in Fresh
    BY <1>3, FreshOnes
  <2>2. Tracked(remotes[w][d(w) + k])
    BY <1>3 DEF Tracked
  <2> QED
    BY <1>3, <2>1, <2>2, FreshUntracked
<1>4. CASE Stays(u, i) /\ Stays(v, j)
  <2>1. /\ d(u) + i \in DOMAIN remotes[u] /\ d(v) + j \in DOMAIN remotes[v]
        /\ remotes[u][d(u) + i] = remotes[v][d(v) + j]
    BY <1>4
  <2> HIDE DEF d
  <2>2. u = v /\ d(u) + i = d(v) + j
    BY <2>1 DEF TrackInv, TrackedOnce
  <2> QED
    BY <1>2, <2>2
<1>5. CASE New(u, i) /\ New(v, j)
  <2>1. /\ i - rest(u) \in DOMAIN fresh[u] /\ j - rest(v) \in DOMAIN fresh[v]
        /\ fresh[u][i - rest(u)] = fresh[v][j - rest(v)]
    BY <1>5
  <2>2. \A x, y \in Urls : \A k \in DOMAIN fresh[x], l \in DOMAIN fresh[y] :
          fresh[x][k] = fresh[y][l] => x = y /\ k = l
    BY DEF SetRemoteHandlerCounts
  <2> HIDE DEF rest
  <2>3. u = v /\ i - rest(u) = j - rest(v)
    BY <2>1, <2>2
  <2> QED
    BY <1>2, <2>3
<1>6. CASE Stays(u, i) /\ New(v, j)
  BY <1>3, <1>6
<1>7. CASE New(u, i) /\ Stays(v, j)
  BY <1>3, <1>7
<1> QED
  BY <1>1, <1>4, <1>5, <1>6, <1>7

(* The step that sets the counts (router.go:104-151). *)
LEMMA CountsTracked ==
  ASSUME TypeOK, TrackInv, NEW counts \in Counts, NEW fresh \in [Urls -> FreshSeqs],
         SetRemoteHandlerCounts(counts, fresh)
  PROVE  TrackInv'
<1>1. TrackedOnce'
  BY CountsOnce
<1>2. \A h \in StartedBy(fresh) : h \in Fresh /\ ~Tracked(h)
  BY FreshOnes, FreshUntracked
<1>3. ASSUME NEW h \in Handlers
      PROVE  /\ hpc'[h] = IF h \in StartedBy(fresh) THEN "spawned" ELSE hpc[h]
             /\ kind'[h] = IF h \in StartedBy(fresh) THEN "remote" ELSE kind[h]
             /\ cancelled'[h] <=> cancelled[h] \/ h \in Dropped(counts)
  BY DEF SetRemoteHandlerCounts, StartedBy
<1>4. ASSUME NEW h \in Handlers, h \in Dropped(counts) PROVE Tracked(h)
  <2>1. PICK u \in Urls : \E i \in 1 .. Excess(counts, u) : remotes[u][i] = h
    BY <1>4, DroppedIs
  <2>2. 1 .. Excess(counts, u) \subseteq DOMAIN remotes[u]
    BY ExcessBound
  <2> QED
    BY <2>1, <2>2 DEF Tracked
<1>5. ASSUME NEW h \in Handlers
      PROVE  /\ Tracked(h)' <=> ToTrack(h)'
             /\ hpc'[h] = "free" => ~cancelled'[h]
  <2>0. /\ Tracked(h) <=> kind[h] = "remote" /\ hpc[h] # "free" /\ ~cancelled[h]
        /\ hpc[h] = "free" => ~cancelled[h]
    BY DEF TrackInv, TrackedAll, FreeUncancelled, ToTrack
  <2>1. CASE h \in StartedBy(fresh)
    <3>1. hpc[h] = "free" /\ ~Tracked(h) /\ h \notin Dropped(counts)
      BY <1>2, <1>4, <2>1 DEF Fresh
    <3>2. Tracked(h)'
      BY <2>1, TrackedAfter
    <3>3. hpc'[h] = "spawned" /\ kind'[h] = "remote" /\ ~cancelled'[h]
      BY <1>3, <2>0, <2>1, <3>1
    <3> QED
      BY <3>2, <3>3 DEF ToTrack
  <2>2. CASE h \notin StartedBy(fresh)
    <3>1. Tracked(h)' <=> Tracked(h) /\ h \notin Dropped(counts)
      BY <2>2, TrackedAfter
    <3>2. /\ hpc'[h] = hpc[h] /\ kind'[h] = kind[h]
          /\ cancelled'[h] <=> cancelled[h] \/ h \in Dropped(counts)
      BY <1>3, <2>2
    <3>3. hpc'[h] = "free" => ~cancelled'[h]
      BY <1>4, <2>0, <3>2
    <3> QED
      BY <2>0, <3>1, <3>2, <3>3 DEF ToTrack
  <2> QED
    BY <2>1, <2>2
<1> QED
  BY <1>1, <1>5 DEF TrackInv, TrackedAll, FreeUncancelled

(* Every other step leaves the lists alone. *)
LEMMA OthersTracked ==
  ASSUME TypeOK, TrackInv, [Next]_vars, ~CountsStep
  PROVE  TrackInv'
<1>0. /\ \A h \in Handlers : hpc[h] = "free" => ~cancelled[h]
      /\ hpc \in [Handlers -> Registered \cup {"free", "spawned", "stopped"}]
      /\ kind \in [Handlers -> {"local", "remote"}]
      /\ cancelled \in [Handlers -> BOOLEAN]
  BY DEF TrackInv, FreeUncancelled, TypeOK
<1>1. ASSUME remotes' = remotes /\ UNCHANGED <<hpc, kind, cancelled>> PROVE TrackInv'
  <2>1. \A h \in Handlers : /\ ToTrack(h)' <=> ToTrack(h)
                            /\ hpc'[h] = "free" => ~cancelled'[h]
    BY <1>0, <1>1 DEF ToTrack
  <2> QED
    BY <1>1, <2>1, TrackFrame
<1>2. ASSUME NEW r \in Reqs,
             routeStart(r) \/ PreferLocalTimeout(r) \/ ReqStep(r)
      PROVE  TrackInv'
  BY <1>1, <1>2
  DEF routeStart, PreferLocalTimeout, ReqStep, OpenSelect, Deadline, ProxyReturns,
      routeDone, Left, handlerVars
<1>3. ASSUME NEW h \in Handlers, NEW r \in Reqs, Accept(h, r) PROVE TrackInv'
  BY <1>1, <1>3 DEF Accept
<1>4. CASE DestroyIfIdle \/ LoopStep \/ UNCHANGED vars
  BY <1>1, <1>4
  DEF DestroyIfIdle, LoopStep, LoopCheck, LoopStarted, LoopWake, vars, handlerVars
<1>5. ASSUME NEW h \in Handlers, NEW max \in Limits, HandlerStartLocal(h, max)
      PROVE  TrackInv'
  <2>1. /\ remotes' = remotes /\ cancelled' = cancelled
        /\ \A g \in Handlers : g # h => hpc'[g] = hpc[g] /\ kind'[g] = kind[g]
        /\ hpc[h] = "free" /\ hpc'[h] = "running" /\ kind'[h] = "local"
    BY <1>0, <1>5 DEF HandlerStartLocal, handlerStart
  <2>2. \A g \in Handlers : /\ ToTrack(g)' <=> ToTrack(g)
                            /\ hpc'[g] = "free" => ~cancelled'[g]
    BY <1>0, <2>1 DEF ToTrack
  <2> QED
    BY <2>1, <2>2, TrackFrame
<1>6. ASSUME NEW h \in Handlers, HandlerStep(h) PROVE TrackInv'
  <2>1. /\ remotes' = remotes /\ kind' = kind /\ cancelled' = cancelled
        /\ \A g \in Handlers : hpc'[g] = "free" <=> hpc[g] = "free"
    BY <1>0, <1>6
    DEF HandlerStep, HandlerStartRemote, handlerStart, TakeDone, StopAccepting,
        Drained, HandlerStop
  <2>2. \A g \in Handlers : /\ ToTrack(g)' <=> ToTrack(g)
                            /\ hpc'[g] = "free" => ~cancelled'[g]
    BY <1>0, <2>1 DEF ToTrack
  <2> QED
    BY <2>1, <2>2, TrackFrame
<1>7. ASSUME NEW h \in Handlers, CancelLocal(h) PROVE TrackInv'
  <2>1. /\ remotes' = remotes /\ kind' = kind /\ hpc' = hpc
        /\ \A g \in Handlers : g # h => cancelled'[g] = cancelled[g]
        /\ kind[h] = "local" /\ hpc[h] # "free"
    BY <1>0, <1>7 DEF CancelLocal, Registered
  <2>2. \A g \in Handlers : /\ ToTrack(g)' <=> ToTrack(g)
                            /\ hpc'[g] = "free" => ~cancelled'[g]
    BY <1>0, <2>1 DEF ToTrack
  <2> QED
    BY <2>1, <2>2, TrackFrame
<1> QED
  BY <1>2, <1>3, <1>4, <1>5, <1>6, <1>7 DEF Next, CountsStep

(* A list of different handlers is no longer than there are handlers. *)
LEMMA ListsFit ==
  ASSUME TypeOK, TrackInv, NEW u \in Urls
  PROVE  DOMAIN remotes[u] \subseteq 1 .. Cardinality(Handlers)
<1> DEFINE s == remotes[u]
           n == Len(s)
<1>1. /\ s \in Seq(Handlers) /\ n \in Nat /\ DOMAIN s = 1 .. n
      /\ s \in [1 .. n -> Handlers]
  <2>1. s \in Seq(Handlers)
    BY DEF TypeOK
  <2> HIDE DEF s
  <2> QED
    BY <2>1
<1>2. IsFiniteSet(Handlers) /\ Cardinality(Handlers) \in Nat
  BY RouterAssumption, FS_CardinalityType
<1>3. IsFiniteSet(1 .. n) /\ Cardinality(1 .. n) = n
  BY <1>1, FS_Interval
<1>4. \A i, j \in 1 .. n : s[i] = s[j] => i = j
  BY <1>1 DEF TrackInv, TrackedOnce
<1> HIDE DEF s, n
<1>5. ~(Cardinality(Handlers) < n)
  BY <1>1, <1>2, <1>3, <1>4, FS_PigeonHole
<1> QED
  BY <1>1, <1>2, <1>5 DEF s

LEMMA TrackedIs ==
  ASSUME TypeOK, TrackInv
  PROVE  RemotesTracked
<1>1. \A k \in Kept : /\ k[1] \in Urls /\ k[2] \in DOMAIN remotes[k[1]]
  BY DEF Kept
<1>2. ASSUME NEW u \in Urls, NEW i \in DOMAIN remotes[u] PROVE <<u, i>> \in Kept
  BY ListsFit DEF Kept
<1>3. \A h : h \in {remotes[k[1]][k[2]] : k \in Kept} <=> Tracked(h)
  <2>1. ASSUME NEW h, Tracked(h) PROVE h \in {remotes[k[1]][k[2]] : k \in Kept}
    <3>1. PICK u \in Urls : \E i \in DOMAIN remotes[u] : remotes[u][i] = h
      BY <2>1 DEF Tracked
    <3>2. PICK i \in DOMAIN remotes[u] : remotes[u][i] = h
      BY <3>1
    <3>3. <<u, i>> \in Kept
      BY <1>2
    <3> QED
      BY <3>2, <3>3
  <2>2. ASSUME NEW k \in Kept PROVE Tracked(remotes[k[1]][k[2]])
    BY <1>1 DEF Tracked
  <2> QED
    BY <2>1, <2>2
<1>4. \A h : Tracked(h) => h \in Handlers
  BY DEF Tracked, TypeOK
<1>5. {h \in Handlers : kind[h] = "remote" /\ hpc[h] # "free" /\ ~cancelled[h]}
        = {remotes[k[1]][k[2]] : k \in Kept}
  BY <1>3, <1>4 DEF TrackInv, TrackedAll, ToTrack
<1>6. ASSUME NEW k \in Kept, NEW l \in Kept, remotes[k[1]][k[2]] = remotes[l[1]][l[2]]
      PROVE  k = l
  <2>1. k[1] = l[1] /\ k[2] = l[2]
    BY <1>1, <1>6 DEF TrackInv, TrackedOnce
  <2>2. k \in Urls \X (1 .. Cardinality(Handlers)) /\ l \in Urls \X (1 .. Cardinality(Handlers))
    BY DEF Kept
  <2> QED
    BY <2>1, <2>2
<1> QED
  BY <1>5, <1>6 DEF RemotesTracked

(* The cancel funcs kept for the peers are those of the remote handlers that
   have not been cancelled, each once, for any number of urls and whatever
   the sequence of counts (router.go:104-151). *)
THEOREM RemotesAreTracked == Spec => []RemotesTracked
<1>1. Init => TrackInv
  BY DEF Init, TrackInv, TrackedAll, TrackedOnce, FreeUncancelled, Tracked, ToTrack
<1>2. TypeOK /\ TrackInv /\ [Next]_vars => TrackInv'
  <2>1. ASSUME TypeOK, TrackInv, CountsStep PROVE TrackInv'
    BY <2>1, CountsTracked DEF CountsStep
  <2> QED
    BY <2>1, OthersTracked
<1>3. TypeOK /\ TrackInv => RemotesTracked
  BY TrackedIs
<1> QED
  BY <1>1, <1>2, <1>3, TypeCorrect, PTL DEF Spec
=============================================================================
