--------------------------- MODULE ConvergerProofs ---------------------------
(***************************************************************************)
(* Proofs about Converger, for any number of ids, versions and callers: a  *)
(* running container is never lost, whatever the plans are; the list never *)
(* holds more containers than a converge may run, though the events change *)
(* it while plan and stopAndRemoveContainer read it; and no wake-up of the *)
(* run loop is lost.                                                       *)
(***************************************************************************)
EXTENDS Converger, PlanProofs, SequenceTheorems, FiniteSetTheorems, WellFoundedInduction,
        TLAPS

Views == [seq : Seq(Ids), at : Int]

DataOK ==
  /\ list \in Seq(Ids)
  /\ docker \in [Ids -> {"none", "up", "dead"}]
  /\ views \in [Readers -> Views]
  /\ events \in Seq(Ids)

Distinct == \A i, j \in DOMAIN list : list[i] = list[j] => i = j

(* A container of which an exit event tells, or that the event goroutine is
   about to remove, runs no more. *)
EventsDead == \A i \in DOMAIN events : docker[events[i]] = "dead"
HandledDead == epc # "idle" => eid \in Ids /\ docker[eid] = "dead"

(* Where the run loop stands with the container of its step. *)
StepOK ==
  /\ pc \in {"start", "assign", "health", "fail", "unlist", "stopping", "remove"}
       => cur \in Ids
  /\ pc = "start" => cur \in Listed /\ docker[cur] = "none"
  /\ pc \in {"unlist", "remove"} => docker[cur] # "up"

IInv == DataOK /\ Distinct /\ EventsDead /\ HandledDead /\ StepOK /\ NoOrphan

-----------------------------------------------------------------------------
(* The removal of an element that is there once. *)
LEMMA WithoutCut ==
  ASSUME NEW S, NEW seq \in Seq(S), NEW id,
         \A i, j \in DOMAIN seq : seq[i] = seq[j] => i = j
  PROVE  \/ (~ \E i \in DOMAIN seq : seq[i] = id) /\ Without(seq, id) = seq
         \/ \E k \in 1 .. Len(seq) : seq[k] = id /\ Without(seq, id) = Cut(seq, k)
<1>0. DOMAIN seq = 1 .. Len(seq) /\ Len(seq) \in Nat
  BY LenProperties
<1>1. CASE ~ \E i \in 1 .. Len(seq) : seq[i] = id
  BY <1>0, <1>1 DEF Without, RemoveFirst
<1>2. CASE \E i \in 1 .. Len(seq) : seq[i] = id
  <2>1. PICK k \in 1 .. Len(seq) : seq[k] = id
    BY <1>2
  <2>2. {i \in 1 .. Len(seq) : seq[i] = id} = {k}
    BY <1>0, <2>1
  <2>3. SelectInSeq(seq, LAMBDA v : v = id) = k
    <3>1. Min({k}) = k
      BY <2>1 DEF Min
    <3> QED
      BY <2>2, <3>1 DEF SelectInSeq
  <2>4. Without(seq, id) = Cut(seq, k)
    BY <1>2, <2>3 DEF Without, RemoveFirst, RemoveAt, Cut
  <2> QED
    BY <2>1, <2>4
<1> QED
  BY <1>1, <1>2

(* The elements of the list before and after the removal of one of them. *)
LEMMA WithoutElements ==
  ASSUME NEW S, NEW seq \in Seq(S), NEW id,
         \A i, j \in DOMAIN seq : seq[i] = seq[j] => i = j
  PROVE  /\ Without(seq, id) \in Seq(S)
         /\ \A i \in DOMAIN seq : seq[i] # id =>
              \E j \in DOMAIN Without(seq, id) : Without(seq, id)[j] = seq[i]
         /\ \A i, j \in DOMAIN Without(seq, id) :
              Without(seq, id)[i] = Without(seq, id)[j] => i = j
<1>1. CASE ~ \E i \in DOMAIN seq : seq[i] = id
  <2>1. Without(seq, id) = seq
    BY <1>1, LenProperties, WithoutCut
  <2> QED
    BY <2>1
<1>2. CASE \E i \in DOMAIN seq : seq[i] = id
  <2>1. PICK k \in 1 .. Len(seq) : seq[k] = id /\ Without(seq, id) = Cut(seq, k)
    BY <1>2, WithoutCut
  <2> DEFINE w == Cut(seq, k)
  <2>2. /\ w \in Seq(S) /\ DOMAIN w = 1 .. Len(seq) - 1
        /\ \A i \in 1 .. Len(seq) - 1 : w[i] = IF i < k THEN seq[i] ELSE seq[i + 1]
    BY CutElements
  <2>3. Len(seq) \in Nat /\ DOMAIN seq = 1 .. Len(seq)
    BY LenProperties
  <2>4. Without(seq, id) = w
    BY <2>1
  <2> HIDE DEF w
  <2>5. ASSUME NEW i \in DOMAIN seq, seq[i] # id
        PROVE  \E j \in DOMAIN w : w[j] = seq[i]
    <3>1. CASE i < k
      <4>1. i \in 1 .. Len(seq) - 1
        BY <2>1, <2>3, <3>1
      <4> QED
        BY <2>2, <3>1, <4>1
    <3>2. CASE i > k
      <4>1. i - 1 \in 1 .. Len(seq) - 1 /\ ~ (i - 1 < k) /\ (i - 1) + 1 = i
        BY <2>1, <2>3, <3>2
      <4> QED
        BY <2>2, <4>1
    <3> QED
      BY <2>1, <2>3, <2>5, <3>1, <3>2
  <2>6. ASSUME NEW i \in DOMAIN w, NEW j \in DOMAIN w, w[i] = w[j]
        PROVE  i = j
    <3> DEFINE At(n) == IF n < k THEN n ELSE n + 1
    <3>1. At(i) \in DOMAIN seq /\ At(j) \in DOMAIN seq
      BY <2>1, <2>2, <2>3
    <3>2. seq[At(i)] = seq[At(j)]
      BY <2>2, <2>6
    <3>3. At(i) = At(j)
      BY <3>1, <3>2
    <3> QED
      BY <2>1, <2>2, <2>3, <3>3
  <2> QED
    BY <2>2, <2>4, <2>5, <2>6
<1> QED
  BY <1>1, <1>2

-----------------------------------------------------------------------------
(* What a disturbed reader sees are ids. *)
LEMMA DisturbViews ==
  ASSUME NEW g \in Readers, NEW arr \in Seq(Ids), Disturb(g, arr),
         views \in [Readers -> Views]
  PROVE  views' \in [Readers -> Views]
<1>1. PICK i \in views[g].at .. Len(views[g].seq) :
        views' = [views EXCEPT ![g] = IF @ = NoView THEN NoView ELSE Torn(@, arr, i)]
  BY DEF Disturb
<1>2. views[g].seq \in Seq(Ids) /\ views[g].at \in Int
  BY DEF Views
<1>3. NoView \in Views
  BY EmptySeq DEF NoView, Views
<1>4. Torn(views[g], arr, i) \in Views
  <2> DEFINE v == views[g].seq
             t == [j \in DOMAIN v |-> IF j > i /\ j \in DOMAIN arr THEN arr[j] ELSE v[j]]
  <2>1. /\ Len(v) \in Nat /\ DOMAIN v = 1 .. Len(v) /\ DOMAIN arr = 1 .. Len(arr)
        /\ v \in [1 .. Len(v) -> Ids] /\ arr \in [1 .. Len(arr) -> Ids]
    BY <1>2, LenProperties
  <2>2. t \in [1 .. Len(v) -> Ids]
    BY <2>1
  <2>3. t \in Seq(Ids)
    BY <2>1, <2>2, SeqDef
  <2> QED
    BY <1>1, <1>2, <2>3 DEF Torn, Views
<1> QED
  BY <1>1, <1>3, <1>4

(* Removal by g of a container that does not run: the others stay in the list. *)
LEMMA RemoveKeeps ==
  ASSUME IInv, NEW g \in Readers, NEW id, RemoveFromList(g, id)
  PROVE  /\ list' \in Seq(Ids)
         /\ views' \in [Readers -> Views]
         /\ Distinct'
         /\ \A j \in Listed : j # id => j \in Listed'
<1>1. list' = Without(list, id)
  BY DEF RemoveFromList
<1>2. list \in Seq(Ids) /\ views \in [Readers -> Views] /\ Distinct
  BY DEF IInv, DataOK
<1>3. /\ list' \in Seq(Ids) /\ Distinct'
      /\ \A i \in DOMAIN list : list[i] # id => \E j \in DOMAIN list' : list'[j] = list[i]
  BY <1>1, <1>2, WithoutElements DEF Distinct
<1>4. \A j \in Listed : j # id => j \in Listed'
  BY <1>3 DEF Listed
<1>5. views' \in [Readers -> Views]
  <2>1. CASE id \in Listed
    <3>1. Disturb(Other(g), Append(list', list[Len(list)]))
      BY <1>1, <2>1 DEF RemoveFromList
    <3>2. list[Len(list)] \in Ids
      <4>1. Len(list) \in 1 .. Len(list)
        BY <1>2, <2>1, LenProperties DEF Listed
      <4> QED
        BY <1>2, <4>1, ElementOfSeq
    <3>3. Append(list', list[Len(list)]) \in Seq(Ids)
      BY <1>3, <3>2, AppendProperties
    <3>4. Other(g) \in Readers
      BY DEF Other, Readers
    <3> QED
      BY <1>2, <3>1, <3>3, <3>4, DisturbViews
  <2>2. CASE id \notin Listed
    BY <1>2, <2>2 DEF RemoveFromList
  <2> QED
    BY <2>1, <2>2
<1> QED
  BY <1>3, <1>4, <1>5

(* A container that is stopped is dead, and the exit event is about it. *)
LEMMA KillKeeps ==
  ASSUME IInv, NEW id \in Ids, Kill(id)
  PROVE  /\ docker' \in [Ids -> {"none", "up", "dead"}]
         /\ events' \in Seq(Ids)
         /\ EventsDead'
         /\ docker'[id] # "up"
         /\ \A j \in Ids : docker'[j] = docker[j] \/ (docker'[j] = "dead" /\ docker[j] = "up")
<1>1. docker \in [Ids -> {"none", "up", "dead"}] /\ events \in Seq(Ids) /\ EventsDead
  BY DEF IInv, DataOK
<1>2. CASE docker[id] = "up"
  <2>1. docker' = [docker EXCEPT ![id] = "dead"] /\ events' = Append(events, id)
    BY <1>2 DEF Kill
  <2>2. /\ docker' \in [Ids -> {"none", "up", "dead"}]
        /\ docker'[id] = "dead"
        /\ \A j \in Ids : docker[j] = "dead" => docker'[j] = "dead"
        /\ \A j \in Ids : docker'[j] = docker[j] \/ (docker'[j] = "dead" /\ docker[j] = "up")
    <3>1. docker' \in [Ids -> {"none", "up", "dead"}]
      BY <1>1, <2>1
    <3>2. docker'[id] = "dead"
      BY <1>1, <2>1
    <3>3. \A j \in Ids : j # id => docker'[j] = docker[j]
      BY <1>1, <2>1
    <3>4. \A j \in Ids : docker[j] = "dead" => docker'[j] = "dead"
      BY <3>2, <3>3
    <3>5. \A j \in Ids : docker'[j] = docker[j] \/ (docker'[j] = "dead" /\ docker[j] = "up")
      BY <1>2, <3>2, <3>3
    <3> QED
      BY <3>1, <3>2, <3>4, <3>5
  <2>3. /\ events' \in Seq(Ids) /\ DOMAIN events' = 1 .. Len(events) + 1
        /\ \A i \in 1 .. Len(events) : events'[i] = events[i]
        /\ events'[Len(events) + 1] = id
        /\ Len(events) \in Nat /\ DOMAIN events = 1 .. Len(events)
    BY <1>1, <2>1, AppendProperties, LenProperties
  <2>4. EventsDead'
    <3> SUFFICES ASSUME NEW i \in DOMAIN events' PROVE docker'[events'[i]] = "dead"
      BY DEF EventsDead
    <3>1. CASE i \in 1 .. Len(events)
      <4>1. events[i] \in Ids /\ docker[events[i]] = "dead"
        BY <1>1, <2>3, <3>1, ElementOfSeq DEF EventsDead
      <4> QED
        BY <2>2, <2>3, <3>1, <4>1
    <3>2. CASE i = Len(events) + 1
      BY <2>2, <2>3, <3>2
    <3> QED
      BY <2>3, <3>1, <3>2
  <2> QED
    BY <2>2, <2>3, <2>4
<1>3. CASE docker[id] # "up"
  <2>1. docker' = docker /\ events' = events
    BY <1>3 DEF Kill
  <2>2. EventsDead'
    BY <1>1, <2>1 DEF EventsDead
  <2>3. \A j \in Ids : docker'[j] = docker[j]
    BY <2>1
  <2> QED
    BY <1>1, <1>3, <2>1, <2>2, <2>3
<1> QED
  BY <1>2, <1>3

(* A step of Kill that leaves the list alone, when neither goroutine's state
   speaks of a container that runs. *)
LEMMA KillStep ==
  ASSUME IInv, NEW id \in Ids, Kill(id),
         list' = list, views' = views, epc' = epc \/ epc # "idle", eid' = eid, StepOK'
  PROVE  IInv'
<1>1. DataOK' /\ EventsDead'
  BY KillKeeps DEF IInv, DataOK
<1>2. Distinct' /\ Listed' = Listed
  BY DEF IInv, Distinct, Listed
<1>3. HandledDead'
  BY KillKeeps DEF IInv, HandledDead
<1>4. NoOrphan'
  BY <1>2, KillKeeps DEF IInv, NoOrphan
<1> QED
  BY <1>1, <1>2, <1>3, <1>4 DEF IInv

(* A step that touches neither the list nor the containers. *)
LEMMA StillStep ==
  ASSUME IInv, list' = list, docker' = docker, views' \in [Readers -> Views],
         events' = events, HandledDead', StepOK'
  PROVE  IInv'
BY DEF IInv, DataOK, Distinct, EventsDead, NoOrphan, Listed

(* What the run loop knows of its container does not change. *)
LEMMA StepKeeps ==
  ASSUME IInv, pc' = pc, cur' = cur, list' = list, docker' = docker
  PROVE  StepOK'
BY DEF IInv, StepOK, Listed

(* A new view is a copy of the list. *)
LEMMA ViewOK ==
  ASSUME IInv, NEW g \in Readers
  PROVE  /\ [views EXCEPT ![g] = [seq |-> list, at |-> 0]] \in [Readers -> Views]
         /\ [views EXCEPT ![g] = NoView] \in [Readers -> Views]
         /\ Seen(g) \subseteq Ids
<1>1. list \in Seq(Ids) /\ views \in [Readers -> Views] /\ views[g].seq \in Seq(Ids)
  BY DEF IInv, DataOK, Views
<1>2. [seq |-> list, at |-> 0] \in Views /\ NoView \in Views
  BY <1>1, EmptySeq DEF Views, NoView
<1>3. Seen(g) \subseteq Ids
  BY <1>1, LenProperties, ElementOfSeq DEF Seen
<1> QED
  BY <1>1, <1>2, <1>3

(* The id of a new container is one that nobody refers to. *)
LEMMA NextIdUnused ==
  ASSUME \E i \in Ids : Unused(i)
  PROVE  NextId \in Ids /\ Unused(NextId)
<1> DEFINE T == {i \in Ids : Unused(i)}
           R == OpToRel(<, Nat)
<1>1. T \subseteq Nat /\ T # {}
  BY ConvergerAssumption
<1>2. PICK x \in T : \A y \in T : ~ (<<y, x>> \in R)
  BY <1>1, NatLessThanWellFounded, WFMin
<1>3. \A y \in T : x <= y
  <2> SUFFICES ASSUME NEW y \in T, y < x PROVE FALSE
    BY <1>1
  <2>1. <<y, x>> \in R
    BY <1>1 DEF OpToRel
  <2> QED
    BY <1>2, <2>1
<1>4. x \in Ids /\ Unused(x) /\ \A j \in Ids : Unused(j) => x <= j
  BY <1>3
<1> QED
  BY <1>4 DEF NextId

-----------------------------------------------------------------------------
(* The steps.                                                              *)

LEMMA InitInv == Init => IInv
<1> SUFFICES ASSUME Init PROVE IInv
  OBVIOUS
<1>1. list = <<>> /\ events = <<>> /\ docker = [i \in Ids |-> "none"]
      /\ views = [g \in Readers |-> NoView] /\ pc = "select" /\ epc = "idle"
  BY DEF Init
<1>2. NoView \in Views /\ <<>> \in Seq(Ids) /\ DOMAIN <<>> = {}
  BY EmptySeq DEF NoView, Views
<1>3. DataOK
  BY <1>1, <1>2 DEF DataOK
<1> QED
  BY <1>1, <1>2, <1>3 DEF IInv, Distinct, EventsDead, HandledDead, StepOK, NoOrphan

(* The run loop leaves the list, the containers and the events alone. *)
LEMMA LoopStill ==
  ASSUME IInv, list' = list, docker' = docker, views' \in [Readers -> Views],
         events' = events, epc' = epc, eid' = eid,
         pc' \in {"start", "assign", "health", "fail", "unlist", "stopping", "remove"} =>
           pc' \notin {"start", "unlist", "remove"} /\ cur' \in Ids
  PROVE  IInv'
<1>1. HandledDead'
  BY DEF IInv, HandledDead
<1>2. StepOK'
  BY DEF StepOK
<1> QED
  BY <1>1, <1>2, StillStep

LEMMA StillLoopStep ==
  ASSUME IInv,
         \/ TakeWake \/ Tick \/ MakePlan \/ Converged \/ NextStep \/ LockFails
         \/ AssignId \/ HealthPasses \/ HealthFails \/ Exit
         \/ \E c \in Callers : TakeCaller(c)
  PROVE  IInv'
<1> USE DEF TakeCaller, TakeWake, Tick, BeginConverge, MakePlan, Converged, NextStep,
            LockFails, AssignId, HealthPasses, HealthFails, Exit, Abort, EndConverge
<1>1. list' = list /\ docker' = docker /\ events' = events /\ epc' = epc /\ eid' = eid
  BY DEF containersVars, eventVars
<1>2. views' \in [Readers -> Views]
  BY ViewOK DEF containersVars, IInv, DataOK, Readers
<1>3. \/ pc' \notin {"start", "assign", "health", "fail", "unlist", "stopping", "remove"}
      \/ pc' \in {"health", "fail"} /\ cur' = cur /\ cur \in Ids
  BY DEF IInv, StepOK
<1> QED
  BY <1>1, <1>2, <1>3, LoopStill

LEMMA FindStep ==
  ASSUME IInv, Find
  PROVE  IInv'
<1>1. list' = list /\ docker' = docker /\ events' = events /\ epc' = epc /\ eid' = eid
  BY DEF Find, eventVars
<1>2. views' \in [Readers -> Views] /\ Seen("run") \subseteq Ids
  BY ViewOK DEF Find, Readers
<1>3. pc' = "next" \/ (pc' = "stopping" /\ cur' \in Ids)
  BY <1>2 DEF Find
<1> QED
  BY <1>1, <1>2, <1>3, LoopStill

LEMMA StartContainerStep ==
  ASSUME IInv, StartContainer
  PROVE  IInv'
<1>1. /\ list' = list /\ views' = views /\ events' = events /\ epc' = epc /\ eid' = eid
      /\ cur' = cur
  BY DEF StartContainer, eventVars
<1>2. /\ cur \in Ids /\ cur \in Listed /\ docker[cur] = "none"
      /\ views \in [Readers -> Views] /\ docker \in [Ids -> {"none", "up", "dead"}]
      /\ list \in Seq(Ids) /\ events \in Seq(Ids)
  BY DEF IInv, StepOK, StartContainer, DataOK
<1>3. CASE pc' = "fail" /\ docker' = docker
  BY <1>1, <1>2, <1>3, LoopStill
<1>4. CASE pc' = "assign" /\ docker' = [docker EXCEPT ![cur] = "up"]
  <2>1. /\ docker' \in [Ids -> {"none", "up", "dead"}]
        /\ \A j \in Ids : j # cur => docker'[j] = docker[j]
    BY <1>2, <1>4
  <2>2. DataOK' /\ Distinct' /\ Listed' = Listed
    BY <1>1, <1>2, <2>1 DEF DataOK, Distinct, IInv, Listed
  <2>3. EventsDead'
    <3>1. \A i \in DOMAIN events : events[i] \in Ids /\ docker[events[i]] = "dead"
      BY <1>2, LenProperties, ElementOfSeq DEF IInv, EventsDead
    <3> QED
      BY <1>1, <1>2, <2>1, <3>1 DEF EventsDead
  <2>4. HandledDead'
    BY <1>1, <1>2, <2>1 DEF IInv, HandledDead
  <2>5. StepOK'
    BY <1>1, <1>2, <1>4 DEF StepOK
  <2>6. NoOrphan'
    BY <1>2, <2>1, <2>2 DEF IInv, NoOrphan
  <2> QED
    BY <2>2, <2>3, <2>4, <2>5, <2>6 DEF IInv
<1> QED
  BY <1>3, <1>4 DEF StartContainer

LEMMA CreateStep ==
  ASSUME IInv, Create
  PROVE  IInv'
<1> DEFINE id == NextId
<1>1. /\ pc' = "start" /\ cur' = id
      /\ list' = Append(list, id) /\ Disturb("event", list')
      /\ docker' = [docker EXCEPT ![id] = "none"]
      /\ events' = events /\ epc' = epc /\ eid' = eid
  BY DEF Create, eventVars
<1>2. id \in Ids /\ Unused(id)
  BY NextIdUnused DEF Create
<1> HIDE DEF id
<1>3. /\ views \in [Readers -> Views] /\ docker \in [Ids -> {"none", "up", "dead"}]
      /\ list \in Seq(Ids) /\ events \in Seq(Ids)
  BY DEF IInv, DataOK
<1>4. /\ list' \in Seq(Ids) /\ Len(list) \in Nat
      /\ DOMAIN list = 1 .. Len(list) /\ DOMAIN list' = 1 .. Len(list) + 1
      /\ \A i \in 1 .. Len(list) : list'[i] = list[i]
      /\ list'[Len(list) + 1] = id
  BY <1>1, <1>2, <1>3, AppendProperties, LenProperties
<1>5. views' \in [Readers -> Views]
  BY <1>1, <1>3, <1>4, DisturbViews DEF Readers
<1>6. /\ docker' \in [Ids -> {"none", "up", "dead"}]
      /\ docker'[id] = "none"
      /\ \A j \in Ids : j # id => docker'[j] = docker[j]
  BY <1>1, <1>2, <1>3
<1>7. DataOK'
  BY <1>1, <1>3, <1>4, <1>5, <1>6 DEF DataOK
<1>8. Distinct'
  <2>1. \A i \in 1 .. Len(list) : list[i] # id
    BY <1>2, <1>4 DEF Unused, Listed
  <2>2. Distinct
    BY DEF IInv
  <2> QED
    BY <1>4, <2>1, <2>2 DEF Distinct
<1>9. EventsDead'
  <2>1. \A i \in DOMAIN events : events[i] # id
    BY <1>2 DEF Unused
  <2>2. \A i \in DOMAIN events : events[i] \in Ids /\ docker[events[i]] = "dead"
    BY <1>3, LenProperties, ElementOfSeq DEF IInv, EventsDead
  <2> QED
    BY <1>1, <1>6, <2>1, <2>2 DEF EventsDead
<1>10. HandledDead'
  <2>1. id # eid
    BY <1>2 DEF Unused
  <2> QED
    BY <1>1, <1>6, <2>1 DEF IInv, HandledDead
<1>11. id \in Listed'
  BY <1>4 DEF Listed
<1>12. StepOK'
  BY <1>1, <1>2, <1>6, <1>11 DEF StepOK
<1>13. NoOrphan'
  <2>1. Listed \subseteq Listed'
    BY <1>4 DEF Listed
  <2> QED
    BY <1>6, <2>1 DEF IInv, NoOrphan
<1> QED
  BY <1>7, <1>8, <1>9, <1>10, <1>12, <1>13 DEF IInv

LEMMA StopFailedStep ==
  ASSUME IInv, StopFailed
  PROVE  IInv'
<1>1. /\ cur \in Ids /\ Kill(cur) /\ cur' = cur /\ pc' = "unlist"
      /\ list' = list /\ views' = views /\ epc' = epc /\ eid' = eid
  BY DEF IInv, StepOK, StopFailed
<1>2. StepOK'
  BY <1>1, KillKeeps DEF StepOK
<1> QED
  BY <1>1, <1>2, KillStep

LEMMA StoppedStep ==
  ASSUME IInv, Stopped
  PROVE  IInv'
<1>1. /\ cur \in Ids /\ Kill(cur) /\ cur' = cur /\ pc' = "remove"
      /\ list' = list /\ views' = views /\ epc' = epc /\ eid' = eid
  BY DEF IInv, StepOK, Stopped
<1>2. StepOK'
  BY <1>1, KillKeeps DEF StepOK
<1> QED
  BY <1>1, <1>2, KillStep

(* A container dies, or is stopped, while the run loop stands where it is. *)
LEMMA KilledOutside ==
  ASSUME IInv, NEW id \in Ids, Kill(id), pc' = pc, cur' = cur,
         list' = list, views' = views, epc' = epc \/ epc # "idle", eid' = eid
  PROVE  IInv'
<1>1. StepOK'
  <2>1. /\ pc \in {"start", "assign", "health", "fail", "unlist", "stopping", "remove"}
             => cur \in Ids
        /\ pc = "start" => cur \in Listed /\ docker[cur] = "none"
        /\ pc \in {"unlist", "remove"} => docker[cur] # "up"
    BY DEF IInv, StepOK
  <2>2. Listed' = Listed
    BY DEF Listed
  <2>3. pc = "start" => docker'[cur] = "none"
    BY <2>1, KillKeeps
  <2>4. pc \in {"unlist", "remove"} => docker'[cur] # "up"
    BY <2>1, KillKeeps
  <2> QED
    BY <2>1, <2>2, <2>3, <2>4 DEF StepOK
<1> QED
  BY <1>1, KillStep

LEMMA DiesStep ==
  ASSUME IInv, NEW id \in Ids, Dies(id) \/ Drains(id)
  PROVE  IInv'
<1>1. /\ Kill(id) /\ pc' = pc /\ cur' = cur /\ list' = list /\ views' = views
      /\ epc' = epc /\ eid' = eid
  BY DEF Dies, Drains, loopVars
<1> QED
  BY <1>1, KilledOutside

LEMMA EventStoppedStep ==
  ASSUME IInv, EventStopped
  PROVE  IInv'
<1>1. /\ Kill(eid) /\ pc' = pc /\ cur' = cur /\ list' = list /\ views' = views
      /\ epc = "stopping" /\ eid' = eid /\ eid \in Ids
  BY DEF EventStopped, loopVars, IInv, HandledDead
<1> QED
  BY <1>1, KilledOutside

(* The removal of a container that does not run. *)
LEMMA RemoveStep ==
  ASSUME IInv, NEW g \in Readers, NEW id \in Ids, docker[id] # "up", RemoveFromList(g, id),
         docker' = docker, events' = events, HandledDead', StepOK'
  PROVE  IInv'
<1>1. DataOK' /\ Distinct'
  BY RemoveKeeps DEF IInv, DataOK
<1>2. EventsDead'
  BY DEF IInv, EventsDead
<1>3. NoOrphan'
  BY RemoveKeeps DEF IInv, NoOrphan
<1> QED
  BY <1>1, <1>2, <1>3 DEF IInv

LEMMA UnlistStep ==
  ASSUME IInv, Unlist \/ Removed
  PROVE  IInv'
<1>1. /\ RemoveFromList("run", cur) /\ docker' = docker /\ events' = events
      /\ epc' = epc /\ eid' = eid /\ pc' \in {"select", "next"}
      /\ pc \in {"unlist", "remove"}
  BY DEF Unlist, Removed, Abort, EndConverge, eventVars
<1>2. cur \in Ids /\ docker[cur] # "up"
  BY <1>1 DEF IInv, StepOK
<1>3. StepOK' /\ HandledDead'
  BY <1>1 DEF IInv, StepOK, HandledDead
<1> QED
  BY <1>1, <1>2, <1>3, RemoveStep DEF Readers

LEMMA EventRemoveStep ==
  ASSUME IInv, EventRemove
  PROVE  IInv'
<1>1. /\ RemoveFromList("event", eid) /\ docker' = docker /\ events' = events
      /\ epc = "remove" /\ eid' = eid /\ pc' = pc /\ cur' = cur
  BY DEF EventRemove, loopVars
<1>2. eid \in Ids /\ docker[eid] = "dead" /\ HandledDead'
  BY <1>1 DEF IInv, HandledDead
<1>3. StepOK'
  <2>1. pc = "start" => cur \in Listed'
    <3>1. pc = "start" => cur \in Listed /\ cur # eid
      BY <1>2 DEF IInv, StepOK
    <3> QED
      BY <1>1, <3>1, RemoveKeeps DEF Readers
  <2> QED
    BY <1>1, <2>1 DEF IInv, StepOK
<1> QED
  BY <1>1, <1>2, <1>3, RemoveStep DEF Readers

LEMMA ContainerExitedStep ==
  ASSUME IInv, ContainerExited
  PROVE  IInv'
<1>1. /\ events # <<>> /\ eid' = Head(events) /\ events' = Tail(events)
      /\ list' = list /\ docker' = docker /\ pc' = pc /\ cur' = cur
  BY DEF ContainerExited, loopVars
<1>2. views' \in [Readers -> Views]
  BY ViewOK DEF ContainerExited, Readers
<1>3. /\ events \in Seq(Ids) /\ Len(events) \in Nat /\ DOMAIN events = 1 .. Len(events)
      /\ \A i \in DOMAIN events : events[i] \in Ids /\ docker[events[i]] = "dead"
  BY LenProperties, ElementOfSeq DEF IInv, DataOK, EventsDead
<1>4. 1 \in DOMAIN events /\ eid' = events[1]
  BY <1>1, <1>3, EmptySeq
<1>5. /\ events' \in Seq(Ids) /\ DOMAIN events' = 1 .. Len(events) - 1
      /\ \A i \in 1 .. Len(events) - 1 : events'[i] = events[i + 1]
  BY <1>1, <1>3, HeadTailProperties, LenProperties
<1>6. EventsDead'
  <2> SUFFICES ASSUME NEW i \in DOMAIN events' PROVE docker'[events'[i]] = "dead"
    BY DEF EventsDead
  <2>1. i + 1 \in DOMAIN events /\ events'[i] = events[i + 1]
    BY <1>3, <1>5
  <2> QED
    BY <1>1, <1>3, <2>1
<1>7. HandledDead'
  BY <1>1, <1>3, <1>4 DEF HandledDead
<1>8. DataOK' /\ Distinct' /\ NoOrphan'
  BY <1>1, <1>2, <1>5 DEF IInv, DataOK, Distinct, NoOrphan, Listed
<1>9. StepOK'
  BY <1>1, StepKeeps
<1> QED
  BY <1>6, <1>7, <1>8, <1>9 DEF IInv

(* What the other goroutines do without touching list or containers. *)
LEMMA OutsideStep ==
  ASSUME IInv,
         \/ EventFind \/ EventDone \/ ImageUpdated \/ Stop
         \/ \E c \in Callers, t \in Targets : SetTarget(c, t)
         \/ \E s \in Setters : SetComponentGet(s) \/ \E v \in Versions : SetComponentSet(s, v)
         \/ UNCHANGED vars
  PROVE  IInv'
<1> USE DEF EventFind, EventDone, ImageUpdated, Stop, SetTarget, SetComponentGet,
            SetComponentSet, vars
<1>1. list' = list /\ docker' = docker /\ events' = events /\ pc' = pc /\ cur' = cur
  BY DEF containersVars, eventVars, loopVars
<1>2. views' \in [Readers -> Views]
  BY ViewOK DEF containersVars, IInv, DataOK, Readers
<1>3. HandledDead'
  BY <1>1 DEF eventVars, IInv, HandledDead
<1> QED
  BY <1>1, <1>2, <1>3, StepKeeps, StillStep

LEMMA StepInv == IInv /\ [Next]_vars => IInv'
<1> SUFFICES ASSUME IInv, [Next]_vars PROVE IInv'
  OBVIOUS
<1>1. CASE LoopStep
  BY <1>1, StillLoopStep, CreateStep, StartContainerStep, StopFailedStep, UnlistStep,
     FindStep, StoppedStep DEF LoopStep
<1>2. CASE EventStep
  BY <1>2, ContainerExitedStep, EventStoppedStep, EventRemoveStep, OutsideStep
  DEF EventStep
<1>3. CASE Exit \/ TakeWake \/ Tick \/ \E c \in Callers : TakeCaller(c)
  BY <1>3, StillLoopStep
<1>4. CASE \/ ImageUpdated \/ Stop \/ UNCHANGED vars
           \/ \E c \in Callers, t \in Targets : SetTarget(c, t)
           \/ \E s \in Setters :
                SetComponentGet(s) \/ \E v \in Versions : SetComponentSet(s, v)
  BY <1>4, OutsideStep
<1>5. CASE \E id \in Ids : Dies(id) \/ Drains(id)
  BY <1>5, DiesStep
<1> QED
  BY <1>1, <1>2, <1>3, <1>4, <1>5 DEF Next

LEMMA Inductive == Spec => []IInv
<1> QED
  BY InitInv, StepInv, PTL DEF Spec

(* Whatever the plans are, however the readings of the list are torn and
   whenever a container exits, one that runs is in the list
   (converger.go:221-254, 358-367). *)
THEOREM NoContainerIsLost == Spec => []NoOrphan
<1>1. IInv => NoOrphan
  BY DEF IInv
<1> QED
  BY <1>1, Inductive, PTL

(* The list never holds a container twice, and the container of an exit event
   that waits or is handled is not running: what the event goroutine removes
   is never a container that the run loop has just started
   (converger.go:152-182, 221-254). *)
THEOREM ExitsAreFinal == Spec => [](Distinct /\ EventsDead /\ HandledDead)
<1>1. IInv => Distinct /\ EventsDead /\ HandledDead
  BY DEF IInv
<1> QED
  BY <1>1, Inductive, PTL

-----------------------------------------------------------------------------
(* A reading of the list.                                                  *)

Elements(seq) == {seq[i] : i \in DOMAIN seq}
Rising(seq, pos) == \A i, j \in DOMAIN seq : i < j => pos[seq[i]] < pos[seq[j]]

(* v is what a reader sees of the list l, of which it has read the first at
   elements: the array's elements only ever move up. *)
Reading(l, v, at, pos) ==
  /\ v \in Seq(Ids) /\ at \in 0 .. Len(v) /\ Len(l) <= Len(v)
  /\ \A j, k \in DOMAIN v : j < k => pos[v[j]] <= pos[v[k]]
  /\ \A j \in DOMAIN l : pos[v[j]] <= pos[l[j]]
  /\ \A j \in DOMAIN v : at < j =>
       IF j <= Len(l) THEN v[j] = l[j] ELSE \A k \in DOMAIN l : pos[l[k]] <= pos[v[j]]

LEMMA FreshReading ==
  ASSUME NEW l \in Seq(Ids), NEW pos \in [Ids -> Nat], Rising(l, pos)
  PROVE  Reading(l, l, 0, pos)
<1>1. /\ Len(l) \in Nat /\ DOMAIN l = 1 .. Len(l) /\ \A i \in DOMAIN l : l[i] \in Ids
  BY LenProperties, ElementOfSeq
<1>2. \A i \in DOMAIN l : pos[l[i]] \in Nat
  BY <1>1
<1> QED
  BY <1>1, <1>2 DEF Reading, Rising

(* The rest of what a reader sees when the array becomes arr. *)
Overwritten(v, arr, i) ==
  [j \in DOMAIN v |-> IF j > i /\ j \in DOMAIN arr THEN arr[j] ELSE v[j]]

(* The k-th element of the list is removed when the reader has read i elements. *)
LEMMA TornReading ==
  ASSUME NEW l \in Seq(Ids), NEW pos \in [Ids -> Nat], Rising(l, pos),
         NEW v, NEW at, Reading(l, v, at, pos),
         NEW k \in 1 .. Len(l), NEW i \in at .. Len(v),
         NEW w, w = Overwritten(v, Append(Cut(l, k), l[Len(l)]), i)
  PROVE  /\ Rising(Cut(l, k), pos)
         /\ Reading(Cut(l, k), w, i, pos)
         /\ Elements(Cut(l, k)) = Elements(l) \ {l[k]}
         /\ \A c \in 1 .. Len(l) :
              c # k /\ l[c] \notin Elements(w) =>
                l[c] \notin Elements(v) \/ (c = i + 1 /\ k <= i)
         /\ \A c \in 1 .. Len(l) :
              c # k /\ l[c] \notin Elements(v) => c <= at
<1> DEFINE n == Len(l)
           u == Cut(l, k)
           a == Append(u, l[n])
<1>1. /\ n \in Nat /\ DOMAIN l = 1 .. n /\ \A j \in 1 .. n : l[j] \in Ids
      /\ k \in 1 .. n /\ v \in Seq(Ids) /\ Len(v) \in Nat /\ DOMAIN v = 1 .. Len(v)
      /\ \A j \in 1 .. Len(v) : v[j] \in Ids
      /\ n <= Len(v) /\ at \in 0 .. Len(v)
  BY LenProperties, ElementOfSeq DEF Reading
<1>2. i \in Nat /\ i <= Len(v) /\ at <= i /\ at \in Nat
  BY <1>1
<1>3. /\ u \in Seq(Ids) /\ Len(u) = n - 1 /\ DOMAIN u = 1 .. n - 1
      /\ \A j \in 1 .. n - 1 : u[j] = IF j < k THEN l[j] ELSE l[j + 1]
  BY CutElements
<1>4. l[n] \in Ids
  BY <1>1
<1> HIDE DEF u
<1>5. /\ a \in Seq(Ids) /\ Len(a) = n /\ DOMAIN a = 1 .. n
      /\ \A j \in 1 .. n - 1 : a[j] = u[j]
      /\ a[n] = l[n]
  <2>1. /\ a \in Seq(Ids) /\ Len(a) = Len(u) + 1
        /\ \A j \in 1 .. Len(u) : a[j] = u[j]
        /\ a[Len(u) + 1] = l[n]
    BY <1>3, <1>4, AppendProperties
  <2>2. Len(u) + 1 = n
    BY <1>1, <1>3
  <2>3. DOMAIN a = 1 .. Len(a)
    BY <2>1, LenProperties
  <2> QED
    BY <1>3, <2>1, <2>2, <2>3
<1> HIDE DEF a
<1>6. /\ DOMAIN w = 1 .. Len(v) /\ w = [j \in 1 .. Len(v) |-> w[j]]
      /\ \A j \in 1 .. Len(v) : w[j] = IF j > i /\ j \in 1 .. n THEN a[j] ELSE v[j]
  BY <1>1, <1>5 DEF u, a, n, Overwritten
<1> HIDE DEF n
<1>7. /\ \A j \in 1 .. n : pos[l[j]] \in Nat
      /\ \A j \in 1 .. Len(v) : pos[v[j]] \in Nat
  BY <1>1
<1>8. /\ \A j, m \in 1 .. n : j < m => pos[l[j]] < pos[l[m]]
      /\ \A j, m \in 1 .. Len(v) : j < m => pos[v[j]] <= pos[v[m]]
      /\ \A j \in 1 .. n : pos[v[j]] <= pos[l[j]]
      /\ \A j \in 1 .. n : at < j => v[j] = l[j]
      /\ \A j \in 1 .. Len(v), m \in 1 .. n : at < j /\ n < j => pos[l[m]] <= pos[v[j]]
  <2>1. \A j, m \in 1 .. n : j < m => pos[l[j]] < pos[l[m]]
    BY <1>1 DEF Rising
  <2>2. /\ \A j, m \in 1 .. Len(v) : j < m => pos[v[j]] <= pos[v[m]]
        /\ \A j \in 1 .. n : pos[v[j]] <= pos[l[j]]
    BY <1>1 DEF Reading
  <2>3. \A j \in 1 .. Len(v) : at < j =>
          IF j <= n THEN v[j] = l[j] ELSE \A m \in 1 .. n : pos[l[m]] <= pos[v[j]]
    BY <1>1 DEF Reading, n
  <2>4. ASSUME NEW j \in 1 .. n, at < j PROVE v[j] = l[j]
    <3>1. j \in 1 .. Len(v) /\ j <= n
      BY <1>1
    <3> QED
      BY <2>3, <2>4, <3>1
  <2>5. ASSUME NEW j \in 1 .. Len(v), at < j, n < j
        PROVE  \A m \in 1 .. n : pos[l[m]] <= pos[v[j]]
    <3>1. ~ (j <= n)
      BY <1>1, <2>5
    <3> QED
      BY <2>3, <2>5, <3>1
  <2> QED
    BY <2>1, <2>2, <2>4, <2>5
(* The array's elements have moved up. *)
<1>9. ASSUME NEW j \in 1 .. n - 1
      PROVE  /\ u[j] = l[IF j < k THEN j ELSE j + 1]
             /\ (IF j < k THEN j ELSE j + 1) \in 1 .. n
             /\ pos[u[j]] \in Nat /\ pos[l[j]] <= pos[u[j]] /\ pos[u[j]] <= pos[l[n]]
  <2>1. j \in 1 .. n /\ j + 1 \in 1 .. n /\ n \in 1 .. n /\ j < n
    BY <1>1
  <2>2. u[j] = l[j] \/ u[j] = l[j + 1]
    BY <1>3
  <2>3. pos[l[j]] < pos[l[j + 1]] /\ pos[l[j]] < pos[l[n]]
    BY <1>8, <2>1
  <2>4. pos[l[j + 1]] <= pos[l[n]]
    <3>1. CASE j + 1 = n
      BY <1>7, <2>1, <3>1
    <3>2. CASE j + 1 < n
      <4>1. pos[l[j + 1]] < pos[l[n]]
        BY <1>8, <2>1, <3>2
      <4>2. pos[l[j + 1]] \in Nat /\ pos[l[n]] \in Nat
        BY <1>7, <2>1
      <4> QED
        BY <4>1, <4>2
    <3> QED
      BY <1>1, <3>1, <3>2
  <2>5. pos[l[j]] \in Nat /\ pos[l[j + 1]] \in Nat /\ pos[l[n]] \in Nat
    BY <1>7, <2>1
  <2>6. /\ u[j] = l[IF j < k THEN j ELSE j + 1]
        /\ (IF j < k THEN j ELSE j + 1) \in 1 .. n
    BY <1>3, <2>1
  <2>7. pos[u[j]] \in Nat /\ pos[l[j]] <= pos[u[j]] /\ pos[u[j]] <= pos[l[n]]
    <3>1. CASE u[j] = l[j]
      BY <2>3, <2>5, <3>1
    <3>2. CASE u[j] = l[j + 1]
      BY <2>3, <2>4, <2>5, <3>2
    <3> QED
      BY <2>2, <3>1, <3>2
  <2> QED
    BY <2>6, <2>7
<1>10. ASSUME NEW j \in 1 .. n
       PROVE  pos[a[j]] \in Nat /\ pos[l[j]] <= pos[a[j]] /\ pos[a[j]] <= pos[l[n]]
  <2>1. CASE j = n
    BY <1>5, <1>7, <2>1
  <2>2. CASE j \in 1 .. n - 1
    BY <1>5, <1>9, <2>2
  <2> QED
    BY <1>1, <2>1, <2>2
<1>11. Rising(u, pos)
  <2> SUFFICES ASSUME NEW j \in 1 .. n - 1, NEW m \in 1 .. n - 1, j < m
               PROVE  pos[u[j]] < pos[u[m]]
    BY <1>3 DEF Rising
  <2> DEFINE jj == IF j < k THEN j ELSE j + 1
             mm == IF m < k THEN m ELSE m + 1
  <2>1. jj < mm /\ jj \in 1 .. n /\ mm \in 1 .. n
    BY <1>1
  <2>2. u[j] = l[jj] /\ u[m] = l[mm]
    BY <1>9
  <2> QED
    BY <1>8, <2>1, <2>2
<1>12. \A j, m \in 1 .. n : j < m => pos[a[j]] <= pos[a[m]]
  <2> SUFFICES ASSUME NEW j \in 1 .. n, NEW m \in 1 .. n, j < m
               PROVE  pos[a[j]] <= pos[a[m]]
    OBVIOUS
  <2>1. j \in 1 .. n - 1
    BY <1>1
  <2>2. CASE m = n
    BY <1>5, <1>9, <2>1, <2>2
  <2>3. CASE m \in 1 .. n - 1
    <3>1. pos[u[j]] < pos[u[m]] /\ a[j] = u[j] /\ a[m] = u[m]
      BY <1>3, <1>5, <1>11, <2>1, <2>3 DEF Rising
    <3>2. pos[u[j]] \in Nat /\ pos[u[m]] \in Nat
      BY <1>9, <2>1, <2>3
    <3> QED
      BY <3>1, <3>2
  <2> QED
    BY <1>1, <2>2, <2>3
<1>13. w \in Seq(Ids) /\ Len(w) = Len(v)
  <2>1. w \in [1 .. Len(v) -> Ids]
    <3>1. \A j \in 1 .. Len(v) : w[j] \in Ids
      <4>1. \A j \in 1 .. n : a[j] \in Ids
        BY <1>5, ElementOfSeq
      <4> QED
        BY <1>1, <1>6, <4>1
    <3> QED
      BY <1>6, <3>1
  <2>2. Len(v) \in Nat
    BY <1>1
  <2>3. w \in Seq(Ids)
    BY <2>1, <2>2, SeqDef
  <2>4. Len(w) = Len(v)
    BY <1>6, <2>2, <2>3, LenProperties
  <2> QED
    BY <2>3, <2>4
<1>14. \A j, m \in 1 .. Len(v) : j < m => pos[w[j]] <= pos[w[m]]
  <2> SUFFICES ASSUME NEW j \in 1 .. Len(v), NEW m \in 1 .. Len(v), j < m
               PROVE  pos[w[j]] <= pos[w[m]]
    OBVIOUS
  <2>1. CASE m > i /\ m \in 1 .. n
    <3>1. j \in 1 .. n /\ w[m] = a[m]
      BY <1>1, <1>6, <2>1
    <3>2. CASE j > i
      BY <1>6, <1>12, <2>1, <3>1, <3>2
    <3>3. CASE ~ (j > i)
      <4>1. w[j] = v[j]
        BY <1>6, <3>3
      <4>2. pos[v[j]] <= pos[l[j]] /\ pos[l[j]] < pos[l[m]] /\ pos[l[m]] <= pos[a[m]]
        BY <1>8, <1>10, <2>1, <3>1
      <4>3. /\ pos[v[j]] \in Nat /\ pos[l[j]] \in Nat /\ pos[l[m]] \in Nat
            /\ pos[a[m]] \in Nat
        BY <1>7, <1>10, <2>1, <3>1
      <4>4. pos[v[j]] <= pos[a[m]]
        <5>1. \A x, y, z, r \in Nat : x <= y /\ y < z /\ z <= r => x <= r
          OBVIOUS
        <5> QED
          BY <4>2, <4>3, <5>1
      <4> QED
        BY <3>1, <4>1, <4>4
    <3> QED
      BY <3>2, <3>3
  <2>2. CASE ~ (m > i /\ m \in 1 .. n)
    <3>1. w[m] = v[m]
      BY <1>6, <2>2
    <3>2. CASE j > i /\ j \in 1 .. n
      <4>1. w[j] = a[j] /\ n < m /\ at < m /\ n \in 1 .. n
        <5>1. w[j] = a[j]
          BY <1>6, <3>2
        <5> QED
          BY <1>1, <1>2, <2>2, <3>2, <5>1
      <4>2. pos[a[j]] <= pos[l[n]] /\ pos[l[n]] <= pos[v[m]]
        BY <1>8, <1>10, <3>2, <4>1
      <4>3. pos[a[j]] \in Nat /\ pos[l[n]] \in Nat /\ pos[v[m]] \in Nat
        BY <1>7, <1>10, <3>2, <4>1
      <4>4. pos[a[j]] <= pos[v[m]]
        BY <4>2, <4>3
      <4> QED
        BY <3>1, <4>1, <4>4
    <3>3. CASE ~ (j > i /\ j \in 1 .. n)
      BY <1>6, <1>8, <3>1, <3>3
    <3> QED
      BY <3>2, <3>3
  <2> QED
    BY <2>1, <2>2
<1>15. \A j \in 1 .. n - 1 : pos[w[j]] <= pos[u[j]]
  <2> SUFFICES ASSUME NEW j \in 1 .. n - 1 PROVE pos[w[j]] <= pos[u[j]]
    OBVIOUS
  <2>1. j \in 1 .. n /\ j \in 1 .. Len(v)
    BY <1>1
  <2>2. CASE j > i
    <3>1. w[j] = u[j] /\ pos[u[j]] \in Nat
      BY <1>5, <1>6, <1>9, <2>1, <2>2
    <3>2. pos[u[j]] <= pos[u[j]]
      BY <3>1
    <3> QED
      BY <3>1, <3>2
  <2>3. CASE ~ (j > i)
    <3>1. w[j] = v[j] /\ pos[v[j]] <= pos[l[j]] /\ pos[l[j]] <= pos[u[j]]
      BY <1>6, <1>8, <1>9, <2>1, <2>3
    <3>2. pos[v[j]] \in Nat /\ pos[l[j]] \in Nat /\ pos[u[j]] \in Nat
      BY <1>7, <1>9, <2>1
    <3>3. pos[v[j]] <= pos[u[j]]
      BY <3>1, <3>2
    <3> QED
      BY <3>1, <3>3
  <2> QED
    BY <2>2, <2>3
<1>16. ASSUME NEW j \in 1 .. Len(v), i < j
       PROVE  IF j <= n - 1 THEN w[j] = u[j] ELSE \A m \in 1 .. n - 1 : pos[u[m]] <= pos[w[j]]
  <2>1. CASE j \in 1 .. n - 1
    <3>1. j \in 1 .. n /\ j <= n - 1
      BY <1>1, <2>1
    <3>2. w[j] = a[j] /\ a[j] = u[j]
      BY <1>5, <1>6, <1>16, <2>1, <3>1
    <3> QED
      BY <3>1, <3>2
  <2>2. CASE j = n
    <3>1. j \in 1 .. n /\ ~ (j <= n - 1)
      BY <1>1, <2>2
    <3>2. w[j] = l[n]
      BY <1>5, <1>6, <1>16, <2>2, <3>1
    <3> QED
      BY <1>9, <3>1, <3>2
  <2>3. CASE n < j
    <3>1. j \notin 1 .. n /\ ~ (j <= n - 1) /\ at < j
      BY <1>1, <1>2, <1>16, <2>3
    <3>2. w[j] = v[j]
      BY <1>6, <3>1
    <3>3. ASSUME NEW m \in 1 .. n - 1 PROVE pos[u[m]] <= pos[v[j]]
      <4>1. n \in 1 .. n
        BY <1>1
      <4>2. pos[l[n]] <= pos[v[j]] /\ pos[u[m]] <= pos[l[n]]
        BY <1>8, <1>9, <2>3, <3>1, <4>1
      <4>3. pos[l[n]] \in Nat /\ pos[u[m]] \in Nat /\ pos[v[j]] \in Nat
        BY <1>7, <1>9, <4>1
      <4>4. \A x, y, z \in Nat : x <= y /\ y <= z => x <= z
        OBVIOUS
      <4> QED
        BY <4>2, <4>3, <4>4
    <3> QED
      BY <3>1, <3>2, <3>3
  <2>4. j \in 1 .. n - 1 \/ j = n \/ n < j
    BY <1>1
  <2> QED
    BY <2>1, <2>2, <2>3, <2>4
<1>17. Reading(u, w, i, pos)
  <2>1. i \in 0 .. Len(w) /\ Len(u) <= Len(w)
    BY <1>1, <1>2, <1>3, <1>13
  <2>2. DOMAIN w = 1 .. Len(v)
    BY <1>6
  <2> QED
    BY <1>3, <1>13, <1>14, <1>15, <1>16, <2>1, <2>2 DEF Reading
<1>18. Elements(u) = Elements(l) \ {l[k]}
  <2>1. ASSUME NEW j \in 1 .. n - 1 PROVE u[j] \in Elements(l) \ {l[k]}
    <3> DEFINE jj == IF j < k THEN j ELSE j + 1
    <3>1. jj \in 1 .. n /\ jj # k /\ (jj < k \/ k < jj)
      BY <1>1
    <3>2. u[j] = l[jj]
      BY <1>9
    <3> HIDE DEF jj
    <3>3. l[jj] # l[k]
      BY <1>1, <1>7, <1>8, <3>1
    <3> QED
      BY <1>1, <3>1, <3>2, <3>3 DEF Elements
  <2>2. ASSUME NEW j \in 1 .. n, l[j] # l[k] PROVE l[j] \in Elements(u)
    <3>1. CASE j < k
      <4>1. j \in 1 .. n - 1 /\ u[j] = l[j]
        BY <1>1, <1>3, <3>1
      <4> QED
        BY <1>3, <4>1 DEF Elements
    <3>2. CASE j > k
      <4>1. j - 1 \in 1 .. n - 1 /\ ~ (j - 1 < k) /\ (j - 1) + 1 = j
        BY <1>1, <3>2
      <4>2. u[j - 1] = l[j]
        BY <1>3, <4>1
      <4> QED
        BY <1>3, <4>1, <4>2 DEF Elements
    <3> QED
      BY <1>1, <2>2, <3>1, <3>2
  <2> QED
    BY <1>1, <1>3, <2>1, <2>2 DEF Elements
<1>19. ASSUME NEW c \in 1 .. n, c # k, l[c] \in Elements(v), ~ (c = i + 1 /\ k <= i)
       PROVE  l[c] \in Elements(w)
  <2>1. PICK j \in 1 .. Len(v) : v[j] = l[c]
    BY <1>1, <1>19 DEF Elements
  <2>2. CASE ~ (j > i /\ j \in 1 .. n)
    BY <1>6, <2>1, <2>2 DEF Elements
  <2>3. CASE j > i /\ j \in 1 .. n
    <3>1. v[j] = l[j]
      BY <1>2, <1>8, <2>3
    <3>2. j = c
      <4>1. pos[l[j]] = pos[l[c]] /\ pos[l[c]] \in Nat /\ pos[l[j]] \in Nat
        BY <1>7, <2>1, <2>3, <3>1
      <4>2. ~ (j < c) /\ ~ (c < j)
        BY <1>8, <2>3, <4>1
      <4> QED
        BY <2>3, <4>2
    <3> DEFINE d == IF c < k THEN c ELSE c - 1
    <3>3. d \in 1 .. n - 1 /\ d > i /\ (IF d < k THEN d ELSE d + 1) = c
      BY <1>1, <1>2, <1>19, <2>3, <3>2
    <3> HIDE DEF d
    <3>4. u[d] = l[c]
      BY <1>9, <3>3
    <3>5. d \in 1 .. Len(v) /\ d \in 1 .. n
      <4>1. n \in Nat /\ Len(v) \in Nat /\ n <= Len(v)
        BY <1>1
      <4> QED
        BY <3>3, <4>1
    <3>6. w[d] = u[d]
      BY <1>5, <1>6, <3>3, <3>5
    <3> QED
      BY <1>6, <3>4, <3>5, <3>6 DEF Elements
  <2> QED
    BY <2>2, <2>3
<1>20. ASSUME NEW c \in 1 .. n, l[c] \notin Elements(v) PROVE c <= at
  <2>1. c \in 1 .. Len(v) /\ v[c] # l[c]
    BY <1>1, <1>20 DEF Elements
  <2> QED
    BY <1>1, <1>8, <2>1
<1> QED
  BY <1>11, <1>17, <1>18, <1>19, <1>20 DEF u, n

-----------------------------------------------------------------------------
(* How many containers there are.                                          *)

StartPcs == {"lock", "start", "assign", "health", "fail", "unlist"}
StopPcs == {"find", "stopping", "remove"}
Adding == IF pc \in StartPcs \ {"lock"} THEN 1 ELSE 0

IsTarget(x) == x = [ver |-> x.ver, count |-> x.count] /\ x.count \in Nat
TargetsOK ==
  /\ IsTarget(target)
  /\ copy = [s \in Setters |-> copy[s]]
  /\ \A s \in Setters : copy[s] # None => IsTarget(copy[s])

BaseOK ==
  /\ base = [len |-> base.len, count |-> base.count, order |-> base.order, gone |-> base.gone]
  /\ base.len \in Nat /\ base.count \in Nat /\ base.gone \in Nat

(* While plan reads the list, at most base.gone containers escape it. *)
ScanAt(pos) ==
  /\ pos \in [Ids -> Nat] /\ Rising(list, pos)
  /\ Reading(list, views["run"].seq, views["run"].at, pos)
  /\ Len(views["run"].seq) = base.len
  /\ base.order = OrderOf[Head(steps).ver]
  /\ Cardinality(Listed \ Seen("run")) <= base.gone

(* The containers that the rest of the plan does not stop: those it kept, those
   that escaped, and those that were started. *)
Keeps(cs, t, p) == base.gone + (t.count - ToStart(cs, t)) + Begun(cs, t, p)

PlanAt(cs, t, p, pos) ==
  /\ cs \in Seq({cs[i] : i \in DOMAIN cs}) /\ IdsIn(cs) \subseteq Ids
  /\ Len(cs) = base.len /\ t.count = base.count
  /\ StartsFirst(t) <=> base.order = "startstop"
  /\ p \in 0 .. Len(Plan(cs, t).steps) /\ steps = After(Plan(cs, t).steps, p)
  /\ pos \in [Ids -> Nat] /\ Rising(list, pos)
  /\ \A k, l \in p - Begun(cs, t, p) + 1 .. Len(StopsOf(cs, t)) :
       k < l => pos[StopsOf(cs, t)[k].id] <= pos[StopsOf(cs, t)[l].id]
  /\ Cardinality(Listed \ Later(cs, t, p)) <= Keeps(cs, t, p) + Adding

(* The step that the run loop is in.  When it looks for a container and a
   removal hides it, that removal made room for it. *)
StepAt(cs, t, p, pos) ==
  /\ pc \in StartPcs => steps # <<>> /\ Head(steps).op = "start"
  /\ pc \in StopPcs => steps # <<>> /\ Head(steps).op = "stop" /\ cur = Head(steps).id
  /\ pc = "find" =>
       /\ Reading(list, views["run"].seq, views["run"].at, pos)
       /\ cur \in Listed /\ cur \notin Seen("run") =>
            Cardinality(Listed \ Later(cs, t, p)) < Keeps(cs, t, p)

CountInv ==
  /\ TargetsOK
  /\ pc \in {"select", "exited", "scan", "next"} \cup StartPcs \cup StopPcs
  /\ pc \notin {"select", "exited"} => BaseOK
  /\ pc = "scan" => \E pos : ScanAt(pos)
  /\ pc \in {"next"} \cup StartPcs \cup StopPcs =>
       \E cs, t, p, pos : PlanAt(cs, t, p, pos) /\ StepAt(cs, t, p, pos)

LEMMA ListedCount ==
  ASSUME IInv
  PROVE  /\ IsFiniteSet(Listed) /\ Cardinality(Listed) = Len(list) /\ Len(list) \in Nat
         /\ Listed \subseteq Ids /\ Listed = Elements(list)
<1>1. /\ list \in Seq(Ids) /\ Distinct
  BY DEF IInv, DataOK
<1>2. Len(list) \in Nat /\ DOMAIN list = 1 .. Len(list) /\ \A i \in DOMAIN list : list[i] \in Ids
  BY <1>1, LenProperties, ElementOfSeq
<1> DEFINE f == [i \in 1 .. Len(list) |-> list[i]]
<1>3. f \in [1 .. Len(list) -> Listed] /\ \A y \in Listed : \E i \in 1 .. Len(list) : f[i] = y
  BY <1>2 DEF Listed
<1>4. \A i, j \in 1 .. Len(list) : f[i] = f[j] => i = j
  BY <1>1, <1>2 DEF Distinct
<1> HIDE DEF f
<1>5. f \in Surjection(1 .. Len(list), Listed) /\ f \in Injection(1 .. Len(list), Listed)
  BY <1>3, <1>4 DEF Surjection, Injection, IsInjective
<1>6. IsFiniteSet(1 .. Len(list)) /\ Cardinality(1 .. Len(list)) = Len(list)
  <2>1. /\ IsFiniteSet(1 .. Len(list))
        /\ Cardinality(1 .. Len(list)) = IF 1 > Len(list) THEN 0 ELSE Len(list) - 1 + 1
    BY <1>2, FS_Interval
  <2> QED
    BY <1>2, <2>1
<1>7. IsFiniteSet(Listed) /\ Cardinality(Listed) = Len(list)
  BY <1>5, <1>6, FS_Surjection
<1> QED
  BY <1>2, <1>7 DEF Listed, Elements

(* Numbers of a plan. *)
LEMMA PlanNumbers ==
  ASSUME BaseOK, NEW cs, NEW t, NEW p, NEW pos, PlanAt(cs, t, p, pos)
  PROVE  /\ t.count \in Nat /\ p \in Nat /\ Begun(cs, t, p) \in Nat
         /\ Len(StopsOf(cs, t)) \in Nat /\ p - Begun(cs, t, p) \in 0 .. Len(StopsOf(cs, t))
         /\ t.count - ToStart(cs, t) = Len(cs) - Len(StopsOf(cs, t))
         /\ t.count - ToStart(cs, t) \in Nat
         /\ Keeps(cs, t, p) \in Nat
         /\ Len(Plan(cs, t).steps) \in Nat
         /\ cs \in Seq({cs[i] : i \in DOMAIN cs})
<1>1. /\ cs \in Seq({cs[i] : i \in DOMAIN cs}) /\ t.count \in Nat
      /\ p \in 0 .. Len(Plan(cs, t).steps) /\ base.gone \in Nat
  BY DEF PlanAt, BaseOK
<1>2. /\ ToStart(cs, t) \in 0 .. t.count /\ Len(StopsOf(cs, t)) \in 0 .. Len(cs)
      /\ Len(cs) \in Nat /\ Len(cs) + ToStart(cs, t) - Len(StopsOf(cs, t)) = t.count
      /\ Len(Plan(cs, t).steps) = ToStart(cs, t) + Len(StopsOf(cs, t))
  BY <1>1, PlanShape
<1>3. /\ Begun(cs, t, p) \in 0 .. ToStart(cs, t)
      /\ p - Begun(cs, t, p) \in 0 .. Len(StopsOf(cs, t))
  BY <1>1, PlanBalance
<1>4. ToStart(cs, t) \in Nat /\ Len(StopsOf(cs, t)) \in Nat /\ ToStart(cs, t) <= t.count
  BY <1>1, <1>2
<1>5. Begun(cs, t, p) \in Nat /\ Len(Plan(cs, t).steps) \in Nat /\ p \in Nat
  BY <1>1, <1>2, <1>3, <1>4
<1>6. /\ t.count - ToStart(cs, t) = Len(cs) - Len(StopsOf(cs, t))
      /\ t.count - ToStart(cs, t) \in Nat
  BY <1>1, <1>2, <1>4
<1>7. Keeps(cs, t, p) \in Nat
  BY <1>1, <1>5, <1>6 DEF Keeps
<1> QED
  BY <1>1, <1>3, <1>4, <1>5, <1>6, <1>7

LEMMA CountImplies == IInv /\ CountInv => MemoryBounded
<1> SUFFICES ASSUME IInv, CountInv, pc \notin {"select", "exited"}
             PROVE  Len(list) <= (IF base.len > base.count THEN base.len ELSE base.count)
                                 + (IF base.order = "startstop" THEN 1 ELSE 0) + base.gone
  BY DEF MemoryBounded
<1>1. BaseOK /\ Len(list) \in Nat
  BY ListedCount DEF CountInv
<1>2. CASE pc = "scan"
  <2>1. Len(list) <= base.len
    BY <1>2 DEF CountInv, ScanAt, Reading
  <2> QED
    BY <1>1, <2>1 DEF BaseOK
<1>3. CASE pc \in {"next"} \cup StartPcs \cup StopPcs
  <2>1. PICK cs, t, p, pos : PlanAt(cs, t, p, pos) /\ StepAt(cs, t, p, pos)
    BY <1>3 DEF CountInv
  <2> DEFINE m == Begun(cs, t, p)
             q == StopsOf(cs, t)
             later == Later(cs, t, p)
             kept == Listed \ later
             limit == (IF base.len > base.count THEN base.len ELSE base.count)
                      + (IF base.order = "startstop" THEN 1 ELSE 0)
  <2>2. /\ t.count \in Nat /\ p \in Nat /\ m \in Nat /\ Len(q) \in Nat
        /\ t.count - ToStart(cs, t) = Len(cs) - Len(q)
        /\ cs \in Seq({cs[i] : i \in DOMAIN cs}) /\ p \in 0 .. Len(Plan(cs, t).steps)
        /\ Len(cs) = base.len /\ t.count = base.count
        /\ StartsFirst(t) <=> base.order = "startstop"
        /\ Cardinality(kept) <= Keeps(cs, t, p) + Adding
    BY <1>1, <2>1, PlanNumbers DEF PlanAt
  <2>3. IsFiniteSet(later) /\ Cardinality(later) <= Len(q) - (p - m)
    BY <2>2, LaterCount
  <2> HIDE DEF m, q, limit
  <2>4. /\ IsFiniteSet(kept) /\ IsFiniteSet(Listed)
        /\ Cardinality(Listed) <= Cardinality(kept) + Cardinality(later)
    <3>1. IsFiniteSet(Listed) /\ IsFiniteSet(kept)
      BY ListedCount, FS_Subset
    <3> HIDE DEF kept, later
    <3>2. IsFiniteSet(kept \cup later)
          /\ Cardinality(kept \cup later)
             = Cardinality(kept) + Cardinality(later) - Cardinality(kept \cap later)
      BY <2>3, <3>1, FS_Union
    <3>3. /\ Cardinality(kept) \in Nat /\ Cardinality(later) \in Nat
          /\ Cardinality(kept \cap later) \in Nat /\ Cardinality(Listed) \in Nat
      <4>1. IsFiniteSet(kept \cap later)
        BY <3>1, FS_Intersection
      <4> QED
        BY <2>3, <3>1, <4>1, FS_CardinalityType
    <3>4. Listed \subseteq kept \cup later
      BY DEF kept
    <3>5. Cardinality(Listed) <= Cardinality(kept \cup later)
      BY <3>2, <3>4, FS_Subset
    <3> QED
      BY <3>1, <3>2, <3>3, <3>5
  <2> HIDE DEF kept, later
  <2>5. Cardinality(kept) \in Nat /\ Cardinality(later) \in Nat
    BY <2>3, <2>4, FS_CardinalityType
  <2>6. Keeps(cs, t, p) = base.gone + (Len(cs) - Len(q)) + m
    BY <2>2 DEF Keeps, m
  <2>7. Len(list) <= base.gone + (Len(cs) + 2 * m - p) + Adding
    <3>1. Len(list) <= Cardinality(kept) + Cardinality(later)
      BY <2>4, ListedCount
    <3>2. Adding \in Nat /\ base.gone \in Nat /\ Len(cs) \in Nat
      BY <1>1, <2>2 DEF Adding, BaseOK
    <3>3. /\ Cardinality(later) <= Len(q) - (p - m)
          /\ Cardinality(kept) <= base.gone + (Len(cs) - Len(q)) + m + Adding
      BY <2>2, <2>3, <2>6
    <3>4. \A l, k, r, g, n, z, y, x, w \in Nat :
            l <= k + r /\ r <= z - (y - x) /\ k <= g + (n - z) + x + w
              => l <= g + (n + 2 * x - y) + w
      OBVIOUS
    <3> HIDE DEF Adding
    <3> QED
      BY <1>1, <2>2, <2>5, <3>1, <3>2, <3>3, <3>4
  <2>8. ASSUME NEW n \in 0 .. Len(Plan(cs, t).steps)
         PROVE  Len(cs) + 2 * Begun(cs, t, n) - n <= limit
    <3>1. Len(cs) + 2 * Begun(cs, t, n) - n
            <= (IF Len(cs) > t.count THEN Len(cs) ELSE t.count)
               + (IF StartsFirst(t) THEN 1 ELSE 0)
      BY <2>2, PlanBalance
    <3> QED
      BY <2>2, <3>1 DEF limit
  <2>9. Len(cs) + 2 * m - p + Adding <= limit
    <3>1. CASE Adding = 0
      <4>1. Len(cs) + 2 * m - p <= limit
        BY <2>2, <2>8 DEF m
      <4> QED
        BY <1>1, <2>2, <3>1, <4>1 DEF BaseOK
    <3>2. CASE pc \in StartPcs \ {"lock"}
      <4>1. steps # <<>> /\ Head(steps).op = "start" /\ steps = After(Plan(cs, t).steps, p)
        BY <2>1, <3>2 DEF StepAt, PlanAt
      <4>2. Plan(cs, t).steps \in Seq(StopSteps(cs) \cup StartSteps(t))
        BY <2>2, PlanShape
      <4>3. p < Len(Plan(cs, t).steps) /\ Head(steps) = Plan(cs, t).steps[p + 1]
        <5> DEFINE S == StopSteps(cs) \cup StartSteps(t)
                   s == Plan(cs, t).steps
        <5>1. s \in Seq(S) /\ p \in 0 .. Len(s) /\ After(s, p) # <<>> /\ Len(s) \in Nat
          BY <2>2, <4>1, <4>2, LenProperties
        <5> HIDE DEF S, s
        <5>2. p < Len(s) /\ Head(After(s, p)) = s[p + 1]
          BY <5>1, AfterElements
        <5> QED
          BY <4>1, <5>2 DEF s
      <4>4. Begun(cs, t, p + 1) = m + 1
        BY <2>2, <4>1, <4>3, LaterStep DEF m
      <4>5. p + 1 \in 0 .. Len(Plan(cs, t).steps)
        BY <2>2, <4>3
      <4>6. Len(cs) + 2 * (m + 1) - (p + 1) <= limit
        BY <2>8, <4>4, <4>5
      <4>7. Adding = 1
        BY <3>2 DEF Adding
      <4> QED
        BY <1>1, <2>2, <4>6, <4>7 DEF BaseOK
    <3> QED
      BY <3>1, <3>2 DEF Adding
  <2>10. Adding \in Nat /\ base.gone \in Nat /\ Len(cs) \in Nat /\ limit \in Nat
    BY <1>1, <2>2 DEF Adding, BaseOK, limit
  <2>11. Len(list) <= limit + base.gone
    <3> HIDE DEF Adding
    <3> QED
      BY <1>1, <2>2, <2>7, <2>9, <2>10
  <2> QED
    BY <1>1, <2>10, <2>11 DEF limit
<1>4. pc \in {"scan", "next"} \cup StartPcs \cup StopPcs
  BY DEF CountInv
<1> QED
  BY <1>2, <1>3, <1>4

LEMMA CountInit == Init => CountInv
<1> SUFFICES ASSUME Init PROVE CountInv
  OBVIOUS
<1>1. /\ target = [ver |-> CHOOSE v \in Versions : TRUE, count |-> 0]
      /\ copy = [s \in Setters |-> None] /\ pc = "select"
  BY DEF Init
<1>2. IsTarget(target)
  BY <1>1 DEF IsTarget
<1>3. TargetsOK
  BY <1>1, <1>2 DEF TargetsOK
<1> QED
  BY <1>1, <1>3 DEF CountInv, StartPcs, StopPcs

(* A step that the run loop has no part in and that leaves the list alone. *)
LEMMA CountStands ==
  ASSUME CountInv, TargetsOK', list' = list, base' = base, steps' = steps, pc' = pc, cur' = cur,
         views'["run"] = views["run"]
  PROVE  CountInv'
<1>1. Listed' = Listed /\ Seen("run")' = Seen("run") /\ Adding' = Adding
  BY DEF Listed, Seen, Adding
<1>2. ASSUME NEW pos, ScanAt(pos) PROVE ScanAt(pos)'
  BY <1>1, <1>2 DEF ScanAt
<1>3. ASSUME NEW cs, NEW t, NEW p, NEW pos, PlanAt(cs, t, p, pos), StepAt(cs, t, p, pos)
      PROVE  PlanAt(cs, t, p, pos)' /\ StepAt(cs, t, p, pos)'
  BY <1>1, <1>3 DEF PlanAt, StepAt, Keeps
<1>4. pc' = "scan" => \E pos : ScanAt(pos)'
  BY <1>2 DEF CountInv
<1>5. pc' \in {"next"} \cup StartPcs \cup StopPcs =>
        \E cs, t, p, pos : PlanAt(cs, t, p, pos)' /\ StepAt(cs, t, p, pos)'
  BY <1>3 DEF CountInv
<1> QED
  BY <1>4, <1>5 DEF CountInv, BaseOK

LEMMA CountRests ==
  ASSUME TargetsOK', pc' \in {"select", "exited"}
  PROVE  CountInv'
BY DEF CountInv, StartPcs, StopPcs

(* The run loop is in the middle of a step. *)
LEMMA CountGoesOn ==
  ASSUME CountInv, TargetsOK', list' = list, base' = base, steps' = steps,
         \/ pc \in StartPcs \ {"lock"} /\ pc' \in StartPcs \ {"lock"}
         \/ pc \in StopPcs /\ pc' \in {"stopping", "remove"} /\ cur' = cur
  PROVE  CountInv'
<1>1. pc \in {"next"} \cup StartPcs \cup StopPcs /\ pc' \in StartPcs \cup StopPcs
      /\ pc' \notin {"scan", "next", "find"}
  BY DEF StartPcs, StopPcs
<1>2. PICK cs, t, p, pos : PlanAt(cs, t, p, pos) /\ StepAt(cs, t, p, pos)
  BY <1>1 DEF CountInv
<1>3. Listed' = Listed /\ Adding' = Adding
  BY DEF Listed, Adding, StartPcs, StopPcs
<1>4. PlanAt(cs, t, p, pos)'
  BY <1>2, <1>3 DEF PlanAt, Keeps
<1>5. StepAt(cs, t, p, pos)'
  BY <1>1, <1>2 DEF StepAt, StartPcs, StopPcs
<1> QED
  BY <1>1, <1>4, <1>5 DEF CountInv, BaseOK, StartPcs, StopPcs

LEMMA CountNextStep ==
  ASSUME IInv, CountInv, NextStep
  PROVE  CountInv'
<1>1. /\ pc = "next" /\ steps # <<>> /\ list' = list /\ base' = base /\ steps' = steps
      /\ target' = target /\ copy' = copy
      /\ \/ Head(steps).op = "start" /\ pc' = "lock"
         \/ /\ Head(steps).op # "start" /\ pc' = "find" /\ cur' = Head(steps).id
            /\ views' = [views EXCEPT !["run"] = [seq |-> list, at |-> 0]]
  BY DEF NextStep, callVars
<1>2. PICK cs, t, p, pos : PlanAt(cs, t, p, pos) /\ StepAt(cs, t, p, pos)
  BY <1>1 DEF CountInv
<1>3. /\ Listed' = Listed /\ Adding' = Adding /\ TargetsOK' /\ BaseOK /\ BaseOK'
  BY <1>1 DEF Listed, Adding, StartPcs, TargetsOK, CountInv, BaseOK
<1>4. PlanAt(cs, t, p, pos)'
  BY <1>1, <1>2, <1>3 DEF PlanAt, Keeps
<1>5. CASE pc' = "lock"
  <2>1. StepAt(cs, t, p, pos)'
    BY <1>1, <1>5 DEF StepAt, StartPcs, StopPcs
  <2> QED
    BY <1>3, <1>4, <1>5, <2>1 DEF CountInv, StartPcs, StopPcs
<1>6. CASE pc' = "find"
  <2>1. list \in Seq(Ids) /\ views'["run"] = [seq |-> list, at |-> 0]
    <3>1. views \in [Readers -> Views] /\ "run" \in Readers
      BY DEF IInv, DataOK, Readers
    <3> QED
      BY <1>1, <1>6, <3>1 DEF IInv, DataOK
  <2>2. Reading(list', views'["run"].seq, views'["run"].at, pos)
    BY <1>1, <1>2, <2>1, FreshReading DEF PlanAt
  <2>3. Seen("run")' = Listed
    BY <2>1 DEF Seen, Listed
  <2>4. Head(steps).op = "stop"
    <3> DEFINE S == StopSteps(cs) \cup StartSteps(t)
               s == Plan(cs, t).steps
    <3>1. /\ s \in Seq(S) /\ p \in 0 .. Len(s) /\ steps = After(s, p)
      BY <1>2, <1>3, PlanNumbers, PlanShape DEF PlanAt
    <3> HIDE DEF S, s
    <3>2. steps \in Seq(S)
      BY <3>1, AfterElements
    <3>3. Head(steps) \in S
      BY <1>1, <3>2, HeadTailProperties
    <3> QED
      BY <1>1, <1>6, <3>3 DEF S, StopSteps, StartSteps, StartStep
  <2>5. StepAt(cs, t, p, pos)'
    BY <1>1, <1>3, <1>6, <2>2, <2>3, <2>4 DEF StepAt, StartPcs, StopPcs
  <2> QED
    BY <1>3, <1>4, <1>6, <2>5 DEF CountInv, StartPcs, StopPcs
<1> QED
  BY <1>1, <1>5, <1>6

LEMMA SomeRising ==
  ASSUME NEW l \in Seq(Ids), \A i, j \in DOMAIN l : l[i] = l[j] => i = j
  PROVE  \E pos \in [Ids -> Nat] : Rising(l, pos)
<1>1. Len(l) \in Nat /\ DOMAIN l = 1 .. Len(l) /\ \A i \in DOMAIN l : l[i] \in Ids
  BY LenProperties, ElementOfSeq
<1> DEFINE pos == [id \in Ids |-> IF \E i \in 1 .. Len(l) : l[i] = id
                                  THEN CHOOSE i \in 1 .. Len(l) : l[i] = id ELSE 0]
<1>2. ASSUME NEW i \in 1 .. Len(l) PROVE pos[l[i]] = i
  <2>1. l[i] \in Ids
    BY <1>1
  <2>2. \A j \in 1 .. Len(l) : l[j] = l[i] => j = i
    BY <1>1
  <2>3. (CHOOSE j \in 1 .. Len(l) : l[j] = l[i]) = i
    BY <2>2
  <2> QED
    BY <2>1, <2>3
<1>3. pos \in [Ids -> Nat]
  <2>1. ASSUME NEW id \in Ids, \E i \in 1 .. Len(l) : l[i] = id
        PROVE  (CHOOSE i \in 1 .. Len(l) : l[i] = id) \in Nat
    BY <1>1, <2>1
  <2> QED
    BY <2>1
<1> HIDE DEF pos
<1>4. Rising(l, pos)
  BY <1>1, <1>2 DEF Rising
<1> QED
  BY <1>3, <1>4

(* converge() begins: plan has read nothing, and nothing has escaped it. *)
LEMMA CountBegins ==
  ASSUME IInv, CountInv, TakeWake \/ Tick \/ \E c \in Callers : TakeCaller(c)
  PROVE  CountInv'
<1>1. /\ pc' = "scan" /\ list' = list /\ target' = target /\ copy' = copy
      /\ views' = [views EXCEPT !["run"] = [seq |-> list, at |-> 0]]
      /\ base' = [len |-> Len(list), count |-> target.count, order |-> OrderOf[target.ver],
                  gone |-> 0]
      /\ steps' = <<[op |-> "target", ver |-> target.ver]>>
  BY DEF TakeWake, Tick, TakeCaller, BeginConverge
<1>2. TargetsOK' /\ target.count \in Nat
  BY <1>1 DEF CountInv, TargetsOK, IsTarget
<1>3. /\ list \in Seq(Ids) /\ Distinct /\ Len(list) \in Nat /\ DOMAIN list = 1 .. Len(list)
      /\ \A i \in DOMAIN list : list[i] \in Ids
      /\ views'["run"] = [seq |-> list, at |-> 0]
  <2>1. list \in Seq(Ids) /\ Distinct /\ views \in [Readers -> Views] /\ "run" \in Readers
    BY DEF IInv, DataOK, Readers
  <2> QED
    BY <1>1, <2>1, LenProperties, ElementOfSeq
<1>4. PICK pos \in [Ids -> Nat] : Rising(list, pos)
  BY <1>3, SomeRising DEF Distinct
<1>5. Reading(list, list, 0, pos)
  BY <1>3, <1>4, FreshReading
<1>6. Listed' \ Seen("run")' = {}
  BY <1>1, <1>3 DEF Listed, Seen
<1>7. Head(steps').ver = target.ver
  BY <1>1
<1>8. /\ base'.len = Len(list) /\ base'.count = target.count /\ base'.order = OrderOf[target.ver]
       /\ base'.gone = 0
  BY <1>1
<1>9. ScanAt(pos)'
  <2>1. Cardinality(Listed' \ Seen("run")') = 0
    BY <1>6, FS_EmptySet
  <2>2. views'["run"].seq = list /\ views'["run"].at = 0
    BY <1>3
  <2>3. Reading(list', views'["run"].seq, views'["run"].at, pos) /\ Rising(list', pos)
    BY <1>1, <1>4, <1>5, <2>2
  <2>4. Len(views'["run"].seq) = base'.len /\ base'.order = OrderOf[Head(steps').ver]
    BY <1>7, <1>8, <2>2
  <2>5. Cardinality(Listed \ Seen("run"))' <= base'.gone
    BY <1>8, <2>1
  <2> QED
    BY <1>4, <2>3, <2>4, <2>5 DEF ScanAt
<1>10. BaseOK'
  <2>1. base' = [len |-> base'.len, count |-> base'.count, order |-> base'.order,
                 gone |-> base'.gone]
    BY <1>1
  <2> QED
    BY <1>2, <1>3, <1>8, <2>1 DEF BaseOK
<1> QED
  BY <1>1, <1>2, <1>9, <1>10 DEF CountInv, StartPcs, StopPcs

(* Two sets that cover a third one. *)
LEMMA CoverCount ==
  ASSUME NEW S, IsFiniteSet(S), NEW T, IsFiniteSet(T), NEW X, X \subseteq S \cup T
  PROVE  /\ IsFiniteSet(X) /\ Cardinality(X) \in Nat
         /\ Cardinality(S) \in Nat /\ Cardinality(T) \in Nat
         /\ Cardinality(X) <= Cardinality(S) + Cardinality(T)
<1>1. /\ IsFiniteSet(S \cup T)
      /\ Cardinality(S \cup T) = Cardinality(S) + Cardinality(T) - Cardinality(S \cap T)
  BY FS_Union
<1>2. IsFiniteSet(X) /\ Cardinality(X) <= Cardinality(S \cup T)
  BY <1>1, FS_Subset
<1>3. /\ Cardinality(S) \in Nat /\ Cardinality(T) \in Nat /\ Cardinality(X) \in Nat
      /\ Cardinality(S \cap T) \in Nat
  <2>1. IsFiniteSet(S \cap T)
    BY FS_Intersection
  <2> QED
    BY <1>2, <2>1, FS_CardinalityType
<1> QED
  BY <1>1, <1>2, <1>3

(* The list is read: what escaped the reading stays, and what plan does not stop. *)
LEMMA CountMakesPlan ==
  ASSUME IInv, CountInv, MakePlan
  PROVE  CountInv'
<1>1. PICK cs : cs = Records(views["run"].seq)
  OBVIOUS
<1>2. PICK t : t = FullTarget(Head(steps).ver, base.count)
  OBVIOUS
<1>3. /\ pc = "scan" /\ list' = list /\ target' = target /\ copy' = copy
      /\ \/ pc' = "next" /\ steps' = Plan(cs, t).steps /\ base' = base
         \/ pc' = "select"
  BY <1>1, <1>2 DEF MakePlan, Abort, EndConverge
<1>4. TargetsOK'
  BY <1>3 DEF CountInv, TargetsOK, IsTarget
<1>5. CASE pc' = "select"
  BY <1>4, <1>5, CountRests
<1>6. CASE pc' = "next" /\ steps' = Plan(cs, t).steps /\ base' = base
  <2>1. BaseOK /\ BaseOK'
    BY <1>3, <1>6 DEF CountInv, BaseOK
  <2>2. PICK pos : ScanAt(pos)
    BY <1>3 DEF CountInv
  <2>3. PICK v : v = views["run"].seq
    OBVIOUS
  <2>4. /\ v \in Seq(Ids) /\ Len(v) \in Nat /\ DOMAIN v = 1 .. Len(v)
        /\ \A i \in 1 .. Len(v) : v[i] \in Ids
        /\ Len(v) = base.len
        /\ \A j, k \in 1 .. Len(v) : j < k => pos[v[j]] <= pos[v[k]]
    BY <2>2, <2>3, LenProperties, ElementOfSeq DEF ScanAt, Reading
  <2> DEFINE C == {cs[i] : i \in DOMAIN cs}
  <2>5. /\ cs \in [1 .. Len(v) -> C] /\ DOMAIN cs = 1 .. Len(v)
        /\ \A i \in 1 .. Len(v) : cs[i].id = v[i]
    BY <1>1, <2>3, <2>4 DEF Records, Record
  <2>6. cs \in Seq(C) /\ Len(cs) = Len(v)
    <3> HIDE DEF C
    <3> QED
      BY <2>4, <2>5, SeqDef, LenProperties
  <2>7. IdsIn(cs) = Seen("run") /\ Seen("run") \subseteq Ids
    <3>1. Seen("run") = {v[i] : i \in 1 .. Len(v)}
      BY <2>3, <2>4 DEF Seen
    <3>2. IdsIn(cs) = {v[i] : i \in 1 .. Len(v)}
      BY <2>5 DEF IdsIn
    <3> QED
      BY <2>4, <3>1, <3>2
  <2>8. t.count = base.count /\ t.count \in Nat
    BY <1>2, <2>1 DEF FullTarget, BaseOK
  <2>9. StartsFirst(t) <=> base.order = "startstop"
    BY <1>2, <2>2 DEF FullTarget, StartsFirst, ScanAt
  <2> DEFINE q == StopsOf(cs, t)
             s == Plan(cs, t).steps
             stays == IdsIn(cs) \ Ended(cs, t, Len(s))
             hidden == Listed \ Seen("run")
  <2>10. /\ Len(s) \in Nat /\ Len(q) \in Nat /\ s \in Seq(StopSteps(cs) \cup StartSteps(t))
         /\ Len(cs) + ToStart(cs, t) - Len(q) = t.count /\ ToStart(cs, t) \in Nat
    <3>1. /\ ToStart(cs, t) \in 0 .. t.count /\ Len(q) \in 0 .. Len(cs) /\ Len(cs) \in Nat
          /\ Len(cs) + ToStart(cs, t) - Len(q) = t.count
          /\ s \in Seq(StopSteps(cs) \cup StartSteps(t)) /\ Len(s) = ToStart(cs, t) + Len(q)
      BY <2>6, <2>8, PlanShape
    <3> HIDE DEF q, s
    <3> QED
      BY <2>8, <3>1
  <2>11. /\ Begun(cs, t, 0) = 0
         /\ Len(s) - Begun(cs, t, Len(s)) = Len(q)
    <3>1. 0 \in 0 .. Len(s) /\ Len(s) \in 0 .. Len(s)
      BY <2>10
    <3> QED
      BY <2>6, <2>8, <3>1, PlanBalance
  <2>12. Later(cs, t, 0) = Ended(cs, t, Len(s))
    <3>1. 0 - Begun(cs, t, 0) + 1 = 1
      BY <2>11
    <3> QED
      BY <2>11, <3>1 DEF Later, Ended
  <2>13. After(s, 0) = s
    <3> DEFINE S == StopSteps(cs) \cup StartSteps(t)
    <3>1. 0 \in 0 .. Len(s) /\ s \in Seq(S)
      BY <2>10
    <3> HIDE DEF s, S
    <3> QED
      BY <3>1, AfterElements
  <2>14. IsFiniteSet(stays) /\ Cardinality(stays) <= Len(cs) - Len(q)
    <3>1. Len(s) \in 0 .. Len(s)
      BY <2>10
    <3>2. IsFiniteSet(stays)
          /\ Cardinality(stays) <= Len(cs) - (Len(s) - Begun(cs, t, Len(s)))
      BY <2>6, <2>8, <3>1, LeftIds
    <3> QED
      BY <2>11, <3>2
  <2>15. IsFiniteSet(hidden) /\ Cardinality(hidden) <= base.gone
    BY <2>2, ListedCount, FS_Subset DEF ScanAt
  <2>16. Cardinality(Listed \ Later(cs, t, 0)) <= Keeps(cs, t, 0)
    <3>1. Listed \ Later(cs, t, 0) \subseteq hidden \cup stays
      BY <2>7, <2>12
    <3> DEFINE X == Listed \ Later(cs, t, 0)
    <3> HIDE DEF hidden, stays, X
    <3>2. /\ Cardinality(X) <= Cardinality(hidden) + Cardinality(stays)
          /\ Cardinality(hidden) \in Nat /\ Cardinality(stays) \in Nat /\ Cardinality(X) \in Nat
      BY <2>14, <2>15, <3>1, CoverCount DEF X
    <3>3. Keeps(cs, t, 0) = base.gone + (t.count - ToStart(cs, t)) + 0
      BY <2>11 DEF Keeps
    <3>4. Cardinality(X) <= base.gone + (Len(cs) - Len(q))
      <4> HIDE DEF q, s
      <4>1. base.gone \in Nat /\ Len(cs) \in Nat
        BY <2>1, <2>4, <2>6 DEF BaseOK
      <4> QED
        BY <2>10, <2>14, <2>15, <3>2, <4>1
    <3>5. Keeps(cs, t, 0) = base.gone + (Len(cs) - Len(q))
      <4> HIDE DEF q, s
      <4>1. base.gone \in Nat /\ Len(cs) \in Nat
        BY <2>1, <2>4, <2>6 DEF BaseOK
      <4>2. t.count - ToStart(cs, t) = Len(cs) - Len(q)
        BY <2>8, <2>10, <4>1
      <4> QED
        BY <2>10, <3>3, <4>1, <4>2
    <3> QED
      BY <3>4, <3>5 DEF X
  <2>17. \A k, l \in 1 .. Len(q) : k < l => pos[q[k].id] <= pos[q[l].id]
    <3>1. PICK ix \in [1 .. Len(q) -> DOMAIN cs] :
            /\ \A k \in 1 .. Len(q) : q[k].id = cs[ix[k]].id
            /\ \A k, l \in 1 .. Len(q) : k < l => ix[k] < ix[l]
      BY <2>6, <2>8, StopsInOrder
    <3> HIDE DEF q
    <3> SUFFICES ASSUME NEW k \in 1 .. Len(q), NEW l \in 1 .. Len(q), k < l
                 PROVE  pos[q[k].id] <= pos[q[l].id]
      OBVIOUS
    <3>2. ix[k] \in 1 .. Len(v) /\ ix[l] \in 1 .. Len(v) /\ ix[k] < ix[l]
      BY <2>5, <3>1
    <3>3. q[k].id = v[ix[k]] /\ q[l].id = v[ix[l]]
      BY <2>5, <3>1, <3>2
    <3> QED
      BY <2>4, <3>2, <3>3
  <2>18. Listed' = Listed /\ Adding' = 0
    BY <1>3, <1>6 DEF Listed, Adding, StartPcs
  <2>19. PlanAt(cs, t, 0, pos)'
    <3>1. 0 - Begun(cs, t, 0) + 1 = 1 /\ 0 \in 0 .. Len(s)
      BY <2>10, <2>11
    <3>2. /\ \A k, l \in 0 - Begun(cs, t, 0) + 1 .. Len(q) :
               k < l => pos[q[k].id] <= pos[q[l].id]
      BY <2>17, <3>1
    <3>3. steps' = After(s, 0)
      BY <1>6, <2>13
    <3>4. pos \in [Ids -> Nat] /\ Rising(list', pos)
      BY <1>3, <2>2 DEF ScanAt
    <3>5. Keeps(cs, t, 0)' = Keeps(cs, t, 0)
      BY <1>6 DEF Keeps
    <3>6. Keeps(cs, t, 0) + Adding' = Keeps(cs, t, 0)
      <4>1. Keeps(cs, t, 0) \in Nat
        <5>1. base.gone \in Nat /\ Len(q) <= Len(cs) /\ Len(cs) \in Nat
          <6>1. Len(q) \in 0 .. Len(cs) /\ Len(cs) \in Nat
            BY <2>6, <2>8, PlanShape
          <6> HIDE DEF q
          <6> QED
            BY <2>1, <6>1 DEF BaseOK
        <5> HIDE DEF q
        <5>2. t.count - ToStart(cs, t) \in Nat
          BY <2>8, <2>10, <5>1
        <5> QED
          BY <2>11, <5>1, <5>2 DEF Keeps
      <4> QED
        BY <2>18, <4>1
    <3> HIDE DEF s, q
    <3>7. /\ cs \in Seq(C) /\ IdsIn(cs) \subseteq Ids
          /\ Len(cs) = base'.len /\ t.count = base'.count
          /\ (StartsFirst(t) <=> base'.order = "startstop")
      BY <1>6, <2>4, <2>6, <2>7, <2>8, <2>9
    <3>8. Cardinality(Listed' \ Later(cs, t, 0)) <= Keeps(cs, t, 0)' + Adding'
      BY <2>16, <2>18, <3>5, <3>6
    <3> QED
      BY <3>1, <3>2, <3>3, <3>4, <3>7, <3>8 DEF PlanAt, s, q
  <2>20. StepAt(cs, t, 0, pos)'
    BY <1>6 DEF StepAt, StartPcs, StopPcs
  <2> QED
    BY <1>4, <1>6, <2>1, <2>19, <2>20 DEF CountInv, StartPcs, StopPcs
<1> QED
  BY <1>3, <1>5, <1>6

(* The first step that is left. *)
LEMMA HeadStep ==
  ASSUME BaseOK, NEW cs, NEW t, NEW p, NEW pos, PlanAt(cs, t, p, pos), steps # <<>>
  PROVE  LET m == Begun(cs, t, p)
             q == StopsOf(cs, t)
         IN  /\ p + 1 \in 0 .. Len(Plan(cs, t).steps)
             /\ Tail(steps) = After(Plan(cs, t).steps, p + 1)
             /\ Head(steps).op = "start" =>
                  /\ Later(cs, t, p + 1) = Later(cs, t, p)
                  /\ Keeps(cs, t, p + 1) = Keeps(cs, t, p) + 1
             /\ Head(steps).op = "stop" =>
                  /\ Keeps(cs, t, p + 1) = Keeps(cs, t, p)
                  /\ Later(cs, t, p) = Later(cs, t, p + 1) \cup {Head(steps).id}
                  /\ p - m + 1 \in 1 .. Len(q) /\ Head(steps).id = q[p - m + 1].id
             /\ \A k \in (p + 1) - Begun(cs, t, p + 1) + 1 .. Len(q) : k \in p - m + 1 .. Len(q)
<1> DEFINE S == StopSteps(cs) \cup StartSteps(t)
           s == Plan(cs, t).steps
           m == Begun(cs, t, p)
           q == StopsOf(cs, t)
<1>1. /\ t.count \in Nat /\ p \in Nat /\ m \in Nat /\ Len(q) \in Nat
      /\ t.count - ToStart(cs, t) \in Nat /\ Keeps(cs, t, p) \in Nat /\ Len(s) \in Nat
      /\ cs \in Seq({cs[i] : i \in DOMAIN cs})
      /\ p \in 0 .. Len(s) /\ steps = After(s, p) /\ base.gone \in Nat
  BY PlanNumbers DEF PlanAt, BaseOK
<1>2. s \in Seq(S)
  BY <1>1, PlanShape
<1> HIDE DEF S, s
<1>3. p < Len(s) /\ Head(steps) = s[p + 1] /\ Tail(steps) = After(s, p + 1)
  <2>1. After(s, p) # <<>> /\ p \in 0 .. Len(s) /\ Len(s) \in Nat
    BY <1>1
  <2>2. p < Len(s)
    <3>1. p # Len(s)
      BY <1>2, <2>1, AfterElements
    <3> QED
      BY <2>1, <3>1
  <2>3. Head(After(s, p)) = s[p + 1] /\ Tail(After(s, p)) = After(s, p + 1)
    BY <1>2, <2>1, <2>2, AfterElements
  <2> QED
    BY <1>1, <2>2, <2>3
<1>4. p + 1 \in 0 .. Len(s)
  BY <1>1, <1>3
<1>5. \/ /\ Head(steps).op = "start" /\ Begun(cs, t, p + 1) = m + 1
         /\ Later(cs, t, p + 1) = Later(cs, t, p)
      \/ /\ Head(steps).op = "stop" /\ Begun(cs, t, p + 1) = m
         /\ p - m + 1 \in 1 .. Len(q)
         /\ Head(steps).id = q[p - m + 1].id
         /\ Later(cs, t, p) = Later(cs, t, p + 1) \cup {Head(steps).id}
  <2>1. p < Len(Plan(cs, t).steps)
    BY <1>3 DEF s
  <2>2. Head(steps) = Plan(cs, t).steps[p + 1]
    BY <1>3 DEF s
  <2> DEFINE x == Plan(cs, t).steps[p + 1]
  <2>3. cs \in Seq({cs[i] : i \in DOMAIN cs}) /\ t.count \in Nat /\ p \in Nat
    BY <1>1
  <2>4. \/ /\ x.op = "start" /\ Begun(cs, t, p + 1) = m + 1
           /\ Later(cs, t, p + 1) = Later(cs, t, p)
        \/ /\ x.op = "stop" /\ Begun(cs, t, p + 1) = m
           /\ p - m + 1 \in 1 .. Len(q)
           /\ x.id = q[p - m + 1].id
           /\ Later(cs, t, p) = Later(cs, t, p + 1) \cup {x.id}
    BY <2>1, <2>3, LaterStep
  <2> HIDE DEF x, m, q
  <2>5. Head(steps) = x
    BY <2>2 DEF x
  <2> QED
    BY <2>4, <2>5
<1> HIDE DEF m, q
<1>6. Keeps(cs, t, p) = base.gone + (t.count - ToStart(cs, t)) + m
  BY DEF Keeps, m
<1>7. CASE Head(steps).op = "start" /\ Begun(cs, t, p + 1) = m + 1
  <2>1. Keeps(cs, t, p + 1) = base.gone + (t.count - ToStart(cs, t)) + (m + 1)
    BY <1>7 DEF Keeps
  <2>2. Keeps(cs, t, p + 1) = Keeps(cs, t, p) + 1
    BY <1>1, <1>6, <2>1
  <2>3. \A k \in (p + 1) - Begun(cs, t, p + 1) + 1 .. Len(q) : k \in p - m + 1 .. Len(q)
    <3>1. (p + 1) - (m + 1) + 1 = p - m + 1
      BY <1>1
    <3> QED
      BY <1>7, <3>1
  <2> QED
    BY <1>3, <1>4, <1>5, <1>7, <2>2, <2>3 DEF s, m, q
<1>8. CASE Head(steps).op = "stop" /\ Begun(cs, t, p + 1) = m
  <2>1. Keeps(cs, t, p + 1) = Keeps(cs, t, p)
    BY <1>6, <1>8 DEF Keeps
  <2>2. \A k \in (p + 1) - Begun(cs, t, p + 1) + 1 .. Len(q) : k \in p - m + 1 .. Len(q)
    BY <1>1, <1>8
  <2> QED
    BY <1>3, <1>4, <1>5, <1>8, <2>1, <2>2 DEF s, m, q
<1> QED
  BY <1>5, <1>7, <1>8

(* A step of the plan is over. *)
LEMMA CountStepDone ==
  ASSUME CountInv, TargetsOK', base' = base, pc' = "next", steps' = Tail(steps), steps # <<>>,
         BaseOK, NEW cs, NEW t, NEW p, NEW pos, PlanAt(cs, t, p, pos), Rising(list', pos),
         Cardinality(Listed' \ Later(cs, t, p + 1)) <= Keeps(cs, t, p + 1)
  PROVE  CountInv'
<1>1. /\ p + 1 \in 0 .. Len(Plan(cs, t).steps)
      /\ Tail(steps) = After(Plan(cs, t).steps, p + 1)
      /\ \A k \in (p + 1) - Begun(cs, t, p + 1) + 1 .. Len(StopsOf(cs, t)) :
           k \in p - Begun(cs, t, p) + 1 .. Len(StopsOf(cs, t))
      /\ Keeps(cs, t, p + 1) \in {Keeps(cs, t, p), Keeps(cs, t, p) + 1}
         \/ Head(steps).op \notin {"start", "stop"}
  BY HeadStep
<1>2. Adding' = 0 /\ Keeps(cs, t, p + 1)' = Keeps(cs, t, p + 1)
  BY DEF Adding, StartPcs, Keeps
<1>3. Keeps(cs, t, p + 1) \in Int
  <2>1. /\ t.count - ToStart(cs, t) \in Nat /\ base.gone \in Nat
        /\ t.count \in Nat /\ cs \in Seq({cs[i] : i \in DOMAIN cs})
    BY PlanNumbers DEF BaseOK
  <2>2. Begun(cs, t, p + 1) \in Nat
    <3>1. Begun(cs, t, p + 1) \in 0 .. ToStart(cs, t)
      BY <1>1, <2>1, PlanBalance
    <3>2. ToStart(cs, t) \in 0 .. t.count
      BY <2>1, PlanShape
    <3> QED
      BY <2>1, <3>1, <3>2
  <2> QED
    BY <2>1, <2>2 DEF Keeps
<1>4. Keeps(cs, t, p + 1)' + Adding' = Keeps(cs, t, p + 1)
  BY <1>2, <1>3
<1>5. \A k, l \in (p + 1) - Begun(cs, t, p + 1) + 1 .. Len(StopsOf(cs, t)) :
        k < l => pos[StopsOf(cs, t)[k].id] <= pos[StopsOf(cs, t)[l].id]
  BY <1>1 DEF PlanAt
<1>6. PlanAt(cs, t, p + 1, pos)'
  <2>1. /\ cs \in Seq({cs[i] : i \in DOMAIN cs}) /\ IdsIn(cs) \subseteq Ids
        /\ Len(cs) = base'.len /\ t.count = base'.count
        /\ StartsFirst(t) <=> base'.order = "startstop"
        /\ pos \in [Ids -> Nat]
    BY DEF PlanAt
  <2>2. Cardinality(Listed' \ Later(cs, t, p + 1)) <= Keeps(cs, t, p + 1)' + Adding'
    BY <1>4
  <2> QED
    BY <1>1, <1>5, <2>1, <2>2 DEF PlanAt
<1>7. StepAt(cs, t, p + 1, pos)'
  BY DEF StepAt, StartPcs, StopPcs
<1> QED
  BY <1>6, <1>7 DEF CountInv, StartPcs, StopPcs, BaseOK

(* The health check has passed. *)
LEMMA CountHealthPasses ==
  ASSUME IInv, CountInv, HealthPasses
  PROVE  CountInv'
<1>1. /\ pc = "health" /\ pc' = "next" /\ steps' = Tail(steps) /\ list' = list /\ base' = base
      /\ target' = target /\ copy' = copy
  BY DEF HealthPasses, callVars
<1>2. TargetsOK' /\ BaseOK /\ Listed' = Listed /\ Adding = 1
  BY <1>1 DEF CountInv, TargetsOK, IsTarget, Listed, Adding, StartPcs
<1>3. PICK cs, t, p, pos : PlanAt(cs, t, p, pos) /\ StepAt(cs, t, p, pos)
  BY <1>1 DEF CountInv, StartPcs
<1>4. steps # <<>> /\ Head(steps).op = "start"
  BY <1>1, <1>3 DEF StepAt, StartPcs
<1>5. /\ Later(cs, t, p + 1) = Later(cs, t, p)
      /\ Keeps(cs, t, p + 1) = Keeps(cs, t, p) + 1
  BY <1>2, <1>3, <1>4, HeadStep
<1>6. Cardinality(Listed' \ Later(cs, t, p + 1)) <= Keeps(cs, t, p + 1)
  BY <1>2, <1>3, <1>5 DEF PlanAt
<1>7. Rising(list', pos)
  BY <1>1, <1>3 DEF PlanAt
<1> QED
  BY <1>1, <1>2, <1>3, <1>4, <1>6, <1>7, CountStepDone

(* The container of a stop is not found: it is gone, or it escaped the search. *)
LEMMA CountFind ==
  ASSUME IInv, CountInv, Find
  PROVE  CountInv'
<1>1. /\ pc = "find" /\ list' = list /\ base' = base /\ target' = target /\ copy' = copy
      /\ \/ pc' = "stopping" /\ cur' = cur /\ steps' = steps
         \/ pc' = "next" /\ steps' = Tail(steps) /\ cur \notin Seen("run")
  BY DEF Find, callVars
<1>2. TargetsOK' /\ BaseOK /\ Listed' = Listed /\ Adding = 0
  BY <1>1 DEF CountInv, TargetsOK, IsTarget, Listed, Adding, StartPcs
<1>3. CASE pc' = "stopping" /\ cur' = cur /\ steps' = steps
  BY <1>1, <1>2, <1>3, CountGoesOn DEF StopPcs
<1>4. CASE pc' = "next" /\ steps' = Tail(steps) /\ cur \notin Seen("run")
  <2>1. PICK cs, t, p, pos : PlanAt(cs, t, p, pos) /\ StepAt(cs, t, p, pos)
    BY <1>1 DEF CountInv, StopPcs
  <2>2. steps # <<>> /\ Head(steps).op = "stop" /\ cur = Head(steps).id
    BY <1>1, <2>1 DEF StepAt, StopPcs
  <2>3. /\ Later(cs, t, p) = Later(cs, t, p + 1) \cup {cur}
        /\ Keeps(cs, t, p + 1) = Keeps(cs, t, p)
    BY <1>2, <2>1, <2>2, HeadStep
  <2>4. Keeps(cs, t, p) \in Nat
    BY <1>2, <2>1, PlanNumbers
  <2> DEFINE kept == Listed \ Later(cs, t, p)
             left == Listed \ Later(cs, t, p + 1)
  <2>5. IsFiniteSet(Listed) /\ IsFiniteSet(kept)
    BY ListedCount, FS_Subset
  <2>6. Cardinality(kept) <= Keeps(cs, t, p)
    BY <1>2, <2>1, <2>4 DEF PlanAt
  <2>7. ASSUME cur \notin Listed
        PROVE  Cardinality(left) <= Keeps(cs, t, p)
    <3>1. left \subseteq kept
      BY <2>3, <2>7
    <3> HIDE DEF left, kept
    <3>2. Cardinality(left) <= Cardinality(kept)
          /\ Cardinality(left) \in Nat /\ Cardinality(kept) \in Nat
      BY <2>5, <3>1, FS_Subset, FS_CardinalityType
    <3> QED
      BY <2>4, <2>6, <3>2
  <2>8. ASSUME cur \in Listed
        PROVE  Cardinality(left) <= Keeps(cs, t, p)
    <3>1. Cardinality(kept) < Keeps(cs, t, p)
      BY <1>1, <1>4, <2>1, <2>8 DEF StepAt
    <3>2. left \subseteq kept \cup {cur}
      BY <2>3
    <3> HIDE DEF left, kept
    <3>3. IsFiniteSet({cur}) /\ Cardinality({cur}) = 1
      BY FS_Singleton
    <3>4. Cardinality(left) <= Cardinality(kept) + 1
          /\ Cardinality(left) \in Nat /\ Cardinality(kept) \in Nat
      BY <2>5, <3>2, <3>3, CoverCount
    <3> QED
      BY <2>4, <3>1, <3>4
  <2>9. Cardinality(left) <= Keeps(cs, t, p)
    BY <2>4, <2>5, <2>6, <2>7, <2>8
  <2>10. Cardinality(Listed' \ Later(cs, t, p + 1)) <= Keeps(cs, t, p + 1)
    BY <1>2, <2>3, <2>9
  <2>11. Rising(list', pos)
    BY <1>1, <2>1 DEF PlanAt
  <2> QED
    BY <1>1, <1>2, <1>4, <2>1, <2>2, <2>10, <2>11, CountStepDone
<1> QED
  BY <1>1, <1>3, <1>4

(* The list without a container. *)
LEMMA RemovedList ==
  ASSUME IInv, NEW id, list' = Without(list, id), NEW pos \in [Ids -> Nat], Rising(list, pos)
  PROVE  Rising(list', pos) /\ Listed' = Listed \ {id}
<1>1. list \in Seq(Ids) /\ Distinct
  BY DEF IInv, DataOK
<1>2. CASE id \notin Listed
  <2>1. list' = list
    BY <1>1, <1>2, WithoutCut DEF Listed, Distinct
  <2>2. Listed' = Listed
    BY <2>1 DEF Listed
  <2> QED
    BY <1>2, <2>1, <2>2
<1>3. CASE id \in Listed
  <2>1. PICK k \in 1 .. Len(list) : list[k] = id /\ list' = Cut(list, k)
    BY <1>1, <1>3, WithoutCut DEF Listed, Distinct
  <2>2. Reading(list, list, 0, pos) /\ 0 \in 0 .. Len(list)
    BY <1>1, FreshReading, LenProperties
  <2>3. Rising(Cut(list, k), pos) /\ Elements(Cut(list, k)) = Elements(list) \ {list[k]}
    BY <1>1, <2>2, TornReading
  <2>4. Listed = Elements(list) /\ Listed' = Elements(list')
    BY DEF Listed, Elements
  <2> QED
    BY <2>1, <2>3, <2>4
<1> QED
  BY <1>2, <1>3

(* The container of a stop has been stopped and removed. *)
LEMMA CountRemoved ==
  ASSUME IInv, CountInv, Removed
  PROVE  CountInv'
<1>1. /\ pc = "remove" /\ pc' = "next" /\ steps' = Tail(steps) /\ base' = base
      /\ target' = target /\ copy' = copy /\ list' = Without(list, cur)
  BY DEF Removed, RemoveFromList, callVars
<1>2. TargetsOK' /\ BaseOK /\ Adding = 0
  BY <1>1 DEF CountInv, TargetsOK, IsTarget, Adding, StartPcs
<1>3. PICK cs, t, p, pos : PlanAt(cs, t, p, pos) /\ StepAt(cs, t, p, pos)
  BY <1>1 DEF CountInv, StopPcs
<1>4. steps # <<>> /\ Head(steps).op = "stop" /\ cur = Head(steps).id
  BY <1>1, <1>3 DEF StepAt, StopPcs
<1>5. /\ Later(cs, t, p) = Later(cs, t, p + 1) \cup {cur}
      /\ Keeps(cs, t, p + 1) = Keeps(cs, t, p)
  BY <1>2, <1>3, <1>4, HeadStep
<1>6. Keeps(cs, t, p) \in Nat
  BY <1>2, <1>3, PlanNumbers
<1>7. Rising(list', pos) /\ Listed' = Listed \ {cur}
  BY <1>1, <1>3, RemovedList DEF PlanAt
<1>8. Cardinality(Listed' \ Later(cs, t, p + 1)) <= Keeps(cs, t, p + 1)
  <2> DEFINE kept == Listed \ Later(cs, t, p)
             left == Listed' \ Later(cs, t, p + 1)
  <2>1. IsFiniteSet(kept) /\ left \subseteq kept
    BY <1>5, <1>7, ListedCount, FS_Subset
  <2>2. Cardinality(kept) <= Keeps(cs, t, p)
    BY <1>2, <1>3, <1>6 DEF PlanAt
  <2> HIDE DEF kept, left
  <2>3. Cardinality(left) <= Cardinality(kept)
        /\ Cardinality(left) \in Nat /\ Cardinality(kept) \in Nat
    BY <2>1, FS_Subset, FS_CardinalityType
  <2> QED
    BY <1>5, <1>6, <2>2, <2>3 DEF left
<1> QED
  BY <1>1, <1>2, <1>3, <1>4, <1>7, <1>8, CountStepDone

(* The list with one more container at its end. *)
LEMMA LongerList ==
  ASSUME list \in Seq(Ids), NEW id \in Ids, list' = Append(list, id)
  PROVE  Len(list') = Len(list) + 1 /\ Listed' = Listed \cup {id}
<1>1. /\ list' \in Seq(Ids) /\ Len(list') = Len(list) + 1 /\ Len(list) \in Nat
      /\ \A i \in 1 .. Len(list) : list'[i] = list[i]
      /\ list'[Len(list) + 1] = id
      /\ DOMAIN list = 1 .. Len(list)
  BY AppendProperties, LenProperties
<1>2. DOMAIN list' = 1 .. Len(list) + 1
  BY <1>1, LenProperties
<1>3. ASSUME NEW x \in Listed' PROVE x \in Listed \cup {id}
  BY <1>1, <1>2 DEF Listed
<1>4. ASSUME NEW x \in Listed PROVE x \in Listed'
  <2>1. PICK i \in 1 .. Len(list) : x = list[i]
    BY <1>1 DEF Listed
  <2>2. i \in DOMAIN list' /\ list'[i] = x
    BY <1>1, <1>2, <2>1
  <2> QED
    BY <2>2 DEF Listed
<1>5. id \in Listed'
  <2>1. Len(list) + 1 \in DOMAIN list'
    BY <1>1, <1>2
  <2> QED
    BY <1>1, <2>1 DEF Listed
<1> QED
  BY <1>1, <1>3, <1>4, <1>5

(* A container is started: one more, with an id that no step knows. *)
LEMMA CountCreates ==
  ASSUME IInv, CountInv, Create
  PROVE  CountInv'
<1>1. PICK id : id = NextId
  OBVIOUS
<1>2. /\ pc = "lock" /\ pc' = "start" /\ list' = Append(list, id) /\ base' = base
      /\ steps' = steps /\ target' = target /\ copy' = copy
  BY <1>1 DEF Create, callVars
<1>3. id \in Ids /\ id \notin Listed
      /\ \A i \in DOMAIN steps : steps[i].op = "stop" => steps[i].id # id
  BY <1>1, NextIdUnused DEF Create, Unused
<1>4. TargetsOK' /\ BaseOK /\ Adding = 0 /\ Adding' = 1
  BY <1>2 DEF CountInv, TargetsOK, IsTarget, Adding, StartPcs
<1>5. PICK cs, t, p, pos : PlanAt(cs, t, p, pos) /\ StepAt(cs, t, p, pos)
  BY <1>2 DEF CountInv, StartPcs
<1>6. /\ list \in Seq(Ids) /\ Len(list) \in Nat /\ DOMAIN list = 1 .. Len(list)
      /\ \A i \in 1 .. Len(list) : list[i] \in Ids /\ list[i] # id
  BY <1>3, LenProperties, ElementOfSeq DEF IInv, DataOK, Listed
<1>7. /\ DOMAIN list' = 1 .. Len(list) + 1
      /\ \A i \in 1 .. Len(list) : list'[i] = list[i]
      /\ list'[Len(list) + 1] = id
  <2>1. /\ list' \in Seq(Ids) /\ Len(list') = Len(list) + 1
        /\ \A i \in 1 .. Len(list) : list'[i] = list[i]
        /\ list'[Len(list) + 1] = id
    BY <1>2, <1>3, <1>6, AppendProperties
  <2>2. DOMAIN list' = 1 .. Len(list')
    BY <2>1, LenProperties
  <2> QED
    BY <2>1, <2>2
<1>8. Listed' = Listed \cup {id}
  BY <1>2, <1>3, LongerList DEF IInv, DataOK
<1>9. id \notin Later(cs, t, p)
  <2>1. /\ cs \in Seq({cs[i] : i \in DOMAIN cs}) /\ t.count \in Nat
        /\ p \in 0 .. Len(Plan(cs, t).steps) /\ steps = After(Plan(cs, t).steps, p)
    BY <1>4, <1>5, PlanNumbers DEF PlanAt
  <2> SUFFICES ASSUME id \in Later(cs, t, p) PROVE FALSE
    OBVIOUS
  <2>2. \E i \in DOMAIN steps : steps[i].op = "stop" /\ steps[i].id = id
    BY <2>1, LaterSteps
  <2> QED
    BY <1>3, <2>2
<1>10. PICK new \in [Ids -> Nat] : Rising(list', new) /\ \A x \in Ids : x # id => new[x] = pos[x]
  <2>1. pos \in [Ids -> Nat] /\ Rising(list, pos)
    BY <1>5 DEF PlanAt
  <2>2. PICK last \in Nat : \A i \in 1 .. Len(list) : pos[list[i]] < last
    <3>1. CASE Len(list) = 0
      BY <3>1
    <3>2. CASE Len(list) # 0
      <4>1. Len(list) \in 1 .. Len(list) /\ pos[list[Len(list)]] \in Nat
        BY <1>6, <2>1, <3>2
      <4>2. ASSUME NEW i \in 1 .. Len(list) PROVE pos[list[i]] < pos[list[Len(list)]] + 1
        <5>1. CASE i = Len(list)
          BY <4>1, <5>1
        <5>2. CASE i < Len(list)
          <6>1. pos[list[i]] < pos[list[Len(list)]]
            BY <1>6, <2>1, <4>1, <5>2 DEF Rising
          <6>2. pos[list[i]] \in Nat
            BY <1>6, <2>1
          <6> QED
            BY <4>1, <6>1, <6>2
        <5>3. i = Len(list) \/ i < Len(list)
          <6>1. Len(list) \in Nat
            BY <1>6
          <6> QED
            BY <6>1
        <5> QED
          BY <5>1, <5>2, <5>3
      <4>3. pos[list[Len(list)]] + 1 \in Nat
        BY <4>1
      <4> QED
        BY <4>2, <4>3
    <3> QED
      BY <3>1, <3>2
  <2> DEFINE new == [pos EXCEPT ![id] = last]
  <2>3. new \in [Ids -> Nat] /\ new[id] = last /\ \A x \in Ids : x # id => new[x] = pos[x]
    BY <1>3, <2>1
  <2> HIDE DEF new
  <2>4. ASSUME NEW i \in 1 .. Len(list) + 1, NEW j \in 1 .. Len(list) + 1, i < j
        PROVE  new[list'[i]] < new[list'[j]]
    <3>1. i \in 1 .. Len(list) /\ list'[i] = list[i] /\ new[list[i]] = pos[list[i]]
      BY <1>6, <1>7, <2>3, <2>4
    <3>2. CASE j = Len(list) + 1
      BY <1>7, <2>2, <2>3, <3>1, <3>2
    <3>3. CASE j \in 1 .. Len(list)
      <4>1. list'[j] = list[j] /\ new[list[j]] = pos[list[j]]
        BY <1>6, <1>7, <2>3, <3>3
      <4>2. pos[list[i]] < pos[list[j]]
        BY <1>6, <2>1, <2>4, <3>1, <3>3 DEF Rising
      <4> QED
        BY <3>1, <4>1, <4>2
    <3> QED
      BY <1>6, <3>2, <3>3
  <2>5. Rising(list', new)
    BY <1>7, <2>4 DEF Rising
  <2> QED
    BY <2>3, <2>5
<1>11. \A k, l \in p - Begun(cs, t, p) + 1 .. Len(StopsOf(cs, t)) :
         k < l => new[StopsOf(cs, t)[k].id] <= new[StopsOf(cs, t)[l].id]
  <2> SUFFICES ASSUME NEW k \in p - Begun(cs, t, p) + 1 .. Len(StopsOf(cs, t)),
                      NEW l \in p - Begun(cs, t, p) + 1 .. Len(StopsOf(cs, t)), k < l
               PROVE  new[StopsOf(cs, t)[k].id] <= new[StopsOf(cs, t)[l].id]
    OBVIOUS
  <2>1. StopsOf(cs, t)[k].id \in Later(cs, t, p) /\ StopsOf(cs, t)[l].id \in Later(cs, t, p)
    BY DEF Later
  <2>2. Later(cs, t, p) \subseteq Ids
    <3>1. Later(cs, t, p) \subseteq IdsIn(cs)
      <4>1. /\ cs \in Seq({cs[i] : i \in DOMAIN cs}) /\ t.count \in Nat /\ p \in Nat
            /\ p - Begun(cs, t, p) \in 0 .. Len(StopsOf(cs, t)) /\ Len(StopsOf(cs, t)) \in Nat
        BY <1>4, <1>5, PlanNumbers
      <4>2. PICK ix \in [1 .. Len(StopsOf(cs, t)) -> DOMAIN cs] :
              /\ \A k1 \in 1 .. Len(StopsOf(cs, t)) : StopsOf(cs, t)[k1].id = cs[ix[k1]].id
              /\ \A k1, l1 \in 1 .. Len(StopsOf(cs, t)) : k1 < l1 => ix[k1] < ix[l1]
        BY <4>1, StopsInOrder
      <4>3. \A i \in p - Begun(cs, t, p) + 1 .. Len(StopsOf(cs, t)) :
              i \in 1 .. Len(StopsOf(cs, t))
        BY <4>1
      <4>4. \A i \in p - Begun(cs, t, p) + 1 .. Len(StopsOf(cs, t)) :
              StopsOf(cs, t)[i].id \in IdsIn(cs)
        BY <4>2, <4>3 DEF IdsIn
      <4> QED
        BY <4>4 DEF Later
    <3> QED
      BY <1>5, <3>1 DEF PlanAt
  <2>3. /\ new[StopsOf(cs, t)[k].id] = pos[StopsOf(cs, t)[k].id]
        /\ new[StopsOf(cs, t)[l].id] = pos[StopsOf(cs, t)[l].id]
    BY <1>9, <1>10, <2>1, <2>2
  <2>4. pos[StopsOf(cs, t)[k].id] <= pos[StopsOf(cs, t)[l].id]
    BY <1>5 DEF PlanAt
  <2> QED
    BY <2>3, <2>4
<1>12. Cardinality(Listed' \ Later(cs, t, p)) <= Keeps(cs, t, p) + 1
  <2> DEFINE kept == Listed \ Later(cs, t, p)
             left == Listed' \ Later(cs, t, p)
  <2>1. IsFiniteSet(kept) /\ left \subseteq kept \cup {id}
    BY <1>8, ListedCount, FS_Subset
  <2>2. Keeps(cs, t, p) \in Nat /\ Cardinality(kept) <= Keeps(cs, t, p)
    <3>1. Keeps(cs, t, p) \in Nat
      BY <1>4, <1>5, PlanNumbers
    <3> QED
      BY <1>4, <1>5, <3>1 DEF PlanAt
  <2> HIDE DEF kept, left
  <2>3. IsFiniteSet({id}) /\ Cardinality({id}) = 1
    BY FS_Singleton
  <2>4. Cardinality(left) <= Cardinality(kept) + 1
        /\ Cardinality(left) \in Nat /\ Cardinality(kept) \in Nat
    BY <2>1, <2>3, CoverCount
  <2> QED
    BY <2>2, <2>4 DEF left
<1>13. PlanAt(cs, t, p, new)'
  <2>1. Keeps(cs, t, p)' = Keeps(cs, t, p)
    BY <1>2 DEF Keeps
  <2> QED
    BY <1>2, <1>4, <1>5, <1>10, <1>11, <1>12, <2>1 DEF PlanAt
<1>14. StepAt(cs, t, p, new)'
  BY <1>2, <1>5 DEF StepAt, StartPcs, StopPcs
<1> QED
  BY <1>2, <1>4, <1>13, <1>14 DEF CountInv, StartPcs, StopPcs, BaseOK

(* The event goroutine removes its container while the run loop reads the list:
   what the run loop sees then. *)
LEMMA TornRun ==
  ASSUME IInv, EventRemove, NEW k \in 1 .. Len(list), list[k] = eid,
         list' = Cut(list, k), Without(list, eid) = Cut(list, k),
         NEW pos \in [Ids -> Nat], Rising(list, pos),
         Reading(list, views["run"].seq, views["run"].at, pos)
  PROVE  \E i \in views["run"].at .. Len(views["run"].seq) :
           /\ Reading(list', views'["run"].seq, views'["run"].at, pos)
           /\ Len(views'["run"].seq) = Len(views["run"].seq)
           /\ \A c \in 1 .. Len(list) :
                c # k /\ list[c] \notin Seen("run")' =>
                  list[c] \notin Seen("run") \/ (c = i + 1 /\ k <= i)
<1> DEFINE v == views["run"].seq
           at == views["run"].at
           arr == Append(Cut(list, k), list[Len(list)])
<1>1. /\ list \in Seq(Ids) /\ views \in [Readers -> Views] /\ "run" \in Readers
      /\ v \in Seq(Ids) /\ at \in 0 .. Len(v) /\ Len(v) \in Nat /\ DOMAIN v = 1 .. Len(v)
  BY LenProperties DEF IInv, DataOK, Readers, Reading
<1>2. eid \in Listed
  BY <1>1, LenProperties DEF Listed
<1>3. PICK i \in at .. Len(v) :
        views' = [views EXCEPT !["run"] = IF @ = NoView THEN NoView ELSE Torn(@, arr, i)]
  BY <1>2 DEF EventRemove, RemoveFromList, Disturb, Other
<1>4. views["run"] # NoView
  BY <1>1 DEF NoView
<1>5. views'["run"] = Torn(views["run"], arr, i)
  BY <1>1, <1>3, <1>4
<1> DEFINE w == Overwritten(v, arr, i)
<1>6. views'["run"].seq = w /\ views'["run"].at = i
  BY <1>5 DEF Torn, Overwritten
<1>7. /\ Reading(Cut(list, k), w, i, pos)
      /\ \A c \in 1 .. Len(list) :
           c # k /\ list[c] \notin Elements(w) =>
             list[c] \notin Elements(v) \/ (c = i + 1 /\ k <= i)
  <2>1. list \in Seq(Ids) /\ i \in at .. Len(v) /\ Reading(list, v, at, pos)
    BY <1>1
  <2> HIDE DEF v, at
  <2> QED
    BY <2>1, TornReading
<1>8. DOMAIN w = DOMAIN v
  BY DEF Overwritten
<1> HIDE DEF w
<1>9. Len(w) = Len(v)
  <2>1. w \in Seq(Ids)
    BY <1>7 DEF Reading
  <2>2. Len(w) \in Nat /\ DOMAIN w = 1 .. Len(w)
    BY <2>1, LenProperties
  <2> QED
    BY <1>1, <1>8, <2>2
<1>10. Seen("run") = Elements(v) /\ Seen("run")' = Elements(w)
  BY <1>6 DEF Seen, Elements
<1> QED
  BY <1>3, <1>6, <1>7, <1>9, <1>10

LEMMA CountEventRemove ==
  ASSUME IInv, CountInv, EventRemove
  PROVE  CountInv'
<1>1. /\ list' = Without(list, eid) /\ pc' = pc /\ cur' = cur /\ steps' = steps
      /\ target' = target /\ copy' = copy
      /\ base' = IF pc = "scan" /\ eid \in Listed THEN [base EXCEPT !.gone = @ + 1] ELSE base
      /\ eid \notin Listed => views' = views
  BY DEF EventRemove, RemoveFromList, callVars
<1>2. TargetsOK' /\ Adding' = Adding /\ (pc = "find" => Adding = 0)
  BY <1>1 DEF CountInv, TargetsOK, IsTarget, Adding, StartPcs
<1>3. list \in Seq(Ids) /\ Distinct
  BY DEF IInv, DataOK
<1>4. CASE eid \notin Listed
  <2>1. list' = list
    BY <1>1, <1>3, <1>4, WithoutCut DEF Listed, Distinct
  <2> QED
    BY <1>1, <1>2, <1>4, <2>1, CountStands
<1>5. CASE eid \in Listed /\ pc \in {"select", "exited"}
  BY <1>1, <1>2, <1>5, CountRests
<1>6. CASE eid \in Listed /\ pc \notin {"select", "exited"}
  <2>1. PICK k \in 1 .. Len(list) : list[k] = eid /\ Without(list, eid) = Cut(list, k)
    BY <1>3, <1>6, WithoutCut DEF Listed, Distinct
  <2>2. Len(list) \in Nat /\ DOMAIN list = 1 .. Len(list)
    BY <1>3, LenProperties
  <2>3. BaseOK
    BY <1>6 DEF CountInv
  <2>4. CASE pc = "scan"
    <3>1. PICK pos : ScanAt(pos)
      BY <2>4 DEF CountInv
    <3>2. pos \in [Ids -> Nat] /\ Rising(list, pos)
          /\ Reading(list, views["run"].seq, views["run"].at, pos)
      BY <3>1 DEF ScanAt
    <3>3. Rising(list', pos) /\ Listed' = Listed \ {eid}
      BY <1>1, <3>2, RemovedList
    <3>4. PICK i \in views["run"].at .. Len(views["run"].seq) :
            /\ Reading(list', views'["run"].seq, views'["run"].at, pos)
            /\ Len(views'["run"].seq) = Len(views["run"].seq)
            /\ \A c \in 1 .. Len(list) :
                 c # k /\ list[c] \notin Seen("run")' =>
                   list[c] \notin Seen("run") \/ (c = i + 1 /\ k <= i)
      BY <1>1, <2>1, <3>2, TornRun
    <3>5. /\ base'.gone = base.gone + 1 /\ base'.len = base.len /\ base'.count = base.count
          /\ base'.order = base.order
          /\ base' = [len |-> base'.len, count |-> base'.count, order |-> base'.order,
                      gone |-> base'.gone]
      <4>1. base' = [base EXCEPT !.gone = @ + 1]
        BY <1>1, <1>6, <2>4
      <4>2. base' = [len |-> base.len, count |-> base.count, order |-> base.order,
                     gone |-> base.gone + 1]
        BY <2>3, <4>1 DEF BaseOK
      <4> QED
        BY <4>2
    <3>6. BaseOK'
      BY <2>3, <3>5 DEF BaseOK
    <3>7. Cardinality(Listed \ Seen("run"))' <= base'.gone
      <4> DEFINE old == Listed \ Seen("run")
                 new == Listed' \ Seen("run")'
      <4>1. new \subseteq old \cup {list[i + 1]}
        <5> SUFFICES ASSUME NEW x \in new, x \notin old PROVE x = list[i + 1]
          OBVIOUS
        <5>1. x \in Listed /\ x # eid /\ x \notin Seen("run")' /\ x \in Seen("run")
          BY <3>3
        <5>2. PICK c \in 1 .. Len(list) : list[c] = x
          BY <2>2, <5>1 DEF Listed
        <5>3. c # k
          BY <2>1, <5>1, <5>2
        <5> QED
          BY <3>4, <5>1, <5>2, <5>3
      <4>2. IsFiniteSet(old) /\ Cardinality(old) <= base.gone
        BY <3>1, ListedCount, FS_Subset DEF ScanAt
      <4> HIDE DEF old, new
      <4>3. IsFiniteSet({list[i + 1]}) /\ Cardinality({list[i + 1]}) = 1
        BY FS_Singleton
      <4>4. Cardinality(new) <= Cardinality(old) + 1
            /\ Cardinality(new) \in Nat /\ Cardinality(old) \in Nat
        BY <4>1, <4>2, <4>3, CoverCount
      <4>5. Cardinality(new) <= base.gone + 1
        BY <2>3, <4>2, <4>4 DEF BaseOK
      <4> QED
        BY <3>5, <4>5 DEF new
    <3>8. ScanAt(pos)'
      BY <1>1, <3>1, <3>2, <3>3, <3>4, <3>5, <3>7 DEF ScanAt
    <3> QED
      BY <1>1, <1>2, <2>4, <3>6, <3>8 DEF CountInv, StartPcs, StopPcs
  <2>5. CASE pc \in {"next"} \cup StartPcs \cup StopPcs
    <3>1. PICK cs, t, p, pos : PlanAt(cs, t, p, pos) /\ StepAt(cs, t, p, pos)
      BY <2>5 DEF CountInv
    <3>2. pos \in [Ids -> Nat] /\ Rising(list, pos)
      BY <3>1 DEF PlanAt
    <3>3. Rising(list', pos) /\ Listed' = Listed \ {eid}
      BY <1>1, <3>2, RemovedList
    <3>4. base' = base /\ BaseOK'
      BY <1>1, <2>3, <2>5 DEF BaseOK, StartPcs, StopPcs
    <3>5. Keeps(cs, t, p)' = Keeps(cs, t, p) /\ Keeps(cs, t, p) \in Nat
      BY <2>3, <3>1, <3>4, PlanNumbers DEF Keeps
    <3> DEFINE kept == Listed \ Later(cs, t, p)
               left == Listed' \ Later(cs, t, p)
    <3>6. /\ left = kept \ {eid} /\ IsFiniteSet(kept)
          /\ Cardinality(left) <= Cardinality(kept)
          /\ Cardinality(left) \in Nat /\ Cardinality(kept) \in Nat
          /\ eid \in kept => Cardinality(left) = Cardinality(kept) - 1
      <4>1. left = kept \ {eid} /\ IsFiniteSet(kept)
        BY <3>3, ListedCount, FS_Subset
      <4> HIDE DEF left, kept
      <4>2. IsFiniteSet(left) /\ Cardinality(left) <= Cardinality(kept)
        BY <4>1, FS_Subset
      <4>3. eid \in kept => Cardinality(left) = Cardinality(kept) - 1
        BY <4>1, FS_RemoveElement
      <4> QED
        BY <4>1, <4>2, <4>3, FS_CardinalityType
    <3>7. Adding \in Nat /\ Cardinality(kept) <= Keeps(cs, t, p) + Adding
      BY <3>1 DEF PlanAt, Adding
    <3>8. PlanAt(cs, t, p, pos)'
      <4>1. Cardinality(left) <= Keeps(cs, t, p)' + Adding'
        <5> HIDE DEF left, kept, Adding
        <5> QED
          BY <1>2, <3>5, <3>6, <3>7
      <4> HIDE DEF Adding
      <4> QED
        BY <1>1, <3>1, <3>3, <3>4, <4>1 DEF PlanAt
    <3>9. StepAt(cs, t, p, pos)'
      <4>1. CASE pc # "find"
        BY <1>1, <3>1, <4>1 DEF StepAt
      <4>2. CASE pc = "find"
        <5>1. /\ Reading(list, views["run"].seq, views["run"].at, pos)
              /\ steps # <<>> /\ Head(steps).op = "stop" /\ cur = Head(steps).id
              /\ cur \in Listed /\ cur \notin Seen("run") => Cardinality(kept) < Keeps(cs, t, p)
          BY <3>1, <4>2 DEF StepAt, StopPcs
        <5>2. PICK i \in views["run"].at .. Len(views["run"].seq) :
                /\ Reading(list', views'["run"].seq, views'["run"].at, pos)
                /\ \A c \in 1 .. Len(list) :
                     c # k /\ list[c] \notin Seen("run")' =>
                       list[c] \notin Seen("run") \/ (c = i + 1 /\ k <= i)
          BY <1>1, <2>1, <3>2, <5>1, TornRun
        <5>3. ASSUME cur \in Listed', cur \notin Seen("run")'
              PROVE  Cardinality(left) < Keeps(cs, t, p)
          <6>1. cur \in Listed /\ cur # eid
            BY <3>3, <5>3
          <6>2. PICK c \in 1 .. Len(list) : list[c] = cur
            BY <2>2, <6>1 DEF Listed
          <6>3. c # k
            BY <2>1, <6>1, <6>2
          <6>4. CASE cur \notin Seen("run")
            <7>1. Cardinality(kept) < Keeps(cs, t, p)
              BY <5>1, <6>1, <6>4
            <7> HIDE DEF left, kept
            <7> QED
              BY <3>5, <3>6, <7>1
          <6>5. CASE c = i + 1 /\ k <= i
            <7> DEFINE q == StopsOf(cs, t)
                       e == p - Begun(cs, t, p)
            <7>1. pos[eid] < pos[cur] /\ pos[eid] \in Nat /\ pos[cur] \in Nat
              <8>1. k < c
                BY <2>2, <6>5
              <8>2. list[k] \in Ids /\ list[c] \in Ids
                BY <1>3, ElementOfSeq
              <8> QED
                BY <2>1, <2>2, <3>2, <6>2, <8>1, <8>2 DEF Rising
            <7>2. e + 1 \in 1 .. Len(q) /\ cur = q[e + 1].id
              BY <2>3, <3>1, <5>1, HeadStep
            <7>3. \A j, l \in e + 1 .. Len(q) : j < l => pos[q[j].id] <= pos[q[l].id]
              BY <3>1 DEF PlanAt
            <7>4. Later(cs, t, p) = {q[j].id : j \in e + 1 .. Len(q)}
              BY DEF Later
            <7>5. e \in Nat /\ Len(q) \in Nat
              <8>1. e \in 0 .. Len(q) /\ Len(q) \in Nat
                BY <2>3, <3>1, PlanNumbers
              <8> HIDE DEF e, q
              <8> QED
                BY <8>1
            <7> HIDE DEF q, e
            <7>6. ASSUME NEW j \in e + 1 .. Len(q) PROVE q[j].id # eid
              <8>1. CASE j = e + 1
                BY <6>1, <7>2, <8>1
              <8>2. CASE e + 1 < j
                <9>1. e + 1 \in e + 1 .. Len(q)
                  BY <7>2, <7>5
                <9>2. pos[cur] <= pos[q[j].id]
                  BY <7>2, <7>3, <8>2, <9>1
                <9>3. ASSUME q[j].id = eid PROVE FALSE
                  <10>1. pos[cur] <= pos[eid]
                    BY <9>2, <9>3
                  <10> QED
                    BY <7>1, <10>1
                <9> QED
                  BY <9>3
              <8>3. j = e + 1 \/ e + 1 < j
                BY <7>5
              <8> QED
                BY <8>1, <8>2, <8>3
            <7>7. eid \in kept
              BY <1>6, <7>4, <7>6
            <7>8. Cardinality(left) = Cardinality(kept) - 1
              BY <3>6, <7>7
            <7>9. Cardinality(kept) <= Keeps(cs, t, p)
              BY <1>2, <3>5, <3>7, <4>2
            <7> HIDE DEF left, kept
            <7> QED
              BY <3>5, <3>6, <7>8, <7>9
          <6> QED
            BY <5>2, <5>3, <6>2, <6>3, <6>4, <6>5
        <5> HIDE DEF left, kept
        <5> QED
          BY <1>1, <3>5, <4>2, <5>1, <5>2, <5>3 DEF StepAt, StopPcs, StartPcs, left
      <4> QED
        BY <4>1, <4>2
    <3> QED
      BY <1>1, <1>2, <2>5, <3>4, <3>8, <3>9 DEF CountInv, StartPcs, StopPcs
  <2>6. pc = "scan" \/ pc \in {"next"} \cup StartPcs \cup StopPcs
    BY <1>6 DEF CountInv
  <2> QED
    BY <2>4, <2>5, <2>6
<1> QED
  BY <1>4, <1>5, <1>6

(* The run loop goes on with its step. *)
LEMMA CountInStep ==
  ASSUME IInv, CountInv,
         \/ StartContainer \/ AssignId \/ HealthFails \/ StopFailed \/ Stopped
  PROVE  CountInv'
<1>1. /\ list' = list /\ base' = base /\ steps' = steps /\ cur' = cur
      /\ target' = target /\ copy' = copy
  BY DEF StartContainer, AssignId, HealthFails, StopFailed, Stopped, callVars, containersVars
<1>2. TargetsOK'
  BY <1>1 DEF CountInv, TargetsOK, IsTarget
<1>3. \/ pc \in StartPcs \ {"lock"} /\ pc' \in StartPcs \ {"lock"}
      \/ pc \in StopPcs /\ pc' \in {"stopping", "remove"}
  BY DEF StartContainer, AssignId, HealthFails, StopFailed, Stopped, StartPcs, StopPcs
<1> QED
  BY <1>1, <1>2, <1>3, CountGoesOn

(* converge() ends, or the run loop does. *)
LEMMA CountEnds ==
  ASSUME CountInv, Converged \/ LockFails \/ Unlist \/ Exit
  PROVE  CountInv'
<1>1. target' = target /\ copy' = copy /\ pc' \in {"select", "exited"}
  BY DEF Converged, LockFails, Unlist, Exit, Abort, EndConverge, callVars
<1>2. TargetsOK'
  BY <1>1 DEF CountInv, TargetsOK, IsTarget
<1> QED
  BY <1>1, <1>2, CountRests

(* Whatever sets the target, it is a version and a count. *)
LEMMA VersionSet ==
  ASSUME NEW x, IsTarget(x), NEW v
  PROVE  IsTarget([x EXCEPT !.ver = v])
<1>1. x \in [ver : {x.ver}, count : Nat]
  BY DEF IsTarget
<1>2. [x EXCEPT !.ver = v] = [ver |-> v, count |-> x.count] /\ x.count \in Nat
  BY <1>1
<1> QED
  BY <1>2 DEF IsTarget

LEMMA TargetSet ==
  ASSUME TargetsOK,
         \/ \E c \in Callers, x \in Targets : SetTarget(c, x)
         \/ \E s \in Setters : SetComponentGet(s) \/ \E v \in Versions : SetComponentSet(s, v)
         \/ target' = target /\ copy' = copy
  PROVE  TargetsOK'
<1>1. CASE target' = target /\ copy' = copy
  BY <1>1 DEF TargetsOK, IsTarget
<1>2. CASE \E c \in Callers, x \in Targets : SetTarget(c, x)
  <2>1. PICK x \in Targets : target' = x /\ copy' = copy
    BY <1>2 DEF SetTarget
  <2>2. IsTarget(x)
    <3>1. MaxCount \in Nat /\ x \in [ver : Versions, count : 0 .. MaxCount]
      BY ConvergerAssumption DEF Targets
    <3>2. x = [ver |-> x.ver, count |-> x.count] /\ x.count \in Nat
      BY <3>1
    <3> QED
      BY <3>2 DEF IsTarget
  <2> QED
    BY <2>1, <2>2 DEF TargetsOK
<1>3. CASE \E s \in Setters : SetComponentGet(s)
  <2>1. PICK s \in Setters : target' = target /\ copy' = [copy EXCEPT ![s] = target]
    BY <1>3 DEF SetComponentGet
  <2> QED
    BY <2>1 DEF TargetsOK
<1>4. CASE \E s \in Setters, v \in Versions : SetComponentSet(s, v)
  <2>1. PICK s \in Setters, v \in Versions :
          /\ copy[s] # None
          /\ target' = [copy[s] EXCEPT !.ver = v] /\ copy' = [copy EXCEPT ![s] = None]
    BY <1>4 DEF SetComponentSet
  <2>2. IsTarget(copy[s])
    BY <2>1 DEF TargetsOK
  <2>3. IsTarget([copy[s] EXCEPT !.ver = v])
    BY <2>2, VersionSet
  <2>4. IsTarget(target')
    BY <2>1, <2>3
  <2> QED
    BY <2>1, <2>4 DEF TargetsOK
<1> QED
  BY <1>1, <1>2, <1>3, <1>4

(* The others leave the list and the run loop alone. *)
LEMMA CountOutside ==
  ASSUME IInv, CountInv,
         \/ ContainerExited \/ EventFind \/ EventStopped \/ EventDone \/ ImageUpdated \/ Stop
         \/ \E c \in Callers, x \in Targets : SetTarget(c, x)
         \/ \E s \in Setters : SetComponentGet(s) \/ \E v \in Versions : SetComponentSet(s, v)
         \/ \E id \in Ids : Dies(id) \/ Drains(id)
         \/ UNCHANGED vars
  PROVE  CountInv'
<1>1. /\ list' = list /\ base' = base /\ steps' = steps /\ pc' = pc /\ cur' = cur
      /\ views'["run"] = views["run"]
  <2> USE DEF ContainerExited, EventFind, EventStopped, EventDone, ImageUpdated, Stop,
              SetTarget, SetComponentGet, SetComponentSet, Dies, Drains, vars
  <2>1. list' = list /\ base' = base /\ steps' = steps /\ pc' = pc /\ cur' = cur
    BY DEF containersVars, loopVars
  <2>2. views'["run"] = views["run"]
    BY DEF containersVars, IInv, DataOK, Readers
  <2> QED
    BY <2>1, <2>2
<1>2. TargetsOK'
  <2>1. \/ \E c \in Callers, x \in Targets : SetTarget(c, x)
        \/ \E s \in Setters :
             SetComponentGet(s) \/ \E v \in Versions : SetComponentSet(s, v)
        \/ target' = target /\ copy' = copy
    BY DEF ContainerExited, EventFind, EventStopped, EventDone, ImageUpdated, Stop, Dies,
           Drains, vars, callVars
  <2> QED
    BY <2>1, TargetSet DEF CountInv
<1> QED
  BY <1>1, <1>2, CountStands

LEMMA CountStep == IInv /\ CountInv /\ [Next]_vars => CountInv'
<1> SUFFICES ASSUME IInv, CountInv, [Next]_vars PROVE CountInv'
  OBVIOUS
<1>1. CASE LoopStep
  BY <1>1, CountMakesPlan, CountEnds, CountNextStep, CountCreates, CountInStep,
     CountHealthPasses, CountFind, CountRemoved DEF LoopStep
<1>2. CASE EventStep
  BY <1>2, CountEventRemove, CountOutside DEF EventStep
<1>3. CASE Exit \/ TakeWake \/ Tick \/ \E c \in Callers : TakeCaller(c)
  BY <1>3, CountEnds, CountBegins
<1>4. CASE \/ ImageUpdated \/ Stop \/ UNCHANGED vars
           \/ \E c \in Callers, x \in Targets : SetTarget(c, x)
           \/ \E s \in Setters :
                SetComponentGet(s) \/ \E v \in Versions : SetComponentSet(s, v)
           \/ \E id \in Ids : Dies(id) \/ Drains(id)
  BY <1>4, CountOutside
<1> QED
  BY <1>1, <1>2, <1>3, <1>4 DEF Next

(* However the readings of the list are torn and whatever exits, dies or is
   removed in the middle of a converge, the list never holds more than the
   larger of what the converge found and what it was asked for, one more with
   startstop, and one more for each removal that plan's reading was torn by
   (converger.go:221-254, 342-370, 387-493). *)
THEOREM MemoryIsBounded == Spec => []MemoryBounded
<1>1. Spec => []CountInv
  <2>1. Init => IInv /\ CountInv
    BY InitInv, CountInit
  <2>2. IInv /\ CountInv /\ [Next]_vars => (IInv /\ CountInv)'
    BY StepInv, CountStep
  <2> QED
    BY <2>1, <2>2, PTL DEF Spec
<1> QED
  BY <1>1, Inductive, CountImplies, PTL

-----------------------------------------------------------------------------
(* No wake-up is lost.                                                     *)

(* Nothing is on its way that will wake the run loop. *)
Quiet ==
  /\ wake = 0 /\ \A c \in Callers : cpc[c] # "sending"
  /\ epc = "idle" /\ events = <<>> /\ ~cancelled

(* Wake-ups are counted; the caller that is served waits for its answer. *)
CallOK ==
  /\ wake \in Nat
  /\ cpc = [c \in Callers |-> cpc[c]]
  /\ serving # None => serving \in Callers /\ cpc[serving] = "waiting"
  /\ ver = [i \in Ids |-> ver[i]] /\ reason = [i \in Ids |-> reason[i]]

Wanted == FullTarget(target.ver, target.count)
Settled == Plan(Records(list), Wanted).steps = <<>>

(* The list is what the first p steps make of the one that was planned for. *)
QuietAt(cs, t, p) ==
  /\ cs \in Seq({cs[i] : i \in DOMAIN cs}) /\ Unalike(cs)
  /\ t = Wanted
  /\ p \in 0 .. Len(Plan(cs, t).steps) /\ steps = After(Plan(cs, t).steps, p)
  /\ Len(list) = Len(cs) + 2 * Begun(cs, t, p) - p + Adding
  /\ IdsIn(cs) \ Ended(cs, t, p) \subseteq Listed
  /\ \A x \in Listed :
       \/ Kept(Record(x), t)
       \/ x \notin Ended(cs, t, p) /\ \E j \in DOMAIN cs : cs[j] = Record(x)

Going == {"next", "lock", "start", "assign", "health"} \cup StopPcs

(* While nothing is on its way, what the run loop knows is how things are: its
   readings are the list, its plan is for the current target, and the list
   follows the plan.  Any other action that changes one of them leaves a wake-up
   behind. *)
QuietInv ==
  /\ CallOK
  /\ Quiet =>
       /\ pc = "select" /\ ~failed => Settled
       /\ pc \in {"scan", "find"} => views["run"].seq = list
       /\ pc = "scan" => base.count = target.count /\ Head(steps).ver = target.ver
       /\ pc \in Going => \E cs, t, p : QuietAt(cs, t, p)

LEMMA RecordList ==
  ASSUME IInv, NEW t, t.count \in Nat
  PROVE  /\ Records(list) \in Seq({Record(i) : i \in Listed})
         /\ Len(Records(list)) = Len(list) /\ Len(list) \in Nat
         /\ DOMAIN Records(list) = 1 .. Len(list) /\ DOMAIN list = 1 .. Len(list)
         /\ \A i \in 1 .. Len(list) :
              Records(list)[i] = Record(list[i]) /\ Records(list)[i].id = list[i]
         /\ Unalike(Records(list)) /\ IdsIn(Records(list)) = Listed
<1>1. list \in Seq(Ids) /\ Len(list) \in Nat /\ DOMAIN list = 1 .. Len(list) /\ Distinct
  BY LenProperties DEF IInv, DataOK
<1>2. /\ DOMAIN Records(list) = 1 .. Len(list)
      /\ \A i \in 1 .. Len(list) :
              Records(list)[i] = Record(list[i]) /\ Records(list)[i].id = list[i]
      /\ Records(list) = [i \in 1 .. Len(list) |-> Records(list)[i]]
  BY <1>1 DEF Records, Record
<1>3. \A i \in 1 .. Len(list) : list[i] \in Listed
  BY <1>1 DEF Listed
<1> DEFINE R == {Record(i) : i \in Listed}
           r == Records(list)
<1>4. \A i \in 1 .. Len(list) : r[i] \in R
  BY <1>2, <1>3
<1>5. Unalike(r)
  BY <1>1, <1>2 DEF Unalike, Distinct
<1>6. IdsIn(r) = Listed
  <2>1. IdsIn(r) = {r[i].id : i \in 1 .. Len(list)}
    BY <1>2 DEF IdsIn
  <2>2. Listed = {list[i] : i \in 1 .. Len(list)}
    BY <1>1 DEF Listed
  <2> QED
    BY <1>2, <2>1, <2>2
<1> HIDE DEF r, R
<1>7. r \in Seq(R) /\ Len(r) = Len(list)
  <2>1. r \in [1 .. Len(list) -> R]
    BY <1>2, <1>4 DEF r
  <2>2. r \in Seq(R)
    BY <1>1, <2>1, SeqDef
  <2> QED
    BY <1>1, <1>2, <2>2, LenProperties DEF r
<1> QED
  BY <1>1, <1>2, <1>5, <1>6, <1>7 DEF r, R

(* The plan has been carried out: there is nothing left to do. *)
LEMMA QuietEnds ==
  ASSUME IInv, TargetsOK, NEW cs, NEW t, NEW p, QuietAt(cs, t, p), steps = <<>>, Adding = 0
  PROVE  Settled
<1>1. /\ cs \in Seq({cs[i] : i \in DOMAIN cs}) /\ Unalike(cs) /\ t = Wanted
      /\ p \in 0 .. Len(Plan(cs, t).steps) /\ steps = After(Plan(cs, t).steps, p)
  BY DEF QuietAt
<1>2. t.count \in Nat
  BY <1>1 DEF Wanted, FullTarget, TargetsOK, IsTarget
<1>3. p = Len(Plan(cs, t).steps)
  <2> DEFINE S == StopSteps(cs) \cup StartSteps(t)
             s == Plan(cs, t).steps
  <2>1. s \in Seq(S) /\ p \in 0 .. Len(s) /\ After(s, p) = <<>>
    BY <1>1, <1>2, PlanShape
  <2> HIDE DEF S, s
  <2>2. p = Len(s)
    BY <2>1, AfterElements
  <2> QED
    BY <2>2 DEF s
<1>4. /\ Len(cs) + 2 * Begun(cs, t, p) - p = t.count
      /\ \A j \in DOMAIN cs : cs[j].id \notin Ended(cs, t, p) => Kept(cs[j], t)
  <2>1. Len(cs) + 2 * Begun(cs, t, p) - p = t.count
    BY <1>1, <1>2, <1>3, PlanBalance
  <2>2. \A j \in DOMAIN cs : cs[j].id \notin Ended(cs, t, p) => Kept(cs[j], t)
    BY <1>1, <1>2, <1>3, PlanLeaves
  <2> QED
    BY <2>1, <2>2
<1>5. Len(list) = t.count
  <2>1. Len(list) = Len(cs) + 2 * Begun(cs, t, p) - p + Adding
    BY DEF QuietAt
  <2>2. Len(list) = t.count + 0
    BY <1>4, <2>1
  <2> QED
    BY <1>2, <2>2
<1>6. \A x \in Listed : Kept(Record(x), t)
  <2> SUFFICES ASSUME NEW x \in Listed, x \notin Ended(cs, t, p),
                      NEW j \in DOMAIN cs, cs[j] = Record(x)
               PROVE  Kept(Record(x), t)
    BY DEF QuietAt
  <2>1. cs[j].id = x
    BY DEF Record
  <2> QED
    BY <1>4, <2>1
<1>7. /\ Records(list) \in Seq({Record(i) : i \in Listed})
      /\ Len(Records(list)) = t.count
      /\ \A j \in DOMAIN Records(list) : Kept(Records(list)[j], t)
  <2>1. /\ Records(list) \in Seq({Record(i) : i \in Listed})
        /\ Len(Records(list)) = Len(list)
        /\ DOMAIN Records(list) = DOMAIN list
        /\ \A i \in DOMAIN list : Records(list)[i] = Record(list[i])
    BY <1>2, RecordList
  <2>2. \A i \in DOMAIN list : list[i] \in Listed
    BY DEF Listed
  <2> QED
    BY <1>5, <1>6, <2>1, <2>2
<1>8. Plan(Records(list), t).steps = <<>>
  BY <1>2, <1>7, PlanEmpty
<1> QED
  BY <1>1, <1>8 DEF Settled

(* The first step that is left, when the list is as planned. *)
LEMMA QuietHead ==
  ASSUME TargetsOK, NEW cs, NEW t, NEW p, QuietAt(cs, t, p), steps # <<>>
  PROVE  /\ t.count \in Nat /\ p \in Nat /\ Begun(cs, t, p) \in Nat /\ Len(cs) \in Nat
         /\ p + 1 \in 0 .. Len(Plan(cs, t).steps)
         /\ Tail(steps) = After(Plan(cs, t).steps, p + 1)
         /\ Head(steps).op = "start" =>
              /\ Head(steps).ver = t.ver
              /\ Begun(cs, t, p + 1) = Begun(cs, t, p) + 1
              /\ Ended(cs, t, p + 1) = Ended(cs, t, p)
         /\ Head(steps).op = "stop" =>
              /\ Begun(cs, t, p + 1) = Begun(cs, t, p)
              /\ Ended(cs, t, p + 1) = Ended(cs, t, p) \cup {Head(steps).id}
              /\ Head(steps).id \in IdsIn(cs) \ Ended(cs, t, p)
<1> DEFINE S == StopSteps(cs) \cup StartSteps(t)
           s == Plan(cs, t).steps
<1>1. /\ cs \in Seq({cs[i] : i \in DOMAIN cs}) /\ Unalike(cs) /\ t = Wanted
      /\ p \in 0 .. Len(s) /\ steps = After(s, p)
  BY DEF QuietAt
<1>2. t.count \in Nat
  BY <1>1 DEF Wanted, FullTarget, TargetsOK, IsTarget
<1>3. s \in Seq(S) /\ Len(s) \in Nat /\ Len(cs) \in Nat
      /\ StopsOf(cs, t) \in Seq(StopSteps(cs))
  BY <1>1, <1>2, PlanShape, LenProperties
<1> HIDE DEF S, s
<1>4. p < Len(s) /\ Head(steps) = s[p + 1] /\ Tail(steps) = After(s, p + 1)
  <2>1. After(s, p) # <<>>
    BY <1>1
  <2>2. p < Len(s)
    <3>1. p # Len(s)
      BY <1>1, <1>3, <2>1, AfterElements
    <3> QED
      BY <1>1, <1>3, <3>1
  <2>3. Head(After(s, p)) = s[p + 1] /\ Tail(After(s, p)) = After(s, p + 1)
    BY <1>1, <1>3, <2>2, AfterElements
  <2> QED
    BY <1>1, <2>2, <2>3
<1>5. p \in Nat /\ p + 1 \in 0 .. Len(s)
  BY <1>1, <1>3, <1>4
<1> DEFINE m == Begun(cs, t, p)
           q == StopsOf(cs, t)
           x == Plan(cs, t).steps[p + 1]
<1>6. x = Head(steps)
  BY <1>4 DEF s
<1>7. p < Len(Plan(cs, t).steps) /\ p \in 0 .. Len(Plan(cs, t).steps)
  BY <1>1, <1>4 DEF s
<1>8. /\ m \in 0 .. ToStart(cs, t) /\ p - m \in 0 .. Len(q)
      /\ \/ /\ x = StartStep(t.ver, TakesLock(t, m + 1))
            /\ Begun(cs, t, p + 1) = m + 1
            /\ Ended(cs, t, p + 1) = Ended(cs, t, p)
         \/ /\ x = q[p - m + 1] /\ p - m + 1 <= Len(q)
            /\ Begun(cs, t, p + 1) = m
            /\ Ended(cs, t, p + 1) = Ended(cs, t, p) \cup {x.id}
  BY <1>1, <1>2, <1>5, <1>7, PlanStep
<1>9. p - m < Len(q) => q[p - m + 1].id \in IdsIn(cs) \ Ended(cs, t, p)
  BY <1>1, <1>2, <1>7, PlanLeaves
<1>10. m \in Nat /\ Len(q) \in Nat
  <2>1. ToStart(cs, t) \in 0 .. t.count /\ Len(q) \in Nat
    BY <1>1, <1>2, <1>3, PlanShape, LenProperties
  <2> HIDE DEF m, q
  <2> QED
    BY <1>2, <1>8, <2>1
<1>11. CASE x = StartStep(t.ver, TakesLock(t, m + 1)) /\ Begun(cs, t, p + 1) = m + 1
             /\ Ended(cs, t, p + 1) = Ended(cs, t, p)
  <2>1. x.op = "start" /\ x.ver = t.ver
    BY <1>11 DEF StartStep
  <2> HIDE DEF x
  <2> QED
    BY <1>2, <1>3, <1>4, <1>5, <1>6, <1>10, <1>11, <2>1 DEF s
<1>12. CASE /\ x = q[p - m + 1] /\ p - m + 1 <= Len(q)
            /\ Begun(cs, t, p + 1) = m
            /\ Ended(cs, t, p + 1) = Ended(cs, t, p) \cup {x.id}
  <2> HIDE DEF x, m, q
  <2>1. p - m + 1 \in 1 .. Len(q) /\ p - m < Len(q)
    BY <1>5, <1>8, <1>10, <1>12
  <2>2. x \in StopSteps(cs)
    BY <1>3, <1>12, <2>1, ElementOfSeq DEF q
  <2>3. x.op = "stop"
    BY <2>2 DEF StopSteps
  <2>4. x.id \in IdsIn(cs) \ Ended(cs, t, p)
    BY <1>9, <1>12, <2>1
  <2> QED
    BY <1>2, <1>3, <1>4, <1>5, <1>6, <1>10, <1>12, <2>3, <2>4 DEF s, m
<1> QED
  BY <1>8, <1>11, <1>12

LEMMA QuietInit == Init => QuietInv
<1> SUFFICES ASSUME Init PROVE QuietInv
  OBVIOUS
<1>1. /\ target = [ver |-> CHOOSE v \in Versions : TRUE, count |-> 0] /\ list = <<>>
      /\ pc = "select" /\ serving = None /\ wake = 0
      /\ cpc = [c \in Callers |-> "idle"]
      /\ ver = [i \in Ids |-> CHOOSE v \in Versions : TRUE]
      /\ reason = [i \in Ids |-> Unset]
  BY DEF Init
<1>2. CallOK
  BY <1>1 DEF CallOK
<1>3. Settled
  <2>1. IInv
    BY InitInv
  <2>2. /\ Records(list) \in Seq({Record(i) : i \in Listed})
        /\ Len(Records(list)) = Len(list) /\ DOMAIN Records(list) = 1 .. Len(list)
    BY <2>1, <1>1, RecordList
  <2>3. Len(list) = 0 /\ Wanted.count = 0
    BY <1>1, EmptySeq DEF Wanted, FullTarget
  <2>4. PICK cs : cs = Records(list)
    OBVIOUS
  <2>5. PICK t : t = Wanted
    OBVIOUS
  <2>6. /\ cs \in Seq({Record(i) : i \in Listed}) /\ t.count = 0 /\ t.count \in Nat
        /\ Len(cs) = t.count
    BY <2>2, <2>3, <2>4, <2>5
  <2>7. \A j \in DOMAIN cs : Kept(cs[j], t)
    <3>1. DOMAIN cs = 1 .. 0
      BY <2>2, <2>3, <2>4
    <3> QED
      BY <3>1
  <2>8. Plan(cs, t).steps = <<>>
    BY <2>6, <2>7, PlanEmpty
  <2> QED
    BY <2>4, <2>5, <2>8 DEF Settled
<1> QED
  BY <1>1, <1>2, <1>3 DEF QuietInv, Going, StopPcs

(* The list, the plan and the target stay what they are. *)
LEMMA QuietStands ==
  ASSUME NEW cs, NEW t, NEW p, QuietAt(cs, t, p), list' = list, steps' = steps,
         target' = target, ver' = ver, reason' = reason, Adding' = Adding
  PROVE  QuietAt(cs, t, p)'
<1>1. Listed' = Listed /\ Wanted' = Wanted /\ \A x : Record(x)' = Record(x)
  BY DEF Listed, Wanted, Record, FullTarget
<1> QED
  BY <1>1 DEF QuietAt

(* What the run loop does to the callers. *)
LEMMA LoopCalls ==
  ASSUME CallOK, LoopStep
  PROVE  CallOK' /\ target' = target /\ (Quiet' => Quiet)
<1>1. wake' = wake /\ epc' = epc /\ cancelled' = cancelled /\ target' = target
  BY DEF LoopStep, MakePlan, Converged, NextStep, Create, LockFails, StartContainer, AssignId,
         HealthPasses, HealthFails, StopFailed, Unlist, Find, Stopped, Removed, Change,
         callVars, eventVars, worldVars
<1>2. events' = <<>> => events = <<>>
  <2>1. events' = events \/ Kill(cur)
    BY DEF LoopStep, MakePlan, Converged, NextStep, Create, LockFails, StartContainer,
           AssignId, HealthPasses, HealthFails, StopFailed, Unlist, Find, Stopped, Removed,
           eventVars
  <2>2. ASSUME Kill(cur) PROVE events' = <<>> => events = <<>>
    <3>1. events' = events \/ events' = Append(events, cur)
      BY <2>2 DEF Kill
    <3>2. Append(events, cur) # <<>>
      OBVIOUS
    <3> QED
      BY <3>1, <3>2
  <2> QED
    BY <2>1, <2>2
<1>3. \/ cpc' = cpc /\ serving' = serving
      \/ /\ serving' = None
         /\ cpc' = IF serving = None THEN cpc ELSE [cpc EXCEPT ![serving] = "idle"]
  BY DEF LoopStep, MakePlan, Converged, NextStep, Create, LockFails, StartContainer, AssignId,
         HealthPasses, HealthFails, StopFailed, Unlist, Find, Stopped, Removed, Abort,
         EndConverge, callVars
<1>4. \/ ver' = ver /\ reason' = reason
      \/ \E i, v : ver' = [ver EXCEPT ![i] = v] /\ reason' = [reason EXCEPT ![i] = Unset]
  BY DEF LoopStep, MakePlan, Converged, NextStep, Create, LockFails, StartContainer, AssignId,
         HealthPasses, HealthFails, StopFailed, Unlist, Find, Stopped, Removed, containersVars
<1>5. /\ cpc' = [c \in Callers |-> cpc'[c]]
      /\ serving' # None => serving' \in Callers /\ cpc'[serving'] = "waiting"
      /\ \A c \in Callers : cpc[c] = "sending" => cpc'[c] = "sending"
  <2>1. /\ cpc = [c \in Callers |-> cpc[c]]
        /\ serving # None => serving \in Callers /\ cpc[serving] = "waiting"
    BY DEF CallOK
  <2>2. CASE cpc' = cpc /\ serving' = serving
    BY <2>1, <2>2
  <2>3. CASE serving' = None /\ serving = None /\ cpc' = cpc
    BY <2>1, <2>3
  <2>4. CASE serving' = None /\ serving # None /\ cpc' = [cpc EXCEPT ![serving] = "idle"]
    BY <2>1, <2>4
  <2> QED
    BY <1>3, <2>2, <2>3, <2>4
<1>6. ver' = [i \in Ids |-> ver'[i]] /\ reason' = [i \in Ids |-> reason'[i]]
  <2>1. ver = [i \in Ids |-> ver[i]] /\ reason = [i \in Ids |-> reason[i]]
    BY DEF CallOK
  <2>2. CASE ver' = ver /\ reason' = reason
    BY <2>1, <2>2
  <2>3. CASE \E i, v : ver' = [ver EXCEPT ![i] = v] /\ reason' = [reason EXCEPT ![i] = Unset]
    BY <2>1, <2>3
  <2> QED
    BY <1>4, <2>2, <2>3
<1>7. CallOK'
  BY <1>1, <1>5, <1>6 DEF CallOK
<1>8. Quiet' => Quiet
  BY <1>1, <1>2, <1>5 DEF Quiet
<1> QED
  BY <1>1, <1>7, <1>8

LEMMA QuietBegins ==
  ASSUME IInv, QuietInv, TakeWake \/ Tick \/ \E c \in Callers : TakeCaller(c)
  PROVE  QuietInv'
<1>1. /\ pc' = "scan" /\ list' = list /\ target' = target /\ ver' = ver /\ reason' = reason
      /\ views' = [views EXCEPT !["run"] = [seq |-> list, at |-> 0]]
      /\ base' = [len |-> Len(list), count |-> target.count, order |-> OrderOf[target.ver],
                  gone |-> 0]
      /\ steps' = <<[op |-> "target", ver |-> target.ver]>>
  BY DEF TakeWake, Tick, TakeCaller, BeginConverge
<1>2. views'["run"].seq = list
  <2>1. views \in [Readers -> Views] /\ "run" \in Readers
    BY DEF IInv, DataOK, Readers
  <2> QED
    BY <1>1, <2>1
<1>3. base'.count = target'.count /\ Head(steps').ver = target'.ver
  BY <1>1
<1>4. CallOK'
  <2>1. CASE TakeWake
    BY <2>1 DEF TakeWake, BeginConverge, QuietInv, CallOK
  <2>2. CASE Tick
    BY <2>2 DEF Tick, BeginConverge, QuietInv, CallOK
  <2>3. CASE \E c \in Callers : TakeCaller(c)
    BY <2>3 DEF TakeCaller, BeginConverge, QuietInv, CallOK
  <2> QED
    BY <2>1, <2>2, <2>3
<1> QED
  BY <1>1, <1>2, <1>3, <1>4 DEF QuietInv, Going, StopPcs

LEMMA QuietMakesPlan ==
  ASSUME IInv, TargetsOK, QuietInv, MakePlan
  PROVE  QuietInv'
<1>1. CallOK' /\ target' = target /\ (Quiet' => Quiet)
  BY LoopCalls DEF LoopStep, QuietInv
<1>2. PICK cs : cs = Records(list)
  OBVIOUS
<1>3. PICK t : t = Wanted
  OBVIOUS
<1>4. CASE pc' = "select" /\ failed'
  BY <1>1, <1>4 DEF QuietInv, Going, StopPcs
<1>5. CASE pc' = "next" /\ Quiet'
  <2>1. /\ pc = "scan" /\ list' = list /\ ver' = ver /\ reason' = reason
        /\ views["run"].seq = list /\ base.count = target.count
        /\ Head(steps).ver = target.ver
    BY <1>1, <1>5 DEF MakePlan, QuietInv
  <2>2. steps' = Plan(cs, t).steps
    BY <1>2, <1>3, <1>5, <2>1 DEF MakePlan, Abort, EndConverge, Wanted
  <2>3. t.count \in Nat
    BY <1>3 DEF Wanted, FullTarget, TargetsOK, IsTarget
  <2>4. /\ cs \in Seq({Record(i) : i \in Listed}) /\ Len(cs) = Len(list) /\ Len(list) \in Nat
        /\ DOMAIN cs = 1 .. Len(list) /\ DOMAIN list = 1 .. Len(list)
        /\ \A i \in 1 .. Len(list) : cs[i] = Record(list[i])
        /\ Unalike(cs) /\ IdsIn(cs) = Listed
    BY <1>2, <2>3, RecordList
  <2>5. cs \in Seq({cs[i] : i \in DOMAIN cs})
    <3> DEFINE C == {cs[i] : i \in DOMAIN cs}
    <3>1. cs = [i \in 1 .. Len(list) |-> cs[i]] /\ \A i \in 1 .. Len(list) : cs[i] \in C
      <4>1. cs = [i \in DOMAIN cs |-> cs[i]]
        BY <1>2 DEF Records
      <4> QED
        BY <2>4, <4>1
    <3> HIDE DEF C
    <3>2. cs \in [1 .. Len(list) -> C]
      BY <3>1
    <3> QED
      BY <2>4, <3>2, SeqDef DEF C
  <2>6. 0 \in 0 .. Len(Plan(cs, t).steps) /\ After(Plan(cs, t).steps, 0) = Plan(cs, t).steps
    <3> DEFINE S == StopSteps(cs) \cup StartSteps(t)
               s == Plan(cs, t).steps
    <3>1. s \in Seq(S) /\ Len(s) \in Nat
      BY <2>3, <2>5, PlanShape, LenProperties
    <3>2. 0 \in 0 .. Len(s)
      BY <3>1
    <3> HIDE DEF s, S
    <3>3. After(s, 0) = s
      BY <3>1, <3>2, AfterElements
    <3> QED
      BY <3>2, <3>3 DEF s
  <2>7. Begun(cs, t, 0) = 0 /\ Ended(cs, t, 0) = {}
    BY <2>3, <2>5, <2>6, PlanBalance
  <2>8. /\ Listed' = Listed /\ Wanted' = t /\ Adding' = 0 /\ \A x : Record(x)' = Record(x)
    BY <1>1, <1>3, <1>5, <2>1 DEF Listed, Wanted, FullTarget, Record, Adding, StartPcs
  <2>9. Len(list') = Len(cs) + 2 * Begun(cs, t, 0) - 0 + Adding'
    <3>1. Len(list) = Len(cs) + 2 * 0 - 0 + 0
      BY <2>4
    <3> QED
      BY <2>1, <2>7, <2>8, <3>1
  <2>10. ASSUME NEW x \in Listed PROVE \E j \in DOMAIN cs : cs[j] = Record(x)
    BY <2>4 DEF Listed
  <2>11. QuietAt(cs, t, 0)'
    BY <2>2, <2>4, <2>5, <2>6, <2>7, <2>8, <2>9, <2>10 DEF QuietAt
  <2> QED
    BY <1>1, <1>5, <2>11 DEF QuietInv, Going, StopPcs
<1>6. CASE ~ Quiet'
  BY <1>1, <1>6 DEF QuietInv
<1>7. pc' = "next" \/ (pc' = "select" /\ failed')
  BY DEF MakePlan, Abort, EndConverge
<1> QED
  BY <1>4, <1>5, <1>6, <1>7

LEMMA QuietConverges ==
  ASSUME IInv, CountInv, QuietInv, Converged
  PROVE  QuietInv'
<1>1. CallOK' /\ target' = target /\ (Quiet' => Quiet)
  BY LoopCalls DEF LoopStep, QuietInv
<1>2. /\ pc = "next" /\ pc' = "select" /\ steps = <<>>
      /\ list' = list /\ ver' = ver /\ reason' = reason
  BY DEF Converged, EndConverge, containersVars
<1>3. ASSUME Quiet PROVE Settled
  <2>1. PICK cs, t, p : QuietAt(cs, t, p)
    BY <1>2, <1>3 DEF QuietInv, Going
  <2>2. Adding = 0 /\ TargetsOK
    BY <1>2 DEF Adding, StartPcs, CountInv
  <2> QED
    BY <1>2, <2>1, <2>2, QuietEnds
<1>4. Settled => Settled'
  BY <1>1, <1>2 DEF Settled, Records, Record, Wanted, FullTarget
<1> QED
  BY <1>1, <1>2, <1>3, <1>4 DEF QuietInv, Going, StopPcs

(* A converge that failed promises nothing, nor does a loop that is about to be woken. *)
LEMMA QuietMoot ==
  ASSUME CallOK',
         ~ Quiet' \/ pc' \in {"fail", "unlist", "exited"} \/ (pc' = "select" /\ failed')
  PROVE  QuietInv'
BY DEF QuietInv, Going, StopPcs

(* The run loop goes on with its step. *)
LEMMA QuietGoesOn ==
  ASSUME QuietInv, LoopStep, list' = list, steps' = steps, ver' = ver, reason' = reason,
         pc \in Going, pc' \in Going, Adding' = Adding,
         pc' = "find" => views'["run"].seq = list
  PROVE  QuietInv'
<1>1. CallOK' /\ target' = target /\ (Quiet' => Quiet)
  BY LoopCalls DEF QuietInv
<1>2. ASSUME Quiet' PROVE \E cs, t, p : QuietAt(cs, t, p)'
  <2>1. PICK cs, t, p : QuietAt(cs, t, p)
    BY <1>1, <1>2 DEF QuietInv
  <2>2. QuietAt(cs, t, p)'
    BY <1>1, <2>1, QuietStands
  <2> QED
    BY <2>2
<1>3. pc' \notin {"select", "scan"}
  BY DEF Going, StopPcs
<1> QED
  BY <1>1, <1>2, <1>3 DEF QuietInv

LEMMA QuietInStep ==
  ASSUME IInv, CountInv, QuietInv,
         NextStep \/ StartContainer \/ AssignId \/ HealthFails \/ StopFailed \/ Stopped
  PROVE  QuietInv'
<1>1. LoopStep
  BY DEF LoopStep
<1>2. CallOK'
  BY <1>1, LoopCalls DEF QuietInv
<1>3. /\ list' = list /\ steps' = steps /\ ver' = ver /\ reason' = reason
  BY DEF NextStep, StartContainer, AssignId, HealthFails, StopFailed, Stopped, containersVars
<1>4. CASE pc' \in {"fail", "unlist"}
  BY <1>2, <1>4, QuietMoot
<1>5. CASE pc' \notin {"fail", "unlist"}
  <2>1. /\ pc \in Going /\ pc' \in Going /\ Adding' = Adding
    BY <1>5 DEF NextStep, StartContainer, AssignId, HealthFails, StopFailed, Stopped, Going,
                StopPcs, Adding, StartPcs
  <2>2. ASSUME pc' = "find" PROVE views'["run"].seq = list
    <3>1. views' = [views EXCEPT !["run"] = [seq |-> list, at |-> 0]]
      BY <2>2 DEF NextStep, StartContainer, AssignId, HealthFails, StopFailed, Stopped
    <3>2. views \in [Readers -> Views] /\ "run" \in Readers
      BY DEF IInv, DataOK, Readers
    <3> QED
      BY <3>1, <3>2
  <2> QED
    BY <1>1, <1>3, <2>1, <2>2, QuietGoesOn
<1> QED
  BY <1>4, <1>5

LEMMA QuietEndsBadly ==
  ASSUME QuietInv, LockFails \/ Unlist
  PROVE  QuietInv'
<1>1. LoopStep
  BY DEF LoopStep
<1>2. CallOK'
  BY <1>1, LoopCalls DEF QuietInv
<1>3. pc' = "select" /\ failed'
  BY DEF LockFails, Unlist, Abort, EndConverge
<1> QED
  BY <1>2, <1>3, QuietMoot

(* The step is over, and the list is what it should be. *)
LEMMA QuietStepDone ==
  ASSUME QuietInv, LoopStep, pc' = "next", Quiet' => \E cs, t, p : QuietAt(cs, t, p)'
  PROVE  QuietInv'
<1>1. CallOK'
  BY LoopCalls DEF QuietInv
<1> QED
  BY <1>1 DEF QuietInv

LEMMA QuietHealthPasses ==
  ASSUME IInv, CountInv, QuietInv, HealthPasses
  PROVE  QuietInv'
<1>1. LoopStep
  BY DEF LoopStep
<1>2. /\ pc = "health" /\ pc' = "next" /\ steps' = Tail(steps) /\ list' = list
      /\ ver' = ver /\ reason' = reason
  BY DEF HealthPasses
<1>3. target' = target /\ (Quiet' => Quiet)
  BY <1>1, LoopCalls DEF QuietInv
<1>4. steps # <<>> /\ Head(steps).op = "start" /\ TargetsOK
  BY <1>2 DEF CountInv, StepAt, StartPcs
<1>5. ASSUME Quiet' PROVE \E cs, t, p : QuietAt(cs, t, p)'
  <2>1. PICK cs, t, p : QuietAt(cs, t, p)
    BY <1>2, <1>3, <1>5 DEF QuietInv, Going
  <2>2. /\ p \in Nat /\ Begun(cs, t, p) \in Nat /\ Len(cs) \in Nat
        /\ p + 1 \in 0 .. Len(Plan(cs, t).steps)
        /\ Tail(steps) = After(Plan(cs, t).steps, p + 1)
        /\ Begun(cs, t, p + 1) = Begun(cs, t, p) + 1
        /\ Ended(cs, t, p + 1) = Ended(cs, t, p)
    BY <1>4, <2>1, QuietHead
  <2>3. /\ Listed' = Listed /\ Wanted' = Wanted /\ Adding = 1 /\ Adding' = 0
        /\ \A x : Record(x)' = Record(x)
    BY <1>2, <1>3 DEF Listed, Wanted, Record, FullTarget, Adding, StartPcs
  <2>4. Len(list) = Len(cs) + 2 * Begun(cs, t, p) - p + 1
    BY <2>1, <2>3 DEF QuietAt
  <2>5. Len(list') = Len(cs) + 2 * Begun(cs, t, p + 1) - (p + 1) + Adding'
    <3> DEFINE b == Begun(cs, t, p)
               n == Len(cs)
    <3>1. n \in Nat /\ b \in Nat /\ p \in Nat
      BY <2>2
    <3>2. Len(list) = n + 2 * b - p + 1
      BY <2>4
    <3>3. Begun(cs, t, p + 1) = b + 1
      BY <2>2
    <3> HIDE DEF n, b
    <3>4. Len(list) = n + 2 * (b + 1) - (p + 1) + 0
      BY <3>1, <3>2
    <3> QED
      BY <1>2, <2>3, <3>3, <3>4 DEF n
  <2>6. QuietAt(cs, t, p + 1)'
    BY <1>2, <2>1, <2>2, <2>3, <2>5 DEF QuietAt
  <2> QED
    BY <2>6
<1> QED
  BY <1>1, <1>2, <1>5, QuietStepDone

(* What the run loop has read is the list: it finds the container. *)
LEMMA QuietFind ==
  ASSUME IInv, CountInv, QuietInv, Find
  PROVE  QuietInv'
<1>1. LoopStep
  BY DEF LoopStep
<1>2. /\ pc = "find" /\ list' = list /\ ver' = ver /\ reason' = reason
      /\ (IF cur \in Seen("run") THEN pc' = "stopping" /\ steps' = steps ELSE pc' = "next")
  BY DEF Find
<1>3. CallOK' /\ (Quiet' => Quiet)
  BY <1>1, LoopCalls DEF QuietInv
<1>4. CASE Quiet'
  <2>1. PICK cs, t, p : QuietAt(cs, t, p)
    BY <1>2, <1>3, <1>4 DEF QuietInv, Going, StopPcs
  <2>2. /\ steps # <<>> /\ Head(steps).op = "stop" /\ cur = Head(steps).id /\ TargetsOK
    BY <1>2 DEF CountInv, StepAt, StopPcs
  <2>3. cur \in IdsIn(cs) \ Ended(cs, t, p)
    BY <2>1, <2>2, QuietHead
  <2>4. cur \in Listed
    BY <2>1, <2>3 DEF QuietAt
  <2>5. Seen("run") = Listed
    BY <1>2, <1>3, <1>4 DEF QuietInv, Seen, Listed
  <2>6. pc' = "stopping" /\ steps' = steps
    BY <1>2, <2>4, <2>5
  <2>7. pc \in Going /\ pc' \in Going /\ pc' # "find" /\ Adding' = Adding
    BY <1>2, <2>6 DEF Going, StopPcs, Adding, StartPcs
  <2> QED
    BY <1>1, <1>2, <2>6, <2>7, QuietGoesOn
<1>5. CASE ~ Quiet'
  BY <1>3, <1>5, QuietMoot
<1> QED
  BY <1>4, <1>5

(* The list is one shorter. *)
LEMMA CutList ==
  ASSUME IInv, NEW id \in Listed, list' = Without(list, id)
  PROVE  Len(list') = Len(list) - 1 /\ Listed' = Listed \ {id}
<1>1. list \in Seq(Ids) /\ Len(list) \in Nat /\ DOMAIN list = 1 .. Len(list) /\ Distinct
  BY LenProperties DEF IInv, DataOK
<1>2. PICK k \in 1 .. Len(list) : list[k] = id /\ list' = Cut(list, k)
  BY <1>1, WithoutCut DEF Listed, Distinct
<1>3. /\ list' \in Seq(Ids) /\ Len(list') = Len(list) - 1 /\ DOMAIN list' = 1 .. Len(list) - 1
      /\ \A i \in 1 .. Len(list) - 1 : list'[i] = IF i < k THEN list[i] ELSE list[i + 1]
  <2>1. /\ Cut(list, k) \in Seq(Ids) /\ Len(Cut(list, k)) = Len(list) - 1
        /\ DOMAIN Cut(list, k) = 1 .. Len(list) - 1
        /\ \A i \in 1 .. Len(list) - 1 :
             Cut(list, k)[i] = IF i < k THEN list[i] ELSE list[i + 1]
    BY <1>1, CutElements
  <2> QED
    BY <1>2, <2>1
<1>4. ASSUME NEW x \in Listed' PROVE x \in Listed \ {id}
  <2>1. PICK i \in 1 .. Len(list) - 1 : x = list'[i]
    BY <1>3 DEF Listed
  <2>2. (IF i < k THEN i ELSE i + 1) \in 1 .. Len(list) /\ (IF i < k THEN i ELSE i + 1) # k
    BY <1>1, <1>2
  <2>3. x = list[IF i < k THEN i ELSE i + 1]
    BY <1>3, <2>1
  <2>4. x # id
    BY <1>1, <1>2, <2>2, <2>3 DEF Distinct
  <2>5. x \in Listed
    BY <1>1, <2>2, <2>3 DEF Listed
  <2> QED
    BY <2>4, <2>5
<1>5. ASSUME NEW x \in Listed, x # id PROVE x \in Listed'
  <2>1. PICK j \in 1 .. Len(list) : x = list[j]
    BY <1>1 DEF Listed
  <2>2. j # k
    BY <1>2, <1>5, <2>1
  <2> DEFINE i == IF j < k THEN j ELSE j - 1
  <2>3. i \in 1 .. Len(list) - 1 /\ (IF i < k THEN i ELSE i + 1) = j
    BY <1>1, <1>2, <2>2
  <2> HIDE DEF i
  <2>4. list'[i] = x
    BY <1>3, <2>1, <2>3
  <2> QED
    BY <1>3, <2>3, <2>4 DEF Listed
<1> QED
  BY <1>3, <1>4, <1>5

LEMMA QuietRemoved ==
  ASSUME IInv, CountInv, QuietInv, Removed
  PROVE  QuietInv'
<1>1. LoopStep
  BY DEF LoopStep
<1>2. /\ pc = "remove" /\ pc' = "next" /\ steps' = Tail(steps) /\ list' = Without(list, cur)
      /\ ver' = ver /\ reason' = reason
  BY DEF Removed, RemoveFromList
<1>3. target' = target /\ (Quiet' => Quiet)
  BY <1>1, LoopCalls DEF QuietInv
<1>4. steps # <<>> /\ Head(steps).op = "stop" /\ cur = Head(steps).id /\ TargetsOK
  BY <1>2 DEF CountInv, StepAt, StopPcs
<1>5. ASSUME Quiet' PROVE \E cs, t, p : QuietAt(cs, t, p)'
  <2>1. PICK cs, t, p : QuietAt(cs, t, p)
    BY <1>2, <1>3, <1>5 DEF QuietInv, Going, StopPcs
  <2>2. /\ p \in Nat /\ Begun(cs, t, p) \in Nat /\ Len(cs) \in Nat
        /\ p + 1 \in 0 .. Len(Plan(cs, t).steps)
        /\ Tail(steps) = After(Plan(cs, t).steps, p + 1)
        /\ Begun(cs, t, p + 1) = Begun(cs, t, p)
        /\ Ended(cs, t, p + 1) = Ended(cs, t, p) \cup {cur}
        /\ cur \in IdsIn(cs) \ Ended(cs, t, p)
    BY <1>4, <2>1, QuietHead
  <2>3. cur \in Listed
    BY <2>1, <2>2 DEF QuietAt
  <2>4. Len(list') = Len(list) - 1 /\ Listed' = Listed \ {cur}
    BY <1>2, <2>3, CutList
  <2>5. /\ Wanted' = Wanted /\ Adding = 0 /\ Adding' = 0 /\ \A x : Record(x)' = Record(x)
    BY <1>2, <1>3 DEF Wanted, Record, FullTarget, Adding, StartPcs
  <2>6. Len(list) = Len(cs) + 2 * Begun(cs, t, p) - p + 0
    BY <2>1, <2>5 DEF QuietAt
  <2>7. Len(list') = Len(cs) + 2 * Begun(cs, t, p + 1) - (p + 1) + Adding'
    <3> DEFINE b == Begun(cs, t, p)
               n == Len(cs)
    <3>1. n \in Nat /\ b \in Nat /\ p \in Nat
      BY <2>2
    <3>2. Len(list) = n + 2 * b - p + 0
      BY <2>6
    <3>3. Begun(cs, t, p + 1) = b
      BY <2>2
    <3> HIDE DEF n, b
    <3>4. Len(list) - 1 = n + 2 * b - (p + 1) + 0
      BY <3>1, <3>2
    <3> QED
      BY <2>4, <2>5, <3>3, <3>4 DEF n
  <2>8. IdsIn(cs) \ Ended(cs, t, p + 1) \subseteq Listed'
    BY <2>1, <2>2, <2>4 DEF QuietAt
  <2>9. ASSUME NEW x \in Listed'
        PROVE  \/ Kept(Record(x), t)
               \/ x \notin Ended(cs, t, p + 1) /\ \E j \in DOMAIN cs : cs[j] = Record(x)
    BY <2>1, <2>2, <2>4 DEF QuietAt
  <2>10. QuietAt(cs, t, p + 1)'
    BY <1>2, <2>1, <2>2, <2>5, <2>7, <2>8, <2>9 DEF QuietAt
  <2> QED
    BY <2>10
<1> QED
  BY <1>1, <1>2, <1>5, QuietStepDone

(* A container is started: the plan wanted it. *)
LEMMA QuietCreates ==
  ASSUME IInv, CountInv, QuietInv, Create
  PROVE  QuietInv'
<1>1. LoopStep
  BY DEF LoopStep
<1>2. PICK id : id = NextId
  OBVIOUS
<1>3. /\ pc = "lock" /\ pc' = "start" /\ list' = Append(list, id) /\ steps' = steps
      /\ ver' = [ver EXCEPT ![id] = Head(steps).ver] /\ reason' = [reason EXCEPT ![id] = Unset]
  BY <1>2 DEF Create
<1>4. id \in Ids /\ id \notin Listed
  BY <1>2, NextIdUnused DEF Create, Unused
<1>5. CallOK' /\ target' = target /\ (Quiet' => Quiet)
  BY <1>1, LoopCalls DEF QuietInv
<1>6. steps # <<>> /\ Head(steps).op = "start" /\ TargetsOK
  BY <1>3 DEF CountInv, StepAt, StartPcs
<1>7. Len(list') = Len(list) + 1 /\ Listed' = Listed \cup {id}
  BY <1>3, <1>4, LongerList DEF IInv, DataOK
<1>8. \A x \in Listed : Record(x)' = Record(x)
  <2>1. ver = [i \in Ids |-> ver[i]] /\ reason = [i \in Ids |-> reason[i]]
    BY DEF QuietInv, CallOK
  <2>2. Listed \subseteq Ids
    BY ElementOfSeq, LenProperties DEF IInv, DataOK, Listed
  <2>3. \A x \in Listed : ver'[x] = ver[x] /\ reason'[x] = reason[x]
    BY <1>3, <1>4, <2>1, <2>2
  <2> QED
    BY <2>3 DEF Record
<1>9. ASSUME Quiet' PROVE \E cs, t, p : QuietAt(cs, t, p)'
  <2>1. PICK cs, t, p : QuietAt(cs, t, p)
    BY <1>3, <1>5, <1>9 DEF QuietInv, Going
  <2>2. /\ p \in Nat /\ Begun(cs, t, p) \in Nat /\ Len(cs) \in Nat /\ Head(steps).ver = t.ver
    BY <1>6, <2>1, QuietHead
  <2>3. Kept(Record(id)', t)
    <3>1. ver = [i \in Ids |-> ver[i]] /\ reason = [i \in Ids |-> reason[i]]
      BY DEF QuietInv, CallOK
    <3>2. ver'[id] = Head(steps).ver /\ reason'[id] = Unset
      BY <1>3, <1>4, <3>1
    <3> QED
      BY <2>2, <3>2 DEF Record, Kept
  <2>4. Wanted' = Wanted /\ Adding = 0 /\ Adding' = 1
    BY <1>3, <1>5 DEF Wanted, FullTarget, Adding, StartPcs
  <2>5. Len(list) = Len(cs) + 2 * Begun(cs, t, p) - p + 0
    BY <2>1, <2>4 DEF QuietAt
  <2>6. Len(list') = Len(cs) + 2 * Begun(cs, t, p) - p + Adding'
    <3> DEFINE b == Begun(cs, t, p)
               n == Len(cs)
    <3>1. n \in Nat /\ b \in Nat /\ p \in Nat
      BY <2>2
    <3>2. Len(list) = n + 2 * b - p + 0
      BY <2>5
    <3> HIDE DEF n, b
    <3>3. Len(list) + 1 = n + 2 * b - p + 1
      BY <3>1, <3>2
    <3> QED
      BY <1>7, <2>4, <3>3 DEF n, b
  <2>7. ASSUME NEW x \in Listed'
        PROVE  \/ Kept(Record(x)', t)
               \/ x \notin Ended(cs, t, p) /\ \E j \in DOMAIN cs : cs[j] = Record(x)'
    <3>1. CASE x = id
      BY <2>3, <3>1
    <3>2. CASE x \in Listed
      <4>1. Record(x)' = Record(x)
        BY <1>8, <3>2
      <4> QED
        BY <2>1, <3>2, <4>1 DEF QuietAt
    <3> QED
      BY <1>7, <3>1, <3>2
  <2>8. QuietAt(cs, t, p)'
    BY <1>3, <1>7, <2>1, <2>4, <2>6, <2>7 DEF QuietAt
  <2> QED
    BY <2>8
<1> QED
  BY <1>3, <1>5, <1>9 DEF QuietInv

(* What happens outside the run loop wakes it up, or does not concern it. *)
LEMMA QuietStays ==
  ASSUME QuietInv, list' = list, steps' = steps, target' = target, ver' = ver,
         reason' = reason, pc' = pc, failed' = failed, views' = views, base' = base,
         serving' = serving, wake' = wake, cpc' = cpc, epc' = epc, events' = events,
         cancelled' = cancelled
  PROVE  QuietInv'
<1>1. CallOK' /\ Quiet' = Quiet /\ Adding' = Adding
  BY DEF QuietInv, CallOK, Quiet, Adding
<1>2. Settled' = Settled
  BY DEF Settled, Records, Record, Wanted, FullTarget
<1>3. ASSUME NEW cs, NEW t, NEW p, QuietAt(cs, t, p) PROVE QuietAt(cs, t, p)'
  BY <1>1, <1>3, QuietStands
<1>4. CASE Quiet
  <2>1. pc' \in Going => \E cs, t, p : QuietAt(cs, t, p)'
    BY <1>3, <1>4 DEF QuietInv
  <2> QED
    BY <1>1, <1>2, <1>4, <2>1 DEF QuietInv
<1>5. CASE ~ Quiet
  BY <1>1, <1>5 DEF QuietInv
<1> QED
  BY <1>4, <1>5

LEMMA QuietEvents ==
  ASSUME QuietInv, EventStep \/ ImageUpdated
  PROVE  QuietInv'
<1>1. wake \in Nat /\ reason = [i \in Ids |-> reason[i]]
  BY DEF QuietInv, CallOK
<1>2. /\ cpc' = cpc /\ serving' = serving /\ ver' = ver
      /\ \/ wake' = wake /\ epc' # "idle"
         \/ wake' = wake + 1 \/ wake' = wake + 2
  BY DEF EventStep, ContainerExited, EventFind, EventStopped, EventRemove, EventDone,
         ImageUpdated, containersVars, loopVars, callVars
<1>3. reason' = [i \in Ids |-> reason'[i]]
  <2>1. CASE reason' = reason
    BY <1>1, <2>1
  <2>2. CASE ImageUpdated
    BY <2>2 DEF ImageUpdated
  <2>3. reason' = reason \/ ImageUpdated
    BY DEF EventStep, ContainerExited, EventFind, EventStopped, EventRemove, EventDone,
           containersVars
  <2> QED
    BY <2>1, <2>2, <2>3
<1>4. CallOK'
  <2>1. wake' \in Nat
    BY <1>1, <1>2
  <2> QED
    BY <1>2, <1>3, <2>1 DEF QuietInv, CallOK
<1>5. ~ Quiet'
  <2>1. wake' # 0 \/ epc' # "idle"
    BY <1>1, <1>2
  <2> QED
    BY <2>1 DEF Quiet
<1> QED
  BY <1>4, <1>5, QuietMoot

LEMMA QuietTargets ==
  ASSUME QuietInv,
         \/ \E c \in Callers, x \in Targets : SetTarget(c, x)
         \/ \E s \in Setters, v \in Versions : SetComponentSet(s, v)
  PROVE  QuietInv'
<1>1. CASE \E c \in Callers, x \in Targets : SetTarget(c, x)
  <2>1. PICK c \in Callers :
          /\ cpc[c] = "idle" /\ cpc' = [cpc EXCEPT ![c] = "sending"]
          /\ wake' = wake /\ serving' = serving /\ ver' = ver /\ reason' = reason
    BY <1>1 DEF SetTarget, containersVars, loopVars
  <2>2. cpc = [d \in Callers |-> cpc[d]]
        /\ (serving # None => serving \in Callers /\ cpc[serving] = "waiting")
    BY DEF QuietInv, CallOK
  <2>3. /\ cpc' = [d \in Callers |-> cpc'[d]] /\ cpc'[c] = "sending"
        /\ \A d \in Callers : d # c => cpc'[d] = cpc[d]
    BY <2>1, <2>2
  <2>4. CallOK'
    BY <2>1, <2>2, <2>3 DEF QuietInv, CallOK
  <2>5. ~ Quiet'
    BY <2>3 DEF Quiet
  <2> QED
    BY <2>4, <2>5, QuietMoot
<1>2. CASE \E s \in Setters, v \in Versions : SetComponentSet(s, v)
  <2>1. /\ wake' = wake + 1 /\ cpc' = cpc /\ serving' = serving /\ ver' = ver
        /\ reason' = reason
    BY <1>2 DEF SetComponentSet, containersVars, loopVars
  <2>2. wake \in Nat
    BY DEF QuietInv, CallOK
  <2>3. wake' \in Nat /\ wake' # 0
    BY <2>1, <2>2
  <2>4. CallOK'
    BY <2>1, <2>3 DEF QuietInv, CallOK
  <2>5. ~ Quiet'
    BY <2>3 DEF Quiet
  <2> QED
    BY <2>4, <2>5, QuietMoot
<1> QED
  BY <1>1, <1>2

LEMMA QuietOutside ==
  ASSUME IInv, QuietInv,
         \/ Exit \/ Stop \/ \E id \in Ids : Dies(id) \/ Drains(id)
  PROVE  QuietInv'
<1>1. /\ wake' = wake /\ cpc' = cpc /\ serving' = serving /\ ver' = ver /\ reason' = reason
  BY DEF Exit, Stop, Dies, Drains, containersVars, loopVars, callVars
<1>2. CallOK'
  BY <1>1 DEF QuietInv, CallOK
<1>3. CASE Exit
  <2>1. pc' = "exited"
    BY <1>3 DEF Exit
  <2> QED
    BY <1>2, <2>1, QuietMoot
<1>4. CASE Stop \/ \E id \in Ids : Drains(id)
  <2>1. cancelled'
    BY <1>4 DEF Stop, Drains, worldVars
  <2>2. ~ Quiet'
    BY <2>1 DEF Quiet
  <2> QED
    BY <1>2, <2>2, QuietMoot
<1>5. CASE \E id \in Ids : Dies(id)
  <2>1. PICK id \in Ids : events' = Append(events, id)
    BY <1>5 DEF Dies, Kill
  <2>2. events' # <<>>
    BY <2>1, AppendProperties DEF IInv, DataOK
  <2>3. ~ Quiet'
    BY <2>2 DEF Quiet
  <2> QED
    BY <1>2, <2>3, QuietMoot
<1> QED
  BY <1>3, <1>4, <1>5

LEMMA QuietKeeps == IInv /\ CountInv /\ QuietInv /\ [Next]_vars => QuietInv'
<1> SUFFICES ASSUME IInv, CountInv, QuietInv, [Next]_vars PROVE QuietInv'
  OBVIOUS
<1>1. CASE LoopStep
  <2>1. TargetsOK
    BY DEF CountInv
  <2> QED
    BY <1>1, <2>1, QuietMakesPlan, QuietConverges, QuietInStep, QuietCreates, QuietEndsBadly,
       QuietHealthPasses, QuietFind, QuietRemoved DEF LoopStep
<1>2. CASE EventStep \/ ImageUpdated
  BY <1>2, QuietEvents
<1>3. CASE TakeWake \/ Tick \/ \E c \in Callers : TakeCaller(c)
  BY <1>3, QuietBegins
<1>4. CASE Exit \/ Stop \/ \E id \in Ids : Dies(id) \/ Drains(id)
  BY <1>4, QuietOutside
<1>5. CASE \/ \E c \in Callers, x \in Targets : SetTarget(c, x)
           \/ \E s \in Setters, v \in Versions : SetComponentSet(s, v)
  BY <1>5, QuietTargets
<1>6. CASE (\E s \in Setters : SetComponentGet(s)) \/ UNCHANGED vars
  <2>1. /\ list' = list /\ steps' = steps /\ target' = target /\ ver' = ver
        /\ reason' = reason /\ pc' = pc /\ failed' = failed /\ views' = views /\ base' = base
        /\ serving' = serving /\ wake' = wake /\ cpc' = cpc /\ epc' = epc /\ events' = events
        /\ cancelled' = cancelled
    BY <1>6 DEF SetComponentGet, Change, vars, containersVars, loopVars, eventVars, callVars,
                worldVars
  <2> QED
    BY <2>1, QuietStays
<1> QED
  BY <1>1, <1>2, <1>3, <1>4, <1>5, <1>6 DEF Next

LEMMA QuietImplies == QuietInv => QuietIsConverged
<1> SUFFICES ASSUME QuietInv, Resting
             PROVE  Plan(Records(list), FullTarget(target.ver, target.count)).steps = <<>>
  BY DEF QuietIsConverged
<1>1. Quiet /\ pc = "select" /\ ~ failed
  BY DEF Resting, Quiet
<1>2. Settled
  BY <1>1 DEF QuietInv
<1> QED
  BY <1>2 DEF Settled, Wanted

(* No wake-up is lost: when the run loop rests after a converge that did not fail,
   and nothing is on its way that would wake it, the list is what the current
   target asks for, although targets, images and exits changed both while it was
   converging (converger.go:143-150, 167-182, 256-273). *)
THEOREM NoWakeUpIsLost == Spec => []QuietIsConverged
<1>1. Init => IInv /\ CountInv /\ QuietInv
  BY InitInv, CountInit, QuietInit
<1>2. IInv /\ CountInv /\ QuietInv /\ [Next]_vars => (IInv /\ CountInv /\ QuietInv)'
  BY StepInv, CountStep, QuietKeeps
<1> QED
  BY <1>1, <1>2, QuietImplies, PTL DEF Spec
=============================================================================
