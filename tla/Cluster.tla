------------------------------ MODULE Cluster ------------------------------
(***************************************************************************)
(* How a node knows its peers (pkg/maelstrom/cluster.go and the status     *)
(* loop of node_svc.go): every node keeps a row in the database and a map  *)
(* of the nodes it knows; it tells its peers when its containers change    *)
(* and when it exits, and every 30 seconds replaces its map by the rows    *)
(* whose node answers.  Each change of the map starts a goroutine that     *)
(* gives a copy of it to the router as the remote handlers to use.         *)
(*                                                                         *)
(* One component, whose active instances a status counts.  Several node    *)
(* ids may belong to one address: the id is the docker daemon's and may    *)
(* change on a host.  A status has the version of the node's targets, the  *)
(* containers seen together with it, and the time, which is read after     *)
(* both: a status may show old containers and be dated new.  Time counts   *)
(* the changes of one node, and is only compared with that node's.         *)
(***************************************************************************)
EXTENDS Naturals, Sequences, FiniteSets, SequencesExt, FiniteSetsExt

CONSTANTS Nodes, Hosts,
          PeerUrl,      \* [Nodes -> Hosts]
          MaxUpsets,    \* bound: changes, starts, exits, deaths and failures
          MaxWaiting    \* bound: calls, and snapshots, waiting at a node

ASSUME ClusterAssumption ==
    PeerUrl \in [Nodes -> Hosts] /\ {MaxUpsets, MaxWaiting} \subseteq Nat

VARIABLES alive,        \* nodes whose process runs
          terminated,   \* those that have left their status loop
          own,          \* version and containers of a node, dated now
          past,         \* what resolveNodeStatus may return that began at any
                        \* time since the node started
          recent,       \* since loadStatusLock of the node was last released
          due,          \* since then, and in the containers-changed callback
                        \* that is to run: empty when none is
          rows,         \* the table of node statuses
          view,         \* nodesById of each node
          calls,        \* StatusChanged calls, and answers of GetStatus, under way
          notices,      \* snapshots of the map whose goroutine has not run
          listed,       \* the rows a refresh is about to set: none or one set
          remote,       \* remote instances the router knows, by address
          upsets

nodeVars == <<own, past, recent, due>>
clusterVars == <<alive, terminated, nodeVars, rows, view, calls, notices, listed, remote, upsets>>

Status == [id : Nodes, version : 0..MaxUpsets, observed : 0..MaxUpsets, active : 0..1]
Call == [exiting : BOOLEAN, status : Status]
PeerCounts == [Hosts -> 0..Cardinality(Nodes)]

ClusterTypeOK ==
    /\ terminated \subseteq alive /\ alive \subseteq Nodes
    /\ own \in [Nodes -> Status]
    /\ \A n \in Nodes : due[n] \cup recent[n] \cup past[n] \subseteq Status
    /\ rows \subseteq Status /\ view \in [Nodes -> SUBSET Status]
    /\ \A n \in Nodes, s \in Status : Cardinality({r \in view[n] : r.id = s.id}) <= 1
    /\ \A n \in Nodes : calls[n] \in BoundedSeq(Call, MaxWaiting)
    /\ \A n \in Nodes : notices[n] \in BoundedSeq(PeerCounts, MaxWaiting)
    /\ \A n \in Nodes : listed[n] \subseteq SUBSET Status /\ Cardinality(listed[n]) <= 1
    /\ remote \in [Nodes -> PeerCounts]
    /\ upsets \in 0..MaxUpsets

(***************************************************************************)
(* The map of a node and the goroutines its changes start.                 *)
(***************************************************************************)
Known(known, n) == {s \in known : s.id = n}
With(known, s) == (known \ Known(known, s.id)) \cup {s}
Room(n) == Len(notices[n]) < MaxWaiting

\* Active instances per address of the peers in a map.
RemoteCounts(n, known) ==
    [u \in Hosts |-> Cardinality({s \in known : s.id # n /\ PeerUrl[s.id] = u /\ s.active = 1})]
NoRemotes == [u \in Hosts |-> 0]

\* A goroutine or call under way; two equal ones count once.
Start(waiting, x) == IF x \in Range(waiting) THEN waiting ELSE Append(waiting, x)

\* The map of n becomes known, and a goroutine takes a copy to the observer,
\* which uses nothing but these counts of it.
SetView(n, known) ==
    /\ view' = [view EXCEPT ![n] = known]
    /\ notices' = [notices EXCEPT ![n] = Start(@, RemoteCounts(n, known))]

IsNews(known, s) ==
    \A old \in Known(known, s.id) : s.version > old.version \/ s.observed > old.observed

SetNode(n, s) ==
    IF IsNews(view[n], s) THEN SetView(n, With(view[n], s))
    ELSE UNCHANGED <<view, notices>>

RemoveNode(n, id) ==
    IF Known(view[n], id) # {} THEN SetView(n, view[n] \ Known(view[n], id))
    ELSE UNCHANGED <<view, notices>>

\* The process that answers at the address of a node.
At(id) == {m \in alive : PeerUrl[m] = PeerUrl[id]}

\* One call per peer in a goroutine.  A call to an address nobody serves is
\* lost, and so is one beyond the bound.
Receivers(n, known) == UNION {At(s.id) : s \in {t \in known : t.id # n}}
Broadcast(n, known, call) ==
    LET told == {m \in Receivers(n, known) : Len(calls[m]) < MaxWaiting}
    IN  calls' = [m \in Nodes |-> IF m \in told THEN Start(calls[m], call) ELSE calls[m]]

Upset == upsets < MaxUpsets /\ upsets' = upsets + 1
Calm == UNCHANGED upsets

(***************************************************************************)
(* resolveNodeStatus reads version and containers first and the time last. *)
(***************************************************************************)
\* What calls may return, of which some could return those in found when the
\* node became s: that, or what they read before, dated then or now, or s.
MayReturn(found, s) ==
    found \cup {[f EXCEPT !.observed = s.observed] : f \in found} \cup {s}

Becomes(n, s) ==
    /\ own' = [own EXCEPT ![n] = s]
    /\ past' = [past EXCEPT ![n] = MayReturn(@, s)]
    /\ recent' = [recent EXCEPT ![n] = MayReturn(@, s)]

\* loadStatusLock of n is released: the next to take it reads what is there now,
\* also a callback that waits for it.
Release(n, waiting) ==
    /\ recent' = [recent EXCEPT ![n] = {own[n]}]
    /\ due' = [due EXCEPT ![n] = IF waiting THEN {own[n]} ELSE {}]
    /\ UNCHANGED <<own, past>>

(***************************************************************************)
(* The handlers and the loop of a node.                                    *)
(***************************************************************************)
\* Containers start or exit, whether the targets changed or not.
ContainersChange(n) ==
    /\ n \in alive /\ Upset
    /\ Becomes(n, [own[n] EXCEPT !.active = 1 - @, !.observed = @ + 1])
    /\ due' = [due EXCEPT ![n] = MayReturn(@, own'[n])]
    /\ UNCHANGED <<alive, terminated, rows, view, calls, notices, listed, remote>>

\* The version moves, before the containers do.
SetTargets(n) ==
    /\ n \in alive /\ Upset
    /\ Becomes(n, [own[n] EXCEPT !.version = @ + 1, !.observed = @ + 1])
    /\ due' = [due EXCEPT ![n] = IF @ = {} THEN {} ELSE MayReturn(@, own'[n])]
    /\ UNCHANGED <<alive, terminated, rows, view, calls, notices, listed, remote>>

\* Mutant: a terminated node goes on reporting.
OnContainersChanged_EvenTerminated(n) ==
    /\ Room(n)
    /\ \E s \in due[n] :
       /\ Release(n, s # own[n]) /\ Calm
       /\ rows' = With(rows, s) /\ SetNode(n, s)
       /\ Broadcast(n, view[n], [exiting |-> FALSE, status |-> s])
    /\ UNCHANGED <<alive, terminated, listed, remote>>

\* resolveAndBroadcastNodeStatus, under loadStatusLock: nothing once the node
\* has terminated, and nobody is told when the row cannot be written.
OnContainersChanged(n) ==
    /\ Room(n)
    /\ \E s \in due[n] :
       /\ Release(n, s # own[n])
       /\ \/ (IF n \in terminated THEN Calm ELSE Upset)
             /\ UNCHANGED <<rows, view, calls, notices>>
          \/ /\ n \notin terminated /\ Calm
             /\ rows' = With(rows, s) /\ SetNode(n, s)
             /\ Broadcast(n, view[n], [exiting |-> FALSE, status |-> s])
    /\ UNCHANGED <<alive, terminated, listed, remote>>

\* A call arrives: a status, an exit, or the status a peer answered with.
StatusChanged(n, i) ==
    /\ i \in DOMAIN calls[n] /\ Room(n)
    /\ LET c == calls[n][i] IN
       IF c.exiting THEN RemoveNode(n, c.status.id) ELSE SetNode(n, c.status)
    /\ calls' = [calls EXCEPT ![n] = RemoveAt(@, i)]
    /\ UNCHANGED <<alive, terminated, nodeVars, rows, listed, remote, upsets>>

LoseCall(n, i) ==
    /\ i \in DOMAIN calls[n] /\ Upset
    /\ calls' = [calls EXCEPT ![n] = RemoveAt(@, i)]
    /\ UNCHANGED <<alive, terminated, nodeVars, rows, view, notices, listed, remote>>

\* ListNodeStatus with ForceRefresh, and placement, ask a node of the map for
\* its status: whoever serves its address answers, terminated or not, without
\* the lock.
AskStatus(n, m) ==
    /\ n \in alive /\ Len(calls[n]) < MaxWaiting /\ Upset
    /\ \E s \in view[n] : m \in At(s.id)
    /\ \E s \in past[m] :
         calls' = [calls EXCEPT ![n] = Start(@, [exiting |-> FALSE, status |-> s])]
    /\ UNCHANGED <<alive, terminated, nodeVars, rows, view, notices, listed, remote>>

\* The rows the refresh of n deletes: those of another id at its address, and
\* stale ones, which are of dead nodes only (a live one renews its row).
Invalid(n, r) == r.id # n /\ PeerUrl[r.id] = PeerUrl[n]
LoopRuns(n) == n \in alive \ terminated /\ listed[n] = {}

\* logStatusAndRefreshClusterNodeList up to its health checks: it writes the
\* row, lists the rows and deletes those it must not keep.  Writing or deleting
\* may fail and the refresh goes on; when the listing fails it ends.
LogStatus(n) ==
    /\ LoopRuns(n) /\ Release(n, due[n] # {})
    /\ \E s \in recent[n] :
       \E logged \in {With(rows, s), rows}, stale \in SUBSET {r \in rows : r.id \notin alive} :
          LET found == {r \in logged : ~Invalid(n, r)} \ stale
              goesOn == listed' = [listed EXCEPT ![n] = {{r \in found : r.id = n \/ At(r.id) # {}}}]
          IN  \/ s \in logged /\ Calm /\ rows' = found /\ goesOn
              \/ Upset /\ rows' \in {found, logged} /\ goesOn
              \/ Upset /\ rows' = logged /\ UNCHANGED listed
    /\ UNCHANGED <<alive, terminated, view, calls, notices, remote>>

SetAllNodes(n) ==
    /\ n \in alive /\ Room(n)
    /\ \E keep \in listed[n] : SetView(n, keep)
    /\ listed' = [listed EXCEPT ![n] = {}]
    /\ UNCHANGED <<alive, terminated, nodeVars, rows, calls, remote, upsets>>

\* Mutant: a component without any remote instance left is skipped.
OnClusterUpdated_KeepsGone(n, i) ==
    /\ i \in DOMAIN notices[n] /\ Calm
    /\ LET counts == notices[n][i] IN
       remote' = [remote EXCEPT ![n] = IF counts = NoRemotes THEN @ ELSE counts]
    /\ notices' = [notices EXCEPT ![n] = RemoveAt(@, i)]
    /\ UNCHANGED <<alive, terminated, nodeVars, rows, view, calls, listed>>

(***************************************************************************)
(* The observer: a goroutine brings the i-th snapshot to the router.  When *)
(* the component cannot be read, addresses that have instances keep the    *)
(* counts they had; with no remote instance left nothing is read.          *)
(***************************************************************************)
OnClusterUpdated(n, i) ==
    /\ i \in DOMAIN notices[n]
    /\ LET counts == notices[n][i] IN
       \/ Calm /\ remote' = [remote EXCEPT ![n] = counts]
       \/ counts # NoRemotes /\ counts # remote[n] /\ Upset /\ UNCHANGED remote
    /\ notices' = [notices EXCEPT ![n] = RemoveAt(@, i)]
    /\ UNCHANGED <<alive, terminated, nodeVars, rows, view, calls, listed>>

(***************************************************************************)
(* Exit, death and start of a process.                                     *)
(***************************************************************************)
\* The status loop ends: the node is terminated, deletes its row (which may
\* fail), forgets itself and tells its peers.
Exit(n) ==
    /\ LoopRuns(n) /\ Room(n) /\ Upset
    /\ terminated' = terminated \cup {n}
    /\ \E gone \in {Known(rows, n), {}} : rows' = rows \ gone
    /\ RemoveNode(n, n)
    /\ Broadcast(n, view[n], [exiting |-> TRUE, status |-> own[n]])
    /\ Release(n, due[n] # {})
    /\ UNCHANGED <<alive, listed, remote>>

Clear(n) ==
    /\ alive' = alive \ {n} /\ terminated' = terminated \ {n}
    /\ view' = [view EXCEPT ![n] = {}] /\ calls' = [calls EXCEPT ![n] = <<>>]
    /\ notices' = [notices EXCEPT ![n] = <<>>] /\ listed' = [listed EXCEPT ![n] = {}]
    /\ remote' = [remote EXCEPT ![n] = NoRemotes]
    /\ past' = [past EXCEPT ![n] = {}] /\ recent' = [recent EXCEPT ![n] = {}]
    /\ due' = [due EXCEPT ![n] = {}]
    /\ UNCHANGED <<own, rows>>

Shutdown(n) == n \in terminated /\ Clear(n) /\ Calm
Crash(n) == n \in alive /\ Clear(n) /\ Upset

\* The constructor: stale containers are removed, the first version is the time,
\* the row is written and the map holds the node alone.
NewNode(n) ==
    /\ At(n) = {} /\ Upset
    /\ alive' = alive \cup {n}
    /\ Becomes(n, [id |-> n, version |-> own[n].version + 1,
                   observed |-> own[n].observed + 1, active |-> 0])
    /\ rows' = With(rows, own'[n])
    /\ SetNode(n, own'[n])
    /\ UNCHANGED <<terminated, due, calls, listed, remote>>

\* Nodes that have started and know each other, at most one per address.
ClusterInit ==
    /\ alive \in {up \in SUBSET Nodes : \A n, m \in up : PeerUrl[n] = PeerUrl[m] => n = m}
    /\ own = [n \in Nodes |-> [id |-> n, version |-> 0, observed |-> 0, active |-> 0]]
    /\ past = [n \in Nodes |-> IF n \in alive THEN {own[n]} ELSE {}] /\ recent = past
    /\ rows = {own[n] : n \in alive} /\ view = [n \in Nodes |-> IF n \in alive THEN rows ELSE {}]
    /\ terminated = {} /\ upsets = 0
    /\ due = [n \in Nodes |-> {}]
    /\ listed = [n \in Nodes |-> {}]
    /\ calls = [n \in Nodes |-> <<>>] /\ notices = [n \in Nodes |-> <<>>]
    /\ remote = [n \in Nodes |-> NoRemotes]

ClusterNext == \E n \in Nodes :
    \/ ContainersChange(n) \/ SetTargets(n) \/ OnContainersChanged(n)
    \/ \E i \in 1..MaxWaiting : StatusChanged(n, i) \/ LoseCall(n, i) \/ OnClusterUpdated(n, i)
    \/ \E m \in Nodes : AskStatus(n, m)
    \/ LogStatus(n) \/ SetAllNodes(n)
    \/ Exit(n) \/ Shutdown(n) \/ Crash(n) \/ NewNode(n)

\* Every goroutine and every call under way gets its turn, the loop goes round,
\* and a process that has left its loop ends.
Serve(n) == OnContainersChanged(n) \/ StatusChanged(n, 1)
Loop(n) == LogStatus(n) \/ SetAllNodes(n) \/ Shutdown(n)
ClusterFairness ==
    \A n \in Nodes : /\ WF_clusterVars(Serve(n)) /\ WF_clusterVars(OnClusterUpdated(n, 1))
                     /\ WF_clusterVars(Loop(n))

ClusterSpec == ClusterInit /\ [][ClusterNext]_clusterVars /\ ClusterFairness

(***************************************************************************)
(* Properties.                                                             *)
(***************************************************************************)
Live == alive \ terminated
Shown(known) == {[id |-> s.id, version |-> s.version, active |-> s.active] : s \in known}
Settled == LET now == {own[m] : m \in Live} IN \A n \in Live :
    /\ Shown(view[n]) = Shown(now)
    /\ remote[n] = RemoteCounts(n, now)

\* Once nothing changes any more every node knows exactly the nodes that run,
\* with their current versions and containers, and its router sends requests to
\* exactly their instances: whatever was lost, came late, was applied in another
\* order or dated later than it was seen, and whoever exited, died or came back
\* under another id (cluster.go:272, node_svc.go:271, 895-1006).
ViewsSettle == <>[]Settled

\* A node that has exited and deleted its row never writes it again, though
\* its containers stop, and report that, after it (node_svc.go:979).
StaysOut == \A n \in terminated \cap terminated' :
    Known(rows, n) = {} => Known(rows', n) = {}
ExitedStaysOut == [][StaysOut]_clusterVars
=============================================================================
