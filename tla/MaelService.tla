---------------------------- MODULE MaelService ----------------------------
(***************************************************************************)
(* The maelstrom service (pkg/maelstrom/mael_svc.go) and the resolvers of  *)
(* the nodes (resolver.go).  A call validates its input, then executes one *)
(* statement after the other, without a transaction: here it is the list   *)
(* of statements still to do, and the calls of several clients interleave. *)
(* A statement may fail, before or after it took effect, which ends the    *)
(* call.  The service finds the components of a project by its name in     *)
(* lower case, and reads one page of a list.  Changes of components are    *)
(* told to the subscribers of the node by goroutines and to the peers by   *)
(* calls that may get lost; a peer reads the component again and tells its *)
(* own subscribers.  Event sources are not told of: the resolvers see them *)
(* when their caches expire.                                               *)
(***************************************************************************)
EXTENDS Entities

CONSTANTS Clients, Members,
          Scenes,       \* who calls, with which definitions and event sources, the
                        \* components each node gets requests for, and the rows of a page
          MaxCalls,     \* bound: calls that are made
          MaxUpsets     \* bound: failing statements and lost messages

ASSUME ServiceAssumption == 
    /\ IsFiniteSet(Comps) /\ IsFiniteSet(Sources)
    /\ {MaxCalls, MaxUpsets} \subseteq Nat /\ Nothing \notin Comps \cup Contents
    /\ Scenes \subseteq [clients : SUBSET Clients, contents : SUBSET Contents,
                         sources : SUBSET Sources, served : [Members -> SUBSET Comps],
                         page : Nat \ {0}]

VARIABLES scene,        \* the scene of the behaviour
          call,         \* what each client's call has read and has to do
          told,         \* notifications under way
          cached,       \* components each resolver has cached
          routes,       \* event sources each resolver has cached, or none
          calls, upsets,
          tainted       \* history: a call was overtaken where it matters

serviceVars == <<comps, sources, scene, call, told, cached, routes, calls, upsets, tainted>>

\* History: "alone", nobody else wrote since it began; "whole", its lists had
\* every row of the tables.
NoCall == [op |-> Nothing, in |-> Nothing, old |-> Nothing, todo |-> <<>>, status |-> "idle",
           alone |-> TRUE, whole |-> TRUE]
Running(k) == call[k].status = "running"

\* Statements: what to do, with what.
Do(op, key) == [op |-> op, key |-> key]
Put(op, key, version, val) == [op |-> op, key |-> key, version |-> version, val |-> val]
\* One for each argument, in any order; or several for each.
Statements(does) == LET list == SetToSeq(DOMAIN does) IN [i \in 1..Len(list) |-> does[list[i]]]
Each(does) == FlattenSeq(Statements(does))

\* Mutant: the event sources are deleted after the component.
RemoveWith_RowFirst(c) == <<Do("removeRow", c), Do("removeSources", c), Do("tellRemoved", c)>>
\* RemoveComponent: its event sources first.
RemoveWith(c) == <<Do("removeSources", c), Do("removeRow", c), Do("tellRemoved", c)>>

\* PutProject: removals first, in case components were renamed.
Diff(old, new) ==
    LET oldSources == DOMAIN old.sources IN
       Each([c \in DOMAIN old.comps \ DOMAIN new.comps |-> RemoveWith(c)])
    \o Statements([s \in oldSources \ DOMAIN new.sources |-> Do("removeSource", s)])
    \o Each([c \in ComponentPut(old, new) |->
               <<Put("putComponent", c, ComponentVersion(old, c), new.comps[c]), Do("tellPut", c)>>])
    \o Statements([s \in EventSourcePut(old, new) |->
                     Put("putSource", s, EventSourceVersion(old, new, s), new.sources[s])])

Begin(k, op, in, todo) ==
    /\ ~Running(k) /\ calls < MaxCalls /\ calls' = calls + 1
    /\ call' = [call EXCEPT ![k] = [op |-> op, in |-> in, todo |-> todo, old |-> Nothing,
                                   status |-> "running", alone |-> TRUE, whole |-> TRUE]]
    /\ UNCHANGED <<comps, sources, told, cached, routes, upsets, tainted>>

\* The calls, and the statements each starts with.  A put is made with the
\* version the client read, or none.
Calls(k) ==
    \/ \E p \in Projects(scene.contents, scene.sources) : Begin(k, "putProject", p, <<Do("list", TRUE)>>)
    \/ Begin(k, "removeProject", Nothing, <<Do("list", FALSE)>>)
    \/ \E c \in Comps, x \in scene.contents : \E v \in {0, comps[c].version} :
          Begin(k, "putComponent", Nothing, <<Put("putComponent", c, v, x), Do("tellPut", c)>>)
    \/ \E c \in Comps : Begin(k, "removeComponent", Nothing, RemoveWith(c))
    \/ \E c \in Comps, s \in scene.sources : \E v \in {0, sources[s].version} :
          Begin(k, "putSource", Nothing, <<Do("check", c), Put("putSource", s, v, c)>>)
    \/ \E s \in scene.sources : Begin(k, "removeSource", Nothing, <<Do("removeSource", s)>>)
    \/ \E enabled \in BOOLEAN : Begin(k, "toggle", Nothing, <<Do("listSources", enabled)>>)

(***************************************************************************)
(* Statements.                                                             *)
(***************************************************************************)
This(k) == Head(call[k].todo)
Is(k, op) == Running(k) /\ call[k].todo # <<>> /\ This(k).op = op

Continues(k, todo) == call' = [call EXCEPT ![k].todo = todo]
Reads(k) == UNCHANGED <<comps, sources, told, cached, routes, calls, upsets, tainted>>

\* A statement that writes: every other call is overtaken.
Overtakes(k, mine, matters) ==
    /\ call' = [j \in Clients |-> IF j = k THEN mine ELSE [call[j] EXCEPT !.alone = FALSE]]
    /\ tainted' = (tainted \/ (matters /\ ~call[k].alone))

Failed(k) == [op |-> call[k].op, in |-> Nothing, old |-> Nothing, todo |-> <<>>, status |-> "failed",
              alone |-> call[k].alone, whole |-> call[k].whole]
Fails(k) == call' = [call EXCEPT ![k] = Failed(k)]

\* A list is cut after its first page, and the token for the next is ignored.
\* Rows come in the order of their names, which is left open here.
FirstPage(S) == IF Cardinality(S) <= scene.page THEN {S} ELSE kSubset(scene.page, S)

\* getProjectInternal: the components, then the event sources of each.
List(k) ==
    /\ Is(k, "list")
    /\ \E C \in FirstPage({c \in Rows : comps[c].filed}) :
          IF This(k).key
          THEN call' = [call EXCEPT
                 ![k].old = [comps |-> [c \in C |-> comps[c]], sources |-> [s \in {} |-> NoSource]],
                 ![k].todo = Append(Statements([c \in C |-> Do("listOf", c)]), Do("diff", Nothing)),
                 ![k].whole = (\A c \in Rows : comps[c].filed) /\ Cardinality(Rows) <= scene.page]
          ELSE Continues(k, Each([c \in C |-> RemoveWith(c)]))
    /\ Reads(k)
ListOf(k) ==
    /\ Is(k, "listOf")
    /\ \E seen \in FirstPage(SourcesOf(This(k).key)) :
          LET old == call[k].old
              read == [s \in DOMAIN old.sources \cup seen |->
                          IF s \in seen THEN sources[s] ELSE old.sources[s]]
          IN  call' = [call EXCEPT ![k].todo = Tail(@),
                 ![k].old = [comps |-> old.comps, sources |-> read],
                 ![k].whole = @ /\ Cardinality(SourcesOf(This(k).key)) <= scene.page]
    /\ Reads(k)
DiffProject(k) == Is(k, "diff") /\ Continues(k, Diff(call[k].old, call[k].in)) /\ Reads(k)

\* ToggleEventSources: those it is to change, page after page to the last;
\* here in one.
ListSources(k) ==
    /\ Is(k, "listSources")
    /\ LET S == {s \in SourceRows : sources[s].enabled # This(k).key}
       IN  Continues(k, IF S = {} THEN <<>> ELSE <<Put("toggle", S, 0, This(k).key)>>)
    /\ Reads(k)

\* PutEventSource looks for the component; another error than NotFound is
\* passed over.
Check(k) ==
    /\ Is(k, "check")
    /\ IF comps[This(k).key].version = 0 THEN Fails(k) ELSE Continues(k, Tail(call[k].todo))
    /\ Reads(k)
CheckErrs(k) ==
    /\ Is(k, "check") /\ upsets < MaxUpsets /\ upsets' = upsets + 1
    /\ Continues(k, Tail(call[k].todo)) /\ tainted' = TRUE
    /\ UNCHANGED <<comps, sources, told, cached, routes, calls>>

\* What a statement does to the tables.
Executes(k) ==
    \/ Is(k, "putComponent") /\ MayPut(comps[This(k).key], This(k).version)
       /\ PutComponent(This(k).key, This(k).version, This(k).val)
    \/ Is(k, "putSource") /\ MayPut(sources[This(k).key], This(k).version)
       /\ PutEventSource(This(k).key, This(k).version, This(k).val)
    \/ Is(k, "removeSources") /\ RemoveSourcesOf(This(k).key)
    \/ Is(k, "removeRow") /\ RemoveComponentRow(This(k).key)
    \/ Is(k, "removeSource") /\ RemoveEventSource(This(k).key)
    \/ Is(k, "toggle") /\ SetEventSourcesEnabled(This(k).key, This(k).val)
\* Those that may leave an event source without its component when overtaken.
Matters(k) == This(k).op \in {"putSource", "removeRow"}

Writes(k) ==
    /\ Executes(k) /\ Overtakes(k, [call[k] EXCEPT !.todo = Tail(@)], Matters(k))
    /\ UNCHANGED <<told, cached, routes, calls, upsets>>

\* The database executes a statement, and the answer is lost.
AnswerLost(k) ==
    /\ upsets < MaxUpsets /\ upsets' = upsets + 1
    /\ Executes(k) /\ Overtakes(k, Failed(k), Matters(k))
    /\ UNCHANGED <<told, cached, routes, calls>>

\* A put the table refuses: already there, or another version.
Refused(k) ==
    /\ \/ Is(k, "putComponent") /\ ~MayPut(comps[This(k).key], This(k).version)
       \/ Is(k, "putSource") /\ ~MayPut(sources[This(k).key], This(k).version)
    /\ Fails(k) /\ Reads(k)

\* The database fails a statement, which does nothing.
Errs(k) ==
    /\ Running(k) /\ call[k].todo # <<>>
    /\ This(k).op \notin {"check", "diff", "tellPut", "tellRemoved"}
    /\ upsets < MaxUpsets /\ upsets' = upsets + 1
    /\ Fails(k)
    /\ UNCHANGED <<comps, sources, told, cached, routes, calls, tainted>>

Answer(k) ==
    /\ Running(k) /\ call[k].todo = <<>>
    /\ call' = [call EXCEPT ![k] = NoCall]
    /\ Reads(k)

(***************************************************************************)
(* Notifications.  The calls come to one node, Here.  The subscribers of a *)
(* node are told ("local"), and the peers are asked to tell theirs.        *)
(***************************************************************************)
Here == CHOOSE n \in Members : TRUE
Msg(n, stage, op, c) == [to |-> n, stage |-> stage, op |-> op, comp |-> c]
TellAll(op, c) == {Msg(n, IF n = Here THEN "local" ELSE "peer", op, c) :
                     n \in {n \in Members : c \in scene.served[n]}}

\* notifyPutComponent reads the component again, and is silent when it is gone.
Tell(k) ==
    /\ Is(k, "tellPut") \/ Is(k, "tellRemoved")
    /\ LET c == This(k).key IN
       told' = IF This(k).op = "tellPut" /\ comps[c].version = 0 THEN told
               ELSE told \cup TellAll(This(k).op, c)
    /\ Continues(k, Tail(call[k].todo))
    /\ UNCHANGED <<comps, sources, cached, routes, calls, upsets, tainted>>

NotifyDataChanged(m) ==
    /\ m \in told /\ m.stage = "peer"
    /\ told' = (told \ {m}) \cup IF m.op = "tellPut" /\ comps[m.comp].version = 0 THEN {}
                                 ELSE {Msg(m.to, "local", m.op, m.comp)}
    /\ UNCHANGED <<comps, sources, call, cached, routes, calls, upsets, tainted>>

LoseMessage(m) ==
    /\ m \in told /\ m.stage = "peer" /\ upsets < MaxUpsets /\ upsets' = upsets + 1
    /\ told' = told \ {m}
    /\ UNCHANGED <<comps, sources, call, cached, routes, calls, tainted>>

NoRoutes == Nothing

\* The resolver forgets the component and all event sources.
OnComponentNotification(m) ==
    /\ m \in told /\ m.stage = "local" /\ told' = told \ {m}
    /\ cached' = [cached EXCEPT ![m.to][m.comp] = NoComp]
    /\ routes' = [routes EXCEPT ![m.to] = NoRoutes]
    /\ UNCHANGED <<comps, sources, call, calls, upsets, tainted>>

\* The lock is held while the database is read; a missing row is not cached.
ByName(n, c, expired) ==
    /\ LET cache == IF expired THEN [d \in Comps |-> NoComp] ELSE cached[n]
       IN  cached' = [cached EXCEPT ![n] = IF cache[c] # NoComp THEN cache
                                           ELSE [cache EXCEPT ![c] = comps[c]]]
    /\ UNCHANGED <<comps, sources, call, told, routes, calls, upsets, tainted>>

Enabled == [s \in {s \in SourceRows : sources[s].enabled} |-> sources[s].comp]
\* Mutant: the expired event sources stay.
AllEnabledHttpEventSources_Keeps(n, expired) ==
    /\ routes' = [routes EXCEPT ![n] = IF routes[n] = NoRoutes THEN Enabled ELSE @]
    /\ UNCHANGED <<comps, sources, call, told, cached, calls, upsets, tainted>>
AllEnabledHttpEventSources(n, expired) ==
    /\ routes' = [routes EXCEPT ![n] = IF expired \/ routes[n] = NoRoutes THEN Enabled ELSE @]
    /\ UNCHANGED <<comps, sources, call, told, cached, calls, upsets, tainted>>

(***************************************************************************)
(* The specification: at the start the tables hold a project.              *)
(***************************************************************************)
ServiceInit ==
    /\ scene \in Scenes
    /\ \E p \in Projects(scene.contents, scene.sources)
              \cup {[comps |-> [c \in {} |-> Nothing], sources |-> [s \in {} |-> Nothing]]} :
          /\ comps = [c \in Comps |-> IF c \in DOMAIN p.comps
                                      THEN [version |-> 1, content |-> p.comps[c],
                                            filed |-> p.comps[c] \notin Misfiled] ELSE NoComp]
          /\ sources = [s \in Sources |-> IF s \in DOMAIN p.sources
                                          THEN [version |-> 1, comp |-> p.sources[s],
                                                enabled |-> TRUE] ELSE NoSource]
    /\ call = [k \in Clients |-> NoCall] /\ told = {} /\ calls = 0 /\ upsets = 0 /\ tainted = FALSE
    /\ cached = [n \in Members |-> [c \in Comps |-> NoComp]] /\ routes = [n \in Members |-> NoRoutes]

Statement(k) == List(k) \/ ListOf(k) \/ DiffProject(k) \/ ListSources(k) \/ Check(k) \/ CheckErrs(k)
                \/ Writes(k) \/ AnswerLost(k) \/ Refused(k) \/ Errs(k) \/ Tell(k) \/ Answer(k)

Changes ==
    \/ \E k \in scene.clients : Calls(k) \/ Statement(k)
    \/ \E m \in told : NotifyDataChanged(m) \/ LoseMessage(m) \/ OnComponentNotification(m)
Lookup(n, c, expired) ==
    c \in scene.served[n] /\ (ByName(n, c, expired) \/ AllEnabledHttpEventSources(n, expired))

ServiceNext ==
    /\ Changes \/ \E n \in Members, c \in Comps, expired \in BOOLEAN : Lookup(n, c, expired)
    /\ UNCHANGED scene

\* Calls and deliveries come to their end; requests come after the caches expire.
ServiceSpec ==
    /\ ServiceInit /\ [][ServiceNext]_serviceVars
    /\ \A k \in Clients : WF_serviceVars(Statement(k) /\ UNCHANGED scene)
    /\ WF_serviceVars(/\ \E m \in told : NotifyDataChanged(m) \/ OnComponentNotification(m)
                      /\ UNCHANGED scene)
    /\ \A n \in Members, c \in Comps :
          /\ WF_serviceVars(c \in scene.served[n] /\ ByName(n, c, TRUE) /\ UNCHANGED scene)
          /\ WF_serviceVars(/\ c \in scene.served[n] /\ AllEnabledHttpEventSources(n, TRUE)
                            /\ UNCHANGED scene)

(***************************************************************************)
(* Properties                                                              *)
(***************************************************************************)
\* A PutProject call that nobody overtook has executed its statements.
Done(k) == Running(k) /\ call[k].op = "putProject" /\ call[k].todo = <<>> /\ call[k].alone /\ ~tainted

\* Of the components and event sources that a PutProject call puts or has
\* read, it leaves exactly its input (mael_svc.go:104-193), whatever the
\* tables held before and whichever calls failed half-way; of all there are,
\* when the project's components are filed under its name in lower case and
\* its lists fit on a page (mael_svc.go:210, 221, sql_db.go:311-334).
PutProjectIsExact == \A k \in Clients : Done(k) =>
    LET theirs == {c \in Rows :
            call[k].whole \/ c \in DOMAIN call[k].in.comps \cup DOMAIN call[k].old.comps}
        theirSources == {s \in SourceRows :
            call[k].whole \/ s \in DOMAIN call[k].in.sources \cup DOMAIN call[k].old.sources}
    IN  /\ [c \in theirs |-> comps[c].content] = call[k].in.comps
        /\ [s \in theirSources |-> sources[s].comp] = call[k].in.sources

\* Calls that write one after the other never leave an event source whose
\* component is gone, also when the database fails any statement of them; it
\* takes a put and a remove that overlap, or an error that PutEventSource
\* passes over (mael_svc.go:340).
NoOrphans == ~tainted => \A s \in SourceRows : comps[sources[s].comp].version > 0

\* When the changes end, each resolver comes to answer with what the database
\* holds, although notifications are lost or come late, and none is sent of
\* event sources.
CachesCatchUp ==
    <>[]\A n \in Members : /\ \A c \in Comps : cached[n][c] \in {NoComp, comps[c]}
                         /\ routes[n] \in {NoRoutes, Enabled}

\* PutProject "diffs the input project with the prior state of the project,
\* updating components in the project that already exist, adding components
\* that do not, and removing components associated with the project name that
\* are no longer present in the input project" (idl/maelstrom.idl:27-30): when
\* it is done, the rows under the project's name are those of its input.
PutProjectIsComplete == \A k \in Clients : Done(k) =>
    /\ [c \in Rows |-> comps[c].content] = call[k].in.comps
    /\ [s \in SourceRows |-> sources[s].comp] = call[k].in.sources

ServiceTypeOK ==
    /\ EntitiesTypeOK /\ scene \in Scenes
    /\ \A k \in Clients : /\ call[k].status \in {"idle", "running", "failed"}
                          /\ {call[k].alone, call[k].whole} \subseteq BOOLEAN
    /\ told \subseteq [to : Members, stage : {"peer", "local"},
                       op : {"tellPut", "tellRemoved"}, comp : Comps]
    /\ calls \in 0..MaxCalls /\ upsets \in 0..MaxUpsets /\ tainted \in BOOLEAN
=============================================================================
