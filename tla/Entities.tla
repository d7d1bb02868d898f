------------------------------ MODULE Entities ------------------------------
(***************************************************************************)
(* The tables of components and event sources (pkg/db/sql_db.go), and the  *)
(* comparison of two projects (pkg/maelstrom/project.go).  A row that is   *)
(* not there has version 0.  Of a component's definition the model keeps a *)
(* value that tells two definitions apart, of an event source the          *)
(* component it calls.  Names are those the service gives them: lower      *)
(* case, prefixed with their project's, so that each has one project.  A   *)
(* definition also names a project, as the client spelled it: a row is     *)
(* found with its project only when that is the project's name in lower    *)
(* case.                                                                   *)
(***************************************************************************)
EXTENDS Naturals, Sequences, FiniteSets, SequencesExt

CONSTANTS Comps, Sources, Contents, Nothing,
          Misfiled    \* definitions that name the project otherwise, another or none

VARIABLES comps,    \* table component; filed: its column projectName is the project's name
          sources   \* table eventsource

NoComp == [version |-> 0, content |-> Nothing, filed |-> FALSE]
NoSource == [version |-> 0, comp |-> Nothing, enabled |-> FALSE]

Rows == {c \in Comps : comps[c].version > 0}
SourceRows == {s \in Sources : sources[s].version > 0}
SourcesOf(c) == {s \in SourceRows : sources[s].comp = c}

EntitiesTypeOK ==
    /\ \A c \in Comps : comps[c] = NoComp
                        \/ comps[c] \in [version : Nat \ {0}, content : Contents, filed : BOOLEAN]
    /\ \A s \in Sources : sources[s] = NoSource
                          \/ sources[s] \in [version : Nat \ {0}, comp : Comps, enabled : BOOLEAN]

(***************************************************************************)
(* A put with version 0 inserts, and fails if there is a row (AlreadyExists); *)
(* with another version it updates the row that has it, and fails if there *)
(* is none (IncorrectPreviousVersion).  The failing put changes nothing.   *)
(***************************************************************************)
MayPut(row, version) == row.version = version

\* Updating leaves the column "projectName" alone; inserting sets it as the
\* definition says.
Filed(version, content, before) == IF version = 0 THEN content \notin Misfiled ELSE before
PutComponent(c, version, content) ==
    /\ comps' = [comps EXCEPT ![c] = [version |-> version + 1, content |-> content,
                                      filed |-> Filed(version, content, @.filed)]]
    /\ UNCHANGED sources

\* Updating leaves the column "enabled" alone; it is set when a row is inserted.
PutEventSource(s, version, c) ==
    /\ sources' = [sources EXCEPT ![s] = [version |-> version + 1, comp |-> c,
                                          enabled |-> version = 0 \/ @.enabled]]
    /\ UNCHANGED comps

\* The two statements of RemoveComponent.
RemoveSourcesOf(c) ==
    /\ sources' = [s \in Sources |-> IF sources[s].comp = c THEN NoSource ELSE sources[s]]
    /\ UNCHANGED comps
RemoveComponentRow(c) == comps' = [comps EXCEPT ![c] = NoComp] /\ UNCHANGED sources

RemoveEventSource(s) == sources' = [sources EXCEPT ![s] = NoSource] /\ UNCHANGED comps

SetEventSourcesEnabled(S, enabled) ==
    /\ sources' = [s \in Sources |-> IF s \in S /\ s \in SourceRows
                                     THEN [sources[s] EXCEPT !.enabled = enabled] ELSE sources[s]]
    /\ UNCHANGED comps

(***************************************************************************)
(* A project: definitions of its components, and the component of each of  *)
(* its event sources.  The old one has rows as they were read.             *)
(***************************************************************************)
Projects(contents, eventSources) ==
    {p \in [comps : UNION {[D -> contents] : D \in SUBSET Comps \ {{}}},
            sources : UNION {[S -> Comps] : S \in SUBSET eventSources}] :
        \A s \in DOMAIN p.sources : p.sources[s] \in DOMAIN p.comps}

\* Mutant: a component is put only when it is new.
ComponentPut_New(old, new) == {c \in DOMAIN new.comps : c \notin DOMAIN old.comps}
\* New, or modified.
ComponentPut(old, new) ==
    {c \in DOMAIN new.comps : c \in DOMAIN old.comps => old.comps[c].content # new.comps[c]}

\* Of a component that is kept, new or modified (which a disabled event source
\* always is); every one of a new component.
EventSourcePut(old, new) ==
    {s \in DOMAIN new.sources :
        \/ new.sources[s] \notin DOMAIN old.comps
        \/ s \notin DOMAIN old.sources
        \/ old.sources[s].comp # new.sources[s] \/ ~old.sources[s].enabled}

\* The version a put is made with: that of the old row, which is looked up for
\* the event sources of components that are kept.
ComponentVersion(old, c) == IF c \in DOMAIN old.comps THEN old.comps[c].version ELSE 0
EventSourceVersion(old, new, s) ==
    IF new.sources[s] \in DOMAIN old.comps /\ s \in DOMAIN old.sources
    THEN old.sources[s].version ELSE 0
=============================================================================
