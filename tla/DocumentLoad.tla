---------------------------- MODULE DocumentLoad ----------------------------
(***************************************************************************)
(* Loading a configuration document into the ConfigWizard state          *)
(* (Editor.updateState, reached from "Save Config", "Reset Config" and    *)
(* file upload), and the partitionUuid metadata it shares with the UUID   *)
(* field of the Pipelines tab.                                            *)
(*                                                                         *)
(* updateState parses the text, calls setMetadataState when the document *)
(* has a partitionUuid, decodes the three arrays (a process without a     *)
(* known tag throws), then calls deleteX for every entity read from the   *)
(* current state and setX for every decoded entity.  Each call queues a   *)
(* setState updater; React applies them in call order, also when the      *)
(* handler throws afterwards.  Documents and entities are the JSON values *)
(* and objects of DocumentCodec; a collection is named by its key in the  *)
(* document, and its Map is keyed by the decoded object's name.           *)
(*                                                                         *)
(* The Pipelines tab is keyed by the CRC of the pipelines, so it is       *)
(* mounted again exactly when the pipelines change; its constructor reads *)
(* the partitionUuid from the metadata, and generates one with uuidv4     *)
(* when that is falsy.  Editor.render writes the state back as a          *)
(* document.                                                               *)
(***************************************************************************)
EXTENDS DocumentCodec, FiniteSets
LOCAL INSTANCE SequencesExt

CONSTANTS
    Collections,   \* {"externalSystems", "processDefinitions", "pipelines"} or a subset
    Names,         \* entity names
    Vals,          \* Vals[c]: the objects the builders of collection c save
    Uuids,         \* partitionUuid values of documents
    Generated,     \* the value uuidv4() returns
    Absent,        \* no partitionUuid in the metadata Map
    Docs           \* the documents a user loads: [parses, json]

ASSUME "pipelines" \in Collections
ASSUME Generated \notin Uuids /\ Absent \notin Uuids \cup {Generated, ""}

\* "{}", which handleReset passes to updateState.
EmptyDoc == [parses |-> TRUE, json |-> <<>>]

\* fromJSON and toJSON of an entity of collection c.
FromJSON(c, x) == CASE c = "externalSystems" -> ExternalFromJSON(x)
                    [] c = "processDefinitions" -> ProcessFromJSON(x)
                    [] c = "pipelines" -> PipelineFromJSON(x)
ToJSON(c, v) == CASE c = "externalSystems" -> ExternalToJSON(v)
                  [] c = "processDefinitions" -> ProcessToJSON(v)
                  [] c = "pipelines" -> PipelineToJSON(v)
Decodes(c, x) == CASE c = "externalSystems" -> ExternalDecodes(x)
                   [] c = "processDefinitions" -> ProcessDecodes(x)
                   [] c = "pipelines" -> PipelineDecodes(x)

\* The array under key c ("c" in configJSON), or none.
Array(j, c) == IF c \in DOMAIN j THEN j[c] ELSE <<>>

\* Every fromJSON of the document returns instead of throwing.
DocDecodes(j) == \A c \in Collections : \A i \in DOMAIN Array(j, c) : Decodes(c, Array(j, c)[i])

\* The decoded objects of collection c, in document order.
Decoded(j, c) == [i \in DOMAIN Array(j, c) |-> FromJSON(c, Array(j, c)[i])]

VARIABLES
    store,         \* store[c]: the Map of collection c, name -> object
    metadata,      \* the partitionUuid entry of the metadata Map
    uuidField,     \* Pipelines state.partitionUuid
    typed,         \* ghost: the UUID field was edited since it was mounted
    lastLoad       \* ghost: outcome of the last updateState, with its document

vars == <<store, metadata, uuidField, typed, lastLoad>>

Put(f, k, v) == [x \in DOMAIN f \cup {k} |-> IF x = k THEN v ELSE f[x]]
Del(f, k) == [x \in DOMAIN f \ {k} |-> f[x]]

\* A queued setState updater and its application to the store: Map.delete
\* or Map.set under the object's name.
Apply(s, u) ==
    IF u.op = "delete" THEN [s EXCEPT ![u.c] = Del(@, u.n)]
    ELSE [s EXCEPT ![u.c] = Put(@, u.v.name, u.v)]

\* The updaters of updateState in call order: for each collection, a
\* delete of every entity of the current state s; then for each collection
\* a set of every decoded object, in document order.  (The code deletes
\* pipelines, processes, externals, then sets externals, processes,
\* pipelines; collections are independent, so only the delete-before-set
\* order matters.)
Deletes(s) ==
    FoldLeft(LAMBDA acc, c : acc \o
               SetToSeq({[op |-> "delete", c |-> c, n |-> n] : n \in DOMAIN s[c]}),
             <<>>, SetToSeq(Collections))
Sets(j) ==
    FoldLeft(LAMBDA acc, c : acc \o
               [i \in DOMAIN Decoded(j, c) |-> [op |-> "set", c |-> c, v |-> Decoded(j, c)[i]]],
             <<>>, SetToSeq(Collections))

\* Mutant: the sets are queued before the deletes.
UpdatersSetsFirst(s, j) == Sets(j) \o Deletes(s)

Updaters(s, j) == Deletes(s) \o Sets(j)

\* The store after a load of document j that decodes.
Loaded(s, j) == FoldLeft(Apply, s, Updaters(s, j))

\* setMetadataState("partitionUuid", ...) when the document has one.
MetadataAfter(m, j) == IF "partitionUuid" \in DOMAIN j THEN j.partitionUuid ELSE m

\* A render after a state change: the Pipelines tab is mounted again iff
\* the pipelines changed, and its constructor keeps a truthy partitionUuid.
Rerender(newStore, newMeta) ==
    IF newStore["pipelines"] # store["pipelines"]
    THEN /\ uuidField' = IF newMeta \in {Absent, ""} THEN Generated ELSE newMeta
         /\ typed' = FALSE
    ELSE UNCHANGED <<uuidField, typed>>

\* Editor.render: partitionUuid ("" for none) and the toJSON of every
\* entity of each collection.  Pipeline.toJSON throws for an undefined
\* checkpoint connector, so a state renders only without one.
Render(s, m) ==
    ("partitionUuid" :> IF m = Absent THEN "" ELSE m)
    @@ [c \in Collections |-> LET ns == SetToSeq(DOMAIN s[c])
                              IN [i \in DOMAIN ns |-> ToJSON(c, s[c][ns[i]])]]
Renders(s) == \A n \in DOMAIN s["pipelines"] : PipelineRenders(s["pipelines"][n])

-----------------------------------------------------------------------------

Init ==
    /\ store = [c \in Collections |-> <<>>]
    /\ metadata = Absent
    /\ uuidField = Generated
    /\ typed = FALSE
    /\ lastLoad = [result |-> "none", doc |-> EmptyDoc]

\* updateState(text) for a document that parses and decodes.
LoadOk(d) ==
    /\ d.parses /\ DocDecodes(d.json)
    /\ store' = Loaded(store, d.json)
    /\ metadata' = MetadataAfter(metadata, d.json)
    /\ Rerender(store', metadata')
    /\ lastLoad' = [result |-> "ok", doc |-> d]

\* JSON.parse throws: nothing has been queued.
LoadParseError(d) ==
    /\ ~d.parses
    /\ lastLoad' = [result |-> "failed", doc |-> d]
    /\ UNCHANGED <<store, metadata, uuidField, typed>>

\* A fromJSON throws (a process without a known tag, a Spawner without
\* job, a pipeline without processes, ...) after setMetadataState was
\* queued and before any delete.
LoadDecodeError(d) ==
    /\ d.parses /\ ~DocDecodes(d.json)
    /\ metadata' = MetadataAfter(metadata, d.json)
    /\ lastLoad' = [result |-> "failed", doc |-> d]
    /\ UNCHANGED <<store, uuidField, typed>>

\* handleReset: updateState("{}").
handleReset == LoadOk(EmptyDoc)

\* A builder's save or a Delete button: one setX or deleteX.
SetEntity(c, v) ==
    /\ store' = [store EXCEPT ![c] = Put(@, v.name, v)]
    /\ Rerender(store', metadata)
    /\ lastLoad' = [lastLoad EXCEPT !.result = "none"]
    /\ UNCHANGED metadata
DeleteEntity(c, n) ==
    /\ n \in DOMAIN store[c]
    /\ store' = [store EXCEPT ![c] = Del(@, n)]
    /\ Rerender(store', metadata)
    /\ lastLoad' = [lastLoad EXCEPT !.result = "none"]
    /\ UNCHANGED metadata

\* Pipelines.onChange of the UUID field.
EditUuid(u) ==
    /\ uuidField' = u
    /\ typed' = TRUE
    /\ UNCHANGED <<store, metadata, lastLoad>>

\* Pipelines.handleSave ("Save UUID").
SaveUuid ==
    /\ metadata' = uuidField
    /\ UNCHANGED <<store, uuidField, typed, lastLoad>>

Next ==
    \/ \E d \in Docs : LoadOk(d) \/ LoadParseError(d) \/ LoadDecodeError(d)
    \/ handleReset
    \/ \E c \in Collections :
          \/ \E n \in Names : DeleteEntity(c, n)
          \/ \E v \in Vals[c] : SetEntity(c, v)
    \/ \E u \in Uuids : EditUuid(u)
    \/ SaveUuid

Spec == Init /\ [][Next]_vars

-----------------------------------------------------------------------------

TypeOK ==
    /\ \A c \in Collections : DOMAIN store[c] \subseteq Names
                              /\ \A n \in DOMAIN store[c] : store[c][n].name = n
    /\ metadata \in Uuids \cup {"", Generated, Absent}
    /\ uuidField \in Uuids \cup {Generated}
    /\ typed \in BOOLEAN
    /\ lastLoad \in [result : {"none", "ok", "failed"}, doc : Docs \cup {EmptyDoc}]

\* The entities of a document: the last object of each name wins (Map.set).
DocEntries(j, c) ==
    LET objs == Decoded(j, c)
    IN [n \in {objs[i].name : i \in DOMAIN objs} |->
          objs[CHOOSE i \in DOMAIN objs :
                 /\ objs[i].name = n
                 /\ \A k \in i + 1..Len(objs) : objs[k].name # n]]

\* Whole-document replace (spec.md 8): after a load, and until the next
\* edit, each collection holds exactly the document's entities, none of
\* the entities loaded or edited before, even under shared names.
ReplaceExact ==
    lastLoad.result = "ok" =>
        \A c \in Collections : store[c] = DocEntries(lastLoad.doc.json, c)

\* Save and load agree (spec.md 4.4): whenever Editor.render shows the
\* state, the text it shows loads without a throw (every toJSON writes what
\* the matching fromJSON reads) and loading it gives a state that renders
\* the very same document, although the in-memory objects may differ
\* (a NaN delay comes back as null, the "External" prefix is stripped, an
\* empty checkpoint connector is omitted and defaulted back).
ReloadKeepsDocument ==
    Renders(store) =>
        LET j == Render(store, metadata)
        IN /\ DocDecodes(j)
           /\ Renders(Loaded(store, j))
           /\ Render(Loaded(store, j), MetadataAfter(metadata, j)) = j

\* The UUID field of the Pipelines tab shows the document's partitionUuid
\* unless the user typed another one, so "Save UUID" keeps it.
UuidFieldShowsMetadata ==
    (metadata \in Uuids /\ ~typed) => uuidField = metadata
=============================================================================
