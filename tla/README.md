# TLA+ models of the agglo config-builder

The config-builder is a React application. Its users build a pipeline configuration
document for agglo and load or download it as JSON. This directory models the
application's state and event handlers in TLA+ and checks them with TLC.

## The system and how its parts interact

- **ConfigWizard** (`src/web/config-builder/builder/src/components/ConfigWizard.tsx`)
  owns the committed configuration:
  - one immutable `Map` per collection (externals, processes, pipelines), keyed by name;
  - a `metadata` Map that holds `partitionUuid`.

  Every change goes through `setXState` / `deleteX` / `setMetadataState`. Each of these
  queues a `setState` updater, and React applies the updaters in call order. On every
  render, each tab is keyed by the CRC32 of its collection, so a tab, and every builder
  in it, is mounted afresh exactly when its collection changes.
- **Builders** (`ExternalBuilder`, `FilterBuilder`, `TeeBuilder`, `AggregatorBuilder`,
  `SpawnerBuilder`, `CompleterBuilder`, `ContinuationBuilder`, `EntwineBuilder`,
  `TransformerBuilder`, `AnnotatorBuilder`, `PipelineBuilder`).
  - Each builder holds one draft in `state` and shows its form inside a **MainModal**.
    The modal unmounts its body while it is hidden.
  - Every `onChange` takes `prev.x.copy()` and assigns a field of the copy.
  - "Save Changes" runs `validateXState(draft, isEdit)`, then `setXState(draft)`.
  - Whether an edit reaches the stored object before the save depends on what `copy()`
    copies.
- **ConditionBuilder** (`Condition.tsx`) is nested in the process builders. It edits a
  `Condition` in its own modal and hands it back through `saveConditionHandler`.
  `UndefinedCondition` is a sentinel instance that the forms compare by identity.
- **Editor** (`src/config-builder/builder/src/components/Editor.tsx`) handles both
  directions of the JSON document:
  - it renders the whole configuration as JSON;
  - `updateState` loads a document: it sets the metadata, decodes the three arrays,
    deletes every current entity, then sets every decoded one.
- **Pipelines tab** (`Pipelines.tsx`):
  - holds the UUID field, read from the metadata in its constructor;
  - lists the pipelines, each with its `PipelineBuilder`.

## Modules

| Module | Models | State ↔ code |
|---|---|---|
| `KeyedCollection` | What one collection promises (spec.md 3, 4.3): create under a free name, update an entity under its own name, remove, replace all on load. | `coll`: name → [id, val] |
| `ConfigStore` | ConfigWizard's collections with the builders' create/edit/save/close/delete cycle and MainModal's error alert. A create opens the builder the Processes selector chose; `CreateIsEdit` is the `isEdit` flag its constructor sets (true only for EntwineBuilder). It refines `KeyedCollection` per collection (`KC(c) == INSTANCE KeyedCollection WITH coll <- store[c]`). | `store` = the Maps, `draft` = the open builder's state, `errorShown` = MainModal `showError`, `id` of an entry = ghost identity of the create that made it, reused once no entry has it |
| `ProcessBuilder` | The object graph behind the process builders: wrappers and spec objects on a heap, `copy()` sharing or copying the spec, the condition sentinel, and the Tee `additionalBody` textarea with its stale-state save. | `wrapper`, `spec` = heap objects; `committed` = processes Map → wrapper ref; `draft` = builder `state.x`; `isEdit` = the builder's `this.isEdit`; `bodyText` = textarea; `lastSave` = ghost [name, body] of the last Tee save; `spec[s].handed` = ghost: a ConditionBuilder's save set the condition |
| `ConditionCodec` | Pure operators: `OperatorType` and the operator enums, `StrToOperator`, `HasLHS`/`HasRHS`, `getOperandSpec`/`operandSpecToString`, `Condition.toJSON`/`fromJSON`. Operands are sequences over a small alphabet, so `replace` and `Number()` are modelled by what they do. | — |
| `ConditionBuilder` | The ConditionBuilder component: every `onChange` branch, save, and the modal's show/hide. | `cond` = `state.condition`; `saved` = the last condition handed back; `showModal` |
| `PipelineBuilder` | A pipeline's step list: append, delete, move up/down, the uncontrolled tracing checkboxes of unkeyed cards, and save. | `steps`; `dom` = DOM checkedness and dirty flag per card position; `saved`; `alive` = ghost set of step ids |
| `DocumentCodec` | Pure operators: the `toJSON`/`fromJSON` pair of External (the `External` type prefix and `StrToExternalType`), Pipeline and PipelineProcess (checkpoint omission, the defaults of absent groups), and Aggregator, Completer, Filter, Spawner, Tee, Continuation and Entwine; the tag dispatch of `Editor.updateState` in its order; which `fromJSON` throws on which document. A JSON object is a function from keys to values; `Obj` drops keys whose value is undefined and `Wire` writes NaN as null, as `JSON.stringify` does. An External type is a sequence of words, so the prefix test and `replace` are modelled by what they do. | — |
| `DocumentLoad` | `Editor.updateState` on JSON documents (success, parse error, decode error after the metadata update), `handleReset`, entity set/delete with builder-made objects, `Editor.render`, and the Pipelines tab's UUID field and its remount. Collections are named by their document keys. | `store` = the three Maps, name → decoded object; `metadata`, `uuidField` = Pipelines `state.partitionUuid`, `typed` (ghost), `lastLoad` (ghost) |
| `ProcessForms` | Pure operators: the create-branch constructors of the External and seven process builders, every `onChange` branch as a table from input id to the field written and its conversion (`parseInt` reading leading digits or giving NaN, `split(",")`, the checkbox `value === "on"`, the enum lookups), `canAddCondition`, `saveConditionHandler`, and what `handleSave` stores (Tee writes the parsed body first). `Built(k, script, body)` is the object a create dialog stores after a script of input events. | — |
| `AnnotatorBuilder` | The edit dialog of an Annotator: name and field `onChange` (a copy of the array, then a copy of the annotation written into slot i), append, delete, tab selection, per-tab ConditionBuilders matched by position, `saveConditionHandler`, and save. It also models `Annotation`/`Annotator` `toJSON`/`fromJSON` and `Annotation.copy`, which passes the `UndefinedCondition` instance on and copies any other condition. | `stored`, `draft` = `state.annotator`, `src[i]` = position in the stored array of the object at draft position i (0 for a new object), `shown`, `cb` = per-position ConditionBuilder state, `tab` = `state.annotationTab` as <<name, index>> |
| `TransformerBuilder` | The edit dialog of a Transformer: every `onChange` branch, append, delete, per-tab ConditionBuilders matched by position, and save. It also models `Transformation`/`Transformer` `toJSON`/`fromJSON`, `transformationArgsToSpec` and `argsSpecToTransformationSpec`. | `stored`, `draft`, `aliased` (draft's array is the stored one), `shown`, `cb` = per-position ConditionBuilder state |

- Each `MC*` module fixes the constants with model values; the `.cfg` files pick the bounds.
- Every mapped definition is listed with its source lines under `map` in
  `PROJECT.json`.
- An action models a whole handler, including the `setState` it queues and the remount
  that follows.

## Runs

| Run | Expect | What it shows |
|---|---|---|
| `configstore_externals` | pass | Externals behave as a `KeyedCollection`, because their name is read-only on edit (`KeyedSpec`). No entity is stored under two names (`UniqueIdentity`). |
| `configstore_processes` | violation | A process builder leaves the name editable on edit, and `validateProcessState` skips the check when `isEdit`. An edit renamed and saved therefore stores a second copy of the entity or overwrites another one (`KeyedSpec`). EntwineBuilder reaches the same overwrite without a rename: its constructor leaves `isEdit` true on create, so two Entwines created under the same name replace one another; TLC still finds this with the name made read-only on edit. |
| `processbuilder_plain` | pass | Filter and Completer copy their spec. While a dialog is open, no step changes a stored process, also when an edit renames the copy (`DraftIsolation`). A stored process fails the identity test `condition !== UndefinedCondition` only after a condition dialog's save: copying never turns the sentinel into a condition (`SentinelKeptByCopy`). The dialog may hand back a copy of the sentinel, typed in and cleared, which then counts as a condition; the property allows that and holds. |
| `processbuilder_tee_body` | pass | What Tee's save stores under the saved name, renamed on edit or not, is what the textarea held (`BodySaved`). This holds only because `Tee.copy` shares the `TeeSpec`: `handleSave` stores the `state.tee` it read before its own `setState`. The mutant `SharesSpecNoTee`, which fixes `copy` alone, loses the body. |
| `processbuilder_shared_spec` | violation | Tee, Aggregator and Spawner share their spec in `copy()`, so an edit in an open dialog changes the stored process before Save, and even without one (`DraftIsolation`). |
| `condition_roundtrip` | pass | Every condition the builder can reach and that has one of the spec's forms is reproduced by `fromJSON(toJSON(c))` (`WellFormedRoundTrips`). |
| `pipeline_steps` | pass | Move up/down, append and delete keep the steps a permutation of the live step ids (`StepsArePermutation`). |
| `document_replace` | pass | After a load, each collection holds exactly the document's entities, with the last entry winning for a repeated name. This follows from the delete-before-set order of the queued updaters (`ReplaceExact`). In every state that renders, the text `Editor.render` shows loads without a throw and gives a state that renders the same text (`ReloadKeepsDocument`). The saved entities are the objects `ProcessForms` builds from scripted create dialogs, not hand-written records, and the text reloads although the objects differ: a NaN Spawner delay comes back as null, absent Aggregator flags stay absent, the `External` prefix is stripped and added again, an empty checkpoint connector is omitted and defaulted back, and a missing `partitionUuid` is written as `""`. |
| `document_uuid_field` | violation | A load that leaves the pipelines as they were does not remount the Pipelines tab, so its UUID field keeps the old value while `partitionUuid` takes the loaded one (`UuidFieldShowsMetadata`). TLC's shortest trace is a single load whose process fails to decode: `updateState` has already queued the metadata update. With that action removed, TLC finds the same state after a successful load whose pipelines equal the current ones. A "Save UUID" in that state, which the trace does not take, would write the old value over the loaded one. |
| `transformer_codec` | pass | Every Transformer reachable in the edit dialog keeps its fields, type and shown arguments through `toJSON` then `fromJSON`. A typed condition comes back unchanged. A typeless condition the condition dialog handed back comes back as the `UndefinedCondition` sentinel (`DecodeKeepsVisible`). No edit reaches the stored Transformer before save (`DraftIsolation`), thanks to `Array.from` in `Transformer.copy`. |
| `annotator_builder` | pass | Every Annotator reachable in the edit dialog keeps its name and every annotation's key, value and typed condition through `toJSON` then `fromJSON`; a typeless condition the condition dialog handed back comes back as the sentinel (`DecodeKeepsAnnotations`). An annotation shows the Condition group only for a condition a ConditionBuilder handed back, however often it was copied (`ConditionGroupMeansCondition`). No edit reaches the stored Annotator before save, although the copied array still holds the stored Annotation objects (`DraftIsolation`). |
| `transformer_tabs` | violation | The transformation tabs have no key. After a delete, the next tab's condition dialog is the ConditionBuilder built for the deleted transformation, and saving it untouched replaces that tab's condition (`UneditedSaveKeepsCondition`). |

Every property of a passing run has a mutant in `PROJECT.json`: a plausible bug in the
definition it depends on, which TLC then finds violated. Examples:

- a dropped `Array.from`;
- `Annotation.copy` cloning the sentinel, as `Continuation.copy` does;
- MapRegex writing its regex and forgetting the replacement;
- the updaters queued sets-first;
- `External.fromJSON` keeping the `External` prefix;
- a swap without a temporary.

### Known divergences without a run

These were found while modelling and are reachable in the models. They are recorded as
hazards in `PROJECT.json`.

- **ConditionBuilder:** changing the operator type keeps `lhs`. An `lhs` typed under
  Unknown survives a switch to Unary and is dropped by `toJSON` (spec.md 3).
- **PipelineBuilder:** the step cards have no key and their checkboxes are uncontrolled.
  After a click and a delete, a card shows the deleted step's flag (`dom` in the model).
- **Continuation and Entwine:** `Continuation.copy` and `Entwine.copy` clone
  `UndefinedCondition`, so after any edit a process saved with no condition fails the
  identity test and is treated as having one. `processbuilder_plain` checks
  `SentinelKeptByCopy` for the builders that keep the sentinel, and its mutant
  `ClonesSentinelAll` is exactly the Continuation behaviour.
- **A typeless condition:** a ConditionBuilder opened on `UndefinedCondition` copies
  it on its first `onChange`, and `HasLHS`/`HasRHS` are true for Unknown. Typing an
  operand, clearing it and saving hands back a Condition that is not the sentinel and
  has no type. The builders then show a condition group, `toJSON` writes `{}`, and a
  reload gives the sentinel. The process, Transformer and Annotator models all let the
  dialog hand such a condition back.
- **Rename of a Tee:** an edit may rename the copy, and the old entry stays. The old
  and new Tees then share one `TeeSpec`, so the new name's body, and every later edit,
  also reaches the old process.
- **AnnotatorBuilder tabs:** like the transformation tabs, the annotation tabs have no
  key, so after a delete a position's ConditionBuilder holds the deleted annotation's
  condition (`cb` in the model). The `transformer_tabs` run shows the same mechanism.
- **DocumentLoad:** a decode error still applies the `partitionUuid` update (spec.md 7
  asks for an atomic abort). `LoadDecodeError` models it.
- **Codec throws where spec.md 4.2 asks for defaults:** `Spawner.fromJSON` reads
  `props.job.runnable`, `Completer.fromJSON` reads `props.completion` and
  `Aggregator.fromJSON` reads `props.aggregation.key` without a default, so a document
  without them fails to load (`ProcessDecodes`; `MCDocumentLoad` has such a Spawner).
  Absent Aggregator flags are kept undefined, not false.
- **A checkpoint of `{}`:** `Pipeline.fromJSON` defaults only an undefined or null
  checkpoint, so `{}` leaves `checkPointConnectorRef` undefined, and the next
  `Editor.render` throws on its `length` (`Renders` is false; `MCDocumentLoad` loads such
  a document). `ReloadKeepsDocument` is therefore stated for states that render.
- **Checkboxes store `"on"`:** every checkbox handler (Filter `keepMatched`, Spawner
  `doSync`, Aggregator `asyncCheckpoint` and `forwardState`) writes
  `event.target.value === "on"`, which is true on every click, ticking or unticking.
  `ProcessForms` decodes it this way.
- **Select placeholders are stored:** choosing "Choose..." stores that text as an
  Entwine or Aggregator store reference, and makes an Aggregator's type undefined, which
  `canAddCondition` (`!== Unknown`) accepts. `MCDocumentLoad` builds both.
- **Dangling references:** `deleteExternal` removes an External whatever still names
  it, although spec.md 3 keeps references valid at the edit boundary.
- **Entwine has no `toString`:** it is a `React.Component`, so `CRC32(process.toString())`
  is the same for every Entwine, and neither the Processes tab nor the EntwineBuilder is
  remounted when only an Entwine's fields change.

## Bounds and why they are enough

- **ConfigStore:** two typed names plus the empty name, two values, four ghost
  identities (`MaxIds = 4`, one more than a collection of three names can hold, so a
  create always finds a free one). A rename needs one entity and two names; overwriting needs two
  entities.
- **ProcessBuilder:** two names (an edit may rename to either), two field values, one
  condition besides the sentinel, two bodies plus unparsable text, and a heap of 8 refs.
  The Tee body run keeps one field value and the sentinel alone, since neither plays a
  part in `BodySaved`; this keeps it at 236,297 states instead of 7 million.
  - An allocation reclaims unreachable objects first, so the heap never runs out with
    one draft and two stored processes.
  - The kinds are split between runs to keep each under a few minutes. Kinds that share
    their `copy()` behaviour (Filter/Completer, Tee/Aggregator/Spawner,
    Continuation/Entwine) are represented by one or more members of their group.
- **ConditionBuilder:**
  - Operands are the empty string, a literal, a number, a variable, and `[]a]` (a
    bracketed string with brackets inside).
  - Each enum is cut down to two operators, keeping `And`/`Or`, which are both Binary
    and Logical.
- **PipelineBuilder:** up to 3 steps and 4 step ids. A move needs 2 steps; a move after a
  delete needs 3.
- **DocumentLoad:** all three collections, two names, and five JSON documents:
  - one with a `partitionUuid`, an External of another type, a Filter, a Continuation
    with a condition, and an Aggregator with no flags and an unknown aggregation type;
  - one without `partitionUuid`, with a Tee (null body) and an Entwine under one name,
    and a pipeline whose step has no retry or instrumentation group;
  - one that does not parse;
  - one whose Spawner has no `job` and whose other process has no known tag;
  - one with an External type without the prefix, a Completer, and a checkpoint of `{}`.

  The saved entities come from `ProcessForms.Built`: scripted create dialogs of an
  External and of every process kind, with names in `{a, b, ""}` (the empty name is a
  free name on create). The scripts reach the conversions' edges: a delay with no digits
  (NaN), a timeout `"10"`, an interval `"7a"` (7), a group-by list `"x,y"`, an empty
  list, checkboxes, the "Choose..." options, a condition saved while the button is
  disabled (a Continuation with no name), and a Tee body. The pipeline is saved without
  checkpoint connector. Every process kind of the codec, every default and every throw
  is reached, and a load meets existing entities under shared names. The
  `document_replace` run explores 75,463 states.
- **AnnotatorBuilder:** one annotator name (no property depends on the name, and a
  second one made the run take seven minutes), keys and values each `""` or one non-empty
  string (so `canAddCondition` is both false and true), a typed and a typeless condition
  besides the sentinel, and
  up to two annotations (`MaxAnns = 2`), the least a delete before another tab's edit
  needs. The builder starts on a stored Annotator with no annotations, so every
  annotation is built in the dialog and then saved.
- **TransformerBuilder:**
  - The codec run uses one transformation with three types and undefined (Unknown,
    Copy, and MapRegex with two arguments), empty and non-empty fields, and a typed and
    a typeless condition. MapMult is left out because its one argument adds nothing
    that MapRegex's two do not, and it would quadruple the states.
  - The tab run uses two transformations, the least that a delete-then-save on another
    tab needs.

## Fairness

All properties are safety properties: invariants and action properties. The application
is driven entirely by user events, and the code promises no progress of its own: nothing
retries, times out or runs in the background. So no fairness is assumed and no liveness
is checked. `CHECK_DEADLOCK` is left on: every model can always take another user step.

## What is not modelled, and why

- **The DOM of AnnotatorBuilder's uncontrolled inputs** (`defaultValue` in unkeyed
  tabs) and whether the active tab key still names a tab after a rename: only the state
  they write is modelled. Both are listed as hazards.
- **Field forms inside the ConfigStore and ProcessBuilder runs:** these abstract every
  field to one value; the field forms themselves are `ProcessForms`, checked through
  `document_replace`. Which DOM checkbox is ticked is not modelled, because no handler
  reads it.
- **The order of entities in the Immutable Maps and in the emitted JSON:** collections
  are modelled as functions.
- **The Processes tab rendering Entwine with the Continuation summary:** rendering only.
  Entwine's create-as-edit is modelled in ConfigStore (`CreateIsEdit`).
- **Annotator and Transformer in the document model:** their codecs are modelled and
  checked in `AnnotatorBuilder` and `TransformerBuilder`; the documents of
  `MCDocumentLoad` hold neither, to keep the state space small, and `ProcessTags`
  leaves out their two tags.
- **Builder state that persists after Close.** ConfigStore drops the draft on Close.
  The builder really keeps its state until its tab remounts, which any store change
  causes. A draft kept across Close and reopened therefore behaves like a dialog that was
  never closed, and the store-level properties are unaffected.
- **Rendering, styling, file upload and download, and the CRC32 hash itself.** The
  models keep only its effect: a remount exactly when the content changes.

## Plan for further work

1. Referential integrity of store and connector references (spec.md 3) would be a
   violation run after `deleteExternal` or a "Choose..." selection; it needs a run slot.
2. A run asserting that every reachable state renders (the `{}` checkpoint crash) and
   one asserting spec.md 4.2's defaults would both be violation runs; they need run slots.
3. The order of entities in the Maps, to check that a reload keeps the document's array
   order (spec.md 4.4).
