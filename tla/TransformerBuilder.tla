-------------------------- MODULE TransformerBuilder --------------------------
(***************************************************************************)
(* The edit dialog of a stored Transformer (TransformerBuilder in a        *)
(* MainModal) and the JSON encoding of a Transformer.                      *)
(*                                                                         *)
(* A Transformer holds an array of Transformations and forwardInputFields. *)
(* The builder starts with state.transformer = the stored Transformer      *)
(* itself.  Every change takes prev.transformer.copy() (a new Transformer  *)
(* over Array.from(transformations)) and writes one slot of that array;    *)
(* append and delete build a new array (concat, filter).                   *)
(*                                                                         *)
(* Each transformation tab holds a ConditionBuilder, whose state.condition *)
(* is taken from props.condition when it is constructed.  The tabs carry   *)
(* no key, so they are matched by position: after a delete, the builders   *)
(* of the first positions keep their state and the last one unmounts.      *)
(* The MainModal body, and with it every ConditionBuilder, is unmounted    *)
(* while the modal is hidden.  cb[i].edited is a ghost: the builder at     *)
(* position i was edited since it was constructed.                         *)
(*                                                                         *)
(* Names and their validation are ConfigStore's concern.                   *)
(***************************************************************************)
EXTENDS ConditionCodec
LOCAL INSTANCE SequencesExt

CONSTANTS
    TTypes,      \* TransformationType values offered, "Unknown" included
    NoTT,        \* undefined: StrToTransformationType("Choose...")
    Fields,      \* source and target field strings, "" included
    ArgVals,     \* argument strings
    Conds,       \* conditions a ConditionBuilder can hand back, typeless ones included
    UndefCond,   \* the UndefinedCondition instance
    MaxTrs       \* bound on the transformations of a Transformer

ASSUME "Unknown" \in TTypes /\ NoTT \notin TTypes /\ "" \in Fields
ASSUME UndefCond \notin Conds

VARIABLES
    stored,      \* the stored Transformer: [trs, fwd]
    draft,       \* the builder's state.transformer
    aliased,     \* draft.trs is the array object of stored.trs
    shown,       \* the MainModal is shown
    cb           \* per tab position: [cond, edited] of its ConditionBuilder

vars == <<stored, draft, aliased, shown, cb>>

\* Identities of the Transformation objects.
Ids == 1..(2 * MaxTrs + 1)

\* TransformationArgNames: the argument fields each type shows.
ArgNames(t) ==
    CASE t = "MapRegex"                          -> {"Regex", "Replace"}
      [] t \in {"MapAdd", "MapMult"}             -> {"Const"}
      [] t \in {"LeftFold", "RightFold", "Map"}  -> {"Path"}
      [] OTHER                                   -> {}
AllArgNames == {"Regex", "Replace", "Const", "Path"}

Args == UNION {[D -> ArgVals] : D \in SUBSET AllArgNames}
NoArgs == [a \in {} |-> ""]
Transformation == [id : Ids, src : Fields, tgt : Fields, type : TTypes \cup {NoTT},
                   cond : Conds \cup {UndefCond}, args : Args]

-----------------------------------------------------------------------------
\* The JSON encoding (Transformation.toJSON / fromJSON).

\* The key of the args object each type writes, and the wire name of each
\* argument in that object.
ArgsField(t) ==
    CASE t = "Map" -> "mapArgs"         [] t = "MapAdd" -> "mapAddArgs"
      [] t = "MapMult" -> "mapMultArgs" [] t = "MapRegex" -> "mapRegexArgs"
      [] t = "LeftFold" -> "leftFoldArgs" [] t = "RightFold" -> "rightFoldArgs"
      [] OTHER -> "none"
ArgOfKey == [path |-> "Path", value |-> "Const", regex |-> "Regex", replace |-> "Replace"]

\* Mutant: MapRegex writes its regex and forgets the replacement.
SpecKeysNoReplace(t) ==
    CASE t \in {"Map", "LeftFold", "RightFold"} -> {"path"}
      [] t \in {"MapAdd", "MapMult"} -> {"value"}
      [] t = "MapRegex"              -> {"regex"}
      [] OTHER                       -> {}

\* The keys transformationArgsToSpec writes for each type.
SpecKeys(t) ==
    CASE t \in {"Map", "LeftFold", "RightFold"} -> {"path"}
      [] t \in {"MapAdd", "MapMult"} -> {"value"}
      [] t = "MapRegex"              -> {"regex", "replace"}
      [] OTHER                       -> {}

\* transformationArgsToSpec: args.get of an unset argument is undefined,
\* which JSON.stringify leaves out.
transformationArgsToSpec(t, args) ==
    LET ks == {k \in SpecKeys(t) : ArgOfKey[k] \in DOMAIN args}
    IN [k \in ks |-> args[ArgOfKey[k]]]

\* argsSpecToTransformationSpec: each wire key present sets its argument.
argsSpecToTransformationSpec(spec) ==
    [a \in {ArgOfKey[k] : k \in DOMAIN spec} |->
        spec[CHOOSE k \in DOMAIN spec : ArgOfKey[k] = a]]

\* The condition's JSON: UndefinedCondition.toJSON() is {}, and fromJSON
\* of {} returns the UndefinedCondition instance.
CondToJSON(c) == IF c = UndefCond THEN toJSON(UndefinedFields) ELSE toJSON(c)
CondFromJSON(j) == IF j.shape = "none" THEN UndefCond ELSE fromJSON(j)

\* toJSON: the type goes out as 'Transform' + type, a token sequence here.
TransformationToJSON(tr) ==
    [sourceField |-> tr.src, targetField |-> tr.tgt,
     transformationType |-> <<"Transform", tr.type>>,
     condition |-> CondToJSON(tr.cond),
     argsField |-> ArgsField(tr.type),
     args |-> transformationArgsToSpec(tr.type, tr.args)]

\* fromJSON: the args of whichever args object is present; the Copy test
\* compares the wire type, still prefixed, with "Copy"; the type is the
\* enum member named by the wire type with its first "Transform" removed.
TransformationFromJSON(j, id) ==
    LET name == RemoveFirst(j.transformationType, "Transform")
        isCopy == j.transformationType = <<"Copy">>
    IN [id |-> id,
        src |-> IF isCopy /\ j.sourceField = "" /\ j.targetField = "" THEN "" ELSE j.sourceField,
        tgt |-> IF isCopy /\ j.sourceField = "" /\ j.targetField = "" THEN "" ELSE j.targetField,
        type |-> IF Len(name) = 1 /\ name[1] \in TTypes THEN name[1] ELSE NoTT,
        cond |-> CondFromJSON(j.condition),
        args |-> IF j.argsField # "none" THEN argsSpecToTransformationSpec(j.args) ELSE NoArgs]

\* Transformer.toJSON / fromJSON map the two over the array.
TransformerToJSON(x) ==
    [specs |-> [i \in DOMAIN x.trs |-> TransformationToJSON(x.trs[i])],
     forwardInputFields |-> x.fwd]
TransformerFromJSON(j) ==
    [trs |-> [i \in DOMAIN j.specs |-> TransformationFromJSON(j.specs[i], i)],
     fwd |-> j.forwardInputFields]

-----------------------------------------------------------------------------
\* The builder.

\* Mutant: Transformer.copy hands the copy this.transformations itself.
CopiesArrayNot == FALSE

\* Transformer.copy passes Array.from(this.transformations).
CopiesArray == TRUE

\* prev.transformer.copy(), then transformations[i] = t on the copy: the
\* write reaches the stored array when the copy shares it.
CopyAndWrite(i, t) ==
    LET shares == aliased /\ ~CopiesArray
    IN /\ draft' = [draft EXCEPT !.trs[i] = t]
       /\ aliased' = shares
       /\ stored' = IF shares THEN [stored EXCEPT !.trs[i] = t] ELSE stored

UsedIds == {draft.trs[i].id : i \in DOMAIN draft.trs}
           \cup {stored.trs[i].id : i \in DOMAIN stored.trs}

\* The ConditionBuilders a render of the modal body constructs.
FreshBuilders(trs) == [i \in DOMAIN trs |-> [cond |-> trs[i].cond, edited |-> FALSE]]

\* canAddCondition: the "Add Condition" button is enabled.
canAddCondition(tr) ==
    \/ tr.tgt = "" /\ tr.src = "" /\ tr.type = "Copy"
    \/ tr.tgt # "" /\ tr.src # "" /\ tr.type # "Unknown"

\* A Transformer saved with no transformations; the builder is mounted
\* on it with the modal hidden.
Init ==
    /\ stored = [trs |-> <<>>, fwd |-> FALSE]
    /\ draft = stored
    /\ aliased = TRUE
    /\ shown = FALSE
    /\ cb = <<>>

\* MainModal.handleShow: the body mounts, one ConditionBuilder per tab.
handleShow ==
    /\ ~shown
    /\ shown' = TRUE
    /\ cb' = FreshBuilders(draft.trs)
    /\ UNCHANGED <<stored, draft, aliased>>

\* MainModal.handleClose: the body unmounts; the builder keeps its state.
handleClose ==
    /\ shown
    /\ shown' = FALSE
    /\ cb' = <<>>
    /\ UNCHANGED <<stored, draft, aliased>>

\* onChange of sourceField:i, targetField:i and transformationType:i.
\* A type change keeps the arguments of the previous type.
SetSource(i, f) ==
    /\ shown /\ CopyAndWrite(i, [draft.trs[i] EXCEPT !.src = f]) /\ UNCHANGED <<shown, cb>>
SetTarget(i, f) ==
    /\ shown /\ CopyAndWrite(i, [draft.trs[i] EXCEPT !.tgt = f]) /\ UNCHANGED <<shown, cb>>
SetType(i, t) ==
    /\ shown /\ CopyAndWrite(i, [draft.trs[i] EXCEPT !.type = t]) /\ UNCHANGED <<shown, cb>>

\* onChange of arg:a:i: argsFormGroup shows the fields of the current type
\* only, and none for an undefined type.
SetArg(i, a, v) ==
    /\ shown
    /\ a \in ArgNames(draft.trs[i].type)
    /\ CopyAndWrite(i, [draft.trs[i] EXCEPT !.args = [x \in DOMAIN @ \cup {a} |->
                                                         IF x = a THEN v ELSE @[x]]])
    /\ UNCHANGED <<shown, cb>>

\* onChange of forwardInputFields: the flag of the copy is negated.
ToggleForward ==
    /\ shown
    /\ draft' = [draft EXCEPT !.fwd = ~@]
    /\ aliased' = (aliased /\ ~CopiesArray)
    /\ UNCHANGED <<stored, shown, cb>>

\* appendTransformation: new Transformation("", "", Unknown) on a new
\* array; the new tab mounts its ConditionBuilder.
appendTransformation ==
    /\ shown
    /\ Len(draft.trs) < MaxTrs
    /\ LET id == Min(Ids \ UsedIds)
           tr == [id |-> id, src |-> "", tgt |-> "", type |-> "Unknown",
                  cond |-> UndefCond, args |-> NoArgs]
       IN /\ draft' = [draft EXCEPT !.trs = Append(@, tr)]
          /\ cb' = Append(cb, [cond |-> UndefCond, edited |-> FALSE])
    /\ aliased' = FALSE
    /\ UNCHANGED <<stored, shown>>

\* deleteTransformation(i): filter builds a new array; the builder of the
\* last position unmounts, the others keep their state.
deleteTransformation(i) ==
    /\ shown
    /\ draft' = [draft EXCEPT !.trs = RemoveAt(@, i)]
    /\ cb' = SubSeq(cb, 1, Len(cb) - 1)
    /\ aliased' = FALSE
    /\ UNCHANGED <<stored, shown>>

\* Inside the ConditionBuilder of tab i: the edits of its own form.
EditCondition(i, c) ==
    /\ shown
    /\ cb' = [cb EXCEPT ![i] = [cond |-> c, edited |-> TRUE]]
    /\ UNCHANGED <<stored, draft, aliased, shown>>

\* ConditionBuilder.handleSave -> saveConditionHandler(transformation, i):
\* the builder's state.condition goes into slot i of a copy.
SaveCondition(i) ==
    /\ shown
    /\ canAddCondition(draft.trs[i])
    /\ CopyAndWrite(i, [draft.trs[i] EXCEPT !.cond = cb[i].cond])
    /\ UNCHANGED <<shown, cb>>

\* TransformerBuilder.handleSave: setProcessState(state.transformer), then
\* MainModal.handleClose.  The stored Transformer is the draft object; the
\* builder, mounted again or not, holds that object.
handleSave ==
    /\ shown
    /\ stored' = draft
    /\ aliased' = TRUE
    /\ shown' = FALSE
    /\ cb' = <<>>
    /\ UNCHANGED draft

Next ==
    \/ handleShow \/ handleClose \/ ToggleForward \/ appendTransformation \/ handleSave
    \/ \E i \in DOMAIN draft.trs :
          \/ deleteTransformation(i) \/ SaveCondition(i)
          \/ \E f \in Fields : SetSource(i, f) \/ SetTarget(i, f)
          \/ \E t \in TTypes \cup {NoTT} : SetType(i, t)
          \/ \E a \in AllArgNames, v \in ArgVals : SetArg(i, a, v)
          \/ \E c \in Conds : EditCondition(i, c)

Spec == Init /\ [][Next]_vars

-----------------------------------------------------------------------------

TypeOK ==
    /\ stored \in [trs : Seq(Transformation), fwd : BOOLEAN]
    /\ draft \in [trs : Seq(Transformation), fwd : BOOLEAN]
    /\ aliased \in BOOLEAN /\ shown \in BOOLEAN
    /\ cb \in Seq([cond : Conds \cup {UndefCond}, edited : BOOLEAN])

\* Copy-on-write (spec.md 5): while the dialog is shown, no edit of the
\* draft changes the stored Transformer; only handleSave stores it.
DraftIsolation ==
    [][shown /\ shown' => stored' = stored]_vars

\* A condition with an operator type: not the sentinel, and not a copy of
\* it whose type is still Unknown or was set to undefined ("Choose...").
Typed(c) == c # UndefCond /\ c.operatorType \notin {"Unknown", NoType}

\* Saving and loading the document keeps every transformation as the form
\* shows it: decoding its JSON gives back its fields, type, the arguments
\* its type shows, and its condition when that has a type; a typeless
\* condition the ConditionBuilder handed back, which the tab shows as a
\* condition, comes back as the UndefinedCondition sentinel.
DecodeKeepsVisible ==
    LET back == TransformerFromJSON(TransformerToJSON(draft))
    IN /\ back.fwd = draft.fwd
       /\ \A i \in DOMAIN draft.trs :
            LET tr == draft.trs[i]
                d == back.trs[i]
                shownArgs == ArgNames(tr.type) \cap DOMAIN tr.args
            IN /\ <<d.src, d.tgt, d.type>> = <<tr.src, tr.tgt, tr.type>>
               /\ d.cond = IF Typed(tr.cond) THEN tr.cond ELSE UndefCond
               /\ DOMAIN d.args \cap ArgNames(tr.type) = shownArgs
               /\ \A a \in shownArgs : d.args[a] = tr.args[a]

\* "Save" in a condition dialog the user did not edit hands back the
\* condition the tab shows, so it leaves the transformation's condition
\* as it is.
UneditedSaveKeepsCondition ==
    [][\A i \in DOMAIN draft.trs \cap DOMAIN draft'.trs \cap DOMAIN cb :
          (shown /\ draft'.trs[i].id = draft.trs[i].id /\ ~cb[i].edited)
              => draft'.trs[i].cond = draft.trs[i].cond]_vars
=============================================================================
