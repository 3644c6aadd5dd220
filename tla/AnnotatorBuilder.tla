--------------------------- MODULE AnnotatorBuilder ---------------------------
(***************************************************************************)
(* The edit dialog of a stored Annotator (AnnotatorBuilder in a MainModal) *)
(* and the JSON encoding of an Annotator.                                  *)
(*                                                                         *)
(* An Annotator holds a name and an array of Annotations, each a          *)
(* fieldKey, a fieldValue and a condition.  The builder starts with       *)
(* state.annotator = the stored Annotator itself.  Every change takes     *)
(* prev.annotator.copy() (a new Annotator over Array.from(annotations));  *)
(* a field edit first takes annotations[i].copy() and writes the field    *)
(* into that copy.  src[i] is the position in the stored array of the    *)
(* Annotation object at position i of the draft's array, 0 for an object  *)
(* the stored Annotator does not hold: a write into a shared object       *)
(* reaches the stored Annotator.                                           *)
(*                                                                         *)
(* The tabs carry no key, so their ConditionBuilders are matched by       *)
(* position, as in TransformerBuilder; cb[i] is the state of the builder  *)
(* at position i, and cb[i].edited is a ghost.  tab is                    *)
(* state.annotationTab, the eventKey name + index of the active tab.      *)
(*                                                                         *)
(* Names and their validation are ConfigStore's concern.                   *)
(***************************************************************************)
EXTENDS ConditionCodec
LOCAL INSTANCE SequencesExt

CONSTANTS
    Names,       \* annotator names a user can type
    Keys,        \* fieldKey strings, "" included
    Values,      \* fieldValue strings, "" included
    Conds,       \* conditions a ConditionBuilder can hand back, typeless ones included
    UndefCond,   \* the UndefinedCondition instance
    UndefClone,  \* a Condition Annotation.copy would build by UndefinedCondition.copy()
    NoValue,     \* undefined: a JSON key that is absent
    MaxAnns      \* bound on the annotations of an Annotator

ASSUME "" \in Keys /\ "" \in Values
ASSUME UndefCond \notin Conds /\ UndefClone \notin Conds \cup {UndefCond}

VARIABLES
    stored,      \* the stored Annotator: [name, anns]
    draft,       \* the builder's state.annotator
    shown,       \* the MainModal is shown
    cb,          \* per tab position: [cond, edited] of its ConditionBuilder
    tab,         \* state.annotationTab: <<name, index>>
    src          \* src[i]: stored position of the object at draft position i, or 0

vars == <<stored, draft, shown, cb, tab, src>>

Annotation == [key : Keys, val : Values, cond : Conds \cup {UndefCond, UndefClone}]

-----------------------------------------------------------------------------
\* The JSON encoding (Annotation / Annotator toJSON and fromJSON).

\* UndefinedCondition.toJSON() is {}, as is the toJSON of a copy of it;
\* Condition.fromJSON of {} returns the UndefinedCondition instance.
CondToJSON(c) == IF c \in {UndefCond, UndefClone} THEN toJSON(UndefinedFields) ELSE toJSON(c)
CondFromJSON(j) == IF j.shape = "none" THEN UndefCond ELSE fromJSON(j)

\* Mutant: the value goes out under the name of the class field.
AnnotationToJSONFieldValue(a) ==
    [fieldKey |-> a.key, fieldValue |-> a.val, condition |-> CondToJSON(a.cond)]

\* Annotation.toJSON: the fieldValue goes out as "value".
AnnotationToJSON(a) ==
    [fieldKey |-> a.key, value |-> a.val, condition |-> CondToJSON(a.cond)]

\* Annotation.fromJSON: new Annotation(props.fieldKey, props.value, ...).
AnnotationFromJSON(j) ==
    [key |-> j.fieldKey,
     val |-> IF "value" \in DOMAIN j THEN j.value ELSE NoValue,
     cond |-> CondFromJSON(j.condition)]

\* Annotator.toJSON wraps the object under "annotator"; Editor.updateState
\* hands proc["annotator"] to Annotator.fromJSON.
AnnotatorToJSON(x) ==
    [annotator |-> [name |-> x.name,
                    annotations |-> [i \in DOMAIN x.anns |-> AnnotationToJSON(x.anns[i])]]]
AnnotatorFromJSON(j) ==
    [name |-> j.name,
     anns |-> [i \in DOMAIN j.annotations |-> AnnotationFromJSON(j.annotations[i])]]

-----------------------------------------------------------------------------
\* The builder.

\* Condition.copy(): a new Condition with the same fields; a copy of the
\* sentinel is no longer the sentinel.
CondCopy(c) == IF c = UndefCond THEN UndefClone ELSE c

\* Mutant: Annotation.copy copies every condition, the sentinel included.
AnnotationCopyClones(a) == [a EXCEPT !.cond = CondCopy(@)]

\* Annotation.copy: a new object; the sentinel is passed on as it is,
\* any other condition is copied.
AnnotationCopy(a) == [a EXCEPT !.cond = IF @ = UndefCond THEN @ ELSE CondCopy(@)]

\* Mutant: onChange writes the field into annotations[i] itself.
CopiesAnnotationNot == FALSE

\* onChange takes annotator.annotations[i].copy() before the write.
CopiesAnnotation == TRUE

\* annotator.annotations[i] = a on the copied array, a being a new object
\* (fresh) or the object at i written in place, which the stored array
\* also sees when it holds that object.
WriteSlot(i, a, fresh) ==
    /\ draft' = [draft EXCEPT !.anns[i] = a]
    /\ src' = IF fresh THEN [src EXCEPT ![i] = 0] ELSE src
    /\ stored' = IF ~fresh /\ src[i] # 0
                 THEN [stored EXCEPT !.anns[src[i]] = a] ELSE stored

\* canAddCondition: the "Add Condition" button of tab i is enabled.
canAddCondition(a) == a.key # "" /\ a.val # ""

\* The ConditionBuilders a render of the modal body constructs.
FreshBuilders(anns) == [i \in DOMAIN anns |-> [cond |-> anns[i].cond, edited |-> FALSE]]

\* An Annotator saved with no annotations; the builder is mounted on it
\* with the modal hidden and annotationTab = name + "0".
Init ==
    /\ \E n \in Names : stored = [name |-> n, anns |-> <<>>]
    /\ draft = stored
    /\ shown = FALSE
    /\ cb = <<>>
    /\ tab = <<stored.name, 0>>
    /\ src = <<>>

\* MainModal.handleShow: the body mounts, one ConditionBuilder per tab.
handleShow ==
    /\ ~shown
    /\ shown' = TRUE
    /\ cb' = FreshBuilders(draft.anns)
    /\ UNCHANGED <<stored, draft, tab, src>>

\* MainModal.handleClose: the body unmounts; the builder keeps its state.
handleClose ==
    /\ shown
    /\ shown' = FALSE
    /\ cb' = <<>>
    /\ UNCHANGED <<stored, draft, tab, src>>

\* onChange of annotatorName: the name of the copy.
SetName(nm) ==
    /\ shown
    /\ draft' = [draft EXCEPT !.name = nm]
    /\ UNCHANGED <<stored, shown, cb, tab, src>>

\* onChange of fieldKey:i or fieldValue:i: annotations[i].copy() with the
\* field set, written into slot i of the copy.
SetAnnotationField(i, f, v) ==
    /\ shown
    /\ LET old == draft.anns[i]
           base == IF CopiesAnnotation THEN AnnotationCopy(old) ELSE old
       IN WriteSlot(i, [base EXCEPT ![f] = v], CopiesAnnotation)
    /\ UNCHANGED <<shown, cb, tab>>

\* appendAnnotation: new Annotation("", "") on a new array; the new tab
\* mounts its ConditionBuilder; the callback activates the last tab.
appendAnnotation ==
    /\ shown
    /\ Len(draft.anns) < MaxAnns
    /\ draft' = [draft EXCEPT !.anns = Append(@, [key |-> "", val |-> "", cond |-> UndefCond])]
    /\ src' = Append(src, 0)
    /\ cb' = Append(cb, [cond |-> UndefCond, edited |-> FALSE])
    /\ tab' = <<draft.name, Len(draft.anns)>>
    /\ UNCHANGED <<stored, shown>>

\* deleteAnnotation(i): filter builds a new array; the builder of the last
\* position unmounts; the callback activates name + (length - 1), which
\* is -1 once the list is empty.
deleteAnnotation(i) ==
    /\ shown
    /\ draft' = [draft EXCEPT !.anns = RemoveAt(@, i)]
    /\ src' = RemoveAt(src, i)
    /\ cb' = SubSeq(cb, 1, Len(cb) - 1)
    /\ tab' = <<draft.name, Len(draft.anns) - 2>>
    /\ UNCHANGED <<stored, shown>>

\* Tabs onSelect: the eventKey of a rendered tab.
setAnnotationTab(j) ==
    /\ shown
    /\ tab' = <<draft.name, j>>
    /\ UNCHANGED <<stored, draft, shown, cb, src>>

\* Inside the ConditionBuilder of tab i, opened by its enabled button.
EditCondition(i, c) ==
    /\ shown
    /\ canAddCondition(draft.anns[i])
    /\ cb' = [cb EXCEPT ![i] = [cond |-> c, edited |-> TRUE]]
    /\ UNCHANGED <<stored, draft, shown, tab, src>>

\* ConditionBuilder.handleSave -> saveConditionHandler(annotation, i): a
\* copy of the annotation with the builder's condition, written into slot
\* i of a copy when i is still an index of it.
SaveCondition(i) ==
    /\ shown
    /\ canAddCondition(draft.anns[i])
    /\ WriteSlot(i, [AnnotationCopy(draft.anns[i]) EXCEPT !.cond = cb[i].cond], TRUE)
    /\ UNCHANGED <<shown, cb, tab>>

\* AnnotatorBuilder.handleSave with an edit (never refused), then
\* MainModal.handleClose.  A changed Annotator changes the CRC keys, so
\* the builder is constructed again on the saved object, with tab name+"0".
handleSave ==
    /\ shown
    /\ stored' = draft
    /\ shown' = FALSE
    /\ cb' = <<>>
    /\ tab' = IF AnnotatorToJSON(draft) = AnnotatorToJSON(stored) THEN tab ELSE <<draft.name, 0>>
    /\ src' = [i \in DOMAIN draft.anns |-> i]
    /\ UNCHANGED draft

Next ==
    \/ handleShow \/ handleClose \/ appendAnnotation \/ handleSave
    \/ \E nm \in Names : SetName(nm)
    \/ \E j \in 0..(Len(draft.anns) - 1) : setAnnotationTab(j)
    \/ \E i \in DOMAIN draft.anns :
          \/ deleteAnnotation(i) \/ SaveCondition(i)
          \/ \E k \in Keys : SetAnnotationField(i, "key", k)
          \/ \E v \in Values : SetAnnotationField(i, "val", v)
          \/ \E c \in Conds : EditCondition(i, c)

Spec == Init /\ [][Next]_vars

-----------------------------------------------------------------------------

TypeOK ==
    /\ stored \in [name : Names, anns : Seq(Annotation)]
    /\ draft \in [name : Names, anns : Seq(Annotation)]
    /\ shown \in BOOLEAN
    /\ cb \in Seq([cond : Conds \cup {UndefCond}, edited : BOOLEAN])
    /\ tab \in Names \X (-1..MaxAnns)
    /\ src \in Seq(0..MaxAnns) /\ Len(src) = Len(draft.anns)

\* Copy-on-write (spec.md 5): while the dialog is shown, no edit of the
\* draft changes the stored Annotator, although the copied array still
\* holds the stored Annotation objects; only handleSave stores it.
DraftIsolation ==
    [][shown /\ shown' => stored' = stored]_vars

\* Undefined-condition identity (spec.md 8): annotationsForm renders the
\* Condition group of an annotation when its condition is not the
\* UndefinedCondition instance, which happens only for a condition a
\* ConditionBuilder handed back, whatever copies the edits made.
ConditionGroupMeansCondition ==
    \A a \in {draft.anns[i] : i \in DOMAIN draft.anns} \cup {stored.anns[i] : i \in DOMAIN stored.anns} :
        a.cond # UndefCond => a.cond \in Conds

\* A condition with an operator type: neither the sentinel nor a copy of
\* it whose type is still Unknown or was set to undefined ("Choose...").
Typed(c) == c \notin {UndefCond, UndefClone} /\ c.operatorType \notin {"Unknown", NoType}

\* Round trip (spec.md 8): decoding the JSON of the Annotator gives back
\* its name, every annotation's key and value, and its condition when
\* that has a type; the sentinel, and a typeless condition a
\* ConditionBuilder handed back (which the tab shows as a condition),
\* come back as the sentinel.
DecodeKeepsAnnotations ==
    LET back == AnnotatorFromJSON(AnnotatorToJSON(draft).annotator)
    IN /\ back.name = draft.name
       /\ Len(back.anns) = Len(draft.anns)
       /\ \A i \in DOMAIN draft.anns :
            LET a == draft.anns[i]
            IN <<back.anns[i].key, back.anns[i].val, back.anns[i].cond>>
                 = <<a.key, a.val, IF Typed(a.cond) THEN a.cond ELSE UndefCond>>
=============================================================================
