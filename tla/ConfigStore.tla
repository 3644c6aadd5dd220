----------------------------- MODULE ConfigStore -----------------------------
(***************************************************************************)
(* The committed configuration (ConfigWizard state: one immutable Map per *)
(* collection, keyed by name) and the builder dialogs that create and     *)
(* edit its entries (ExternalBuilder, FilterBuilder, PipelineBuilder ...  *)
(* inside a MainModal).                                                   *)
(*                                                                         *)
(* A builder holds one draft.  It is opened empty for a create or with    *)
(* the stored entry for an edit, its fields are changed, and "Save        *)
(* Changes" runs validate(draft, isEdit) and, when that returns no        *)
(* error, set(draft), which puts the draft in the Map under draft.name.   *)
(* Every change of a collection re-keys its tab, which remounts the       *)
(* builders, so no draft outlives a change of the store.                  *)
(*                                                                         *)
(* An entry is [id, val]: id is a ghost identity of the entity (the       *)
(* create that made it), val abstracts every field other than the name.   *)
(***************************************************************************)
EXTENDS Naturals, FiniteSets
LOCAL INSTANCE FiniteSetsExt

CONSTANTS
    Collections,   \* subset of {"externals", "processes", "pipelines"}
    Names,         \* the names a user can type, EmptyName included
    EmptyName,     \* "" : the name of a fresh draft
    Vals,          \* abstract field values
    DefaultVal,    \* the field values of a fresh draft
    MaxIds,        \* number of ghost identities, more than the entries a Map can hold
    Builders,      \* Builders[c]: the builder kinds that create entries of c
    NoDraft        \* no builder dialog is open

ASSUME Collections \subseteq {"externals", "processes", "pipelines"}
ASSUME EmptyName \in Names /\ DefaultVal \in Vals /\ MaxIds \in Nat

VARIABLES
    store,        \* store[c] : the Map of collection c, name -> entry
    draft,        \* the open builder's draft, or NoDraft
    errorShown    \* the MainModal error alert is visible

vars == <<store, draft, errorShown>>

Ids == 1..MaxIds
Entry == [id : Ids, val : Vals]
Draft == [coll : Collections, isEdit : BOOLEAN, name : Names, id : Ids, val : Vals]

\* Put(f, k, e): immutable Map.set(k, e).
Put(f, k, e) == [x \in DOMAIN f \cup {k} |-> IF x = k THEN e ELSE f[x]]
\* Del(f, k): immutable Map.delete(k).
Del(f, k) == [x \in DOMAIN f \ {k} |-> f[x]]

\* The ghost identities no stored entry has: a created entity takes one.
FreeIds == Ids \ UNION {{store[c][n].id : n \in DOMAIN store[c]} : c \in Collections}

\* EntwineBuilder sets isEdit = true and flips it back for no missing
\* prop, so a create runs as an edit; every other builder sets it false.
CreateIsEdit(b) == b = "Entwine"

\* Mutant: the name stays editable in every builder.
NameNeverReadOnly(c) == FALSE

\* The name field of a builder is read-only on an edit only in the
\* external builder; the process and pipeline builders leave it editable.
NameReadOnly(c) == c = "externals"

\* Mutant: a save is never refused.
ValidateNoCheck(c, name, isEdit) == TRUE

\* validateXState(entity, isEdit): on a create the name must not be taken;
\* on an edit nothing is checked ("Edits will not change the name").
Validate(c, name, isEdit) == isEdit \/ name \notin DOMAIN store[c]

\* Mutant: the builder's whole state is stored instead of its entity.
SetStateDraft(c, name, e) == store' = [store EXCEPT ![c] = Put(@, name, draft)]

\* setXState(entity): store the entity under its current name.
SetState(c, name, e) == store' = [store EXCEPT ![c] = Put(@, name, e)]

-----------------------------------------------------------------------------

Init ==
    /\ store = [c \in Collections |-> [n \in {} |-> DefaultVal]]
    /\ draft = NoDraft
    /\ errorShown = FALSE

\* "Add ...": the builder of kind b chosen in the tab, constructed without
\* an entity, builds a fresh one.
OpenCreate(c, b) ==
    /\ draft = NoDraft
    /\ draft' = [coll |-> c, isEdit |-> CreateIsEdit(b), name |-> EmptyName,
                 id |-> Min(FreeIds), val |-> DefaultVal]
    /\ UNCHANGED <<store, errorShown>>

\* "Update ...": a builder constructed with the stored entity edits it.
OpenEdit(c, n) ==
    /\ draft = NoDraft
    /\ n \in DOMAIN store[c]
    /\ draft' = [coll |-> c, isEdit |-> TRUE, name |-> n,
                 id |-> store[c][n].id, val |-> store[c][n].val]
    /\ UNCHANGED <<store, errorShown>>

\* onChange of the name field.
EditName(nm) ==
    /\ draft # NoDraft
    /\ ~(draft.isEdit /\ NameReadOnly(draft.coll))
    /\ draft' = [draft EXCEPT !.name = nm]
    /\ UNCHANGED <<store, errorShown>>

\* onChange of any other field: a copy of the draft with the field set.
EditField(v) ==
    /\ draft # NoDraft
    /\ draft' = [draft EXCEPT !.val = v]
    /\ UNCHANGED <<store, errorShown>>

\* handleSave with no validation error: set, then close the modal; the
\* store change remounts the tab and with it every builder.
SaveAccepted ==
    /\ draft # NoDraft
    /\ Validate(draft.coll, draft.name, draft.isEdit)
    /\ SetState(draft.coll, draft.name, [id |-> draft.id, val |-> draft.val])
    /\ draft' = NoDraft
    /\ errorShown' = FALSE

\* handleSave with a validation error: the message is shown, the modal
\* stays open with the draft.
SaveRejected ==
    /\ draft # NoDraft
    /\ ~Validate(draft.coll, draft.name, draft.isEdit)
    /\ errorShown' = TRUE
    /\ UNCHANGED <<store, draft>>

\* Close: the modal is hidden without saving; the draft is dropped.
Close ==
    /\ draft # NoDraft
    /\ draft' = NoDraft
    /\ UNCHANGED <<store, errorShown>>

\* Dismissing the error alert.
DismissError ==
    /\ errorShown
    /\ errorShown' = FALSE
    /\ UNCHANGED <<store, draft>>

\* The Delete button of a listed entry (outside any modal).
Delete(c, n) ==
    /\ draft = NoDraft
    /\ n \in DOMAIN store[c]
    /\ store' = [store EXCEPT ![c] = Del(@, n)]
    /\ errorShown' = FALSE
    /\ UNCHANGED draft

Next ==
    \/ \E c \in Collections : \E b \in Builders[c] : OpenCreate(c, b)
    \/ \E c \in Collections, n \in Names : OpenEdit(c, n) \/ Delete(c, n)
    \/ \E nm \in Names : EditName(nm)
    \/ \E v \in Vals : EditField(v)
    \/ SaveAccepted \/ SaveRejected \/ Close \/ DismissError

Spec == Init /\ [][Next]_vars

-----------------------------------------------------------------------------

TypeOK ==
    /\ \A c \in Collections : DOMAIN store[c] \subseteq Names
                              /\ \A n \in DOMAIN store[c] : store[c][n] \in Entry
    /\ draft \in Draft \cup {NoDraft}
    /\ errorShown \in BOOLEAN

\* No entity is stored under two names of a collection: an edit that is
\* saved replaces the entry it was opened on, never copies it.
UniqueIdentity ==
    \A c \in Collections : \A a, b \in DOMAIN store[c] :
        a # b => store[c][a].id # store[c][b].id

\* Each collection behaves as a keyed collection (KeyedCollection): the
\* builders' saves and the deletes only ever create an entity under a free
\* name, update an entity under its own name, or remove one.
KC(c) == INSTANCE KeyedCollection WITH coll <- store[c], Keys <- Names, Ids <- Ids, Vals <- Vals

\* (\A c : KC(c)!Spec, with the quantifier moved inside the box for TLC.)
KeyedSpec ==
    /\ \A c \in Collections : KC(c)!Init
    /\ [][\A c \in Collections : [KC(c)!Next]_(store[c])]_vars
=============================================================================
