---------------------------- MODULE ProcessBuilder ----------------------------
(***************************************************************************)
(* The object graph behind a process builder dialog.  A stored process is *)
(* a wrapper object (Filter, Tee, Aggregator ...) that points to a spec   *)
(* object (FilterSpec, TeeSpec, Aggregation ...) holding its fields.  An  *)
(* edit builder starts with state.x = the stored wrapper itself; every    *)
(* onChange and every condition save takes prev.x.copy() and assigns a    *)
(* field of copy.spec.  Whether that assignment reaches the stored        *)
(* process depends on whether copy() copies the spec object or shares it. *)
(*                                                                         *)
(* A condition is a value of Conds; sentinel records whether the spec's  *)
(* condition is the UndefinedCondition instance itself, which is what    *)
(* the renderForms test (condition !== UndefinedCondition), and handed   *)
(* (a ghost) whether a ConditionBuilder's save put it there.  A          *)
(* ConditionBuilder opened on the sentinel copies it on its first         *)
(* onChange, so it can hand back a condition with the sentinel's fields   *)
(* (cond = UndefCond) that is not the sentinel.                           *)
(*                                                                         *)
(* The Tee builder also keeps an uncontrolled textarea (additionalBody)   *)
(* that handleSave parses and writes into the spec before storing.        *)
(* Names and their validation are ConfigStore's concern: here a create    *)
(* picks a free name (validateProcessState rejects a taken one) and an    *)
(* edit may rename the copy (validation is skipped when isEdit); a save   *)
(* stores under the draft's name and leaves the old entry.                *)
(***************************************************************************)
EXTENDS Naturals, FiniteSetsExt, Functions, TLC

CONSTANTS
    Kinds,       \* process kinds present, subset of the nine ProcessType values
    Names,       \* process names
    Vals,        \* abstract values of the spec's fields
    Conds,       \* abstract conditions (UndefinedCondition included)
    Bodies,      \* parsed additionalBody values
    DefaultVal, UndefCond, EmptyBody,
    BadJson,     \* textarea contents that JSON.parse rejects
    MaxRefs,     \* size of the heap
    None

ASSUME DefaultVal \in Vals /\ UndefCond \in Conds /\ EmptyBody \in Bodies
ASSUME BadJson \notin Bodies

VARIABLES
    wrapper,     \* wrapper object ref -> [kind, name, spec]
    spec,        \* spec object ref -> [val, cond, sentinel, body]
    committed,   \* ConfigWizard processes Map: name -> wrapper ref
    draft,       \* builder state.x: a wrapper ref, or None
    isEdit,      \* the builder's this.isEdit
    bodyText,    \* the Tee additionalBody textarea: a body it parses to, or BadJson
    lastSave     \* ghost: [name, body] of the last Tee save, or None

vars == <<wrapper, spec, committed, draft, isEdit, bodyText, lastSave>>

Refs == 1..MaxRefs
SpecObj == [val : Vals, cond : Conds, sentinel : BOOLEAN, handed : BOOLEAN, body : Bodies]

\* Mutant: every copy() shares its spec object.
SharesSpecAll(k) == TRUE
\* Mutant: Tee.copy copies its TeeSpec as Filter.copy does.
SharesSpecNoTee(k) == k \in {"Aggregator", "Spawner"}

\* Tee.copy, Aggregator.copy and Spawner.copy pass this.xSpec to the new
\* wrapper; Filter.copy and Completer.copy pass this.xSpec.copy().
SharesSpec(k) == k \in {"Tee", "Aggregator", "Spawner"}

\* Mutant: every copy() clones the condition, the sentinel included.
ClonesSentinelAll(k) == TRUE

\* Continuation.copy and Entwine.copy call this.condition.copy() even on
\* the sentinel; the spec copies (TeeSpec, Completion ...) keep it.
ClonesSentinel(k) == k \in {"Continuation", "Entwine"}

\* FilterBuilder has no ConditionBuilder.
HasCondition(k) == k # "Filter"

\* canAddCondition: the fields the button waits for are filled in (for a
\* Continuation, its name, which a created process here always has).
CanAddCondition(k, r) == k = "Continuation" \/ r.val # DefaultVal

\* Only the Tee builder has the additionalBody textarea.
HasBody(k) == k = "Tee"

\* The objects reachable from the store and the builder; the others are
\* garbage: an allocation collects them and reuses their refs.
Live ==
    LET ws == Range(committed) \cup (IF draft = None THEN {} ELSE {draft})
    IN ws \cup {wrapper[w].spec : w \in ws}
Free == Refs \ Live
\* Two fresh refs for a new wrapper and a new spec.
NewW == Min(Free)
NewS == Min(Free \ {NewW})
CanAlloc == Cardinality(Free) >= 2

\* x.copy(): a new wrapper, with the spec shared or copied per kind.
CopyRefs(w) ==
    LET s == wrapper[w].spec
        ns == IF SharesSpec(wrapper[w].kind) THEN s ELSE NewS
    IN [w |-> NewW, s |-> ns]

\* The allocation of c = CopyRefs(w), c.name = nm, then the assignments
\* c.spec.f = v of upd (a function field -> value); the copy is c.w.
CopyAndAssign(w, nm, upd) ==
    LET c == CopyRefs(w)
        s == wrapper[w].spec
    IN /\ CanAlloc
       /\ wrapper' = [x \in (DOMAIN wrapper \cap Live) \cup {c.w} |->
                        IF x = c.w THEN [wrapper[w] EXCEPT !.spec = c.s, !.name = nm]
                        ELSE wrapper[x]]
       /\ spec' = [x \in (DOMAIN spec \cap Live) \cup {c.s} |->
                        IF x = c.s
                        THEN LET r == [spec[s] EXCEPT !.sentinel =
                                          @ /\ ~ClonesSentinel(wrapper[w].kind)]
                             IN [f \in DOMAIN r |-> IF f \in DOMAIN upd THEN upd[f] ELSE r[f]]
                        ELSE spec[x]]

\* The value of every stored process, read through its objects.
Stored == [n \in DOMAIN committed |-> spec[wrapper[committed[n]].spec]]

-----------------------------------------------------------------------------

Init ==
    /\ wrapper = [x \in {} |-> None]
    /\ spec = [x \in {} |-> None]
    /\ committed = [x \in {} |-> None]
    /\ draft = None
    /\ isEdit = FALSE
    /\ bodyText = EmptyBody
    /\ lastSave = None

\* XBuilder constructor without a process: new X(name, new XSpec(...)).
OpenCreate(k, n) ==
    /\ draft = None
    /\ n \notin DOMAIN committed
    /\ CanAlloc
    /\ spec' = [x \in (DOMAIN spec \cap Live) \cup {NewS} |->
                   IF x = NewS THEN [val |-> DefaultVal, cond |-> UndefCond,
                                     sentinel |-> TRUE, handed |-> FALSE, body |-> EmptyBody]
                   ELSE spec[x]]
    /\ wrapper' = [x \in (DOMAIN wrapper \cap Live) \cup {NewW} |->
                   IF x = NewW THEN [kind |-> k, name |-> n, spec |-> NewS]
                   ELSE wrapper[x]]
    /\ draft' = NewW
    /\ isEdit' = FALSE
    /\ bodyText' = EmptyBody
    /\ UNCHANGED <<committed, lastSave>>

\* XBuilder constructor with a stored process: state.x = props.x (no copy);
\* the textarea shows the stored additionalBody.
OpenEdit(n) ==
    /\ draft = None
    /\ n \in DOMAIN committed
    /\ draft' = committed[n]
    /\ isEdit' = TRUE
    /\ bodyText' = spec[wrapper[committed[n]].spec].body
    /\ UNCHANGED <<wrapper, spec, committed, lastSave>>

\* onChange of a spec field: x = prev.x.copy(); x.xSpec.f = value.
\* A Continuation has no field besides its name and condition.
OnChange(v) ==
    /\ draft # None
    /\ wrapper[draft].kind # "Continuation"
    /\ CopyAndAssign(draft, wrapper[draft].name, "val" :> v)
    /\ draft' = CopyRefs(draft).w
    /\ UNCHANGED <<committed, isEdit, bodyText, lastSave>>

\* onChange of the name field of an edit: x = prev.x.copy(); x.name = n.
\* (A create's name is the free name OpenCreate picked: validation at
\* save rejects any other.)
OnChangeName(n) ==
    /\ draft # None
    /\ isEdit
    /\ CopyAndAssign(draft, n, [f \in {} |-> TRUE])
    /\ draft' = CopyRefs(draft).w
    /\ UNCHANGED <<committed, isEdit, bodyText, lastSave>>

\* saveConditionHandler: x = prev.x.copy(); x.xSpec.condition = condition,
\* the ConditionBuilder's state.condition: the one it was given (saved
\* unedited), or a copy of it after an onChange, which for the sentinel
\* is a new Condition with the sentinel's fields.
SaveCondition(cd, same) ==
    /\ draft # None
    /\ HasCondition(wrapper[draft].kind)
    /\ CanAddCondition(wrapper[draft].kind, spec[wrapper[draft].spec])
    /\ LET cur == spec[wrapper[draft].spec]
       IN CopyAndAssign(draft, wrapper[draft].name,
                        IF same THEN ("cond" :> cur.cond) @@ ("sentinel" :> cur.sentinel)
                                ELSE ("cond" :> cd) @@ ("sentinel" :> FALSE) @@ ("handed" :> TRUE))
    /\ draft' = CopyRefs(draft).w
    /\ UNCHANGED <<committed, isEdit, bodyText, lastSave>>

\* Typing in the Tee additionalBody textarea: DOM only, no setState.
EditBody(b) ==
    /\ draft # None
    /\ HasBody(wrapper[draft].kind)
    /\ bodyText' = b
    /\ UNCHANGED <<wrapper, spec, committed, draft, isEdit, lastSave>>

\* handleSave of a builder without the textarea: setProcessState(state.x).
SavePlain ==
    /\ draft # None
    /\ ~HasBody(wrapper[draft].kind)
    /\ committed' = [x \in DOMAIN committed \cup {wrapper[draft].name} |->
                        IF x = wrapper[draft].name THEN draft ELSE committed[x]]
    /\ draft' = None
    /\ UNCHANGED <<wrapper, spec, isEdit, bodyText, lastSave>>

\* TeeBuilder.handleSave: tee = state.tee.copy();
\* tee.teeSpec.additionalBody = JSON.parse(text); setState({tee});
\* setProcessState(this.state.tee) -- the state read before the setState.
SaveTee ==
    /\ draft # None
    /\ HasBody(wrapper[draft].kind)
    /\ bodyText # BadJson
    /\ LET old == draft
           n == wrapper[draft].name
       IN /\ CopyAndAssign(draft, n, "body" :> bodyText)
          /\ committed' = [x \in DOMAIN committed \cup {n} |->
                              IF x = n THEN old ELSE committed[x]]
          /\ lastSave' = [name |-> n, body |-> bodyText]
    /\ draft' = None
    /\ UNCHANGED <<isEdit, bodyText>>

\* TeeBuilder.handleSave when JSON.parse throws: the exception leaves the
\* click handler before setState and setProcessState; nothing changes.
SaveTeeThrows ==
    /\ draft # None
    /\ HasBody(wrapper[draft].kind)
    /\ bodyText = BadJson
    /\ UNCHANGED vars

\* MainModal Close: the builder keeps no draft that matters afterwards.
Close ==
    /\ draft # None
    /\ draft' = None
    /\ UNCHANGED <<wrapper, spec, committed, isEdit, bodyText, lastSave>>

\* deleteProcess(process): processes.delete(process.name).
Delete(n) ==
    /\ draft = None
    /\ n \in DOMAIN committed
    /\ committed' = [x \in DOMAIN committed \ {n} |-> committed[x]]
    /\ lastSave' = IF lastSave # None /\ lastSave.name = n THEN None ELSE lastSave
    /\ UNCHANGED <<wrapper, spec, draft, isEdit, bodyText>>

Next ==
    \/ \E k \in Kinds, n \in Names : OpenCreate(k, n)
    \/ \E n \in Names : OpenEdit(n) \/ Delete(n)
    \/ \E v \in Vals : OnChange(v)
    \/ \E n \in Names : OnChangeName(n)
    \/ \E cd \in Conds, same \in BOOLEAN : SaveCondition(cd, same)
    \/ \E b \in Bodies \cup {BadJson} : EditBody(b)
    \/ SavePlain \/ SaveTee \/ SaveTeeThrows \/ Close

Spec == Init /\ [][Next]_vars

-----------------------------------------------------------------------------

TypeOK ==
    /\ DOMAIN wrapper \subseteq Refs /\ DOMAIN spec \subseteq Refs
    /\ \A w \in DOMAIN wrapper : wrapper[w].kind \in Kinds /\ wrapper[w].spec \in DOMAIN spec
    /\ \A s \in DOMAIN spec : spec[s] \in SpecObj
    /\ DOMAIN committed \subseteq Names
    /\ \A n \in DOMAIN committed : committed[n] \in DOMAIN wrapper
    /\ draft \in DOMAIN wrapper \cup {None}
    /\ isEdit \in BOOLEAN
    /\ bodyText \in Bodies \cup {BadJson}
    /\ lastSave \in [name : Names, body : Bodies] \cup {None}

\* Copy-on-write (spec.md 5): while a builder dialog stays open, none of
\* its steps changes the value of any stored process; a draft reaches the
\* store only through a save.
DraftIsolation ==
    [][draft # None /\ draft' # None => Stored' = Stored]_vars

\* What "Save Changes" of a Tee stores is what the textarea held: the
\* process stored under the name just saved has the additionalBody that
\* handleSave wrote into its copy after reading state.tee, although
\* setProcessState stores the state.tee read before that write.
BodySaved ==
    lastSave # None /\ lastSave.name \in DOMAIN committed
        => Stored[lastSave.name].body = lastSave.body

\* Undefined-condition identity (spec.md 8): a stored process fails the
\* renderForms' identity test (condition !== UndefinedCondition) only
\* when a ConditionBuilder's save gave it its condition; copying a
\* process in onChange never turns the sentinel into a condition.
SentinelKeptByCopy ==
    \A n \in DOMAIN committed :
        HasCondition(wrapper[committed[n]].kind) /\ ~Stored[n].sentinel => Stored[n].handed
=============================================================================
