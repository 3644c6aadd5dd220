--------------------------- MODULE ConditionBuilder ---------------------------
(***************************************************************************)
(* The ConditionBuilder of Condition.tsx: a modal form over a draft       *)
(* Condition (state.condition) whose "Save Changes" hands the draft to    *)
(* the process builder's saveConditionHandler.  The draft is built once,  *)
(* from props.condition, when the process builder mounts it; every        *)
(* process builder passes its spec's condition, the UndefinedCondition    *)
(* sentinel for a new process.  saved is the condition the process holds. *)
(***************************************************************************)
EXTENDS ConditionCodec

CONSTANTS
    Operands,   \* the strings a user types into the lhs and rhs inputs
    Choose      \* the "Choose..." option of both selects

VARIABLES
    cond,       \* ConditionBuilder state.condition
    saved,      \* the condition stored in the process builder's spec
    showModal   \* ConditionBuilder state.showModal

vars == <<cond, saved, showModal>>

Condition == [operatorType : OperatorTypes \cup {NoType},
              operator : UNION {OpsOf(t) : t \in OperatorTypes} \cup {NoOp},
              lhs : Seq({"[", "]", "a", "1"}), rhs : Seq({"[", "]", "a", "1"})]

Init ==
    /\ cond = UndefinedFields
    /\ saved = UndefinedFields
    /\ showModal = FALSE

\* The "Add Condition" button.
handleShowModal ==
    /\ ~showModal
    /\ showModal' = TRUE
    /\ UNCHANGED <<cond, saved>>

\* The Close button: the draft is kept for the next opening.
handleHideModal ==
    /\ showModal
    /\ showModal' = FALSE
    /\ UNCHANGED <<cond, saved>>

\* onChange of the operatorType select: only the type changes; the options
\* are GetOperatorTypes() (Unknown filtered out) and "Choose...".
ChangeOperatorType(str) ==
    /\ showModal
    /\ cond' = [cond EXCEPT !.operatorType =
                    IF str = Choose THEN NoType ELSE str]
    /\ UNCHANGED <<saved, showModal>>

\* onChange of the operator select (disabled for a falsy type): looked up
\* in the enum of the current type; no branch for Unknown.
ChangeOperator(str) ==
    /\ showModal
    /\ cond.operatorType # NoType
    /\ cond' = [cond EXCEPT !.operator =
                    IF cond.operatorType = "Unknown" THEN @
                    ELSE StrToOperator(str, cond.operatorType)]
    /\ UNCHANGED <<saved, showModal>>

\* onChange of the lhs input, disabled={!HasLHS(operatorType)}.
ChangeLhs(s) ==
    /\ showModal
    /\ HasLHS(cond.operatorType)
    /\ cond' = [cond EXCEPT !.lhs = s]
    /\ UNCHANGED <<saved, showModal>>

\* onChange of the rhs input, disabled={!HasRHS(operatorType)}.
ChangeRhs(s) ==
    /\ showModal
    /\ HasRHS(cond.operatorType)
    /\ cond' = [cond EXCEPT !.rhs = s]
    /\ UNCHANGED <<saved, showModal>>

\* handleSave: saveConditionHandler(state.condition); handleHideModal().
handleSave ==
    /\ showModal
    /\ saved' = cond
    /\ showModal' = FALSE
    /\ UNCHANGED cond

\* The process builder is mounted again on the process (an edit): a new
\* ConditionBuilder starts from the condition the process holds.
Remount ==
    /\ ~showModal
    /\ cond' = saved
    /\ UNCHANGED <<saved, showModal>>

Next ==
    \/ handleShowModal \/ handleHideModal \/ handleSave \/ Remount
    \/ \E str \in (OperatorTypes \ {"Unknown"}) \cup {Choose} : ChangeOperatorType(str)
    \/ \E str \in UNION {OpsOf(t) : t \in OperatorTypes} \cup {Choose} : ChangeOperator(str)
    \/ \E s \in Operands : ChangeLhs(s) \/ ChangeRhs(s)

Spec == Init /\ [][Next]_vars

-----------------------------------------------------------------------------

TypeOK ==
    /\ cond \in Condition
    /\ saved \in Condition
    /\ showModal \in BOOLEAN

\* The forms spec.md 4.2 gives a condition: an operator of its own type,
\* no lhs for Unary and Exists, operands that are a bracketed name without
\* inner brackets or a string without brackets.
PlainOperand(s) ==
    \/ \A i \in 1..Len(s) : s[i] \notin {"[", "]"}
    \/ operandIsVariable(s) /\ \A i \in 2..Len(s) - 1 : s[i] \notin {"[", "]"}
WellFormed(c) ==
    /\ c.operator \in OpsOf(c.operatorType)
    /\ c.operatorType \in {"Unary", "Exists"} => c.lhs = <<>>
    /\ PlainOperand(c.lhs) /\ PlainOperand(c.rhs)

\* Condition round trip (spec.md 6): a condition saved by the builder in
\* one of the spec's forms is reproduced field for field by fromJSON of
\* its toJSON, whatever sequence of edits produced it.
WellFormedRoundTrips ==
    WellFormed(saved) => fromJSON(toJSON(saved)) = saved
=============================================================================
