---------------------------- MODULE ConditionCodec ----------------------------
(***************************************************************************)
(* The Condition value of Condition.tsx and its JSON encoding: toJSON,    *)
(* fromJSON, the operand classification getOperandSpec and its inverse   *)
(* operandSpecToString.                                                    *)
(*                                                                         *)
(* A Condition is a record [operatorType, operator, lhs, rhs].  Operand   *)
(* strings are sequences of characters over a small alphabet; the         *)
(* operators are a representative subset of each enum, keeping "And" and  *)
(* "Or", which are both Binary and Logical operators.  null and undefined *)
(* operators are one value, NoOp: both are falsy and neither names an     *)
(* enum member.  A wire value is a record whose "shape" says which of the *)
(* branches of toJSON produced it ("none" for {}).                        *)
(***************************************************************************)
EXTENDS Naturals, Sequences
LOCAL INSTANCE SequencesExt

\* The values of the OperatorType enum, and NoType: the undefined that
\* StrToOperatorType returns for "Choose...".
OperatorTypes == {"Unknown", "Unary", "Binary", "Logical", "Comparator", "Exists"}
NoType == "undefined"
NoOp == "null"

\* The operator enums (a subset of each).
OpsOf(t) ==
    CASE t = "Exists"     -> {"Exists", "NotExists"}
      [] t = "Unary"      -> {"Negation", "LogicalNot"}
      [] t = "Binary"     -> {"Addition", "And"}
      [] t = "Logical"    -> {"And", "Or"}
      [] t = "Comparator" -> {"GreaterThan", "Equal"}
      [] OTHER            -> {}

\* Mutant: the selected string is kept without the enum lookup.
StrToOperatorRaw(str, t) == str

\* StrToOperator(str, t): the enum lookup of type t; a string that is no
\* member of that enum (and every string for Unknown) gives NoOp.
StrToOperator(str, t) == IF str \in OpsOf(t) THEN str ELSE NoOp

\* HasLHS / HasRHS: a falsy operatorType has neither operand.
HasLHS(t) == t # NoType /\ t \notin {"Unary", "Exists"}
HasRHS(t) == t # NoType

\* The sentinel UndefinedCondition, compared by identity in the code; the
\* codec only sees its fields.
UndefinedFields == [operatorType |-> "Unknown", operator |-> NoOp, lhs |-> <<>>, rhs |-> <<>>]

-----------------------------------------------------------------------------
\* Operands.

operandIsVariable(s) == Len(s) > 0 /\ s[1] = "[" /\ s[Len(s)] = "]"

\* !isNaN(Number(s)): over this alphabet, exactly the strings of digits,
\* the empty string (Number("") = 0) included.
operandIsNumeric(s) == \A i \in 1..Len(s) : s[i] = "1"

\* {variable: {name: s.replace("[", "").replace("]", "")}}: each replace
\* removes the first occurrence only.
getOperandSpec(s) ==
    CASE operandIsVariable(s) -> [kind |-> "variable", text |-> RemoveFirst(RemoveFirst(s, "["), "]")]
      [] operandIsNumeric(s)  -> [kind |-> "numeric", text |-> s]
      [] OTHER                -> [kind |-> "literal", text |-> s]

\* Mutant: the variable name is not re-wrapped in brackets.
operandSpecToStringNoWrap(o) == o.text

\* '[' + name + ']' for a variable, the string itself otherwise.
operandSpecToString(o) ==
    IF o.kind = "variable" THEN <<"[">> \o o.text \o <<"]">> ELSE o.text

-----------------------------------------------------------------------------
\* Conditions.

ExprShapes == {"comparator", "logical", "binary"}
ShapeOf(t) ==
    CASE t = "Comparator" -> "comparator"
      [] t = "Logical"    -> "logical"
      [] t = "Binary"     -> "binary"
      [] t = "Unary"      -> "unary"
      [] t = "Exists"     -> "exists"
      [] OTHER            -> "none"
TypeOfShape(sh) == CHOOSE t \in OperatorTypes : ShapeOf(t) = sh

\* toJSON: the lhs is dropped for Unary and Exists; the Exists key is the
\* raw rhs string; Unknown and an undefined type give {}.
toJSON(c) ==
    LET sh == ShapeOf(c.operatorType)
    IN CASE sh \in ExprShapes ->
              [shape |-> sh, op |-> c.operator,
               lhs |-> getOperandSpec(c.lhs), rhs |-> getOperandSpec(c.rhs)]
         [] sh = "unary" ->
              [shape |-> sh, op |-> c.operator, rhs |-> getOperandSpec(c.rhs)]
         [] sh = "exists" ->
              [shape |-> sh, op |-> c.operator, key |-> c.rhs]
         [] OTHER -> [shape |-> "none"]

\* fromJSON: the operator goes back through the enum of the shape's type.
fromJSON(j) ==
    LET t == IF j.shape = "none" THEN "Unknown" ELSE TypeOfShape(j.shape)
    IN CASE j.shape \in ExprShapes ->
              [operatorType |-> t, operator |-> StrToOperator(j.op, t),
               lhs |-> operandSpecToString(j.lhs), rhs |-> operandSpecToString(j.rhs)]
         [] j.shape = "unary" ->
              [operatorType |-> t, operator |-> StrToOperator(j.op, t),
               lhs |-> <<>>, rhs |-> operandSpecToString(j.rhs)]
         [] j.shape = "exists" ->
              [operatorType |-> t, operator |-> StrToOperator(j.op, t),
               lhs |-> <<>>, rhs |-> j.key]
         [] OTHER -> UndefinedFields
=============================================================================
