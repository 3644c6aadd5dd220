------------------------- MODULE MCAnnotatorBuilder -------------------------
(* The conditions a ConditionBuilder can hand back: a well-formed one     *)
(* comparing a variable with a number, and the typeless one it hands back *)
(* when opened on UndefinedCondition: onChange copies the sentinel, and  *)
(* typing an operand and clearing it again leaves its fields.             *)
EXTENDS AnnotatorBuilder

CONSTANTS n0, n1, undef, undefclone, novalue

MCCompare == [operatorType |-> "Comparator", operator |-> "GreaterThan",
              lhs |-> <<"[", "a", "]">>, rhs |-> <<"1">>]
MCTypeless == UndefinedFields
MCConds == {MCCompare, MCTypeless}
=============================================================================
