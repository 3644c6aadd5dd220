------------------------- MODULE MCTransformerBuilder -------------------------
(* Conditions for TransformerBuilder: two well-formed conditions a         *)
(* ConditionBuilder can hand back, one comparing a variable with a number  *)
(* and one testing that a key exists, and the typeless one it hands back   *)
(* when opened on UndefinedCondition: onChange copies the sentinel, and   *)
(* typing an operand and clearing it again leaves its fields.              *)
EXTENDS TransformerBuilder

CONSTANTS undef, notype

MCCompare == [operatorType |-> "Comparator", operator |-> "GreaterThan",
              lhs |-> <<"[", "a", "]">>, rhs |-> <<"1">>]
MCExists == [operatorType |-> "Exists", operator |-> "NotExists",
             lhs |-> <<>>, rhs |-> <<"a">>]

MCCondsBoth == {MCCompare, MCExists}
MCCondsOne == {MCCompare}
MCTypeless == UndefinedFields
MCCondsExists == {MCExists, MCTypeless}
=============================================================================
