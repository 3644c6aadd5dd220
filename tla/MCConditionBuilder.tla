-------------------------- MODULE MCConditionBuilder --------------------------
(* Operands for ConditionBuilder: empty, a literal, a number, a variable, *)
(* and "[]a]", a bracketed string with brackets inside.                   *)
EXTENDS ConditionBuilder

MCOperands == {<<>>, <<"a">>, <<"1">>, <<"[", "a", "]">>, <<"[", "]", "a", "]">>}
=============================================================================
