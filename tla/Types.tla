-------------------------------- MODULE Types --------------------------------
(***************************************************************************)
(* The types of the b2 language (TypeId in include/ast.h) and the pure     *)
(* predicates of type_check_visitor.cxx over them.                         *)
(*                                                                         *)
(* A literal's value matters only through the range tests, whose bounds    *)
(* are all of the form 2^k - 1 or 2^k.  A literal is therefore its RANK:   *)
(*     0        the value 0                                                *)
(*     2k       a value strictly between 2^(k-1) and 2^k                   *)
(*     2k + 1   the value 2^k                                              *)
(* so that v <= 2^k - 1 iff rank <= 2k, and v <= 2^k iff rank <= 2k + 1.   *)
(* The grammar has no unary minus: a literal is never negative.            *)
(***************************************************************************)
EXTENDS Integers

SignedTypes   == {"Int8", "Int16", "Int32", "Int64"}
UnsignedTypes == {"UInt8", "UInt16", "UInt32", "UInt64"}
IntTypes      == SignedTypes \cup UnsignedTypes
FloatTypes    == {"Float32", "Float64"}
LiteralTypes  == {"IntLiteral", "FloatLiteral"}

\* What a type annotation may name (is_builtin_type in include/parser.h).
BuiltinTypes == {"Bool", "String"} \cup IntTypes \cup FloatTypes

\* TypeId::Sentinel: the type_id of a default-constructed Type, or an empty
\* std::optional<Type>.
Sentinel == "Sentinel"

Types == BuiltinTypes \cup LiteralTypes

(***************************************************************************)
(* Ranges.                                                                 *)
(***************************************************************************)
Width == [t \in IntTypes |->
            CASE t \in {"Int8",  "UInt8"}  -> 8
              [] t \in {"Int16", "UInt16"} -> 16
              [] t \in {"Int32", "UInt32"} -> 32
              [] t \in {"Int64", "UInt64"} -> 64]

\* The largest rank a type's literals may have.
MaxRank(t) ==
    CASE t \in UnsignedTypes -> 2 * Width[t]
      [] t \in SignedTypes   -> 2 * (Width[t] - 1)
      [] t = "Float32"       -> 2 * 24 + 1
      [] t = "Float64"       -> 2 * 53 + 1

int_is_in_range(v, t)   == t \in IntTypes \cup FloatTypes /\ v <= MaxRank(t)
float_is_in_range(v, t) == t \in FloatTypes /\ v <= MaxRank(t)

(***************************************************************************)
(* Literals.                                                               *)
(***************************************************************************)
get_literal_default(t) == IF t = "IntLiteral" THEN "Int32" ELSE "Float64"

\* LITERAL_PROMOTION_MAP as a relation: what the pair <<left, right>> becomes.
\* Sentinel: the map has no entry for the pair.
Promotion(left, right) ==
    CASE left = right /\ left \in LiteralTypes                  -> left
      [] {left, right} = LiteralTypes                           -> "FloatLiteral"
      [] left = "IntLiteral" /\ right \in IntTypes \cup FloatTypes -> right
      [] right = "IntLiteral" /\ left \in IntTypes \cup FloatTypes -> left
      [] left = "FloatLiteral" /\ right \in FloatTypes          -> right
      [] right = "FloatLiteral" /\ left \in FloatTypes          -> left
      [] OTHER                                                  -> Sentinel

(***************************************************************************)
(* Operators: is_bool_operator in include/lexer.h.  NotEquals is parsed    *)
(* as an operator but is not among them.                                   *)
(***************************************************************************)
BoolOperators       == {"==", ">", ">=", "<", "<="}
ArithmeticOperators == {"+", "-", "*", "/"}
Operators           == BoolOperators \cup ArithmeticOperators \cup {"!="}
==============================================================================
