----------------------------- MODULE MCTypeCheck -----------------------------
(***************************************************************************)
(* TypeCheck with the expressions of ExprTyping, for TLC.                  *)
(***************************************************************************)
EXTENDS TypeCheck

T == INSTANCE ExprTyping WITH MaxHeight <- 1

MCInferTop(e, v, f)     == T!infer_expr_top_level(e, [vars |-> v, fns |-> f])
MCCheckExpr(e, t, v, f) == T!Visitor([vars |-> v, fns |-> f])[e][t]

\* Rank 2 * 7 is at most 127, the rank above is 128: Int8 and UInt8 differ.
MCExprs == {T!IntLit(14), T!IntLit(15), T!Var("x"), T!Var("y"), T!Call("b"),
            T!Bin(T!Var("x"), "==", T!IntLit(2)),
            T!Bin(T!Var("x"), "+", T!Var("y"))}
==============================================================================
