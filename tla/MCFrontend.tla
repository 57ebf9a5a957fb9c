----------------------------- MODULE MCFrontend ------------------------------
(***************************************************************************)
(* The type checker and the code generator over one tree, with the         *)
(* expressions of ExprTyping, for TLC.                                     *)
(***************************************************************************)
EXTENDS Frontend

T == INSTANCE ExprTyping WITH MaxHeight <- 1

MCInferTop(e, v, f)     == T!infer_expr_top_level(e, [vars |-> v, fns |-> f])
MCCheckExpr(e, t, v, f) == T!Visitor([vars |-> v, fns |-> f])[e][t]

RECURSIVE MCVarsOf(_), MCCallsOf(_)
MCVarsOf(e) == CASE e.k = "var" -> {e.n}
                 [] e.k = "bin" -> MCVarsOf(e.l) \cup MCVarsOf(e.r)
                 [] OTHER       -> {}
MCCallsOf(e) == CASE e.k = "call" -> {e.f}
                  [] e.k = "bin"  -> MCCallsOf(e.l) \cup MCCallsOf(e.r)
                  [] OTHER        -> {}

\* A condition, a variable that can only be read where it is visible, and a
\* call of a function that is not complete or, in a second one, is.
MCExprs == {T!Bin(T!IntLit(3), "==", T!IntLit(3)), T!Var("x"), T!Call("main")}
==============================================================================
