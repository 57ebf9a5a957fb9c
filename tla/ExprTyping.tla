----------------------------- MODULE ExprTyping ------------------------------
(***************************************************************************)
(* The expression half of TypeCheckVisitor: infer_expr, check_expr and the *)
(* functions they call, as operators on expression trees.                  *)
(*                                                                         *)
(* Every operator returns [ok, type, node]: ok is FALSE when the code      *)
(* throws a TypeError, type is the type returned, and node the tree with   *)
(* the annotations written so far.                                         *)
(*                                                                         *)
(* env.vars maps a name to what VariableScopeStack::find returns for it    *)
(* (Sentinel: nullopt); env.fns is the set of keys of function_map, whose  *)
(* values are all Int32.  visit is the visitor that visits the subtrees:   *)
(* visit[e][t] what check_expr makes of e with t expected, and             *)
(* visit[e][Sentinel], as nothing is expected, what infer_expr does.       *)
(***************************************************************************)
EXTENDS ExprTrees

Ok(t, e)     == [ok |-> TRUE,  type |-> t,        node |-> e]
TypeError(e) == [ok |-> FALSE, type |-> Sentinel, node |-> e]

check_leaf(e, expected, env) ==
    LET fits == CASE e.k = "int"   -> int_is_in_range(e.v, expected)
                  [] e.k = "float" -> float_is_in_range(e.v, expected)
                  [] e.k = "var"   -> env.vars[e.n] = expected
                  [] e.k = "call"  -> e.f \in env.fns /\ expected = "Int32"
    IN  IF ~fits THEN TypeError(e)
        ELSE IF e.k = "call" THEN Ok(expected, e)
        ELSE Ok(expected, [e EXCEPT !.rt = expected])

(***************************************************************************)
(* A binary node with the results of visiting one side, or both, put in.   *)
(***************************************************************************)
with_left(bin, L, t)  == IF L.ok THEN Ok(t, [bin EXCEPT !.l = L.node])
                                 ELSE TypeError(bin)
with_right(bin, R, t) == IF R.ok THEN Ok(t, [bin EXCEPT !.r = R.node])
                                 ELSE TypeError(bin)
with_both(bin, L, R, t) ==
    IF L.ok /\ R.ok THEN Ok(t, [bin EXCEPT !.l = L.node, !.r = R.node])
                    ELSE TypeError(bin)

\* Mutants of resolve_literal_pair: the literal side is not visited again; it
\* is always the left side that is.
resolve_without_push(bin, left, right, visit) ==
    IF Promotion(left, right) = Sentinel THEN TypeError(bin)
    ELSE Ok(Promotion(left, right), bin)

resolve_push_left(bin, left, right, visit) ==
    LET found == Promotion(left, right)
    IN  IF found = Sentinel THEN TypeError(bin)
        ELSE IF found \in LiteralTypes THEN Ok(found, bin)
        ELSE with_left(bin, visit[bin.l][found], found)

\* If a literal is involved, the concrete type of the other side is pushed
\* down into the literal side.
resolve_literal_pair(bin, left, right, visit) ==
    LET found == Promotion(left, right)
    IN  IF found = Sentinel THEN TypeError(bin)
        ELSE IF found \in LiteralTypes THEN Ok(found, bin)
        ELSE IF left \in LiteralTypes
             THEN with_left(bin, visit[bin.l][found], found)
             ELSE with_right(bin, visit[bin.r][found], found)

\* Mutant of check_both: the right operand is not checked.
check_left_only(bin, t, visit) == with_left(bin, visit[bin.l][t], t)

check_both(bin, t, visit) ==
    with_both(bin, visit[bin.l][t], visit[bin.r][t], t)

\* The two sides L and R of an inferred node brought to one type.
common_type(bin, L, R, visit) ==
    IF ~(L.ok /\ R.ok) THEN TypeError(bin)
    ELSE IF {L.type, R.type} \cap LiteralTypes # {}
         THEN resolve_literal_pair([bin EXCEPT !.l = L.node, !.r = R.node],
                                   L.type, R.type, visit)
    ELSE IF L.type = R.type THEN with_both(bin, L, R, L.type)
    ELSE TypeError(bin)

annotate(P, t) ==
    IF P.ok THEN Ok(t, [P.node EXCEPT !.rt = t, !.ot = P.type]) ELSE P

\* A comparison is a Bool, and its operands may not stay literals.
result_type(P, visit) ==
    IF ~P.ok THEN P
    ELSE IF P.node.op \notin BoolOperators THEN annotate(P, P.type)
    ELSE IF P.type \notin LiteralTypes THEN annotate(P, "Bool")
    ELSE annotate(check_both(P.node, get_literal_default(P.type), visit), "Bool")

infer_expr_bin_expr(bin, visit) ==
    result_type(common_type(bin, visit[bin.l][Sentinel],
                                 visit[bin.r][Sentinel], visit), visit)

infer_expr(e, env, visit) ==
    CASE e.k = "int"   -> Ok("IntLiteral", [e EXCEPT !.rt = "IntLiteral"])
      [] e.k = "float" -> Ok("FloatLiteral", e)
      [] e.k = "var"   -> IF env.vars[e.n] = Sentinel THEN TypeError(e)
                          ELSE Ok(env.vars[e.n],
                                  [e EXCEPT !.rt = env.vars[e.n]])
      [] e.k = "call"  -> IF e.f \in env.fns THEN Ok("Int32", e)
                                             ELSE TypeError(e)
      [] e.k = "bin"   -> infer_expr_bin_expr(e, visit)

\* The expected type is not compared with the Bool a comparison resolves to.
check_expr(e, expected, env, visit) ==
    IF e.k # "bin" THEN check_leaf(e, expected, env)
    ELSE IF e.op \in BoolOperators THEN infer_expr_bin_expr(e, visit)
    ELSE annotate(check_both(e, expected, visit), expected)

Visitor(env) ==
    LET visit[e \in AllTrees] ==
            [expected \in BuiltinTypes \cup {Sentinel} |->
                IF expected = Sentinel THEN infer_expr(e, env, visit)
                                       ELSE check_expr(e, expected, env, visit)]
    IN  visit

\* Mutants of default_literal: a literal type is left as it is; the default
\* is not pushed down.
keep_literal(I, visit) == I

default_without_push(I, visit) ==
    IF ~I.ok \/ I.type \notin LiteralTypes THEN I
    ELSE Ok(get_literal_default(I.type), I.node)

\* What infer_expr_top_level does with the inferred type.
default_literal(I, visit) ==
    IF ~I.ok \/ I.type \notin LiteralTypes THEN I
    ELSE visit[I.node][get_literal_default(I.type)]

infer_expr_top_level(e, env) ==
    default_literal(Visitor(env)[e][Sentinel], Visitor(env))
==============================================================================
