----------------------------- MODULE Expressions -----------------------------
(***************************************************************************)
(* One expression's way through the compiler: the statement it is part of  *)
(* types it (visit_statement_show, _return, _var_decl, _if), then the same *)
(* statement's codegen visitor lowers it and uses the value.               *)
(***************************************************************************)
EXTENDS ExprTyping, ExprLowering, FiniteSets

CONSTANTS
    Trees,         \* the expressions
    Env,           \* variables' types and the known functions
    Annotations    \* types a declaration may be annotated with

ASSUME TreesAssumption == Trees \subseteq AllTrees

ASSUME EnvAssumption ==
    /\ Env.vars \in [Names -> BuiltinTypes \cup {Sentinel}]
    /\ Env.fns \subseteq FnNames

ASSUME AnnotationsAssumption == Annotations \subseteq BuiltinTypes

\* Where the expression stands.  A declaration with an annotation is its type.
Infers   == {"decl", "show", "return"}
Contexts == Infers \cup {"condition"} \cup Annotations

VARIABLES
    expr,      \* the tree as parsed
    context,   \* where it stands
    phase,     \* parsed, then rejected or typed, then threw, invalid or emitted
    tree,      \* the annotated tree
    type,      \* the type the statement takes it to have
    value      \* LLVM type of the value

evars == <<expr, context, phase, tree, type, value>>

Init ==
    /\ expr \in Trees
    /\ context \in Contexts
    /\ phase = "parsed"
    /\ tree = expr
    /\ type = Sentinel
    /\ value = << >>

Typing(e, c) ==
    CASE c \in Infers      -> infer_expr_top_level(e, Env)
      [] c = "condition"   -> Visitor(Env)[e]["Bool"]
      [] c \in Annotations -> Visitor(Env)[e][c]

TypeCheck ==
    /\ phase = "parsed"
    /\ LET r == Typing(expr, context)
       IN  IF r.ok
           THEN /\ phase' = "typed"
                /\ tree' = r.node
                /\ type' = CASE context \in Infers      -> r.type
                             [] context = "condition"   -> "Bool"
                             [] context \in Annotations -> context
           ELSE /\ phase' = "rejected"
                /\ UNCHANGED <<tree, type>>
    /\ UNCHANGED <<expr, context, value>>

\* Mutant of Use: the type of a returned value is not looked at.
UseAnyReturn(v) ==
    CASE context \in {"decl"} \cup Annotations ->
              IF HasLLVMType(type) THEN v ELSE Throws
      [] context = "condition" -> IF v.ty = <<"i", 1>>  THEN v ELSE Invalid
      [] context \in {"return", "show"} -> v

\* What becomes of the value: a variable's alloca needs an LLVM type, a branch
\* an i1, a return the function's i32; printf takes anything.
Use(v) ==
    CASE context \in {"decl"} \cup Annotations ->
              IF HasLLVMType(type) THEN v ELSE Throws
      [] context = "condition" -> IF v.ty = <<"i", 1>>  THEN v ELSE Invalid
      [] context = "return"    -> IF v.ty = <<"i", 32>> THEN v ELSE Invalid
      [] context = "show"      -> v

Lower ==
    /\ phase = "typed"
    /\ \E v \in emit[tree] :
          LET u == IF v.st = "throws" THEN v ELSE Use(v)
          IN  /\ phase' = CASE u.st = "throws"  -> "threw"
                            [] u.st = "invalid" -> "invalid"
                            [] u.st = "ok"      -> "emitted"
              /\ value' = u.ty
    /\ UNCHANGED <<expr, context, tree, type>>

Done == phase \in {"rejected", "threw", "invalid", "emitted"} /\ UNCHANGED evars

Next == TypeCheck \/ Lower \/ Done

Spec == Init /\ [][Next]_evars

Accepted == phase \notin {"parsed", "rejected"}

-----------------------------------------------------------------------------
(***************************************************************************)
(* A reference definition, without inference: the leaves of an expression  *)
(* decide whether it has a type.                                           *)
(***************************************************************************)
Leaves(e) == {n \in NodesOf[e] : n.k # "bin"}
Ops(e)    == {n.op : n \in {n \in NodesOf[e] : n.k = "bin"}}

Arithmetic(e) == Ops(e) \cap BoolOperators = {}
Comparison(e) == /\ e.k = "bin" /\ e.op \in BoolOperators
                 /\ Arithmetic(e.l) /\ Arithmetic(e.r)

Known(e) == \A l \in Leaves(e) :
                /\ l.k = "var"  => Env.vars[l.n] # Sentinel
                /\ l.k = "call" => l.f \in Env.fns

\* The types the operands that are not literals have.
Concrete(e) == {Env.vars[l.n] : l \in {l \in Leaves(e) : l.k = "var"}}
               \cup {"Int32" : l \in {l \in Leaves(e) : l.k = "call"}}

\* Every literal of e has a value that type t holds exactly.
Fits(e, t) == \A l \in Leaves(e) :
                  /\ l.k = "int"   => int_is_in_range(l.v, t)
                  /\ l.k = "float" => float_is_in_range(l.v, t)

Default(e) == IF \E l \in Leaves(e) : l.k = "float" THEN "Float64" ELSE "Int32"

Unifies(e) == IF Concrete(e) = {} THEN Fits(e, Default(e))
              ELSE \E t \in Concrete(e) : Concrete(e) = {t} /\ Fits(e, t)

\* The node e has type t, as far as itself tells.
Is(e, t) ==
    CASE e.k = "int"   -> e.rt = t /\ int_is_in_range(e.v, t)
      [] e.k = "float" -> e.rt = t /\ float_is_in_range(e.v, t)
      [] e.k = "var"   -> e.rt = t /\ Env.vars[e.n] = t
      [] e.k = "call"  -> t = "Int32"
      [] e.k = "bin"   -> /\ e.rt = t
                          /\ t = IF e.op \in BoolOperators THEN "Bool" ELSE e.ot

\* Every node of the annotated tree is annotated as a tree of type t has to be:
\* the two sides of an operator have its operand type.
TypedAs(e, t) ==
    /\ Is(e, t)
    /\ \A n \in NodesOf[e] : n.k = "bin" =>
           n.ot \in BuiltinTypes /\ Is(n.l, n.ot) /\ Is(n.r, n.ot)

Annotated(e) == {n.rt : n \in {n \in NodesOf[e] : n.k # "call"}} \cup
                {n.ot : n \in {n \in NodesOf[e] : n.k = "bin"}}

(***************************************************************************)
(* Properties.                                                             *)
(***************************************************************************)
TypeOK ==
    /\ expr.k \in {"int", "float", "var", "call", "bin"} /\ tree.k = expr.k
    /\ context \in Contexts
    /\ phase \in {"parsed", "rejected", "typed", "threw", "invalid", "emitted"}
    /\ Accepted => type \in BuiltinTypes
    /\ value \in {<< >>} \cup {<<k, b>> : k \in {"i", "fp"}, b \in {1, 8, 16, 32, 64}}

\* Inference is order-free: the two-sided, bottom-up literal promotion accepts
\* an arithmetic expression, or a comparison of two, exactly when its operands
\* that are not literals agree on a type that holds every literal (or, without
\* such operands, the default type does).
InferExact ==
    context \in Infers /\ (Arithmetic(expr) \/ Comparison(expr))
        /\ phase # "parsed" =>
            (Accepted <=> Known(expr) /\ Unifies(expr))

\* Pushing an annotation down accepts an expression without comparisons
\* exactly when every operand has that type and every literal fits it.
CheckExact ==
    context \notin Infers /\ Arithmetic(expr) /\ phase # "parsed" =>
        LET t == IF context = "condition" THEN "Bool" ELSE context
        IN  Accepted <=> Known(expr) /\ Concrete(expr) \subseteq {t}
                                     /\ Fits(expr, t)

\* Whatever is inferred is inferred for the whole tree: after the defaults and
\* the concrete types have been pushed down into subtrees that were already
\* annotated, every node carries the type its parent counts on.
InferredTreeConsistent ==
    context \in Infers /\ Accepted => TypedAs(tree, type)

\* "Datatype should not survive until codegen": no node of an accepted tree
\* is left with a literal type, or with none.
NoLiteralTypeSurvives ==
    Accepted => Annotated(tree) \cap (LiteralTypes \cup {Sentinel}) = {}

IntegersOnly(e) == /\ \A l \in Leaves(e) : l.k # "float"
                   /\ Concrete(e) \subseteq IntTypes \cup {Sentinel}
                   /\ "!=" \notin Ops(e)

\* What the checker accepts codegen can build, and the value has the LLVM type
\* of the type the checker gave it: for integer expressions, and comparisons
\* of them, where their context takes them.
IntegersLower ==
    /\ IntegersOnly(expr)
    /\ \/ Arithmetic(expr) /\ context \in {"decl", "show"} \cup IntTypes
       \/ Comparison(expr) /\ context \in {"decl", "show", "condition"}
    => /\ phase \notin {"threw", "invalid"}
       /\ phase = "emitted" => value = get_llvm_type(type)

IsConstant(e) == \A l \in Leaves(e) : l.k \in {"int", "float"}

\* A value of the operand o, whose own type is t, is a value of type t: a float
\* literal is a double and a comparison an i1, whatever was annotated.
Fills(o, t) == /\ o.k = "float" => t # "Float32"
               /\ o.k = "bin" => t = "Bool"

\* A value that is stored fills its variable exactly when the operands it is
\* computed from do, which the verifier does not see (a store has no type to
\* compare with).  There are three ways not to: float literals are doubles
\* whatever was annotated (a double stored in a Float32 writes past it),
\* comparisons are accepted at any annotation, and constants of different types
\* are folded instead of refused: (1 == 1) + 5 at Int64 may be stored as an i1
\* or as an i64.  All operands that are not constants decide, alike; where all
\* are constants one of them does, which of them being up to LLVM's folder.
StoredValueExact ==
    phase = "emitted" /\ context \in {"decl"} \cup Annotations =>
        LET fills == value = get_llvm_type(type)
        IN  /\ \A o \in Operands[expr] : ~IsConstant(o) => (fills <=> Fills(o, type))
            /\ \E o \in Operands[expr] : fills <=> Fills(o, type)

\* Nothing compares a returned value with the Int32 every call of the function
\* is taken to have: whether the function can be built is up to the width the
\* expression happens to have.
ReturnExact ==
    /\ context = "return" /\ IntegersOnly(expr)
    /\ Arithmetic(expr) \/ Comparison(expr)
    /\ phase \in {"threw", "invalid", "emitted"}
    => (phase = "emitted" <=> get_llvm_type(type) = <<"i", 32>>)

\* Whatever the checker accepts the visitors of codegen can lower without
\* throwing.  ("From here I just lower this tree directly to LLVM IR",
\* README.md:76.)
AcceptedLowers == phase # "threw"
==============================================================================
