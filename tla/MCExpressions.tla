---------------------------- MODULE MCExpressions ----------------------------
(***************************************************************************)
(* Expressions over every tree of at most three leaves and, over a few     *)
(* kinds of leaves, the balanced ones of four, for TLC.                    *)
(***************************************************************************)
EXTENDS Expressions

\* a and b have integer types of different width, c and d the types integer
\* operations do not take, u is not declared; f is known and g is not.
MCEnv == [vars |-> [a |-> "Int8", b |-> "Int64", c |-> "Float32", d |-> "Bool",
                    u |-> Sentinel],
          fns  |-> {"f"}]

\* Ranks 14, 15, 62, 63: 127, 128, 2^31 - 1, 2^31; rank 49 and 50: 2^24 and a
\* value above it.
MCLeaves == {IntLit(14), IntLit(15), IntLit(63), FloatLit(49), FloatLit(50)}
            \cup {Var(n) : n \in {"a", "b", "c", "d", "u"}}
            \cup {Call("f"), Call("g")}

MCOps == {"+", "==", "!="}

Pairs(L, R) == {Bin(l, o, r) : l \in L, o \in MCOps, r \in R}

\* The deeper trees are over the leaves that tell the promotions apart.
MCDeep == {IntLit(15), IntLit(63), FloatLit(50), Var("b"), Var("c"), Call("f")}

\* Arithmetic on comparisons needs four leaves.
MCFew == {IntLit(15), FloatLit(49), Var("b")}

MCTrees == MCLeaves \cup Pairs(MCLeaves, MCLeaves)
           \cup Pairs(MCDeep, Pairs(MCDeep, MCDeep))
           \cup Pairs(Pairs(MCDeep, MCDeep), MCDeep)
           \cup Pairs(Pairs(MCFew, MCFew), Pairs(MCFew, MCFew))
==============================================================================
