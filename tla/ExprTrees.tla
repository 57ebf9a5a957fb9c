------------------------------ MODULE ExprTrees ------------------------------
(***************************************************************************)
(* The expression nodes of the syntax tree (include/ast.h), with the       *)
(* annotations the type checker writes into them: rt is a node's           *)
(* resolved_type and ot its operand_type, Sentinel until written.          *)
(***************************************************************************)
EXTENDS Types

CONSTANTS
    Names,      \* variable names
    FnNames,    \* function names
    MaxHeight   \* bound: operators on a path of a tree

ASSUME HeightAssumption == MaxHeight \in Nat

IntLit(v)    == [k |-> "int",   v |-> v, rt |-> Sentinel]
FloatLit(v)  == [k |-> "float", v |-> v, rt |-> Sentinel]
Var(n)       == [k |-> "var",   n |-> n, rt |-> Sentinel]
Call(f)      == [k |-> "call",  f |-> f]
Bin(l, o, r) == [k |-> "bin", op |-> o, l |-> l, r |-> r,
                 rt |-> Sentinel, ot |-> Sentinel]

(***************************************************************************)
(* All trees, whatever is written in them.                                 *)
(***************************************************************************)
Marks == Types \cup {Sentinel}

Simple == [k : {"int", "float"}, v : Nat, rt : Marks] \cup
          [k : {"var"}, n : Names, rt : Marks] \cup [k : {"call"}, f : FnNames]

BinOver(T) == [k : {"bin"}, op : Operators, l : T, r : T, rt : Marks, ot : Marks]

TreesUpTo[h \in 0 .. MaxHeight] ==
    Simple \cup IF h = 0 THEN {} ELSE BinOver(TreesUpTo[h - 1])

AllTrees == TreesUpTo[MaxHeight]

\* The nodes of a tree.
NodesOf[e \in AllTrees] ==
    {e} \cup IF e.k = "bin" THEN NodesOf[e.l] \cup NodesOf[e.r] ELSE {}

\* What the arithmetic operators on top of a tree are applied to.
Operands[e \in AllTrees] ==
    IF e.k = "bin" /\ e.op \notin BoolOperators
    THEN Operands[e.l] \cup Operands[e.r] ELSE {e}
==============================================================================
