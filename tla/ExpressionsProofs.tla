-------------------------- MODULE ExpressionsProofs --------------------------
(***************************************************************************)
(* For expressions of any height over any names: what infer_expr and       *)
(* check_expr accept, how they annotate it, and what it is lowered to.     *)
(***************************************************************************)
EXTENDS Expressions, TLAPS, WellFoundedInduction

Heights == 0 .. MaxHeight

LEMMA LeastNatural ==
    ASSUME NEW T, T \subseteq Nat, T # {}
    PROVE  \E x \in T : \A y \in T : x <= y
<1> DEFINE R == OpToRel(<, Nat)
<1>1. IsWellFoundedOn(R, Nat)
  BY NatLessThanWellFounded
<1>2. \A a, b \in Nat : a < b => <<a, b>> \in R
  BY DEF OpToRel
<1> HIDE DEF R
<1>3. PICK x \in T : \A y \in T : ~ (<<y, x>> \in R)
  BY <1>1, WFMin
<1>4. ASSUME NEW y \in T
      PROVE  x <= y
  <2>1. ~(y < x)
    BY <1>2, <1>3
  <2>2. QED
    BY <2>1
<1>5. QED
  BY <1>4

\* Induction over the heights.
LEMMA HeightInduction ==
    ASSUME NEW S, 0 \in S, \A n \in Heights : n \in S /\ n + 1 \in Heights => n + 1 \in S
    PROVE  \A n \in Heights : n \in S
<1>1. PICK T : T = {n \in Heights : n \notin S}
  OBVIOUS
<1>2. SUFFICES ASSUME T # {}
               PROVE  FALSE
  BY <1>1
<1>3. T \subseteq Nat
  BY <1>1 DEF Heights
<1>4. PICK x \in T : \A y \in T : x <= y
  BY <1>2, <1>3, LeastNatural
<1>5. x \in Nat /\ x \in Heights /\ x \notin S /\ x # 0
  BY <1>1, <1>3, <1>4
<1>6. x - 1 \in Heights /\ (x - 1) + 1 = x /\ ~(x <= x - 1)
  BY <1>5, HeightAssumption DEF Heights
<1>7. x - 1 \in S
  BY <1>1, <1>4, <1>6
<1>8. QED
  BY <1>5, <1>6, <1>7

(***************************************************************************)
(* The recursion of TreesUpTo goes down: there is one such function.       *)
(***************************************************************************)
LEMMA TreesUpToExists ==
    \E f : f = [h \in Heights |-> Simple \cup IF h = 0 THEN {} ELSE BinOver(f[h - 1])]
<1>1. PICK S : S = {n \in Heights :
                      \E f : f = [h \in 0 .. n |-> Simple \cup IF h = 0 THEN {} ELSE BinOver(f[h - 1])]}
  OBVIOUS
<1>2. 0 \in S
  <2>1. PICK f : f = [h \in 0 .. 0 |-> Simple]
    OBVIOUS
  <2>2. \A h \in 0 .. 0 : h = 0
    OBVIOUS
  <2>3. f = [h \in 0 .. 0 |-> Simple \cup IF h = 0 THEN {} ELSE BinOver(f[h - 1])]
    BY <2>1, <2>2
  <2>4. 0 \in Heights
    BY HeightAssumption DEF Heights
  <2>5. QED
    BY <1>1, <2>3, <2>4
<1>3. ASSUME NEW n \in Heights, n \in S, n + 1 \in Heights
      PROVE  n + 1 \in S
  <2>1. PICK f : f = [h \in 0 .. n |-> Simple \cup IF h = 0 THEN {} ELSE BinOver(f[h - 1])]
    BY <1>1, <1>3
  <2>2. n \in Nat
    BY DEF Heights
  <2>3. PICK g : g = [h \in 0 .. n + 1 |-> IF h \in 0 .. n THEN f[h] ELSE Simple \cup BinOver(f[n])]
    OBVIOUS
  <2>4. ASSUME NEW h \in 0 .. n + 1
        PROVE  g[h] = Simple \cup IF h = 0 THEN {} ELSE BinOver(g[h - 1])
    <3>1. CASE h = 0
      BY <2>1, <2>2, <2>3, <3>1
    <3>2. CASE h # 0 /\ h \in 0 .. n
      <4>1. h - 1 \in 0 .. n /\ h - 1 \in 0 .. n + 1
        BY <2>2, <3>2
      <4>2. g[h - 1] = f[h - 1] /\ g[h] = f[h]
        BY <2>3, <3>2, <4>1
      <4>3. f[h] = Simple \cup BinOver(f[h - 1])
        BY <2>1, <3>2
      <4>4. QED
        BY <3>2, <4>2, <4>3
    <3>3. CASE h \notin 0 .. n
      <4>1. h = n + 1 /\ h - 1 = n /\ n \in 0 .. n /\ n \in 0 .. n + 1 /\ h # 0
        BY <2>2, <3>3
      <4>2. g[n] = f[n] /\ g[h] = Simple \cup BinOver(f[n])
        BY <2>3, <3>3, <4>1
      <4>3. QED
        BY <4>1, <4>2
    <3>4. QED
      BY <3>1, <3>2, <3>3
  <2>5. g = [h \in 0 .. n + 1 |-> Simple \cup IF h = 0 THEN {} ELSE BinOver(g[h - 1])]
    BY <2>3, <2>4
  <2>6. QED
    BY <1>1, <1>3, <2>5
<1>4. MaxHeight \in Heights
  BY HeightAssumption DEF Heights
<1>5. MaxHeight \in S
  BY <1>2, <1>3, <1>4, HeightInduction
<1>6. QED
  BY <1>1, <1>5 DEF Heights

LEMMA TreesAre ==
    \A h \in Heights : TreesUpTo[h] = Simple \cup IF h = 0 THEN {} ELSE BinOver(TreesUpTo[h - 1])
<1>1. PICK F : F = TreesUpTo
  OBVIOUS
<1>2. F = [h \in Heights |-> Simple \cup IF h = 0 THEN {} ELSE BinOver(F[h - 1])]
  BY <1>1, TreesUpToExists DEF TreesUpTo, Heights
<1>3. QED
  BY <1>1, <1>2

(***************************************************************************)
(* Nodes and trees.                                                        *)
(***************************************************************************)
LEMMA SimpleNode ==
    ASSUME NEW e \in Simple
    PROVE  /\ e.k \in {"int", "float", "var", "call"} /\ e.k # "bin"
           /\ e.k \in {"int", "float"} => e.v \in Nat
           /\ e.k = "var" => e.n \in Names
           /\ e.k = "call" => e.f \in FnNames
           /\ e.k # "call" => /\ e.rt \in Marks
                              /\ \A t \in Marks : [e EXCEPT !.rt = t] \in Simple
BY DEF Simple

Marked(e, t) == [e EXCEPT !.rt = t]

\* d is e but for the annotation.
SameLeaf(d, e) == /\ d \in Simple /\ d.k = e.k
                  /\ e.k \in {"int", "float"} => d.v = e.v
                  /\ e.k = "var" => d.n = e.n
                  /\ e.k = "call" => d.f = e.f

LEMMA SimpleMark ==
    ASSUME NEW e \in Simple, e.k # "call", NEW t \in Marks
    PROVE  SameLeaf(Marked(e, t), e) /\ Marked(e, t).rt = t
BY DEF Simple, Marked, SameLeaf

LEMMA BinNode ==
    ASSUME NEW X, NEW e \in BinOver(X)
    PROVE  /\ e.k = "bin" /\ e.op \in Operators /\ e.l \in X /\ e.r \in X
           /\ e.rt \in Marks /\ e.ot \in Marks
BY DEF BinOver

\* A node with other sides.
NewLeft(e, a)     == [e EXCEPT !.l = a]
NewRight(e, a)    == [e EXCEPT !.r = a]
NewSides(e, a, b) == [e EXCEPT !.l = a, !.r = b]

LEMMA BinLeft ==
    ASSUME NEW X, NEW e \in BinOver(X), NEW a \in X
    PROVE  /\ NewLeft(e, a) \in BinOver(X) /\ NewLeft(e, a).op = e.op
           /\ NewLeft(e, a).l = a /\ NewLeft(e, a).r = e.r
BY DEF BinOver, NewLeft

LEMMA BinRight ==
    ASSUME NEW X, NEW e \in BinOver(X), NEW a \in X
    PROVE  /\ NewRight(e, a) \in BinOver(X) /\ NewRight(e, a).op = e.op
           /\ NewRight(e, a).l = e.l /\ NewRight(e, a).r = a
BY DEF BinOver, NewRight

LEMMA BinBoth ==
    ASSUME NEW X, NEW e \in BinOver(X), NEW a \in X, NEW b \in X
    PROVE  /\ NewSides(e, a, b) \in BinOver(X) /\ NewSides(e, a, b).op = e.op
           /\ NewSides(e, a, b).l = a /\ NewSides(e, a, b).r = b
BY DEF BinOver, NewSides

\* A node with other annotations.
NewMarks(e, t, u) == [e EXCEPT !.rt = t, !.ot = u]

LEMMA BinMarks ==
    ASSUME NEW X, NEW e \in BinOver(X), NEW t \in Marks, NEW u \in Marks
    PROVE  /\ NewMarks(e, t, u) \in BinOver(X) /\ NewMarks(e, t, u).op = e.op
           /\ NewMarks(e, t, u).l = e.l /\ NewMarks(e, t, u).r = e.r
           /\ NewMarks(e, t, u).rt = t /\ NewMarks(e, t, u).ot = u
BY DEF BinOver, NewMarks

LEMMA TreeCases ==
    ASSUME NEW h \in Heights, NEW e \in TreesUpTo[h]
    PROVE  /\ e.k # "bin" => e \in Simple
           /\ e.k = "bin" => h - 1 \in Heights /\ e \in BinOver(TreesUpTo[h - 1])
<1>1. e \in Simple \cup IF h = 0 THEN {} ELSE BinOver(TreesUpTo[h - 1])
  BY TreesAre
<1>2. CASE e \in Simple
  BY <1>2, SimpleNode
<1>3. CASE e \notin Simple
  <2>1. h # 0 /\ e \in BinOver(TreesUpTo[h - 1])
    BY <1>1, <1>3
  <2>2. h - 1 \in Heights
    BY <2>1, HeightAssumption DEF Heights
  <2>3. QED
    BY <2>1, <2>2, BinNode
<1>4. QED
  BY <1>2, <1>3

LEMMA SimpleTree ==
    ASSUME NEW h \in Heights
    PROVE  Simple \subseteq TreesUpTo[h]
BY TreesAre

LEMMA BinTree ==
    ASSUME NEW h \in Heights, h - 1 \in Heights
    PROVE  BinOver(TreesUpTo[h - 1]) \subseteq TreesUpTo[h]
<1>1. h # 0
  BY DEF Heights
<1>2. QED
  BY <1>1, TreesAre

LEMMA TreesGrow == \A h \in Heights : h - 1 \in Heights => TreesUpTo[h - 1] \subseteq TreesUpTo[h]
<1>1. PICK S : S = {h \in Heights : h - 1 \in Heights => TreesUpTo[h - 1] \subseteq TreesUpTo[h]}
  OBVIOUS
<1>2. 0 \in S
  BY <1>1, HeightAssumption DEF Heights
<1>3. ASSUME NEW n \in Heights, n \in S, n + 1 \in Heights
      PROVE  n + 1 \in S
  <2>1. (n + 1) - 1 = n
    BY DEF Heights
  <2>2. ASSUME NEW e \in TreesUpTo[n]
        PROVE  e \in TreesUpTo[n + 1]
    <3>1. CASE e.k # "bin"
      BY <1>3, <3>1, TreeCases, SimpleTree
    <3>2. CASE e.k = "bin"
      <4>1. n - 1 \in Heights /\ e \in BinOver(TreesUpTo[n - 1])
        BY <3>2, TreeCases
      <4>2. TreesUpTo[n - 1] \subseteq TreesUpTo[n]
        BY <1>1, <1>3, <4>1
      <4>3. e \in BinOver(TreesUpTo[n])
        BY <4>1, <4>2 DEF BinOver
      <4>4. QED
        BY <1>3, <2>1, <4>3, BinTree
    <3>3. QED
      BY <3>1, <3>2
  <2>3. QED
    BY <1>1, <1>3, <2>1, <2>2
<1>4. \A h \in Heights : h \in S
  BY <1>2, <1>3, HeightInduction
<1>5. QED
  BY <1>1, <1>4

LEMMA MaxHeightType == MaxHeight \in Heights /\ AllTrees = TreesUpTo[MaxHeight]
BY HeightAssumption DEF Heights, AllTrees

LEMMA TreesWithin == \A h \in Heights : TreesUpTo[h] \subseteq AllTrees
<1>1. PICK S : S = {d \in Heights : TreesUpTo[MaxHeight - d] \subseteq AllTrees}
  OBVIOUS
<1>2. 0 \in S
  BY <1>1, MaxHeightType, HeightAssumption DEF Heights
<1>3. ASSUME NEW n \in Heights, n \in S, n + 1 \in Heights
      PROVE  n + 1 \in S
  <2>1. PICK h : h = MaxHeight - n
    OBVIOUS
  <2>2. h \in Heights /\ h - 1 \in Heights /\ h - 1 = MaxHeight - (n + 1)
    BY <1>3, <2>1, HeightAssumption DEF Heights
  <2>3. TreesUpTo[h - 1] \subseteq TreesUpTo[h]
    BY <2>2, TreesGrow
  <2>4. QED
    BY <1>1, <1>3, <2>1, <2>2, <2>3
<1>4. \A d \in Heights : d \in S
  BY <1>2, <1>3, HeightInduction
<1>5. ASSUME NEW h \in Heights
      PROVE  TreesUpTo[h] \subseteq AllTrees
  <2>1. MaxHeight - h \in Heights /\ MaxHeight - (MaxHeight - h) = h
    BY HeightAssumption DEF Heights
  <2>2. QED
    BY <1>1, <1>4, <2>1
<1>6. QED
  BY <1>5

LEMMA TreeNode ==
    ASSUME NEW e \in AllTrees
    PROVE  /\ e.k # "bin" => e \in Simple
           /\ e.k = "bin" => /\ e \in BinOver(AllTrees) /\ e.l \in AllTrees /\ e.r \in AllTrees
                             /\ e.op \in Operators
<1>1. e.k = "bin" => MaxHeight - 1 \in Heights /\ e \in BinOver(TreesUpTo[MaxHeight - 1])
  BY MaxHeightType, TreeCases
<1>2. e.k = "bin" => e \in BinOver(AllTrees)
  BY <1>1, TreesWithin DEF BinOver
<1>3. QED
  BY <1>2, MaxHeightType, TreeCases, BinNode

\* What holds of a tree when it holds of its sides holds of all trees.
LEMMA TreeInduction ==
    ASSUME NEW S,
           \A e \in AllTrees : (e.k = "bin" => e.l \in S /\ e.r \in S) => e \in S
    PROVE  \A e \in AllTrees : e \in S
<1>1. PICK H : H = {h \in Heights : TreesUpTo[h] \subseteq S}
  OBVIOUS
<1>2. 0 \in H
  <2>1. 0 \in Heights /\ ~(0 - 1 \in Heights)
    BY HeightAssumption DEF Heights
  <2>2. ASSUME NEW e \in TreesUpTo[0]
        PROVE  e \in S
    BY <2>1, TreeCases, TreesWithin
  <2>3. QED
    BY <1>1, <2>1, <2>2
<1>3. ASSUME NEW n \in Heights, n \in H, n + 1 \in Heights
      PROVE  n + 1 \in H
  <2>1. (n + 1) - 1 = n
    BY DEF Heights
  <2>2. ASSUME NEW e \in TreesUpTo[n + 1]
        PROVE  e \in S
    <3>1. e.k = "bin" => e \in BinOver(TreesUpTo[n])
      BY <1>3, <2>1, TreeCases
    <3>2. e.k = "bin" => e.l \in TreesUpTo[n] /\ e.r \in TreesUpTo[n]
      BY <3>1, BinNode
    <3>3. e \in AllTrees
      BY <1>3, TreesWithin
    <3>4. QED
      BY <1>1, <1>3, <3>2, <3>3
  <2>3. QED
    BY <1>1, <1>3, <2>2
<1>4. MaxHeight \in H
  BY <1>2, <1>3, HeightInduction, MaxHeightType
<1>5. QED
  BY <1>1, <1>4, MaxHeightType

(***************************************************************************)
(* Recursion over trees goes down: NodesOf, Operands and emit are as their *)
(* definitions ask.                                                        *)
(***************************************************************************)
Folded(B, C, f, e) == IF e.k = "bin" THEN C[[at |-> e, l |-> f[e.l], r |-> f[e.r]]] ELSE B[e]

\* f folds the trees of T: a leaf to B of it, a binary node to C of it and of
\* what its sides are folded to.
Folds(B, C, f, T) == f = [e \in T |-> Folded(B, C, f, e)]

Stays(V, B, C) == /\ \A e \in AllTrees : B[e] \in V
                  /\ \A e \in AllTrees, x \in V, y \in V : C[[at |-> e, l |-> x, r |-> y]] \in V

LEMMA TreeRecursion == \A B, C : \E f : Folds(B, C, f, AllTrees)
<1>1. TAKE B, C
<1>2. PICK S : S = {n \in Heights : \E f : Folds(B, C, f, TreesUpTo[n])}
  OBVIOUS
<1>3. 0 \in S
  <2>1. 0 \in Heights /\ ~(0 - 1 \in Heights)
    BY HeightAssumption DEF Heights
  <2>2. \A e \in TreesUpTo[0] : e.k # "bin"
    BY <2>1, TreeCases
  <2>3. PICK f : f = [e \in TreesUpTo[0] |-> B[e]]
    OBVIOUS
  <2>4. f = [e \in TreesUpTo[0] |-> Folded(B, C, f, e)]
    BY <2>2, <2>3 DEF Folded
  <2>5. QED
    BY <1>2, <2>1, <2>4 DEF Folds
<1>4. ASSUME NEW n \in Heights, n \in S, n + 1 \in Heights
      PROVE  n + 1 \in S
  <2>1. PICK f : Folds(B, C, f, TreesUpTo[n])
    BY <1>2, <1>4
  <2>2. (n + 1) - 1 = n
    BY DEF Heights
  <2>3. PICK g : g = [e \in TreesUpTo[n + 1] |-> Folded(B, C, f, e)]
    OBVIOUS
  <2>4. ASSUME NEW e \in TreesUpTo[n]
        PROVE  g[e] = f[e]
    <3>1. e \in TreesUpTo[n + 1]
      BY <1>4, <2>2, TreesGrow
    <3>2. QED
      BY <2>1, <2>3, <3>1 DEF Folds
  <2>5. ASSUME NEW e \in TreesUpTo[n + 1], e.k = "bin"
        PROVE  e.l \in TreesUpTo[n] /\ e.r \in TreesUpTo[n]
    BY <1>4, <2>2, <2>5, TreeCases, BinNode
  <2>6. ASSUME NEW e \in TreesUpTo[n + 1]
        PROVE  Folded(B, C, f, e) = Folded(B, C, g, e)
    <3>1. e.k = "bin" => g[e.l] = f[e.l] /\ g[e.r] = f[e.r]
      BY <2>4, <2>5
    <3>2. QED
      BY <3>1 DEF Folded
  <2>7. g = [e \in TreesUpTo[n + 1] |-> Folded(B, C, g, e)]
    BY <2>3, <2>6
  <2>8. QED
    BY <1>2, <1>4, <2>7 DEF Folds
<1>5. MaxHeight \in S
  BY <1>3, <1>4, HeightInduction, MaxHeightType
<1>6. QED
  BY <1>2, <1>5, MaxHeightType

LEMMA FoldStays ==
    ASSUME NEW B, NEW C, NEW f, Folds(B, C, f, AllTrees), NEW V, Stays(V, B, C)
    PROVE  \A e \in AllTrees : f[e] \in V
<1>1. PICK S : S = {e \in AllTrees : f[e] \in V}
  OBVIOUS
<1>2. ASSUME NEW e \in AllTrees, e.k = "bin" => e.l \in S /\ e.r \in S
      PROVE  e \in S
  <2>1. e.k = "bin" => f[e.l] \in V /\ f[e.r] \in V
    BY <1>1, <1>2
  <2>2. Folded(B, C, f, e) \in V
    BY <2>1 DEF Folded, Stays
  <2>3. f[e] = Folded(B, C, f, e)
    BY DEF Folds
  <2>4. QED
    BY <1>1, <2>2, <2>3
<1>3. QED
  BY <1>1, <1>2, TreeInduction

LEMMA NodesAre ==
    \A e \in AllTrees :
        NodesOf[e] = {e} \cup IF e.k = "bin" THEN NodesOf[e.l] \cup NodesOf[e.r] ELSE {}
<1>1. PICK V : V = SUBSET AllTrees
  OBVIOUS
<1>2. PICK B : B = [e \in AllTrees |-> {e}]
  OBVIOUS
<1>3. PICK C : C = [p \in [at : AllTrees, l : V, r : V] |-> {p.at} \cup p.l \cup p.r]
  OBVIOUS
<1>4. ASSUME NEW e \in AllTrees, NEW x \in V, NEW y \in V
      PROVE  C[[at |-> e, l |-> x, r |-> y]] = {e} \cup x \cup y
  BY <1>3
<1>5. \A e \in AllTrees, x \in V, y \in V : {e} \cup x \cup y \in V
  BY <1>1
<1>6. Stays(V, B, C)
  BY <1>1, <1>2, <1>4, <1>5 DEF Stays
<1>7. PICK f : Folds(B, C, f, AllTrees)
  BY TreeRecursion
<1>8. \A e \in AllTrees : f[e] \in V
  BY <1>6, <1>7, FoldStays
<1>9. ASSUME NEW e \in AllTrees
      PROVE  f[e] = {e} \cup IF e.k = "bin" THEN f[e.l] \cup f[e.r] ELSE {}
  <2>1. f[e] = Folded(B, C, f, e)
    BY <1>7 DEF Folds
  <2>2. e.k = "bin" => f[e.l] \in V /\ f[e.r] \in V
    BY <1>8, TreeNode
  <2>3. QED
    BY <1>2, <1>4, <2>1, <2>2 DEF Folded
<1>10. f = [e \in AllTrees |-> {e} \cup IF e.k = "bin" THEN f[e.l] \cup f[e.r] ELSE {}]
  BY <1>7, <1>9 DEF Folds
<1>11. PICK N : N = NodesOf
  OBVIOUS
<1>12. N = [e \in AllTrees |-> {e} \cup IF e.k = "bin" THEN N[e.l] \cup N[e.r] ELSE {}]
  BY <1>10, <1>11 DEF NodesOf
<1>13. QED
  BY <1>11, <1>12

LEMMA OperandsAre ==
    \A e \in AllTrees :
        Operands[e] = IF e.k = "bin" /\ e.op \notin BoolOperators
                      THEN Operands[e.l] \cup Operands[e.r] ELSE {e}
<1>1. PICK V : V = SUBSET AllTrees
  OBVIOUS
<1>2. PICK B : B = [e \in AllTrees |-> {e}]
  OBVIOUS
<1>3. PICK C : C = [p \in [at : AllTrees, l : V, r : V] |->
                       IF p.at.op \notin BoolOperators THEN p.l \cup p.r ELSE {p.at}]
  OBVIOUS
<1>4. ASSUME NEW e \in AllTrees, NEW x \in V, NEW y \in V
      PROVE  C[[at |-> e, l |-> x, r |-> y]] = IF e.op \notin BoolOperators THEN x \cup y ELSE {e}
  BY <1>3
<1>5. (\A e \in AllTrees : {e} \in V) /\ (\A x, y \in V : x \cup y \in V)
  BY <1>1
<1>6. Stays(V, B, C)
  <2>1. \A e \in AllTrees : B[e] \in V
    BY <1>2, <1>5
  <2>2. ASSUME NEW e \in AllTrees, NEW x \in V, NEW y \in V
        PROVE  C[[at |-> e, l |-> x, r |-> y]] \in V
    <3>1. x \cup y \in V /\ {e} \in V
      BY <1>5
    <3>2. QED
      BY <1>4, <3>1
  <2>3. QED
    BY <2>1, <2>2 DEF Stays
<1>7. PICK f : Folds(B, C, f, AllTrees)
  BY TreeRecursion
<1>8. \A e \in AllTrees : f[e] \in V
  BY <1>6, <1>7, FoldStays
<1>9. ASSUME NEW e \in AllTrees
      PROVE  f[e] = IF e.k = "bin" /\ e.op \notin BoolOperators THEN f[e.l] \cup f[e.r] ELSE {e}
  <2>1. f[e] = Folded(B, C, f, e)
    BY <1>7 DEF Folds
  <2>2. e.k = "bin" => f[e.l] \in V /\ f[e.r] \in V
    BY <1>8, TreeNode
  <2>3. QED
    BY <1>2, <1>4, <2>1, <2>2 DEF Folded
<1>10. f = [e \in AllTrees |-> IF e.k = "bin" /\ e.op \notin BoolOperators
                               THEN f[e.l] \cup f[e.r] ELSE {e}]
  BY <1>7, <1>9 DEF Folds
<1>11. PICK N : N = Operands
  OBVIOUS
<1>12. N = [e \in AllTrees |-> IF e.k = "bin" /\ e.op \notin BoolOperators
                               THEN N[e.l] \cup N[e.r] ELSE {e}]
  BY <1>10, <1>11 DEF Operands
<1>13. QED
  BY <1>11, <1>12

LLVMTypes == {<<k, b>> : k \in {"i", "fp"}, b \in {1, 8, 16, 32, 64}}

LEMMA LLVMTypeType ==
    /\ \A t : HasLLVMType(t) => get_llvm_type(t) \in LLVMTypes
    /\ \A t \in IntTypes : HasLLVMType(t) /\ get_llvm_type(t)[1] = "i"
                           /\ get_llvm_type(t) # <<"i", 1>>
    /\ \A t \in FloatTypes : HasLLVMType(t) /\ get_llvm_type(t)[1] = "fp"
    /\ get_llvm_type("Bool") = <<"i", 1>> /\ HasLLVMType("Bool")
    /\ get_llvm_type("Int32") = <<"i", 32>>
    /\ get_llvm_type("Float64") = <<"fp", 64>> /\ get_llvm_type("Float32") = <<"fp", 32>>
    /\ <<"i", 32>> \in LLVMTypes /\ <<"fp", 64>> \in LLVMTypes /\ <<"i", 1>> \in LLVMTypes
    /\ <<"fp", 32>> # <<"fp", 64>>
    /\ \A y \in LLVMTypes : y # << >>
<1>1. <<"i", 1>> \in LLVMTypes /\ <<"i", 8>> \in LLVMTypes /\ <<"i", 16>> \in LLVMTypes
      /\ <<"i", 32>> \in LLVMTypes /\ <<"i", 64>> \in LLVMTypes
      /\ <<"fp", 32>> \in LLVMTypes /\ <<"fp", 64>> \in LLVMTypes
  BY DEF LLVMTypes
<1>2. \A t \in IntTypes : /\ get_llvm_type(t) = <<"i", Width[t]>>
                          /\ Width[t] \in {8, 16, 32, 64}
  BY DEF get_llvm_type, Width, IntTypes, SignedTypes, UnsignedTypes
<1>3. get_llvm_type("Float32") = <<"fp", 32>> /\ get_llvm_type("Float64") = <<"fp", 64>>
      /\ get_llvm_type("Bool") = <<"i", 1>>
  BY DEF get_llvm_type, IntTypes, SignedTypes, UnsignedTypes
<1>4. \A t \in IntTypes : /\ get_llvm_type(t) \in LLVMTypes /\ get_llvm_type(t)[1] = "i"
                          /\ get_llvm_type(t) # <<"i", 1>>
  BY <1>1, <1>2
<1>5. get_llvm_type("Int32") = <<"i", 32>>
  BY <1>2 DEF Width, IntTypes, SignedTypes, UnsignedTypes
<1>6. \A y \in LLVMTypes : y # << >>
  BY DEF LLVMTypes
<1>7. <<"fp", 32>> # <<"fp", 64>>
  OBVIOUS
<1>8. FloatTypes = {"Float32", "Float64"}
  BY DEF FloatTypes
<1>9. QED
  BY <1>1, <1>3, <1>4, <1>5, <1>6, <1>7, <1>8 DEF HasLLVMType

Values == [st : {"ok"}, ty : LLVMTypes, const : BOOLEAN] \cup {Throws, Invalid}

Outcomes == SUBSET Values

LoweredSides(e, ls, rs) == UNION {emit_bin(e, l, r) : l \in ls, r \in rs}

\* What the node e may be lowered to, given what its sides may be lowered to.
Lowered(e, ls, rs) ==
    CASE e.k = "int"   -> {IF e.rt \in IntTypes THEN Value(get_llvm_type(e.rt), TRUE)
                                                ELSE Throws}
      [] e.k = "float" -> {Value(<<"fp", 64>>, TRUE)}
      [] e.k = "var"   -> {IF HasLLVMType(e.rt) THEN Value(get_llvm_type(e.rt), FALSE)
                                                ELSE Throws}
      [] e.k = "call"  -> {Value(<<"i", 32>>, FALSE)}
      [] e.k = "bin"   -> LoweredSides(e, ls, rs)

LEMMA ValueType ==
    /\ \A y \in LLVMTypes, c \in BOOLEAN :
           Value(y, c) \in Values /\ Value(y, c).st = "ok" /\ Value(y, c).ty = y
           /\ (Value(y, c).const <=> c)
    /\ Throws \in Values /\ Throws.st = "throws" /\ Throws.ty = << >>
    /\ Invalid \in Values /\ Invalid.st = "invalid" /\ Invalid.ty = << >>
    /\ \A v \in Values : \/ /\ v.st = "ok" /\ v.ty \in LLVMTypes /\ v.const \in BOOLEAN
                            /\ v = Value(v.ty, v.const)
                         \/ v.st # "ok" /\ v.ty = << >> /\ v \in {Throws, Invalid}
BY DEF Values, Value, Throws, Invalid

LEMMA OutcomeType ==
    /\ \A S : S \in Outcomes <=> \A v \in S : v \in Values
    /\ \A S \in Outcomes : \A v \in S : v \in Values
BY DEF Outcomes

LEMMA OperationTypeType == \A op : \A y \in LLVMTypes : OperationType(op, y) \in LLVMTypes
BY LLVMTypeType DEF OperationType

LEMMA ApplyType ==
    ASSUME NEW ops, NEW op, NEW l \in Values, NEW r \in Values, l.st # "throws", r.st # "throws"
    PROVE  \A v \in apply(ops, op, l, r) : v \in Values
<1>1. CASE op \notin ArithmeticOperators \cup BoolOperators
  BY <1>1, ValueType DEF apply
<1>2. CASE op \in ArithmeticOperators \cup BoolOperators /\ (l.st = "invalid" \/ r.st = "invalid")
  BY <1>2, ValueType DEF apply
<1>3. CASE op \in ArithmeticOperators \cup BoolOperators /\ l.st # "invalid" /\ r.st # "invalid"
  <2>1. l.ty \in LLVMTypes /\ r.ty \in LLVMTypes
    BY <1>3, ValueType
  <2>2. PICK c \in BOOLEAN : c <=> l.const /\ r.const
    OBVIOUS
  <2>3. Value(OperationType(op, l.ty), c) \in Values /\ Value(OperationType(op, l.ty), TRUE) \in Values
        /\ Value(OperationType(op, r.ty), TRUE) \in Values
    BY <2>1, ValueType, OperationTypeType
  <2>4. Value(OperationType(op, l.ty), l.const /\ r.const) = Value(OperationType(op, l.ty), c)
    BY <2>2
  <2>5. CASE l.ty = r.ty /\ l.ty[1] = ops
    <3>1. apply(ops, op, l, r) = {Value(OperationType(op, l.ty), l.const /\ r.const)}
      BY <1>3, <2>5 DEF apply
    <3>2. QED
      BY <2>3, <2>4, <3>1
  <2>6. CASE ~(l.ty = r.ty /\ l.ty[1] = ops) /\ l.const /\ r.const
    <3>1. apply(ops, op, l, r) = {Invalid} \cup {Value(OperationType(op, t), TRUE) : t \in {l.ty, r.ty}}
      BY <1>3, <2>6 DEF apply
    <3>2. \A v \in apply(ops, op, l, r) : \/ v = Invalid
                                          \/ v = Value(OperationType(op, l.ty), TRUE)
                                          \/ v = Value(OperationType(op, r.ty), TRUE)
      BY <3>1
    <3>3. QED
      BY <2>3, <3>2, ValueType
  <2>7. CASE ~(l.ty = r.ty /\ l.ty[1] = ops) /\ ~(l.const /\ r.const)
    <3>1. apply(ops, op, l, r) = {Invalid}
      BY <1>3, <2>7 DEF apply
    <3>2. QED
      BY <3>1, ValueType
  <2>8. QED
    BY <2>5, <2>6, <2>7
<1>4. QED
  BY <1>1, <1>2, <1>3

LEMMA EmitBinType ==
    ASSUME NEW e, NEW l \in Values, NEW r \in Values
    PROVE  \A v \in emit_bin(e, l, r) : v \in Values
<1>1. PICK ops : ops = build_type_operations(IF e.rt = "Bool" THEN e.ot ELSE e.rt)
  OBVIOUS
<1>2. emit_bin(e, l, r) = IF l.st = "throws" \/ r.st = "throws" \/ ops = Sentinel THEN {Throws}
                          ELSE apply(ops, e.op, l, r)
  BY <1>1 DEF emit_bin
<1>3. CASE l.st = "throws" \/ r.st = "throws" \/ ops = Sentinel
  BY <1>2, <1>3, ValueType
<1>4. CASE ~(l.st = "throws" \/ r.st = "throws" \/ ops = Sentinel)
  BY <1>2, <1>4, ApplyType
<1>5. QED
  BY <1>3, <1>4

LEMMA LoweredBin ==
    ASSUME NEW e, e.k = "bin", NEW ls, NEW rs
    PROVE  \A v : v \in Lowered(e, ls, rs) <=>
                     \E l \in ls, r \in rs : v \in emit_bin(e, l, r)
<1>1. Lowered(e, ls, rs) = LoweredSides(e, ls, rs)
  BY DEF Lowered
<1>2. \A v : v \in LoweredSides(e, ls, rs) <=> \E l \in ls, r \in rs : v \in emit_bin(e, l, r)
  BY DEF LoweredSides
<1>3. QED
  BY <1>1, <1>2

LEMMA LoweredType ==
    ASSUME NEW e \in AllTrees, NEW ls \in Outcomes, NEW rs \in Outcomes
    PROVE  Lowered(e, ls, rs) \in Outcomes
<1>1. CASE e.k = "bin"
  <2>1. ASSUME NEW v \in Lowered(e, ls, rs)
        PROVE  v \in Values
    <3>1. PICK l \in ls, r \in rs : v \in emit_bin(e, l, r)
      BY <1>1, <2>1, LoweredBin
    <3>2. QED
      BY <3>1, EmitBinType, OutcomeType
  <2>2. QED
    BY <2>1, OutcomeType
<1>2. CASE e.k # "bin"
  <2>1. e.k \in {"int", "float", "var", "call"}
    BY <1>2, TreeNode, SimpleNode
  <2>2. \A t : \A c \in BOOLEAN : HasLLVMType(t) => Value(get_llvm_type(t), c) \in Values
    BY ValueType, LLVMTypeType
  <2>3. \A t \in IntTypes : HasLLVMType(t)
    BY LLVMTypeType
  <2>4. /\ \A c \in BOOLEAN : Value(<<"i", 32>>, c) \in Values /\ Value(<<"fp", 64>>, c) \in Values
        /\ Throws \in Values
    BY ValueType, LLVMTypeType
  <2>5. CASE e.k = "int"
    <3>1. PICK w : w = IF e.rt \in IntTypes THEN Value(get_llvm_type(e.rt), TRUE) ELSE Throws
      OBVIOUS
    <3>2. Lowered(e, ls, rs) = {w}
      BY <2>5, <3>1 DEF Lowered
    <3>3. w \in Values
      BY <2>2, <2>3, <2>4, <3>1
    <3>4. QED
      BY <3>2, <3>3, OutcomeType
  <2>6. CASE e.k = "var"
    <3>1. PICK w : w = IF HasLLVMType(e.rt) THEN Value(get_llvm_type(e.rt), FALSE) ELSE Throws
      OBVIOUS
    <3>2. Lowered(e, ls, rs) = {w}
      BY <2>6, <3>1 DEF Lowered
    <3>3. w \in Values
      BY <2>2, <2>4, <3>1
    <3>4. QED
      BY <3>2, <3>3, OutcomeType
  <2>7. CASE e.k \in {"float", "call"}
    <3>1. Lowered(e, ls, rs) \in {{Value(<<"fp", 64>>, TRUE)}, {Value(<<"i", 32>>, FALSE)}}
      BY <2>7 DEF Lowered
    <3>2. QED
      BY <2>4, <3>1, OutcomeType
  <2>8. QED
    BY <2>1, <2>5, <2>6, <2>7
<1>3. QED
  BY <1>1, <1>2

LEMMA NoOutcome == {} \in Outcomes
BY DEF Outcomes

LEMMA EmitIs ==
    /\ \A e \in AllTrees : emit[e] \in Outcomes
    /\ \A e \in AllTrees : emit[e] = Lowered(e, emit[e.l], emit[e.r])
<1>1. PICK B : B = [e \in AllTrees |-> Lowered(e, {}, {})]
  OBVIOUS
<1>2. PICK C : C = [p \in [at : AllTrees, l : Outcomes, r : Outcomes] |-> Lowered(p.at, p.l, p.r)]
  OBVIOUS
<1>3. ASSUME NEW e \in AllTrees, NEW x \in Outcomes, NEW y \in Outcomes
      PROVE  C[[at |-> e, l |-> x, r |-> y]] = Lowered(e, x, y)
  BY <1>2
<1>4. Stays(Outcomes, B, C)
  <2>1. \A e \in AllTrees : B[e] \in Outcomes
    BY <1>1, NoOutcome, LoweredType
  <2>2. ASSUME NEW e \in AllTrees, NEW x \in Outcomes, NEW y \in Outcomes
        PROVE  C[[at |-> e, l |-> x, r |-> y]] \in Outcomes
    BY <1>3, LoweredType
  <2>3. QED
    BY <2>1, <2>2 DEF Stays
<1>5. PICK f : Folds(B, C, f, AllTrees)
  BY TreeRecursion
<1>6. \A e \in AllTrees : f[e] \in Outcomes
  BY <1>4, <1>5, FoldStays
<1>7. ASSUME NEW e \in AllTrees
      PROVE  f[e] = Lowered(e, f[e.l], f[e.r])
  <2>1. f[e] = Folded(B, C, f, e)
    BY <1>5 DEF Folds
  <2>2. CASE e.k = "bin"
    <3>1. f[e.l] \in Outcomes /\ f[e.r] \in Outcomes
      BY <1>6, <2>2, TreeNode
    <3>2. QED
      BY <1>3, <2>1, <2>2, <3>1 DEF Folded
  <2>3. CASE e.k # "bin"
    <3>1. e.k \in {"int", "float", "var", "call"}
      BY <2>3, TreeNode, SimpleNode
    <3>2. f[e] = Lowered(e, {}, {})
      BY <1>1, <2>1, <2>3 DEF Folded
    <3>3. QED
      BY <3>1, <3>2 DEF Lowered
  <2>4. QED
    BY <2>2, <2>3
<1>8. f = [e \in AllTrees |-> Lowered(e, f[e.l], f[e.r])]
  BY <1>5, <1>7 DEF Folds
<1>9. PICK N : N = emit
  OBVIOUS
<1>10. N = [e \in AllTrees |-> Lowered(e, N[e.l], N[e.r])]
  BY <1>8, <1>9 DEF emit, Lowered, LoweredSides
<1>11. \A e \in AllTrees : N[e] = Lowered(e, N[e.l], N[e.r])
  BY <1>10
<1>12. \A e \in AllTrees : N[e] \in Outcomes
  <2>1. PICK S : S = {e \in AllTrees : N[e] \in Outcomes}
    OBVIOUS
  <2>2. ASSUME NEW e \in AllTrees, e.k = "bin" => e.l \in S /\ e.r \in S
        PROVE  e \in S
    <3>1. CASE e.k = "bin"
      <4>1. N[e.l] \in Outcomes /\ N[e.r] \in Outcomes
        BY <2>1, <2>2, <3>1
      <4>2. QED
        BY <1>11, <2>1, <4>1, LoweredType
    <3>2. CASE e.k # "bin"
      <4>1. e.k \in {"int", "float", "var", "call"}
        BY <3>2, TreeNode, SimpleNode
      <4>2. Lowered(e, N[e.l], N[e.r]) = Lowered(e, {}, {})
        BY <4>1 DEF Lowered
      <4>3. QED
        BY <1>11, <2>1, <4>2, LoweredType, NoOutcome
    <3>3. QED
      BY <3>1, <3>2
  <2>3. QED
    BY <2>1, <2>2, TreeInduction
<1>13. QED
  BY <1>9, <1>11, <1>12

(***************************************************************************)
(* Types.                                                                  *)
(***************************************************************************)
Expected == BuiltinTypes \cup {Sentinel}

LEMMA TypesAre ==
    /\ LiteralTypes = {"IntLiteral", "FloatLiteral"} /\ FloatTypes = {"Float32", "Float64"}
    /\ IntTypes = {"Int8", "Int16", "Int32", "Int64", "UInt8", "UInt16", "UInt32", "UInt64"}
    /\ BuiltinTypes = {"Bool", "String", "Int8", "Int16", "Int32", "Int64", "UInt8", "UInt16",
                       "UInt32", "UInt64", "Float32", "Float64"}
    /\ Types = BuiltinTypes \cup LiteralTypes
    /\ Marks = BuiltinTypes \cup LiteralTypes \cup {"Sentinel"}
    /\ Expected = BuiltinTypes \cup {"Sentinel"} /\ Sentinel = "Sentinel"
BY DEF LiteralTypes, FloatTypes, IntTypes, SignedTypes, UnsignedTypes, BuiltinTypes, Types, Marks,
       Expected, Sentinel

LEMMA MarksAre ==
    /\ BuiltinTypes \cap LiteralTypes = {} /\ Sentinel \notin Types /\ Sentinel \notin BuiltinTypes
    /\ Types \subseteq Marks /\ BuiltinTypes \subseteq Expected /\ Sentinel \in Expected
    /\ BuiltinTypes \subseteq Types /\ LiteralTypes \subseteq Types
    /\ Expected \subseteq Marks /\ Sentinel \in Marks
    /\ \A t \in Types : t \notin LiteralTypes => t \in BuiltinTypes
    /\ IntTypes \cup FloatTypes \subseteq BuiltinTypes
    /\ "Int32" \in IntTypes /\ "Float64" \in FloatTypes /\ "Bool" \in BuiltinTypes
    /\ "Bool" \notin IntTypes \cup FloatTypes
    /\ IntTypes \cap FloatTypes = {}
BY TypesAre

LEMMA PromotionIs ==
    ASSUME NEW a \in Types, NEW b \in Types
    PROVE  /\ a = b /\ a \in LiteralTypes => Promotion(a, b) = a
           /\ a # b /\ a \in LiteralTypes /\ b \in LiteralTypes => Promotion(a, b) = "FloatLiteral"
           /\ a = "IntLiteral" /\ b \notin LiteralTypes =>
                  Promotion(a, b) = IF b \in IntTypes \cup FloatTypes THEN b ELSE Sentinel
           /\ b = "IntLiteral" /\ a \notin LiteralTypes =>
                  Promotion(a, b) = IF a \in IntTypes \cup FloatTypes THEN a ELSE Sentinel
           /\ a = "FloatLiteral" /\ b \notin LiteralTypes =>
                  Promotion(a, b) = IF b \in FloatTypes THEN b ELSE Sentinel
           /\ b = "FloatLiteral" /\ a \notin LiteralTypes =>
                  Promotion(a, b) = IF a \in FloatTypes THEN a ELSE Sentinel
<1>1. CASE a \in LiteralTypes /\ b \in LiteralTypes
  <2>1. a # b => {a, b} = LiteralTypes
    BY <1>1, TypesAre
  <2>2. a # b => ~(a = b /\ a \in LiteralTypes)
    OBVIOUS
  <2>3. QED
    BY <1>1, <2>1, TypesAre DEF Promotion
<1>2. CASE a \in LiteralTypes /\ b \notin LiteralTypes
  <2>1. a # b /\ {a, b} # LiteralTypes /\ b \in BuiltinTypes
    BY <1>2, TypesAre
  <2>2. QED
    BY <1>2, <2>1, TypesAre DEF Promotion
<1>3. CASE a \notin LiteralTypes /\ b \in LiteralTypes
  <2>1. a # b /\ {a, b} # LiteralTypes /\ a \in BuiltinTypes
    BY <1>3, TypesAre
  <2>2. QED
    BY <1>3, <2>1, TypesAre DEF Promotion
<1>4. CASE a \notin LiteralTypes /\ b \notin LiteralTypes
  <2>1. a # "IntLiteral" /\ a # "FloatLiteral" /\ b # "IntLiteral" /\ b # "FloatLiteral"
    BY <1>4, TypesAre
  <2>2. QED
    BY ONLY <1>4, <2>1
<1>5. QED
  BY <1>1, <1>2, <1>3, <1>4

LEMMA PromotionType ==
    ASSUME NEW a \in Types, NEW b \in Types, {a, b} \cap LiteralTypes # {}
    PROVE  /\ Promotion(a, b) \in Marks
           /\ Promotion(a, b) # Sentinel /\ Promotion(a, b) \notin LiteralTypes =>
                  Promotion(a, b) \in IntTypes \cup FloatTypes /\ Promotion(a, b) \in {a, b}
           /\ Promotion(a, b) \in LiteralTypes => a \in LiteralTypes /\ b \in LiteralTypes
<1>1. CASE a \in LiteralTypes /\ b \in LiteralTypes
  BY <1>1, PromotionIs, TypesAre
<1>2. CASE a = "IntLiteral" /\ b \notin LiteralTypes
  BY <1>2, PromotionIs, TypesAre
<1>3. CASE b = "IntLiteral" /\ a \notin LiteralTypes
  BY <1>3, PromotionIs, TypesAre
<1>4. CASE a = "FloatLiteral" /\ b \notin LiteralTypes
  BY <1>4, PromotionIs, TypesAre
<1>5. CASE b = "FloatLiteral" /\ a \notin LiteralTypes
  BY <1>5, PromotionIs, TypesAre
<1>6. a \in LiteralTypes \/ b \in LiteralTypes
  OBVIOUS
<1>7. QED
  BY <1>1, <1>2, <1>3, <1>4, <1>5, <1>6, TypesAre

LEMMA DefaultType ==
    ASSUME NEW t \in LiteralTypes
    PROVE  get_literal_default(t) \in BuiltinTypes
BY TypesAre DEF get_literal_default

(***************************************************************************)
(* The visitor.                                                            *)
(***************************************************************************)
Visited(e, t, f) == IF t = Sentinel THEN infer_expr(e, Env, f) ELSE check_expr(e, t, Env, f)

Over(X) == Simple \cup BinOver(X)

\* A result whose node is in X.
Result(P, X) == P.ok \in BOOLEAN /\ P.node \in X /\ (P.ok => P.type \in Types)

VisitsOn(f, X) == \A x \in X, t \in Expected : Result(f[x][t], X)

\* A result at a binary node with the operator o.
BinResult(P, o, X) == Result(P, BinOver(X)) /\ P.node.op = o

LEMMA OkIs ==
    \A d, t : /\ Ok(t, d).ok = TRUE /\ Ok(t, d).type = t /\ Ok(t, d).node = d
              /\ TypeError(d).ok = FALSE /\ TypeError(d).node = d
BY DEF Ok, TypeError

LEMMA WithLeft ==
    ASSUME NEW X, NEW e \in BinOver(X), NEW L, Result(L, X), NEW t \in Types, NEW P,
           P = with_left(e, L, t)
    PROVE  /\ BinResult(P, e.op, X) /\ P.ok = L.ok
           /\ P.ok => P.type = t /\ P.node.l = L.node /\ P.node.r = e.r
<1>1. PICK d : d = NewLeft(e, L.node)
  OBVIOUS
<1>2. L.node \in X /\ L.ok \in BOOLEAN
  BY DEF Result
<1>3. d \in BinOver(X) /\ d.l = L.node /\ d.r = e.r /\ d.op = e.op
  BY <1>1, <1>2, BinLeft
<1>4. P = IF L.ok THEN Ok(t, d) ELSE TypeError(e)
  BY <1>1 DEF with_left, NewLeft
<1>5. CASE L.ok
  <2>1. P.ok = TRUE /\ P.type = t /\ P.node = d
    BY <1>4, <1>5, OkIs
  <2>2. QED
    BY <1>2, <1>3, <1>5, <2>1 DEF BinResult, Result
<1>6. CASE ~L.ok
  <2>1. P.ok = FALSE /\ P.node = e
    BY <1>4, <1>6, OkIs
  <2>2. QED
    BY <1>2, <1>6, <2>1 DEF BinResult, Result
<1>7. QED
  BY <1>5, <1>6

LEMMA WithRight ==
    ASSUME NEW X, NEW e \in BinOver(X), NEW R, Result(R, X), NEW t \in Types, NEW P,
           P = with_right(e, R, t)
    PROVE  /\ BinResult(P, e.op, X) /\ P.ok = R.ok
           /\ P.ok => P.type = t /\ P.node.l = e.l /\ P.node.r = R.node
<1>1. PICK d : d = NewRight(e, R.node)
  OBVIOUS
<1>2. R.node \in X /\ R.ok \in BOOLEAN
  BY DEF Result
<1>3. d \in BinOver(X) /\ d.l = e.l /\ d.r = R.node /\ d.op = e.op
  BY <1>1, <1>2, BinRight
<1>4. P = IF R.ok THEN Ok(t, d) ELSE TypeError(e)
  BY <1>1 DEF with_right, NewRight
<1>5. CASE R.ok
  <2>1. P.ok = TRUE /\ P.type = t /\ P.node = d
    BY <1>4, <1>5, OkIs
  <2>2. QED
    BY <1>2, <1>3, <1>5, <2>1 DEF BinResult, Result
<1>6. CASE ~R.ok
  <2>1. P.ok = FALSE /\ P.node = e
    BY <1>4, <1>6, OkIs
  <2>2. QED
    BY <1>2, <1>6, <2>1 DEF BinResult, Result
<1>7. QED
  BY <1>5, <1>6

LEMMA WithBoth ==
    ASSUME NEW X, NEW e \in BinOver(X), NEW L, Result(L, X), NEW R, Result(R, X),
           NEW t \in Types, NEW P, P = with_both(e, L, R, t)
    PROVE  /\ BinResult(P, e.op, X) /\ P.ok = (L.ok /\ R.ok)
           /\ P.ok => P.type = t /\ P.node.l = L.node /\ P.node.r = R.node
<1>1. PICK d : d = NewSides(e, L.node, R.node)
  OBVIOUS
<1>2. L.node \in X /\ L.ok \in BOOLEAN /\ R.node \in X /\ R.ok \in BOOLEAN
  BY DEF Result
<1>3. d \in BinOver(X) /\ d.l = L.node /\ d.r = R.node /\ d.op = e.op
  BY <1>1, <1>2, BinBoth
<1>4. P = IF L.ok /\ R.ok THEN Ok(t, d) ELSE TypeError(e)
  BY <1>1 DEF with_both, NewSides
<1>5. CASE L.ok /\ R.ok
  <2>1. P.ok = TRUE /\ P.type = t /\ P.node = d
    BY <1>4, <1>5, OkIs
  <2>2. QED
    BY <1>2, <1>3, <1>5, <2>1 DEF BinResult, Result
<1>6. CASE ~(L.ok /\ R.ok)
  <2>1. P.ok = FALSE /\ P.node = e
    BY <1>4, <1>6, OkIs
  <2>2. QED
    BY <1>2, <1>6, <2>1 DEF BinResult, Result
<1>7. QED
  BY <1>5, <1>6

LEMMA Annotates ==
    ASSUME NEW X, NEW P, NEW o, BinResult(P, o, X), NEW t \in Types, NEW Q, Q = annotate(P, t)
    PROVE  /\ BinResult(Q, o, X) /\ Q.ok = P.ok
           /\ Q.ok => /\ Q.type = t /\ Q.node.l = P.node.l /\ Q.node.r = P.node.r
                      /\ Q.node.rt = t /\ Q.node.ot = P.type
<1>1. P.ok \in BOOLEAN /\ P.node \in BinOver(X) /\ P.node.op = o /\ (P.ok => P.type \in Types)
  BY DEF BinResult, Result
<1>2. CASE P.ok
  <2>1. PICK d : d = NewMarks(P.node, t, P.type)
    OBVIOUS
  <2>2. t \in Marks /\ P.type \in Marks
    BY <1>1, <1>2, MarksAre
  <2>3. /\ d \in BinOver(X) /\ d.l = P.node.l /\ d.r = P.node.r /\ d.op = o
        /\ d.rt = t /\ d.ot = P.type
    BY <1>1, <2>1, <2>2, BinMarks
  <2>4. Q = Ok(t, d)
    BY <1>2, <2>1 DEF annotate, NewMarks
  <2>5. Q.ok = TRUE /\ Q.type = t /\ Q.node = d
    BY <2>4, OkIs
  <2>6. QED
    BY <1>1, <1>2, <2>3, <2>5 DEF BinResult, Result
<1>3. CASE ~P.ok
  BY <1>1, <1>3 DEF annotate, NewMarks
<1>4. QED
  BY <1>2, <1>3

\* What common_type makes of the results L and R of the sides.
Pushes(P, L, R, found, f) ==
    /\ found = Sentinel => ~P.ok
    /\ found \in LiteralTypes =>
           P.ok /\ P.type = found /\ P.node.l = L.node /\ P.node.r = R.node
    /\ found \notin LiteralTypes \cup {Sentinel} /\ L.type \in LiteralTypes =>
           /\ P.ok = f[L.node][found].ok
           /\ P.ok => P.type = found /\ P.node.l = f[L.node][found].node /\ P.node.r = R.node
    /\ found \notin LiteralTypes \cup {Sentinel} /\ L.type \notin LiteralTypes =>
           /\ P.ok = f[R.node][found].ok
           /\ P.ok => P.type = found /\ P.node.l = L.node /\ P.node.r = f[R.node][found].node

Agrees(P, L, R) ==
    /\ P.ok = (L.type = R.type)
    /\ P.ok => P.type = L.type /\ P.node.l = L.node /\ P.node.r = R.node

Common(P, L, R, f) ==
    /\ P.ok => L.ok /\ R.ok
    /\ L.ok /\ R.ok /\ {L.type, R.type} \cap LiteralTypes # {} =>
           Pushes(P, L, R, Promotion(L.type, R.type), f)
    /\ L.ok /\ R.ok /\ {L.type, R.type} \cap LiteralTypes = {} => Agrees(P, L, R)

LEMMA Resolves ==
    ASSUME NEW X, NEW f, VisitsOn(f, X), NEW e \in BinOver(X), NEW a \in Types, NEW b \in Types,
           {a, b} \cap LiteralTypes # {}, NEW L, L.type = a, L.node = e.l, NEW R, R.node = e.r,
           NEW P, P = resolve_literal_pair(e, a, b, f), NEW found, found = Promotion(a, b)
    PROVE  BinResult(P, e.op, X) /\ Pushes(P, L, R, found, f)
<1>1. e.l \in X /\ e.r \in X
  BY BinNode
<1>2. found \in Marks /\ (found # Sentinel /\ found \notin LiteralTypes => found \in BuiltinTypes)
  BY PromotionType, MarksAre
<1>3. BinResult(TypeError(e), e.op, X) /\ TypeError(e).ok = FALSE
  BY OkIs DEF BinResult, Result
<1>4. CASE found = Sentinel
  <2>1. P = TypeError(e)
    BY <1>4 DEF resolve_literal_pair
  <2>2. QED
    BY <1>3, <1>4, <2>1, MarksAre DEF Pushes
<1>5. CASE found \in LiteralTypes
  <2>1. P = Ok(found, e) /\ found # Sentinel /\ found \in Types
    BY <1>5, MarksAre DEF resolve_literal_pair
  <2>2. P.ok = TRUE /\ P.type = found /\ P.node = e
    BY <2>1, OkIs
  <2>3. BinResult(P, e.op, X)
    BY <2>1, <2>2 DEF BinResult, Result
  <2>4. QED
    BY <1>5, <2>1, <2>2, <2>3 DEF Pushes
<1>6. CASE found \notin LiteralTypes \cup {Sentinel}
  <2>1. found \in BuiltinTypes /\ found \in Expected /\ found \in Types
    BY <1>2, <1>6, MarksAre
  <2>2. CASE a \in LiteralTypes
    <3>1. Result(f[e.l][found], X)
      BY <1>1, <2>1 DEF VisitsOn
    <3>2. P = with_left(e, f[e.l][found], found)
      BY <1>6, <2>2 DEF resolve_literal_pair
    <3>3. /\ BinResult(P, e.op, X) /\ P.ok = f[e.l][found].ok
          /\ P.ok => P.type = found /\ P.node.l = f[e.l][found].node /\ P.node.r = e.r
      BY <2>1, <3>1, <3>2, WithLeft
    <3>4. QED
      BY <1>6, <2>2, <3>3 DEF Pushes
  <2>3. CASE a \notin LiteralTypes
    <3>1. Result(f[e.r][found], X)
      BY <1>1, <2>1 DEF VisitsOn
    <3>2. P = with_right(e, f[e.r][found], found)
      BY <1>6, <2>3 DEF resolve_literal_pair
    <3>3. /\ BinResult(P, e.op, X) /\ P.ok = f[e.r][found].ok
          /\ P.ok => P.type = found /\ P.node.l = e.l /\ P.node.r = f[e.r][found].node
      BY <2>1, <3>1, <3>2, WithRight
    <3>4. QED
      BY <1>6, <2>3, <3>3 DEF Pushes
  <2>4. QED
    BY <2>2, <2>3
<1>7. QED
  BY <1>4, <1>5, <1>6

LEMMA CommonType ==
    ASSUME NEW X, NEW f, VisitsOn(f, X), NEW e \in BinOver(X),
           NEW L, Result(L, X), NEW R, Result(R, X), NEW P, P = common_type(e, L, R, f)
    PROVE  BinResult(P, e.op, X) /\ Common(P, L, R, f)
<1>1. L.node \in X /\ R.node \in X
  BY DEF Result
<1>2. BinResult(TypeError(e), e.op, X) /\ TypeError(e).ok = FALSE
  BY OkIs DEF BinResult, Result
<1>3. CASE ~(L.ok /\ R.ok)
  BY <1>2, <1>3 DEF common_type, Common
<1>4. CASE L.ok /\ R.ok /\ {L.type, R.type} \cap LiteralTypes # {}
  <2>1. L.type \in Types /\ R.type \in Types
    BY <1>4 DEF Result
  <2>2. PICK d : d = NewSides(e, L.node, R.node)
    OBVIOUS
  <2>3. d \in BinOver(X) /\ d.op = e.op /\ d.l = L.node /\ d.r = R.node
    BY <1>1, <2>2, BinBoth
  <2>4. P = resolve_literal_pair(d, L.type, R.type, f)
    BY <1>4, <2>2 DEF common_type, NewSides
  <2>5. BinResult(P, d.op, X) /\ Pushes(P, L, R, Promotion(L.type, R.type), f)
    BY <1>4, <2>1, <2>3, <2>4, Resolves
  <2>6. QED
    BY <1>4, <2>3, <2>5 DEF Common
<1>5. CASE L.ok /\ R.ok /\ {L.type, R.type} \cap LiteralTypes = {}
  <2>1. L.type \in Types /\ R.type \in Types
    BY <1>5 DEF Result
  <2>2. P = IF L.type = R.type THEN with_both(e, L, R, L.type) ELSE TypeError(e)
    BY <1>5 DEF common_type
  <2>3. CASE L.type = R.type
    <3>1. /\ BinResult(P, e.op, X) /\ P.ok = (L.ok /\ R.ok)
          /\ P.ok => P.type = L.type /\ P.node.l = L.node /\ P.node.r = R.node
      BY <2>1, <2>2, <2>3, WithBoth
    <3>2. QED
      BY <1>5, <2>3, <3>1 DEF Common, Agrees
  <2>4. CASE L.type # R.type
    BY <1>2, <1>5, <2>2, <2>4 DEF Common, Agrees
  <2>5. QED
    BY <2>3, <2>4
<1>6. QED
  BY <1>3, <1>4, <1>5

LEMMA ChecksBoth ==
    ASSUME NEW X, NEW f, VisitsOn(f, X), NEW e \in BinOver(X), NEW t \in BuiltinTypes,
           NEW P, P = check_both(e, t, f)
    PROVE  /\ BinResult(P, e.op, X) /\ P.ok = (f[e.l][t].ok /\ f[e.r][t].ok)
           /\ P.ok => P.type = t /\ P.node.l = f[e.l][t].node /\ P.node.r = f[e.r][t].node
<1>1. e.l \in X /\ e.r \in X /\ t \in Types /\ t \in Expected
  BY BinNode, MarksAre
<1>2. Result(f[e.l][t], X) /\ Result(f[e.r][t], X)
  BY <1>1 DEF VisitsOn
<1>3. P = with_both(e, f[e.l][t], f[e.r][t], t)
  BY DEF check_both
<1>4. QED
  BY <1>1, <1>2, <1>3, WithBoth

\* What result_type makes of an operator's sides P brought to one type.
Finishes(Q, P, o, f) ==
    /\ Q.ok => P.ok
    /\ P.ok /\ o \notin BoolOperators =>
           /\ Q.ok /\ Q.type = P.type /\ Q.node.rt = P.type /\ Q.node.ot = P.type
           /\ Q.node.l = P.node.l /\ Q.node.r = P.node.r
    /\ P.ok /\ o \in BoolOperators /\ P.type \notin LiteralTypes =>
           /\ Q.ok /\ Q.type = "Bool" /\ Q.node.rt = "Bool" /\ Q.node.ot = P.type
           /\ Q.node.l = P.node.l /\ Q.node.r = P.node.r
    /\ P.ok /\ o \in BoolOperators /\ P.type \in LiteralTypes =>
           LET t == get_literal_default(P.type)
           IN  /\ Q.ok = (f[P.node.l][t].ok /\ f[P.node.r][t].ok)
               /\ Q.ok => /\ Q.type = "Bool" /\ Q.node.rt = "Bool" /\ Q.node.ot = t
                          /\ Q.node.l = f[P.node.l][t].node /\ Q.node.r = f[P.node.r][t].node

LEMMA ResultType ==
    ASSUME NEW X, NEW f, VisitsOn(f, X), NEW o, NEW P, BinResult(P, o, X),
           NEW Q, Q = result_type(P, f)
    PROVE  BinResult(Q, o, X) /\ Finishes(Q, P, o, f)
<1>1. P.ok \in BOOLEAN /\ P.node \in BinOver(X) /\ P.node.op = o /\ (P.ok => P.type \in Types)
  BY DEF BinResult, Result
<1>2. "Bool" \in Types
  BY TypesAre
<1>3. CASE ~P.ok
  BY <1>3 DEF result_type, Finishes
<1>4. CASE P.ok /\ o \notin BoolOperators
  <2>1. Q = annotate(P, P.type)
    BY <1>1, <1>4 DEF result_type
  <2>2. QED
    BY <1>1, <1>4, <2>1, Annotates DEF Finishes
<1>5. CASE P.ok /\ o \in BoolOperators /\ P.type \notin LiteralTypes
  <2>1. Q = annotate(P, "Bool")
    BY <1>1, <1>5 DEF result_type
  <2>2. QED
    BY <1>1, <1>2, <1>5, <2>1, Annotates DEF Finishes
<1>6. CASE P.ok /\ o \in BoolOperators /\ P.type \in LiteralTypes
  <2>1. PICK t : t = get_literal_default(P.type)
    OBVIOUS
  <2>2. t \in BuiltinTypes
    BY <1>6, <2>1, DefaultType
  <2>3. PICK K : K = check_both(P.node, t, f)
    OBVIOUS
  <2>4. /\ BinResult(K, o, X) /\ K.ok = (f[P.node.l][t].ok /\ f[P.node.r][t].ok)
        /\ K.ok => K.type = t /\ K.node.l = f[P.node.l][t].node /\ K.node.r = f[P.node.r][t].node
    BY <1>1, <2>2, <2>3, ChecksBoth
  <2>5. Q = annotate(K, "Bool")
    BY <1>1, <1>6, <2>1, <2>3 DEF result_type
  <2>6. /\ BinResult(Q, o, X) /\ Q.ok = K.ok
        /\ Q.ok => /\ Q.type = "Bool" /\ Q.node.l = K.node.l /\ Q.node.r = K.node.r
                   /\ Q.node.rt = "Bool" /\ Q.node.ot = K.type
    BY <1>2, <2>4, <2>5, Annotates
  <2>7. QED
    BY <1>6, <2>1, <2>4, <2>6 DEF Finishes
<1>7. QED
  BY <1>1, <1>3, <1>4, <1>5, <1>6

(***************************************************************************)
(* Leaves.                                                                 *)
(***************************************************************************)
LeafFits(e, t) ==
    CASE e.k = "int"   -> int_is_in_range(e.v, t)
      [] e.k = "float" -> float_is_in_range(e.v, t)
      [] e.k = "var"   -> Env.vars[e.n] = t
      [] e.k = "call"  -> e.f \in Env.fns /\ t = "Int32"

\* A leaf is inferred to be a literal, or what the environment has for it.
LeafInfers(P, e) ==
    /\ e.k = "int" => P.ok /\ P.type = "IntLiteral"
    /\ e.k = "float" => P.ok /\ P.type = "FloatLiteral"
    /\ e.k = "var" => /\ (P.ok <=> Env.vars[e.n] # Sentinel)
                      /\ P.ok => P.type = Env.vars[e.n] /\ P.node.rt = Env.vars[e.n]
    /\ e.k = "call" => (P.ok <=> e.f \in Env.fns) /\ (P.ok => P.type = "Int32")

LeafChecks(P, e, t) == /\ (P.ok <=> LeafFits(e, t))
                       /\ P.ok => P.type = t /\ (e.k # "call" => P.node.rt = t)

LEMMA SameLeafItself == \A e \in Simple : SameLeaf(e, e)
BY DEF SameLeaf

LEMMA VarType == \A n \in Names : Env.vars[n] \in Expected
BY EnvAssumption DEF Expected

LEMMA LeafChecked ==
    ASSUME NEW e \in Simple, NEW t \in BuiltinTypes, NEW f, NEW P, P = Visited(e, t, f)
    PROVE  Result(P, Simple) /\ SameLeaf(P.node, e) /\ LeafChecks(P, e, t)
<1>1. e.k \in {"int", "float", "var", "call"} /\ e.k # "bin" /\ t # Sentinel /\ t \in Types
      /\ t \in Marks
  BY SimpleNode, MarksAre
<1>2. P = check_leaf(e, t, Env)
  BY <1>1 DEF Visited, check_expr
<1>3. P = IF ~LeafFits(e, t) THEN TypeError(e)
          ELSE IF e.k = "call" THEN Ok(t, e)
          ELSE Ok(t, Marked(e, t))
  BY <1>2 DEF check_leaf, LeafFits, Marked
<1>4. CASE ~LeafFits(e, t)
  <2>1. P.ok = FALSE /\ P.node = e
    BY <1>3, <1>4, OkIs
  <2>2. SameLeaf(P.node, e) /\ P.node \in Simple
    BY <2>1, SameLeafItself
  <2>3. QED
    BY <1>4, <2>1, <2>2 DEF Result, LeafChecks
<1>5. CASE LeafFits(e, t) /\ e.k = "call"
  <2>1. P.ok = TRUE /\ P.node = e /\ P.type = t
    BY <1>3, <1>5, OkIs
  <2>2. QED
    BY <1>1, <1>5, <2>1, SameLeafItself DEF Result, LeafChecks
<1>6. CASE LeafFits(e, t) /\ e.k # "call"
  <2>1. P.ok = TRUE /\ P.node = Marked(e, t) /\ P.type = t
    BY <1>3, <1>6, OkIs
  <2>2. SameLeaf(P.node, e) /\ P.node.rt = t
    BY <1>1, <1>6, <2>1, SimpleMark
  <2>3. P.node \in Simple
    BY <2>2 DEF SameLeaf
  <2>4. QED
    BY <1>1, <1>6, <2>1, <2>2, <2>3 DEF Result, LeafChecks
<1>7. QED
  BY <1>4, <1>5, <1>6

LEMMA LeafInferred ==
    ASSUME NEW e \in Simple, NEW f, NEW P, P = Visited(e, Sentinel, f)
    PROVE  Result(P, Simple) /\ SameLeaf(P.node, e) /\ LeafInfers(P, e)
<1>1. e.k \in {"int", "float", "var", "call"}
  BY SimpleNode
<1>2. P = infer_expr(e, Env, f)
  BY DEF Visited
<1>3. "IntLiteral" \in Types /\ "FloatLiteral" \in Types /\ "Int32" \in Types /\ "IntLiteral" \in Marks
  BY TypesAre
<1>4. CASE e.k = "int"
  <2>1. P = Ok("IntLiteral", Marked(e, "IntLiteral"))
    BY <1>2, <1>4 DEF infer_expr, Marked
  <2>2. P.ok = TRUE /\ P.type = "IntLiteral" /\ P.node = Marked(e, "IntLiteral")
    BY <2>1, OkIs
  <2>3. SameLeaf(P.node, e)
    BY <1>3, <1>4, <2>2, SimpleMark
  <2>4. QED
    BY <1>3, <1>4, <2>2, <2>3 DEF Result, LeafInfers, SameLeaf
<1>5. CASE e.k = "float"
  <2>1. P = Ok("FloatLiteral", e)
    BY <1>2, <1>5 DEF infer_expr
  <2>2. P.ok = TRUE /\ P.type = "FloatLiteral" /\ P.node = e
    BY <2>1, OkIs
  <2>3. QED
    BY <1>3, <1>5, <2>2, SameLeafItself DEF Result, LeafInfers
<1>6. CASE e.k = "var"
  <2>1. PICK t : t = Env.vars[e.n]
    OBVIOUS
  <2>2. t \in Expected /\ t \in Marks /\ (t # Sentinel => t \in Types)
    BY <1>6, <2>1, VarType, SimpleNode, MarksAre DEF Expected
  <2>3. P = IF t = Sentinel THEN TypeError(e) ELSE Ok(t, Marked(e, t))
    BY <1>2, <1>6, <2>1 DEF infer_expr, Marked
  <2>4. CASE t = Sentinel
    <3>1. P.ok = FALSE /\ P.node = e
      BY <2>3, <2>4, OkIs
    <3>2. QED
      BY <1>6, <2>1, <2>4, <3>1, SameLeafItself DEF Result, LeafInfers
  <2>5. CASE t # Sentinel
    <3>1. P.ok = TRUE /\ P.type = t /\ P.node = Marked(e, t)
      BY <2>3, <2>5, OkIs
    <3>2. SameLeaf(P.node, e) /\ P.node.rt = t
      BY <1>6, <2>2, <3>1, SimpleMark
    <3>3. P.node \in Simple
      BY <3>2 DEF SameLeaf
    <3>4. QED
      BY <1>6, <2>1, <2>2, <2>5, <3>1, <3>2, <3>3 DEF Result, LeafInfers
  <2>6. QED
    BY <2>4, <2>5
<1>7. CASE e.k = "call"
  <2>1. P = IF e.f \in Env.fns THEN Ok("Int32", e) ELSE TypeError(e)
    BY <1>2, <1>7 DEF infer_expr
  <2>2. P.ok \in BOOLEAN /\ (P.ok <=> e.f \in Env.fns) /\ P.node = e /\ (P.ok => P.type = "Int32")
    <3>1. CASE e.f \in Env.fns
      <4>1. P = Ok("Int32", e)
        BY <2>1, <3>1
      <4>2. P.ok = TRUE /\ P.node = e /\ P.type = "Int32"
        BY <4>1, OkIs
      <4>3. QED
        BY <3>1, <4>2
    <3>2. CASE e.f \notin Env.fns
      <4>1. P = TypeError(e)
        BY <2>1, <3>2
      <4>2. P.ok = FALSE /\ P.node = e
        BY <4>1, OkIs
      <4>3. QED
        BY <3>2, <4>2
    <3>3. QED
      BY <3>1, <3>2
  <2>3. SameLeaf(P.node, e) /\ P.node \in Simple
    BY <2>2, SameLeafItself
  <2>4. Result(P, Simple)
    BY <1>3, <2>2, <2>3 DEF Result
  <2>5. LeafInfers(P, e)
    BY <1>7, <2>2 DEF LeafInfers
  <2>6. QED
    BY <2>3, <2>4, <2>5
<1>8. QED
  BY <1>1, <1>4, <1>5, <1>6, <1>7

(***************************************************************************)
(* Operators.                                                              *)
(***************************************************************************)
Infers2(Q, e, f) == \E P : /\ Common(P, f[e.l][Sentinel], f[e.r][Sentinel], f)
                           /\ P.ok \in BOOLEAN /\ (P.ok => P.type \in Types)
                           /\ Finishes(Q, P, e.op, f)

Checks2(Q, e, t, f) ==
    /\ Q.ok = (f[e.l][t].ok /\ f[e.r][t].ok)
    /\ Q.ok => /\ Q.type = t /\ Q.node.rt = t /\ Q.node.ot = t
               /\ Q.node.l = f[e.l][t].node /\ Q.node.r = f[e.r][t].node

LEMMA BinInferred ==
    ASSUME NEW X, NEW f, VisitsOn(f, X), NEW e \in BinOver(X),
           NEW Q, Q = infer_expr_bin_expr(e, f)
    PROVE  BinResult(Q, e.op, X) /\ Infers2(Q, e, f)
<1>1. e.l \in X /\ e.r \in X /\ Sentinel \in Expected
  BY BinNode, MarksAre
<1>2. Result(f[e.l][Sentinel], X) /\ Result(f[e.r][Sentinel], X)
  BY <1>1 DEF VisitsOn
<1>3. PICK P : P = common_type(e, f[e.l][Sentinel], f[e.r][Sentinel], f)
  OBVIOUS
<1>4. BinResult(P, e.op, X) /\ Common(P, f[e.l][Sentinel], f[e.r][Sentinel], f)
  BY <1>2, <1>3, CommonType
<1>5. Q = result_type(P, f)
  BY <1>3 DEF infer_expr_bin_expr
<1>6. BinResult(Q, e.op, X) /\ Finishes(Q, P, e.op, f)
  BY <1>4, <1>5, ResultType
<1>7. P.ok \in BOOLEAN /\ (P.ok => P.type \in Types)
  BY <1>4 DEF BinResult, Result
<1>8. QED
  BY <1>4, <1>6, <1>7 DEF Infers2

LEMMA BinChecked ==
    ASSUME NEW X, NEW f, VisitsOn(f, X), NEW e \in BinOver(X), NEW t \in BuiltinTypes,
           NEW Q, Q = annotate(check_both(e, t, f), t)
    PROVE  BinResult(Q, e.op, X) /\ Checks2(Q, e, t, f)
<1>1. PICK P : P = check_both(e, t, f)
  OBVIOUS
<1>2. /\ BinResult(P, e.op, X) /\ P.ok = (f[e.l][t].ok /\ f[e.r][t].ok)
      /\ P.ok => P.type = t /\ P.node.l = f[e.l][t].node /\ P.node.r = f[e.r][t].node
  BY <1>1, ChecksBoth
<1>3. t \in Types
  BY MarksAre
<1>4. /\ BinResult(Q, e.op, X) /\ Q.ok = P.ok
      /\ Q.ok => /\ Q.type = t /\ Q.node.l = P.node.l /\ Q.node.r = P.node.r
                 /\ Q.node.rt = t /\ Q.node.ot = P.type
  BY <1>1, <1>2, <1>3, Annotates
<1>5. QED
  BY <1>2, <1>4 DEF Checks2

\* Visiting an operator: a comparison is inferred whatever is expected.
LEMMA BinVisited ==
    ASSUME NEW X, NEW f, VisitsOn(f, X), NEW e \in BinOver(X), NEW t \in Expected,
           NEW Q, Q = Visited(e, t, f)
    PROVE  /\ BinResult(Q, e.op, X)
           /\ t = Sentinel \/ e.op \in BoolOperators => Infers2(Q, e, f)
           /\ t # Sentinel /\ e.op \notin BoolOperators => Checks2(Q, e, t, f)
<1>1. e.k = "bin"
  BY BinNode
<1>2. CASE t = Sentinel \/ e.op \in BoolOperators
  <2>1. Q = infer_expr_bin_expr(e, f)
    BY <1>1, <1>2 DEF Visited, infer_expr, check_expr
  <2>2. QED
    BY <1>2, <2>1, BinInferred
<1>3. CASE t # Sentinel /\ e.op \notin BoolOperators
  <2>1. Q = annotate(check_both(e, t, f), t)
    BY <1>1, <1>3 DEF Visited, check_expr
  <2>2. t \in BuiltinTypes
    BY <1>3 DEF Expected
  <2>3. QED
    BY <1>3, <2>1, <2>2, BinChecked
<1>4. QED
  BY <1>2, <1>3

LEMMA VisitedType ==
    ASSUME NEW X, NEW f, VisitsOn(f, X), NEW e \in Over(X), NEW t \in Expected
    PROVE  Result(Visited(e, t, f), Over(X))
<1>1. CASE e \in Simple
  <2>1. Result(Visited(e, t, f), Simple)
    BY <1>1, LeafChecked, LeafInferred DEF Expected
  <2>2. QED
    BY <2>1 DEF Result, Over
<1>2. CASE e \in BinOver(X)
  <2>1. Result(Visited(e, t, f), BinOver(X))
    BY <1>2, BinVisited DEF BinResult
  <2>2. QED
    BY <2>1 DEF Result, Over
<1>3. QED
  BY <1>1, <1>2 DEF Over

(***************************************************************************)
(* The recursion of Visitor goes down, in the height: the subtrees' visits *)
(* return trees no higher, which are visited again.                        *)
(***************************************************************************)
AgreeOn(f, g, X) == \A x \in X, t \in Expected : f[x][t] = g[x][t]

LEMMA ResolveAgrees ==
    ASSUME NEW X, NEW f, NEW g, AgreeOn(f, g, X), NEW e \in BinOver(X),
           NEW a \in Types, NEW b \in Types, {a, b} \cap LiteralTypes # {}
    PROVE  resolve_literal_pair(e, a, b, f) = resolve_literal_pair(e, a, b, g)
<1>1. PICK found : found = Promotion(a, b)
  OBVIOUS
<1>2. found # Sentinel /\ found \notin LiteralTypes => found \in Expected
  BY <1>1, PromotionType, MarksAre
<1>3. e.l \in X /\ e.r \in X
  BY BinNode
<1>4. found # Sentinel /\ found \notin LiteralTypes =>
          f[e.l][found] = g[e.l][found] /\ f[e.r][found] = g[e.r][found]
  BY <1>2, <1>3 DEF AgreeOn
<1>5. CASE found = Sentinel \/ found \in LiteralTypes
  BY <1>1, <1>5 DEF resolve_literal_pair
<1>6. CASE found # Sentinel /\ found \notin LiteralTypes
  BY <1>1, <1>4, <1>6 DEF resolve_literal_pair
<1>7. QED
  BY <1>5, <1>6

LEMMA CommonAgrees ==
    ASSUME NEW X, NEW f, NEW g, AgreeOn(f, g, X), NEW e \in BinOver(X),
           NEW L, Result(L, X), NEW R, Result(R, X)
    PROVE  common_type(e, L, R, f) = common_type(e, L, R, g)
<1>1. CASE L.ok /\ R.ok /\ {L.type, R.type} \cap LiteralTypes # {}
  <2>1. L.type \in Types /\ R.type \in Types /\ L.node \in X /\ R.node \in X
    BY <1>1 DEF Result
  <2>2. PICK d : d = NewSides(e, L.node, R.node)
    OBVIOUS
  <2>3. d \in BinOver(X)
    BY <2>1, <2>2, BinBoth
  <2>4. resolve_literal_pair(d, L.type, R.type, f) = resolve_literal_pair(d, L.type, R.type, g)
    BY <1>1, <2>1, <2>3, ResolveAgrees
  <2>5. QED
    BY <1>1, <2>2, <2>4 DEF common_type, NewSides
<1>2. CASE ~(L.ok /\ R.ok /\ {L.type, R.type} \cap LiteralTypes # {})
  BY <1>2 DEF common_type
<1>3. QED
  BY <1>1, <1>2

LEMMA CheckAgrees ==
    ASSUME NEW X, NEW f, NEW g, AgreeOn(f, g, X), NEW e \in BinOver(X), NEW t \in BuiltinTypes
    PROVE  check_both(e, t, f) = check_both(e, t, g)
<1>1. e.l \in X /\ e.r \in X /\ t \in Expected
  BY BinNode, MarksAre
<1>2. f[e.l][t] = g[e.l][t] /\ f[e.r][t] = g[e.r][t]
  BY <1>1 DEF AgreeOn
<1>3. QED
  BY <1>2 DEF check_both

LEMMA ResultAgrees ==
    ASSUME NEW X, NEW f, NEW g, AgreeOn(f, g, X), NEW P, Result(P, BinOver(X))
    PROVE  result_type(P, f) = result_type(P, g)
<1>1. CASE P.ok /\ P.node.op \in BoolOperators /\ P.type \in LiteralTypes
  <2>1. PICK t : t = get_literal_default(P.type)
    OBVIOUS
  <2>2. t \in BuiltinTypes /\ P.node \in BinOver(X)
    BY <1>1, <2>1, DefaultType DEF Result
  <2>3. check_both(P.node, t, f) = check_both(P.node, t, g)
    BY <2>2, CheckAgrees
  <2>4. QED
    BY <1>1, <2>1, <2>3 DEF result_type
<1>2. CASE ~(P.ok /\ P.node.op \in BoolOperators /\ P.type \in LiteralTypes)
  BY <1>2 DEF result_type
<1>3. QED
  BY <1>1, <1>2

LEMMA InferAgrees ==
    ASSUME NEW X, NEW f, NEW g, VisitsOn(f, X), AgreeOn(f, g, X), NEW e \in BinOver(X)
    PROVE  infer_expr_bin_expr(e, f) = infer_expr_bin_expr(e, g)
<1>1. e.l \in X /\ e.r \in X /\ Sentinel \in Expected
  BY BinNode, MarksAre
<1>2. PICK L, R : L = f[e.l][Sentinel] /\ R = f[e.r][Sentinel]
  OBVIOUS
<1>3. L = g[e.l][Sentinel] /\ R = g[e.r][Sentinel]
  BY <1>1, <1>2 DEF AgreeOn
<1>4. Result(L, X) /\ Result(R, X)
  BY <1>1, <1>2 DEF VisitsOn
<1>5. PICK P : P = common_type(e, L, R, f)
  OBVIOUS
<1>6. P = common_type(e, L, R, g) /\ Result(P, BinOver(X))
  BY <1>4, <1>5, CommonAgrees, CommonType DEF BinResult
<1>7. result_type(P, f) = result_type(P, g)
  BY <1>6, ResultAgrees
<1>8. infer_expr_bin_expr(e, f) = result_type(P, f)
  BY <1>2, <1>5 DEF infer_expr_bin_expr
<1>9. infer_expr_bin_expr(e, g) = result_type(P, g)
  BY <1>3, <1>6 DEF infer_expr_bin_expr
<1>10. QED
  BY <1>7, <1>8, <1>9

LEMMA VisitedAgrees ==
    ASSUME NEW X, NEW f, NEW g, VisitsOn(f, X), AgreeOn(f, g, X), NEW e \in Over(X),
           NEW t \in Expected
    PROVE  Visited(e, t, f) = Visited(e, t, g)
<1>1. CASE e \in Simple
  <2>1. e.k \in {"int", "float", "var", "call"} /\ e.k # "bin"
    BY <1>1, SimpleNode
  <2>2. QED
    BY <2>1 DEF Visited, infer_expr, check_expr
<1>2. CASE e \in BinOver(X)
  <2>1. e.k = "bin"
    BY <1>2, BinNode
  <2>2. infer_expr_bin_expr(e, f) = infer_expr_bin_expr(e, g)
    BY <1>2, InferAgrees
  <2>3. t # Sentinel => check_both(e, t, f) = check_both(e, t, g)
    BY <1>2, CheckAgrees DEF Expected
  <2>4. QED
    BY <2>1, <2>2, <2>3 DEF Visited, infer_expr, check_expr
<1>3. QED
  BY <1>1, <1>2 DEF Over

LEMMA TreesOver ==
    ASSUME NEW n \in Heights, n + 1 \in Heights
    PROVE  TreesUpTo[n + 1] = Over(TreesUpTo[n])
<1>1. n + 1 # 0 /\ (n + 1) - 1 = n
  BY DEF Heights
<1>2. TreesUpTo[n + 1] = Simple \cup IF n + 1 = 0 THEN {} ELSE BinOver(TreesUpTo[(n + 1) - 1])
  BY TreesAre
<1>3. QED
  BY <1>1, <1>2 DEF Over

LEMMA TreesZero == 0 \in Heights /\ TreesUpTo[0] = Simple
BY TreesAre, HeightAssumption DEF Heights

Visits(f, X) == f = [e \in X |-> [t \in Expected |-> Visited(e, t, f)]]

LEMMA VisitsAt ==
    ASSUME NEW X, NEW f, Visits(f, X), NEW e \in X, NEW t \in Expected
    PROVE  f[e][t] = Visited(e, t, f)
<1>1. f[e] = [u \in Expected |-> Visited(e, u, f)]
  BY DEF Visits
<1>2. QED
  BY <1>1

LEMMA VisitsStay ==
    ASSUME NEW n \in Heights, NEW f, Visits(f, TreesUpTo[n])
    PROVE  \A h \in Heights : h <= n => VisitsOn(f, TreesUpTo[h])
<1>1. PICK S : S = {h \in Heights : h <= n => VisitsOn(f, TreesUpTo[h])}
  OBVIOUS
<1>2. \A h \in Heights : h <= n => TreesUpTo[h] \subseteq TreesUpTo[n]
  <2>1. PICK T : T = {m \in Heights : \A h \in Heights : h <= m => TreesUpTo[h] \subseteq TreesUpTo[m]}
    OBVIOUS
  <2>2. 0 \in T
    <3>1. \A h \in Heights : h <= 0 => h = 0
      BY DEF Heights
    <3>2. QED
      BY <2>1, <3>1, TreesZero
  <2>3. ASSUME NEW m \in Heights, m \in T, m + 1 \in Heights
        PROVE  m + 1 \in T
    <3>1. TreesUpTo[m] \subseteq TreesUpTo[m + 1]
      <4>1. (m + 1) - 1 = m
        BY DEF Heights
      <4>2. QED
        BY <2>3, <4>1, TreesGrow
    <3>2. \A h \in Heights : h <= m + 1 => h <= m \/ h = m + 1
      BY DEF Heights
    <3>3. QED
      BY <2>1, <2>3, <3>1, <3>2
  <2>4. n \in T
    BY <2>2, <2>3, HeightInduction
  <2>5. QED
    BY <2>1, <2>4
<1>3. 0 \in S
  <2>1. ASSUME NEW e \in Simple, NEW t \in Expected
        PROVE  Result(f[e][t], Simple)
    <3>1. 0 <= n /\ e \in TreesUpTo[n]
      BY <1>2, TreesZero DEF Heights
    <3>2. f[e][t] = Visited(e, t, f)
      BY <3>1, VisitsAt
    <3>3. QED
      BY <3>2, LeafChecked, LeafInferred DEF Expected
  <2>2. QED
    BY <1>1, <2>1, TreesZero DEF VisitsOn
<1>4. ASSUME NEW h \in Heights, h \in S, h + 1 \in Heights
      PROVE  h + 1 \in S
  <2>1. SUFFICES ASSUME h + 1 <= n
                 PROVE  VisitsOn(f, TreesUpTo[h + 1])
    BY <1>1, <1>4
  <2>2. h <= n
    BY <2>1 DEF Heights
  <2>3. VisitsOn(f, TreesUpTo[h])
    BY <1>1, <1>4, <2>2
  <2>4. ASSUME NEW e \in TreesUpTo[h + 1], NEW t \in Expected
        PROVE  Result(f[e][t], TreesUpTo[h + 1])
    <3>1. e \in TreesUpTo[n] /\ e \in Over(TreesUpTo[h])
      BY <1>2, <1>4, <2>1, TreesOver
    <3>2. f[e][t] = Visited(e, t, f)
      BY <3>1, VisitsAt
    <3>3. Result(Visited(e, t, f), Over(TreesUpTo[h]))
      BY <2>3, <3>1, VisitedType
    <3>4. QED
      BY <1>4, <3>2, <3>3, TreesOver
  <2>5. QED
    BY <2>4 DEF VisitsOn
<1>5. \A h \in Heights : h \in S
  BY <1>3, <1>4, HeightInduction
<1>6. QED
  BY <1>1, <1>5

LEMMA VisitorExists == \E f : Visits(f, AllTrees)
<1>1. PICK S : S = {n \in Heights : \E f : Visits(f, TreesUpTo[n])}
  OBVIOUS
<1>2. 0 \in S
  <2>1. PICK f : f = [e \in Simple |-> [t \in Expected |-> Visited(e, t, 0)]]
    OBVIOUS
  <2>2. ASSUME NEW e \in Simple, NEW t \in Expected
        PROVE  Visited(e, t, 0) = Visited(e, t, f)
    <3>1. e.k \in {"int", "float", "var", "call"} /\ e.k # "bin"
      BY SimpleNode
    <3>2. QED
      BY <3>1 DEF Visited, infer_expr, check_expr
  <2>3. f = [e \in Simple |-> [t \in Expected |-> Visited(e, t, f)]]
    BY <2>1, <2>2
  <2>4. Visits(f, TreesUpTo[0])
    BY <2>3, TreesZero DEF Visits
  <2>5. QED
    BY <1>1, <2>4, TreesZero
<1>3. ASSUME NEW n \in Heights, n \in S, n + 1 \in Heights
      PROVE  n + 1 \in S
  <2>1. PICK f : Visits(f, TreesUpTo[n])
    BY <1>1, <1>3
  <2>2. VisitsOn(f, TreesUpTo[n])
    <3>1. n <= n
      BY DEF Heights
    <3>2. QED
      BY <2>1, <3>1, VisitsStay
  <2>3. PICK X : X = TreesUpTo[n]
    OBVIOUS
  <2>4. PICK g : g = [e \in Over(X) |-> [t \in Expected |-> Visited(e, t, f)]]
    OBVIOUS
  <2>5. X \subseteq Over(X)
    <3>1. (n + 1) - 1 = n
      BY DEF Heights
    <3>2. QED
      BY <1>3, <2>3, <3>1, TreesGrow, TreesOver
  <2>6. ASSUME NEW e \in Over(X), NEW t \in Expected
        PROVE  g[e][t] = Visited(e, t, f)
    <3>1. g[e] = [u \in Expected |-> Visited(e, u, f)]
      BY <2>4
    <3>2. QED
      BY <3>1
  <2>7. AgreeOn(f, g, X)
    <3>1. ASSUME NEW e \in X, NEW t \in Expected
          PROVE  f[e][t] = g[e][t]
      <4>1. f[e][t] = Visited(e, t, f)
        BY <2>1, <2>3, VisitsAt
      <4>2. QED
        BY <2>5, <2>6, <4>1
    <3>2. QED
      BY <3>1 DEF AgreeOn
  <2>8. ASSUME NEW e \in Over(X), NEW t \in Expected
        PROVE  Visited(e, t, f) = Visited(e, t, g)
    BY <2>2, <2>3, <2>7, VisitedAgrees
  <2>9. g = [e \in Over(X) |-> [t \in Expected |-> Visited(e, t, g)]]
    BY <2>4, <2>8
  <2>10. Visits(g, TreesUpTo[n + 1])
    BY <1>3, <2>3, <2>9, TreesOver DEF Visits
  <2>11. QED
    BY <1>1, <1>3, <2>10
<1>4. MaxHeight \in S
  BY <1>2, <1>3, HeightInduction, MaxHeightType
<1>5. QED
  BY <1>1, <1>4, MaxHeightType

V == Visitor(Env)

LEMMA VisitorIs ==
    /\ \A e \in AllTrees, t \in Expected : V[e][t] = Visited(e, t, V)
    /\ \A h \in Heights : VisitsOn(V, TreesUpTo[h])
<1>1. PICK f : f = V
  OBVIOUS
<1>2. f = CHOOSE g : Visits(g, AllTrees)
  BY <1>1 DEF V, Visitor, Visits, Visited, Expected
<1>3. Visits(f, AllTrees)
  BY <1>2, VisitorExists
<1>4. \A e \in AllTrees, t \in Expected : f[e][t] = Visited(e, t, f)
  BY <1>3, VisitsAt
<1>5. ASSUME NEW h \in Heights
      PROVE  VisitsOn(f, TreesUpTo[h])
  <2>1. h <= MaxHeight
    BY DEF Heights
  <2>2. QED
    BY <1>3, <2>1, VisitsStay, MaxHeightType
<1>6. QED
  BY <1>1, <1>4, <1>5

(***************************************************************************)
(* What visiting a tree leaves as it is.                                   *)
(***************************************************************************)
Kinds(e) == {o.k : o \in Operands[e]}

\* The kinds of the operands that are not constants.
Computed(e) == {k \in Kinds(e) : \E o \in Operands[e] : o.k = k /\ ~IsConstant(o)}

AllFit(e, t) == \A l \in Leaves(e) : LeafFits(l, t)

HasFloat(e)    == \E l \in Leaves(e) : l.k = "float"
HasInt(e)      == \E l \in Leaves(e) : l.k = "int"

LEMMA LeavesAre ==
    ASSUME NEW e \in AllTrees
    PROVE  /\ e.k # "bin" => Leaves(e) = {e}
           /\ e.k = "bin" => Leaves(e) = Leaves(e.l) \cup Leaves(e.r)
<1>1. NodesOf[e] = {e} \cup IF e.k = "bin" THEN NodesOf[e.l] \cup NodesOf[e.r] ELSE {}
  BY NodesAre
<1>2. QED
  BY <1>1 DEF Leaves

LEMMA OpsAre ==
    ASSUME NEW e \in AllTrees
    PROVE  /\ e.k # "bin" => Ops(e) = {}
           /\ e.k = "bin" => Ops(e) = {e.op} \cup Ops(e.l) \cup Ops(e.r)
<1>1. NodesOf[e] = {e} \cup IF e.k = "bin" THEN NodesOf[e.l] \cup NodesOf[e.r] ELSE {}
  BY NodesAre
<1>2. CASE e.k # "bin"
  BY <1>1, <1>2 DEF Ops
<1>3. CASE e.k = "bin"
  <2>1. \A o : o \in Ops(e) <=> \E n \in NodesOf[e] : n.k = "bin" /\ o = n.op
    BY DEF Ops
  <2>2. \A o : o \in Ops(e.l) <=> \E n \in NodesOf[e.l] : n.k = "bin" /\ o = n.op
    BY DEF Ops
  <2>3. \A o : o \in Ops(e.r) <=> \E n \in NodesOf[e.r] : n.k = "bin" /\ o = n.op
    BY DEF Ops
  <2>4. NodesOf[e] = {e} \cup NodesOf[e.l] \cup NodesOf[e.r]
    BY <1>1, <1>3
  <2>5. \A o : o \in Ops(e) <=> o = e.op \/ o \in Ops(e.l) \/ o \in Ops(e.r)
    BY ONLY <1>3, <2>1, <2>2, <2>3, <2>4
  <2>6. QED
    BY <1>3, <2>5
<1>4. QED
  BY <1>2, <1>3

LEMMA KindsAre ==
    ASSUME NEW e \in AllTrees
    PROVE  /\ e.k # "bin" \/ e.op \in BoolOperators =>
                  Kinds(e) = {e.k} /\ Computed(e) = IF IsConstant(e) THEN {} ELSE {e.k}
           /\ e.k = "bin" /\ e.op \notin BoolOperators =>
                  /\ Kinds(e) = Kinds(e.l) \cup Kinds(e.r)
                  /\ Computed(e) = Computed(e.l) \cup Computed(e.r)
<1>1. CASE e.k # "bin" \/ e.op \in BoolOperators
  <2>1. Operands[e] = {e}
    BY <1>1, OperandsAre
  <2>2. Kinds(e) = {e.k}
    BY <2>1 DEF Kinds
  <2>3. Computed(e) = IF IsConstant(e) THEN {} ELSE {e.k}
    BY <2>1, <2>2 DEF Computed
  <2>4. QED
    BY <1>1, <2>2, <2>3
<1>2. CASE e.k = "bin" /\ e.op \notin BoolOperators
  <2>1. Operands[e] = Operands[e.l] \cup Operands[e.r]
    BY <1>2, OperandsAre
  <2>2. \A k : k \in Kinds(e) <=> k \in Kinds(e.l) \/ k \in Kinds(e.r)
    BY ONLY <2>1 DEF Kinds
  <2>3. \A d, k : k \in Computed(d) <=> \E o \in Operands[d] : o.k = k /\ ~IsConstant(o)
    BY DEF Computed, Kinds
  <2>4. \A k : k \in Computed(e) <=> k \in Computed(e.l) \/ k \in Computed(e.r)
    BY ONLY <2>1, <2>3
  <2>5. QED
    BY <1>2, <2>2, <2>4
<1>3. QED
  BY <1>1, <1>2

Same(d, e) ==
    /\ d.k = e.k /\ (e.k = "bin" => d.op = e.op)
    /\ Ops(d) = Ops(e) /\ Kinds(d) = Kinds(e)
    /\ Computed(d) = Computed(e) /\ (IsConstant(d) <=> IsConstant(e))
    /\ \A t \in BuiltinTypes : AllFit(d, t) <=> AllFit(e, t)

LEMMA SameTrans ==
    ASSUME NEW a, NEW b, NEW c, Same(a, b), Same(b, c)
    PROVE  Same(a, c)
BY DEF Same

LEMMA SimpleIs ==
    ASSUME NEW e \in Simple
    PROVE  /\ e \in AllTrees /\ e.k # "bin" /\ e.k \in {"int", "float", "var", "call"}
           /\ Leaves(e) = {e} /\ Ops(e) = {} /\ Kinds(e) = {e.k}
           /\ Computed(e) = IF IsConstant(e) THEN {} ELSE {e.k}
           /\ IsConstant(e) <=> e.k \in {"int", "float"}
<1>1. e \in AllTrees
  BY SimpleTree, MaxHeightType
<1>2. e.k # "bin" /\ e.k \in {"int", "float", "var", "call"}
  BY SimpleNode
<1>3. Leaves(e) = {e} /\ Ops(e) = {}
  BY <1>1, <1>2, LeavesAre, OpsAre
<1>4. IsConstant(e) <=> e.k \in {"int", "float"}
  BY <1>3 DEF IsConstant
<1>5. QED
  BY <1>1, <1>2, <1>3, <1>4, KindsAre

LEMMA BinIs ==
    ASSUME NEW e \in BinOver(AllTrees), e \in AllTrees
    PROVE  /\ e.k = "bin" /\ e.op \in Operators /\ e.l \in AllTrees /\ e.r \in AllTrees
           /\ Leaves(e) = Leaves(e.l) \cup Leaves(e.r)
           /\ Ops(e) = {e.op} \cup Ops(e.l) \cup Ops(e.r)
           /\ IsConstant(e) <=> IsConstant(e.l) /\ IsConstant(e.r)
           /\ e.op \in BoolOperators =>
                  Kinds(e) = {"bin"} /\ Computed(e) = IF IsConstant(e) THEN {} ELSE {"bin"}
           /\ e.op \notin BoolOperators =>
                  /\ Kinds(e) = Kinds(e.l) \cup Kinds(e.r)
                  /\ Computed(e) = Computed(e.l) \cup Computed(e.r)
<1>1. e.k = "bin" /\ e.op \in Operators /\ e.l \in AllTrees /\ e.r \in AllTrees
  BY BinNode
<1>2. Leaves(e) = Leaves(e.l) \cup Leaves(e.r)
  BY <1>1, LeavesAre
<1>3. Ops(e) = {e.op} \cup Ops(e.l) \cup Ops(e.r)
  BY <1>1, OpsAre
<1>4. IsConstant(e) <=> IsConstant(e.l) /\ IsConstant(e.r)
  BY <1>2 DEF IsConstant
<1>5. QED
  BY <1>1, <1>2, <1>3, <1>4, KindsAre

LEMMA SameLeaves ==
    ASSUME NEW d \in Simple, NEW e \in Simple, SameLeaf(d, e)
    PROVE  Same(d, e)
<1>1. /\ d.k = e.k /\ Ops(d) = Ops(e) /\ Kinds(d) = Kinds(e) /\ e.k # "bin"
      /\ Computed(d) = Computed(e) /\ (IsConstant(d) <=> IsConstant(e))
  BY SimpleIs DEF SameLeaf
<1>2. Leaves(d) = {d} /\ Leaves(e) = {e}
  BY SimpleIs
<1>3. e.k \in {"int", "float", "var", "call"}
  BY SimpleIs
<1>4. \A t \in BuiltinTypes : LeafFits(d, t) <=> LeafFits(e, t)
  BY <1>3 DEF SameLeaf, LeafFits
<1>5. \A t \in BuiltinTypes : AllFit(d, t) <=> AllFit(e, t)
  BY <1>2, <1>4 DEF AllFit
<1>6. QED
  BY <1>1, <1>5 DEF Same

LEMMA SameSides ==
    ASSUME NEW d \in BinOver(AllTrees), d \in AllTrees, NEW e \in BinOver(AllTrees), e \in AllTrees,
           d.op = e.op, Same(d.l, e.l), Same(d.r, e.r)
    PROVE  Same(d, e)
<1>1. d.k = e.k
  BY BinIs
<1>2. /\ Ops(d) = Ops(e) /\ Kinds(d) = Kinds(e) /\ Computed(d) = Computed(e)
      /\ IsConstant(d) <=> IsConstant(e)
  <2>1. /\ Ops(d.l) = Ops(e.l) /\ Ops(d.r) = Ops(e.r) /\ Kinds(d.l) = Kinds(e.l) /\ Kinds(d.r) = Kinds(e.r)
        /\ Computed(d.l) = Computed(e.l) /\ Computed(d.r) = Computed(e.r)
        /\ (IsConstant(d.l) <=> IsConstant(e.l)) /\ (IsConstant(d.r) <=> IsConstant(e.r))
    BY DEF Same
  <2>2. IsConstant(d) <=> IsConstant(e)
    BY <2>1, BinIs
  <2>3. QED
    BY <2>1, <2>2, BinIs
<1>3. ASSUME NEW t \in BuiltinTypes
      PROVE  AllFit(d, t) <=> AllFit(e, t)
  <2>1. AllFit(d, t) <=> AllFit(d.l, t) /\ AllFit(d.r, t)
    BY BinIs DEF AllFit
  <2>2. AllFit(e, t) <=> AllFit(e.l, t) /\ AllFit(e.r, t)
    BY BinIs DEF AllFit
  <2>3. QED
    BY <2>1, <2>2 DEF Same
<1>4. QED
  BY <1>1, <1>2, <1>3 DEF Same

Keeps(e) == \A t \in Expected : V[e][t].ok => Same(V[e][t].node, e)

\* Both sides are visited, perhaps again with what was found.
LEMMA InferKeeps ==
    ASSUME NEW X, VisitsOn(V, X), \A x \in X : Keeps(x), NEW e \in BinOver(X), NEW Q,
           Infers2(Q, e, V), Q.ok
    PROVE  Same(Q.node.l, e.l) /\ Same(Q.node.r, e.r)
<1>1. PICK L, R : L = V[e.l][Sentinel] /\ R = V[e.r][Sentinel]
  OBVIOUS
<1>2. PICK P : /\ Common(P, L, R, V) /\ Finishes(Q, P, e.op, V)
               /\ P.ok \in BOOLEAN /\ (P.ok => P.type \in Types)
  BY <1>1 DEF Infers2
<1>3. P.ok
  BY <1>2 DEF Finishes
<1>4. L.ok /\ R.ok
  BY <1>2, <1>3 DEF Common
<1>5. e.l \in X /\ e.r \in X /\ Sentinel \in Expected
  BY BinNode, MarksAre
<1>6. Result(L, X) /\ Result(R, X)
  BY <1>1, <1>5 DEF VisitsOn
<1>7. /\ L.node \in X /\ R.node \in X /\ L.type \in Types /\ R.type \in Types
      /\ Same(L.node, e.l) /\ Same(R.node, e.r)
  BY <1>1, <1>4, <1>5, <1>6 DEF Result, Keeps
<1>8. ASSUME NEW x \in X, NEW t \in Expected, V[x][t].ok
      PROVE  V[x][t].node \in X /\ Same(V[x][t].node, x)
  BY <1>8 DEF Keeps, VisitsOn, Result
<1>9. /\ P.node.l \in X /\ P.node.r \in X /\ Same(P.node.l, e.l) /\ Same(P.node.r, e.r)
  <2>1. CASE {L.type, R.type} \cap LiteralTypes = {}
    <3>1. P.node.l = L.node /\ P.node.r = R.node
      BY <1>2, <1>3, <1>4, <2>1 DEF Common, Agrees
    <3>2. QED
      BY <1>7, <3>1
  <2>2. CASE {L.type, R.type} \cap LiteralTypes # {}
    <3>1. PICK found : found = Promotion(L.type, R.type)
      OBVIOUS
    <3>2. Pushes(P, L, R, found, V)
      BY <1>2, <1>3, <1>4, <2>2, <3>1 DEF Common
    <3>3. found # Sentinel
      BY <1>3, <3>2 DEF Pushes
    <3>4. CASE found \in LiteralTypes
      <4>1. P.node.l = L.node /\ P.node.r = R.node
        BY <3>2, <3>4 DEF Pushes
      <4>2. QED
        BY <1>7, <4>1
    <3>5. CASE found \notin LiteralTypes /\ L.type \in LiteralTypes
      <4>1. found \in Expected
        BY <1>7, <2>2, <3>1, <3>3, <3>5, PromotionType, MarksAre
      <4>2. V[L.node][found].ok /\ P.node.l = V[L.node][found].node /\ P.node.r = R.node
        BY <1>3, <3>2, <3>3, <3>5 DEF Pushes
      <4>3. P.node.l \in X /\ Same(P.node.l, L.node)
        BY <1>7, <1>8, <4>1, <4>2
      <4>4. QED
        BY <1>7, <4>2, <4>3, SameTrans
    <3>6. CASE found \notin LiteralTypes /\ L.type \notin LiteralTypes
      <4>1. found \in Expected
        BY <1>7, <2>2, <3>1, <3>3, <3>6, PromotionType, MarksAre
      <4>2. V[R.node][found].ok /\ P.node.r = V[R.node][found].node /\ P.node.l = L.node
        BY <1>3, <3>2, <3>3, <3>6 DEF Pushes
      <4>3. P.node.r \in X /\ Same(P.node.r, R.node)
        BY <1>7, <1>8, <4>1, <4>2
      <4>4. QED
        BY <1>7, <4>2, <4>3, SameTrans
    <3>7. QED
      BY <3>4, <3>5, <3>6
  <2>3. QED
    BY <2>1, <2>2
<1>10. CASE e.op \notin BoolOperators \/ P.type \notin LiteralTypes
  <2>1. Q.node.l = P.node.l /\ Q.node.r = P.node.r
    BY <1>2, <1>3, <1>10 DEF Finishes
  <2>2. QED
    BY <1>9, <2>1
<1>11. CASE e.op \in BoolOperators /\ P.type \in LiteralTypes
  <2>1. PICK t : t = get_literal_default(P.type)
    OBVIOUS
  <2>2. t \in Expected
    BY <1>11, <2>1, DefaultType, MarksAre
  <2>3. /\ V[P.node.l][t].ok /\ Q.node.l = V[P.node.l][t].node
        /\ V[P.node.r][t].ok /\ Q.node.r = V[P.node.r][t].node
    BY <1>2, <1>3, <1>11, <2>1 DEF Finishes
  <2>4. Same(Q.node.l, P.node.l) /\ Same(Q.node.r, P.node.r)
    BY <1>8, <1>9, <2>2, <2>3
  <2>5. QED
    BY <1>9, <2>4, SameTrans
<1>12. QED
  BY <1>10, <1>11

LEMMA VisitKeeps == \A e \in AllTrees : Keeps(e)
<1>1. PICK S : S = {h \in Heights : \A e \in TreesUpTo[h] : Keeps(e)}
  OBVIOUS
<1>2. ASSUME NEW e \in Simple
      PROVE  Keeps(e)
  <2>1. ASSUME NEW t \in Expected
        PROVE  Same(V[e][t].node, e)
    <3>1. PICK P : P = Visited(e, t, V)
      OBVIOUS
    <3>2. P.node \in Simple /\ SameLeaf(P.node, e)
      BY <3>1, LeafChecked, LeafInferred DEF Expected, Result
    <3>3. V[e][t] = P
      BY <3>1, VisitorIs, SimpleIs
    <3>4. QED
      BY <3>2, <3>3, SameLeaves
  <2>2. QED
    BY <2>1 DEF Keeps
<1>3. 0 \in S
  BY <1>1, <1>2, TreesZero
<1>4. ASSUME NEW h \in Heights, h \in S, h + 1 \in Heights
      PROVE  h + 1 \in S
  <2>1. PICK X : X = TreesUpTo[h]
    OBVIOUS
  <2>2. VisitsOn(V, X) /\ X \subseteq AllTrees /\ (\A x \in X : Keeps(x))
    BY <1>1, <1>4, <2>1, VisitorIs, TreesWithin
  <2>3. ASSUME NEW e \in BinOver(X), NEW t \in Expected, V[e][t].ok, e \in TreesUpTo[h + 1]
        PROVE  Same(V[e][t].node, e)
    <3>1. e \in AllTrees
      BY <1>4, <2>3, TreesWithin
    <3>2. PICK Q : Q = V[e][t]
      OBVIOUS
    <3>3. Q = Visited(e, t, V)
      BY <3>1, <3>2, VisitorIs
    <3>4. /\ BinResult(Q, e.op, X)
          /\ t = Sentinel \/ e.op \in BoolOperators => Infers2(Q, e, V)
          /\ t # Sentinel /\ e.op \notin BoolOperators => Checks2(Q, e, t, V)
      BY <2>2, <3>3, BinVisited
    <3>5. Same(Q.node.l, e.l) /\ Same(Q.node.r, e.r)
      <4>1. CASE t = Sentinel \/ e.op \in BoolOperators
        BY <2>2, <2>3, <3>2, <3>4, <4>1, InferKeeps
      <4>2. CASE t # Sentinel /\ e.op \notin BoolOperators
        <5>1. /\ V[e.l][t].ok /\ Q.node.l = V[e.l][t].node
              /\ V[e.r][t].ok /\ Q.node.r = V[e.r][t].node
          BY <2>3, <3>2, <3>4, <4>2 DEF Checks2
        <5>2. e.l \in X /\ e.r \in X
          BY BinNode
        <5>3. QED
          BY <2>2, <5>1, <5>2 DEF Keeps
      <4>3. QED
        BY <4>1, <4>2
    <3>6. Q.node \in BinOver(X) /\ Q.node.op = e.op
      BY <3>4 DEF BinResult, Result
    <3>7. Q.node \in AllTrees
      BY <1>4, <2>1, <3>6, TreesOver, TreesWithin DEF Over
    <3>8. e \in BinOver(AllTrees) /\ Q.node \in BinOver(AllTrees)
      BY <2>2, <3>6 DEF BinOver
    <3>9. QED
      BY <3>1, <3>2, <3>5, <3>6, <3>7, <3>8, SameSides
  <2>4. ASSUME NEW e \in TreesUpTo[h + 1]
        PROVE  Keeps(e)
    <3>1. e \in Simple \/ e \in BinOver(X)
      BY <1>4, <2>1, TreesOver DEF Over
    <3>2. QED
      BY <1>2, <2>3, <3>1 DEF Keeps
  <2>5. QED
    BY <1>1, <1>4, <2>4
<1>5. MaxHeight \in S
  BY <1>3, <1>4, HeightInduction, MaxHeightType
<1>6. QED
  BY <1>1, <1>5, MaxHeightType

(***************************************************************************)
(* Visiting, node by node.                                                 *)
(***************************************************************************)
LEMMA VisitAll ==
    ASSUME NEW e \in AllTrees, NEW t \in Expected
    PROVE  /\ V[e][t].ok \in BOOLEAN /\ V[e][t].node \in AllTrees
           /\ V[e][t].ok => V[e][t].type \in Types /\ Same(V[e][t].node, e)
<1>1. VisitsOn(V, AllTrees)
  BY VisitorIs, MaxHeightType
<1>2. Result(V[e][t], AllTrees)
  BY <1>1 DEF VisitsOn
<1>3. QED
  BY <1>2, VisitKeeps DEF Result, Keeps

LEMMA VisitLeaf ==
    ASSUME NEW e \in AllTrees, e.k # "bin", NEW t \in Expected
    PROVE  /\ V[e][t].node \in Simple /\ SameLeaf(V[e][t].node, e)
           /\ t = Sentinel => LeafInfers(V[e][t], e)
           /\ t # Sentinel => LeafChecks(V[e][t], e, t)
<1>1. e \in Simple
  BY TreeNode
<1>2. PICK P : P = V[e][t]
  OBVIOUS
<1>3. P = Visited(e, t, V)
  BY <1>2, VisitorIs
<1>4. CASE t = Sentinel
  <2>1. Result(P, Simple) /\ SameLeaf(P.node, e) /\ LeafInfers(P, e)
    BY <1>1, <1>3, <1>4, LeafInferred
  <2>2. QED
    BY <1>2, <1>4, <2>1 DEF Result
<1>5. CASE t # Sentinel
  <2>1. t \in BuiltinTypes
    BY <1>5 DEF Expected
  <2>2. Result(P, Simple) /\ SameLeaf(P.node, e) /\ LeafChecks(P, e, t)
    BY <1>1, <1>3, <2>1, LeafChecked
  <2>3. QED
    BY <1>2, <1>5, <2>2 DEF Result
<1>6. QED
  BY <1>4, <1>5

LEMMA VisitBin ==
    ASSUME NEW e \in AllTrees, e.k = "bin", NEW t \in Expected
    PROVE  /\ V[e][t].node \in BinOver(AllTrees) /\ V[e][t].node \in AllTrees
           /\ V[e][t].node.k = "bin" /\ V[e][t].node.op = e.op
           /\ t = Sentinel \/ e.op \in BoolOperators => Infers2(V[e][t], e, V)
           /\ t # Sentinel /\ e.op \notin BoolOperators => Checks2(V[e][t], e, t, V)
<1>1. VisitsOn(V, AllTrees) /\ e \in BinOver(AllTrees)
  BY VisitorIs, MaxHeightType, TreeNode
<1>2. PICK Q : Q = V[e][t]
  OBVIOUS
<1>3. Q = Visited(e, t, V)
  BY <1>2, VisitorIs
<1>4. /\ BinResult(Q, e.op, AllTrees)
      /\ t = Sentinel \/ e.op \in BoolOperators => Infers2(Q, e, V)
      /\ t # Sentinel /\ e.op \notin BoolOperators => Checks2(Q, e, t, V)
  BY <1>1, <1>3, BinVisited
<1>5. Q.node \in BinOver(AllTrees) /\ Q.node.op = e.op /\ Q.node.k = "bin"
  BY <1>4, BinNode DEF BinResult, Result
<1>6. QED
  BY <1>2, <1>4, <1>5, VisitAll

LEMMA BinTrees ==
    ASSUME NEW e \in AllTrees, e.k = "bin"
    PROVE  /\ e.op \in Operators /\ e.l \in AllTrees /\ e.r \in AllTrees
           /\ \A t : AllFit(e, t) <=> AllFit(e.l, t) /\ AllFit(e.r, t)
           /\ IsConstant(e) <=> IsConstant(e.l) /\ IsConstant(e.r)
           /\ HasFloat(e) <=> HasFloat(e.l) \/ HasFloat(e.r)
           /\ HasInt(e) <=> HasInt(e.l) \/ HasInt(e.r)
           /\ Arithmetic(e) <=> e.op \notin BoolOperators /\ Arithmetic(e.l) /\ Arithmetic(e.r)
           /\ "!=" \in Ops(e) <=> e.op = "!=" \/ "!=" \in Ops(e.l) \/ "!=" \in Ops(e.r)
<1>1. e \in BinOver(AllTrees)
  BY TreeNode
<1>2. Leaves(e) = Leaves(e.l) \cup Leaves(e.r) /\ Ops(e) = {e.op} \cup Ops(e.l) \cup Ops(e.r)
      /\ e.op \in Operators /\ e.l \in AllTrees /\ e.r \in AllTrees
  BY <1>1, BinIs
<1>3. Arithmetic(e) <=> e.op \notin BoolOperators /\ Arithmetic(e.l) /\ Arithmetic(e.r)
  BY <1>2 DEF Arithmetic
<1>4. \A t : AllFit(e, t) <=> AllFit(e.l, t) /\ AllFit(e.r, t)
  BY <1>2 DEF AllFit
<1>5. IsConstant(e) <=> IsConstant(e.l) /\ IsConstant(e.r)
  BY <1>2 DEF IsConstant
<1>6. HasFloat(e) <=> HasFloat(e.l) \/ HasFloat(e.r)
  BY <1>2 DEF HasFloat
<1>7. HasInt(e) <=> HasInt(e.l) \/ HasInt(e.r)
  BY <1>2 DEF HasInt
<1>8. QED
  BY <1>2, <1>3, <1>4, <1>5, <1>6, <1>7

LEMMA LeafTrees ==
    ASSUME NEW e \in AllTrees, e.k # "bin"
    PROVE  /\ e \in Simple /\ e.k \in {"int", "float", "var", "call"}
           /\ \A t : AllFit(e, t) <=> LeafFits(e, t)
           /\ IsConstant(e) <=> e.k \in {"int", "float"}
           /\ HasFloat(e) <=> e.k = "float"
           /\ HasInt(e) <=> e.k = "int"
           /\ Arithmetic(e)
<1>1. e \in Simple
  BY TreeNode
<1>2. Leaves(e) = {e} /\ Ops(e) = {} /\ e.k \in {"int", "float", "var", "call"}
  BY <1>1, SimpleIs
<1>3. QED
  BY <1>1, <1>2 DEF AllFit, IsConstant, HasFloat, HasInt, Arithmetic

LEMMA SameArithmetic ==
    ASSUME NEW d, NEW e, Same(d, e)
    PROVE  /\ Arithmetic(d) <=> Arithmetic(e)
           /\ \A t \in BuiltinTypes : AllFit(d, t) <=> AllFit(e, t)
BY DEF Same, Arithmetic

\* The annotations below a node.
Within(e) == \A n \in NodesOf[e] : n.k = "bin" =>
                 n.ot \in BuiltinTypes /\ Is(n.l, n.ot) /\ Is(n.r, n.ot)

LEMMA TypedIs == \A e, t : TypedAs(e, t) <=> Is(e, t) /\ Within(e)
BY DEF TypedAs, Within

LEMMA TypedLeaf ==
    ASSUME NEW e \in AllTrees, e.k # "bin", NEW t
    PROVE  TypedAs(e, t) <=> Is(e, t)
<1>1. NodesOf[e] = {e}
  BY NodesAre
<1>2. Within(e)
  BY <1>1 DEF Within
<1>3. QED
  BY <1>2, TypedIs

LEMMA TypedBin ==
    ASSUME NEW e \in AllTrees, e.k = "bin", NEW t
    PROVE  TypedAs(e, t) <=> /\ Is(e, t) /\ e.ot \in BuiltinTypes
                             /\ TypedAs(e.l, e.ot) /\ TypedAs(e.r, e.ot)
<1>1. NodesOf[e] = {e} \cup NodesOf[e.l] \cup NodesOf[e.r]
  BY NodesAre
<1>2. Within(e) <=> /\ e.ot \in BuiltinTypes /\ Is(e.l, e.ot) /\ Is(e.r, e.ot)
                    /\ Within(e.l) /\ Within(e.r)
  BY <1>1 DEF Within
<1>3. QED
  BY <1>2, TypedIs

LEMMA IsBin ==
    ASSUME NEW e, e.k = "bin", NEW t
    PROVE  Is(e, t) <=> e.rt = t /\ (e.op \in BoolOperators => t = "Bool")
                                 /\ (e.op \notin BoolOperators => t = e.ot)
BY DEF Is

LEMMA IsLeaf ==
    ASSUME NEW e \in Simple, NEW t, LeafFits(e, t), e.k # "call" => e.rt = t
    PROVE  Is(e, t)
<1>1. e.k \in {"int", "float", "var", "call"}
  BY SimpleNode
<1>2. QED
  BY <1>1 DEF Is, LeafFits

LEMMA SameLeafFits ==
    ASSUME NEW d, NEW e, SameLeaf(d, e), NEW t
    PROVE  LeafFits(d, t) <=> LeafFits(e, t)
<1>1. d \in Simple /\ e.k \in {"int", "float", "var", "call"}
  BY SimpleNode DEF SameLeaf
<1>2. QED
  BY <1>1 DEF SameLeaf, LeafFits

LEMMA AnyLeaf ==
    ASSUME NEW e \in AllTrees
    PROVE  IsConstant(e) => HasInt(e) \/ HasFloat(e)
<1>1. PICK S : S = {x \in AllTrees : IsConstant(x) => HasInt(x) \/ HasFloat(x)}
  OBVIOUS
<1>2. ASSUME NEW x \in AllTrees, x.k = "bin" => x.l \in S /\ x.r \in S
      PROVE  x \in S
  BY <1>1, <1>2, BinTrees, LeafTrees
<1>3. QED
  BY <1>1, <1>2, TreeInduction

(***************************************************************************)
(* Checking an expression without comparisons: every leaf decides.         *)
(***************************************************************************)
Checks(e, t) == /\ V[e][t].ok <=> AllFit(e, t)
                /\ V[e][t].ok => V[e][t].type = t /\ TypedAs(V[e][t].node, t)

LEMMA CheckArithmetic ==
    \A e \in AllTrees : Arithmetic(e) => \A t \in BuiltinTypes : Checks(e, t)
<1>1. PICK S : S = {e \in AllTrees : Arithmetic(e) => \A t \in BuiltinTypes : Checks(e, t)}
  OBVIOUS
<1>2. ASSUME NEW e \in AllTrees, e.k = "bin" => e.l \in S /\ e.r \in S
      PROVE  e \in S
  <2>1. SUFFICES ASSUME Arithmetic(e), NEW t \in BuiltinTypes
                 PROVE  Checks(e, t)
    BY <1>1
  <2>2. t \in Expected /\ t # Sentinel
    BY MarksAre
  <2>3. PICK Q : Q = V[e][t]
    OBVIOUS
  <2>4. CASE e.k # "bin"
    <3>1. Q.node \in Simple /\ SameLeaf(Q.node, e) /\ LeafChecks(Q, e, t)
      BY <2>2, <2>3, <2>4, VisitLeaf
    <3>2. AllFit(e, t) <=> LeafFits(e, t)
      BY <2>4, LeafTrees
    <3>3. Q.node.k = e.k /\ (LeafFits(Q.node, t) <=> LeafFits(e, t))
      BY <3>1, SameLeafFits DEF SameLeaf
    <3>4. Q.ok => TypedAs(Q.node, t)
      <4>1. Q.ok => Is(Q.node, t)
        BY <3>1, <3>3, IsLeaf DEF LeafChecks
      <4>2. Q.node \in AllTrees /\ Q.node.k # "bin"
        BY <2>4, <3>1, <3>3, SimpleIs
      <4>3. QED
        BY <4>1, <4>2, TypedLeaf
    <3>5. QED
      BY <2>3, <3>1, <3>2, <3>4 DEF Checks, LeafChecks
  <2>5. CASE e.k = "bin"
    <3>1. /\ e.op \notin BoolOperators /\ Arithmetic(e.l) /\ Arithmetic(e.r)
          /\ e.l \in AllTrees /\ e.r \in AllTrees
          /\ AllFit(e, t) <=> AllFit(e.l, t) /\ AllFit(e.r, t)
      BY <2>1, <2>5, BinTrees
    <3>2. Checks(e.l, t) /\ Checks(e.r, t)
      BY <1>1, <1>2, <2>5, <3>1
    <3>3. /\ Checks2(Q, e, t, V) /\ Q.node \in AllTrees /\ Q.node.k = "bin" /\ Q.node.op = e.op
      BY <2>2, <2>3, <2>5, <3>1, VisitBin
    <3>4. Q.ok <=> AllFit(e, t)
      BY <3>1, <3>2, <3>3 DEF Checks, Checks2
    <3>5. ASSUME Q.ok
          PROVE  Q.type = t /\ TypedAs(Q.node, t)
      <4>1. /\ Q.type = t /\ Q.node.rt = t /\ Q.node.ot = t
            /\ TypedAs(Q.node.l, t) /\ TypedAs(Q.node.r, t)
        BY <3>2, <3>3, <3>5 DEF Checks, Checks2
      <4>2. Is(Q.node, t)
        BY <3>1, <3>3, <4>1, IsBin
      <4>3. QED
        BY <3>3, <4>1, <4>2, TypedBin
    <3>6. QED
      BY <2>3, <3>4, <3>5 DEF Checks
  <2>6. QED
    BY <2>4, <2>5
<1>3. QED
  BY <1>1, <1>2, TreeInduction

\* A tree visited before is checked as the tree it was.
LEMMA CheckAgain ==
    ASSUME NEW d \in AllTrees, NEW e \in AllTrees, Same(d, e), Arithmetic(e), NEW t \in BuiltinTypes
    PROVE  /\ V[d][t].ok <=> AllFit(e, t)
           /\ V[d][t].ok => V[d][t].type = t /\ TypedAs(V[d][t].node, t)
<1>1. Arithmetic(d) /\ (AllFit(d, t) <=> AllFit(e, t))
  BY SameArithmetic
<1>2. Checks(d, t)
  BY <1>1, CheckArithmetic
<1>3. QED
  BY <1>1, <1>2 DEF Checks

(***************************************************************************)
(* Inferring: a literal type is left to literals only, any other type is   *)
(* the whole tree's.                                                       *)
(***************************************************************************)
Literal(e) == IF HasFloat(e) THEN "FloatLiteral" ELSE "IntLiteral"

\* What is said of a result P for the tree e.
Settled(P, e) ==
    /\ P.type \in LiteralTypes => Arithmetic(e) /\ IsConstant(e) /\ P.type = Literal(e)
    /\ P.type \notin LiteralTypes => P.type \in BuiltinTypes /\ TypedAs(P.node, P.type)

\* The same of the sides of an operator, brought to one type.
SidesSettled(P, e) ==
    /\ P.type \in LiteralTypes =>
           /\ Arithmetic(e.l) /\ IsConstant(e.l) /\ Arithmetic(e.r) /\ IsConstant(e.r)
           /\ P.type = Literal(e)
           /\ Same(P.node.l, e.l) /\ Same(P.node.r, e.r)
           /\ P.node.l \in AllTrees /\ P.node.r \in AllTrees
    /\ P.type \notin LiteralTypes =>
           P.type \in BuiltinTypes /\ TypedAs(P.node.l, P.type) /\ TypedAs(P.node.r, P.type)

LEMMA SidesSettle ==
    ASSUME NEW e \in AllTrees, e.k = "bin", NEW L, NEW R,
           L = V[e.l][Sentinel], R = V[e.r][Sentinel], NEW P, Common(P, L, R, V), P.ok,
           L.ok => Settled(L, e.l), R.ok => Settled(R, e.r)
    PROVE  SidesSettled(P, e)
<1>1. e.l \in AllTrees /\ e.r \in AllTrees /\ (HasFloat(e) <=> HasFloat(e.l) \/ HasFloat(e.r))
  BY BinTrees
<1>2. L.ok /\ R.ok
  BY DEF Common
<1>3. /\ L.node \in AllTrees /\ L.type \in Types /\ Same(L.node, e.l)
      /\ R.node \in AllTrees /\ R.type \in Types /\ Same(R.node, e.r)
  BY <1>1, <1>2, VisitAll, MarksAre
<1>4. Settled(L, e.l) /\ Settled(R, e.r)
  BY <1>2
<1>5. CASE {L.type, R.type} \cap LiteralTypes = {}
  <2>1. L.type = R.type /\ P.type = L.type /\ P.node.l = L.node /\ P.node.r = R.node
    BY <1>2, <1>5 DEF Common, Agrees
  <2>2. L.type \notin LiteralTypes /\ R.type \notin LiteralTypes
    BY <1>5
  <2>3. QED
    BY <1>4, <2>1, <2>2 DEF Settled, SidesSettled
<1>6. CASE {L.type, R.type} \cap LiteralTypes # {}
  <2>1. PICK found : found = Promotion(L.type, R.type)
    OBVIOUS
  <2>2. Pushes(P, L, R, found, V)
    BY <1>2, <1>6, <2>1 DEF Common
  <2>3. found # Sentinel
    BY <2>2 DEF Pushes
  <2>4. /\ found \in Marks
        /\ found \notin LiteralTypes => found \in BuiltinTypes /\ found \in {L.type, R.type}
        /\ found \in LiteralTypes => L.type \in LiteralTypes /\ R.type \in LiteralTypes
    BY <1>3, <1>6, <2>1, <2>3, PromotionType, MarksAre
  <2>5. CASE found \in LiteralTypes
    <3>1. P.type = found /\ P.node.l = L.node /\ P.node.r = R.node
      BY <2>2, <2>5 DEF Pushes
    <3>2. /\ Arithmetic(e.l) /\ IsConstant(e.l) /\ L.type = Literal(e.l)
          /\ Arithmetic(e.r) /\ IsConstant(e.r) /\ R.type = Literal(e.r)
      BY <1>4, <2>4, <2>5 DEF Settled
    <3>3. found = Literal(e)
      <4>1. L.type = R.type => found = L.type
        BY <1>3, <2>1, <2>4, <2>5, PromotionIs
      <4>2. L.type # R.type => found = "FloatLiteral"
        BY <1>3, <2>1, <2>4, <2>5, PromotionIs
      <4>3. QED
        BY <1>1, <3>2, <4>1, <4>2 DEF Literal
    <3>4. QED
      BY <1>3, <2>5, <3>1, <3>2, <3>3 DEF SidesSettled
  <2>6. CASE found \notin LiteralTypes /\ L.type \in LiteralTypes
    <3>1. P.type = found /\ P.node.l = V[L.node][found].node /\ P.node.r = R.node
          /\ V[L.node][found].ok
      BY <2>2, <2>3, <2>6 DEF Pushes
    <3>2. found = R.type /\ found \in BuiltinTypes
      BY <2>4, <2>6
    <3>3. TypedAs(R.node, found)
      BY <1>4, <2>6, <3>2 DEF Settled
    <3>4. Arithmetic(e.l)
      BY <1>4, <2>6 DEF Settled
    <3>5. TypedAs(P.node.l, found)
      BY <1>1, <1>3, <3>1, <3>2, <3>4, CheckAgain
    <3>6. QED
      BY <2>6, <3>1, <3>2, <3>3, <3>5 DEF SidesSettled
  <2>7. CASE found \notin LiteralTypes /\ L.type \notin LiteralTypes
    <3>1. P.type = found /\ P.node.r = V[R.node][found].node /\ P.node.l = L.node
          /\ V[R.node][found].ok
      BY <2>2, <2>3, <2>7 DEF Pushes
    <3>2. R.type \in LiteralTypes /\ found = L.type /\ found \in BuiltinTypes
      BY <1>6, <2>4, <2>7
    <3>3. TypedAs(L.node, found)
      BY <1>4, <2>7, <3>2 DEF Settled
    <3>4. Arithmetic(e.r)
      BY <1>4, <3>2 DEF Settled
    <3>5. TypedAs(P.node.r, found)
      BY <1>1, <1>3, <3>1, <3>2, <3>4, CheckAgain
    <3>6. QED
      BY <2>7, <3>1, <3>2, <3>3, <3>5 DEF SidesSettled
  <2>8. QED
    BY <2>5, <2>6, <2>7
<1>7. QED
  BY <1>5, <1>6

LEMMA Finished ==
    ASSUME NEW e \in AllTrees, e.k = "bin", NEW P, SidesSettled(P, e), P.ok, P.type \in Types,
           NEW Q, Finishes(Q, P, e.op, V), Q.ok,
           Q.node \in AllTrees, Q.node.k = "bin", Q.node.op = e.op
    PROVE  /\ Settled(Q, e)
           /\ P.type \notin LiteralTypes => Q.node.ot = P.type
           /\ e.op \in BoolOperators =>
                  /\ Q.type = "Bool"
                  /\ P.type \in LiteralTypes => Q.node.ot = get_literal_default(P.type)
<1>1. e.l \in AllTrees /\ e.r \in AllTrees /\ (IsConstant(e) <=> IsConstant(e.l) /\ IsConstant(e.r))
      /\ (Arithmetic(e) <=> e.op \notin BoolOperators /\ Arithmetic(e.l) /\ Arithmetic(e.r))
  BY BinTrees
<1>2. "Bool" \in BuiltinTypes /\ "Bool" \notin LiteralTypes
  BY TypesAre
<1>3. CASE e.op \notin BoolOperators
  <2>1. /\ Q.type = P.type /\ Q.node.rt = P.type /\ Q.node.ot = P.type
        /\ Q.node.l = P.node.l /\ Q.node.r = P.node.r
    BY <1>3 DEF Finishes
  <2>2. CASE P.type \in LiteralTypes
    BY <1>1, <1>3, <2>1, <2>2 DEF SidesSettled, Settled
  <2>3. CASE P.type \notin LiteralTypes
    <3>1. P.type \in BuiltinTypes /\ TypedAs(Q.node.l, P.type) /\ TypedAs(Q.node.r, P.type)
      BY <2>1, <2>3 DEF SidesSettled
    <3>2. Is(Q.node, P.type)
      BY <1>3, <2>1, IsBin
    <3>3. TypedAs(Q.node, P.type)
      BY <2>1, <3>1, <3>2, TypedBin
    <3>4. QED
      BY <1>3, <2>1, <2>3, <3>1, <3>3 DEF Settled
  <2>4. QED
    BY <2>2, <2>3
<1>4. CASE e.op \in BoolOperators /\ P.type \notin LiteralTypes
  <2>1. /\ Q.type = "Bool" /\ Q.node.rt = "Bool" /\ Q.node.ot = P.type
        /\ Q.node.l = P.node.l /\ Q.node.r = P.node.r
    BY <1>4 DEF Finishes
  <2>2. P.type \in BuiltinTypes /\ TypedAs(Q.node.l, P.type) /\ TypedAs(Q.node.r, P.type)
    BY <1>4, <2>1 DEF SidesSettled
  <2>3. Is(Q.node, "Bool")
    BY <1>4, <2>1, IsBin
  <2>4. TypedAs(Q.node, "Bool")
    BY <2>1, <2>2, <2>3, TypedBin
  <2>5. QED
    BY <1>2, <1>4, <2>1, <2>4 DEF Settled
<1>5. CASE e.op \in BoolOperators /\ P.type \in LiteralTypes
  <2>1. PICK t : t = get_literal_default(P.type)
    OBVIOUS
  <2>2. t \in BuiltinTypes
    BY <1>5, <2>1, DefaultType
  <2>3. /\ V[P.node.l][t].ok /\ V[P.node.r][t].ok
        /\ Q.type = "Bool" /\ Q.node.rt = "Bool" /\ Q.node.ot = t
        /\ Q.node.l = V[P.node.l][t].node /\ Q.node.r = V[P.node.r][t].node
    BY <1>5, <2>1 DEF Finishes
  <2>4. /\ Arithmetic(e.l) /\ Arithmetic(e.r) /\ Same(P.node.l, e.l) /\ Same(P.node.r, e.r)
        /\ P.node.l \in AllTrees /\ P.node.r \in AllTrees
    BY <1>5 DEF SidesSettled
  <2>5. TypedAs(Q.node.l, t) /\ TypedAs(Q.node.r, t)
    BY <1>1, <2>2, <2>3, <2>4, CheckAgain
  <2>6. Is(Q.node, "Bool")
    BY <1>5, <2>3, IsBin
  <2>7. TypedAs(Q.node, "Bool")
    BY <2>2, <2>3, <2>5, <2>6, TypedBin
  <2>8. QED
    BY <1>2, <1>5, <2>1, <2>3, <2>7 DEF Settled
<1>6. QED
  BY <1>3, <1>4, <1>5

Infers1(e) == V[e][Sentinel].ok => Settled(V[e][Sentinel], e)

LEMMA InferSettles == \A e \in AllTrees : Infers1(e)
<1>1. PICK S : S = {e \in AllTrees : Infers1(e)}
  OBVIOUS
<1>2. Sentinel \in Expected
  BY MarksAre
<1>3. ASSUME NEW e \in AllTrees, e.k = "bin" => e.l \in S /\ e.r \in S
      PROVE  e \in S
  <2>1. PICK Q : Q = V[e][Sentinel]
    OBVIOUS
  <2>2. SUFFICES ASSUME Q.ok
                 PROVE  Settled(Q, e)
    BY <1>1, <2>1 DEF Infers1
  <2>3. CASE e.k # "bin"
    <3>1. Q.node \in Simple /\ SameLeaf(Q.node, e) /\ LeafInfers(Q, e)
      BY <1>2, <2>1, <2>3, VisitLeaf
    <3>2. /\ e \in Simple /\ e.k \in {"int", "float", "var", "call"} /\ Arithmetic(e)
          /\ IsConstant(e) <=> e.k \in {"int", "float"}
          /\ HasFloat(e) <=> e.k = "float"
      BY <2>3, LeafTrees
    <3>3. CASE e.k \in {"int", "float"}
      <4>1. Q.type \in LiteralTypes /\ Q.type = Literal(e)
        BY <3>1, <3>2, <3>3, TypesAre DEF LeafInfers, Literal
      <4>2. QED
        BY <3>2, <3>3, <4>1 DEF Settled
    <3>4. CASE e.k = "var"
      <4>1. /\ Env.vars[e.n] \in Expected /\ Env.vars[e.n] # Sentinel
            /\ Q.type = Env.vars[e.n] /\ Q.node.rt = Env.vars[e.n]
        BY <2>2, <3>1, <3>2, <3>4, VarType, SimpleNode DEF LeafInfers
      <4>2. Q.type \in BuiltinTypes /\ Q.type \notin LiteralTypes
        BY <4>1, MarksAre DEF Expected
      <4>3. Q.node.k = "var" /\ Q.node.n = e.n
        BY <3>1, <3>4 DEF SameLeaf
      <4>4. Is(Q.node, Q.type)
        BY <4>1, <4>3 DEF Is
      <4>5. TypedAs(Q.node, Q.type)
        BY <3>1, <4>3, <4>4, SimpleIs, TypedLeaf
      <4>6. QED
        BY <4>2, <4>5 DEF Settled
    <3>5. CASE e.k = "call"
      <4>1. Q.type = "Int32" /\ Q.node.k = "call"
        BY <2>2, <3>1, <3>5 DEF LeafInfers, SameLeaf
      <4>2. Q.type \in BuiltinTypes /\ Q.type \notin LiteralTypes
        BY <4>1, TypesAre
      <4>3. Is(Q.node, Q.type)
        BY <4>1 DEF Is
      <4>4. TypedAs(Q.node, Q.type)
        BY <3>1, <4>1, <4>3, SimpleIs, TypedLeaf
      <4>5. QED
        BY <4>2, <4>4 DEF Settled
    <3>6. QED
      BY <3>2, <3>3, <3>4, <3>5
  <2>4. CASE e.k = "bin"
    <3>1. /\ Infers2(Q, e, V) /\ Q.node \in AllTrees /\ Q.node.k = "bin" /\ Q.node.op = e.op
      BY <1>2, <2>1, <2>4, VisitBin
    <3>2. PICK P : /\ Common(P, V[e.l][Sentinel], V[e.r][Sentinel], V) /\ Finishes(Q, P, e.op, V)
                   /\ P.ok => P.type \in Types
      BY <3>1 DEF Infers2
    <3>3. P.ok
      BY <2>2, <3>2 DEF Finishes
    <3>4. /\ V[e.l][Sentinel].ok => Settled(V[e.l][Sentinel], e.l)
          /\ V[e.r][Sentinel].ok => Settled(V[e.r][Sentinel], e.r)
      BY <1>1, <1>3, <2>4 DEF Infers1
    <3>5. SidesSettled(P, e)
      BY <2>4, <3>2, <3>3, <3>4, SidesSettle
    <3>6. QED
      BY <2>2, <2>4, <3>1, <3>2, <3>3, <3>5, Finished
  <2>5. QED
    BY <2>3, <2>4
<1>4. QED
  BY <1>1, <1>3, TreeInduction

(***************************************************************************)
(* Which expressions are accepted.                                         *)
(***************************************************************************)
LEMMA LeavesSimple ==
    ASSUME NEW e \in AllTrees
    PROVE  \A l \in Leaves(e) : l \in Simple /\ l.k \in {"int", "float", "var", "call"}
<1>1. PICK S : S = {x \in AllTrees : Leaves(x) \subseteq Simple}
  OBVIOUS
<1>2. ASSUME NEW x \in AllTrees, x.k = "bin" => x.l \in S /\ x.r \in S
      PROVE  x \in S
  <2>1. CASE x.k # "bin"
    BY <1>1, <2>1, LeavesAre, LeafTrees
  <2>2. CASE x.k = "bin"
    BY <1>1, <1>2, <2>2, LeavesAre
  <2>3. QED
    BY <2>1, <2>2
<1>3. Leaves(e) \subseteq Simple
  BY <1>1, <1>2, TreeInduction
<1>4. QED
  BY <1>3, SimpleNode

LEMMA OneType ==
    ASSUME NEW e \in AllTrees, ~IsConstant(e), NEW t, NEW u, AllFit(e, t), AllFit(e, u)
    PROVE  t = u
<1>1. PICK l \in Leaves(e) : l.k \notin {"int", "float"}
  BY DEF IsConstant
<1>2. l.k \in {"var", "call"}
  BY <1>1, LeavesSimple
<1>3. LeafFits(l, t) /\ LeafFits(l, u)
  BY DEF AllFit
<1>4. QED
  BY <1>2, <1>3 DEF LeafFits

LEMMA LiteralsFit ==
    ASSUME NEW e \in AllTrees, IsConstant(e), NEW t \in BuiltinTypes, AllFit(e, t)
    PROVE  /\ Literal(e) = "FloatLiteral" => t \in FloatTypes
           /\ Literal(e) = "IntLiteral" => t \in IntTypes \cup FloatTypes
<1>1. HasFloat(e) => t \in FloatTypes
  BY DEF HasFloat, AllFit, LeafFits, float_is_in_range
<1>2. HasInt(e) => t \in IntTypes \cup FloatTypes
  BY DEF HasInt, AllFit, LeafFits, int_is_in_range
<1>3. HasInt(e) \/ HasFloat(e)
  BY AnyLeaf
<1>4. QED
  BY <1>1, <1>2, <1>3 DEF Literal

LEMMA Promotes ==
    ASSUME NEW e \in AllTrees, IsConstant(e), NEW t \in BuiltinTypes, AllFit(e, t)
    PROVE  Promotion(Literal(e), t) = t /\ Promotion(t, Literal(e)) = t
<1>1. Literal(e) \in {"IntLiteral", "FloatLiteral"} /\ Literal(e) \in Types /\ t \in Types
      /\ t \notin LiteralTypes
  BY MarksAre, TypesAre DEF Literal
<1>2. CASE Literal(e) = "FloatLiteral"
  BY <1>1, <1>2, LiteralsFit, PromotionIs
<1>3. CASE Literal(e) = "IntLiteral"
  BY <1>1, <1>3, LiteralsFit, PromotionIs
<1>4. QED
  BY <1>1, <1>2, <1>3

Fitting(e) == \E t \in BuiltinTypes : AllFit(e, t)

\* A result P for e has the type e's leaves have.
Unified(P, e) ==
    /\ P.ok <=> IsConstant(e) \/ Fitting(e)
    /\ P.ok /\ IsConstant(e) => P.type = Literal(e)
    /\ P.ok /\ ~IsConstant(e) => P.type \in BuiltinTypes /\ AllFit(e, P.type)

LEMMA SidesUnify ==
    ASSUME NEW e \in AllTrees, e.k = "bin", Arithmetic(e.l), Arithmetic(e.r), NEW L, NEW R,
           L = V[e.l][Sentinel], R = V[e.r][Sentinel], NEW P, Common(P, L, R, V),
           Unified(L, e.l), Unified(R, e.r)
    PROVE  Unified(P, e)
<1>1. /\ e.l \in AllTrees /\ e.r \in AllTrees /\ (HasFloat(e) <=> HasFloat(e.l) \/ HasFloat(e.r))
      /\ \A t : AllFit(e, t) <=> AllFit(e.l, t) /\ AllFit(e.r, t)
      /\ IsConstant(e) <=> IsConstant(e.l) /\ IsConstant(e.r)
  BY BinTrees
<1>2. IsConstant(e) \/ Fitting(e) => L.ok /\ R.ok
  BY <1>1 DEF Fitting, Unified
<1>3. \A x : Literal(x) \in LiteralTypes /\ Literal(x) \in Types
  BY TypesAre DEF Literal
<1>4. CASE ~(L.ok /\ R.ok)
  <2>1. ~P.ok
    BY <1>4 DEF Common
  <2>2. QED
    BY <1>2, <1>4, <2>1 DEF Unified
<1>5. CASE L.ok /\ R.ok /\ IsConstant(e.l) /\ IsConstant(e.r)
  <2>1. L.type = Literal(e.l) /\ R.type = Literal(e.r)
    BY <1>5 DEF Unified
  <2>2. PICK found : found = Promotion(L.type, R.type)
    OBVIOUS
  <2>3. found = Literal(e)
    <3>1. L.type = R.type => found = L.type
      BY <1>3, <2>1, <2>2, PromotionIs
    <3>2. L.type # R.type => found = "FloatLiteral"
      BY <1>3, <2>1, <2>2, PromotionIs
    <3>3. QED
      BY <1>1, <2>1, <3>1, <3>2 DEF Literal
  <2>4. Pushes(P, L, R, found, V)
    BY <1>3, <1>5, <2>1, <2>2 DEF Common
  <2>5. P.ok /\ P.type = found
    BY <1>3, <2>3, <2>4 DEF Pushes
  <2>6. QED
    BY <1>1, <1>5, <2>3, <2>5 DEF Unified
<1>6. CASE L.ok /\ R.ok /\ IsConstant(e.l) /\ ~IsConstant(e.r)
  <2>1. /\ L.type = Literal(e.l) /\ L.type \in LiteralTypes /\ L.type \in Types
        /\ R.type \in BuiltinTypes /\ AllFit(e.r, R.type)
    BY <1>3, <1>6 DEF Unified
  <2>2. PICK t : t = R.type
    OBVIOUS
  <2>3. PICK found : found = Promotion(L.type, t)
    OBVIOUS
  <2>4. Pushes(P, L, R, found, V)
    BY <1>6, <2>1, <2>2, <2>3 DEF Common
  <2>5. Fitting(e) => AllFit(e, t)
    BY <1>1, <1>6, <2>1, <2>2, OneType DEF Fitting
  <2>6. AllFit(e.l, t) => found = t
    BY <1>1, <1>6, <2>1, <2>2, <2>3, Promotes
  <2>7. found \in {t, Sentinel} /\ t \notin LiteralTypes /\ t # Sentinel
    <3>1. t \in Types /\ t \notin LiteralTypes /\ t # Sentinel
      BY <2>1, <2>2, MarksAre
    <3>2. found # Sentinel => found \notin LiteralTypes
      BY <2>1, <2>3, <3>1, PromotionType
    <3>3. found # Sentinel => found \in {L.type, t}
      BY <2>1, <2>3, <3>1, <3>2, PromotionType
    <3>4. QED
      BY <2>1, <3>1, <3>2, <3>3
  <2>8. L.node \in AllTrees /\ Same(L.node, e.l)
    BY <1>1, <1>6, VisitAll, MarksAre
  <2>9. V[L.node][t].ok <=> AllFit(e.l, t)
    BY <1>1, <2>1, <2>2, <2>8, CheckAgain
  <2>10. found = t => (P.ok <=> AllFit(e.l, t)) /\ (P.ok => P.type = t)
    BY <2>1, <2>4, <2>7, <2>9 DEF Pushes
  <2>11. found # t => ~P.ok
    BY <2>4, <2>7 DEF Pushes
  <2>12. P.ok <=> AllFit(e, t)
    BY <1>1, <2>1, <2>2, <2>6, <2>10, <2>11
  <2>13. P.ok <=> Fitting(e)
    BY <2>1, <2>2, <2>5, <2>12 DEF Fitting
  <2>14. P.ok => P.type = t
    BY <2>10, <2>11
  <2>15. QED
    BY <1>1, <1>6, <2>1, <2>2, <2>12, <2>13, <2>14 DEF Unified
<1>7. CASE L.ok /\ R.ok /\ ~IsConstant(e.l) /\ IsConstant(e.r)
  <2>1. /\ R.type = Literal(e.r) /\ R.type \in LiteralTypes /\ R.type \in Types
        /\ L.type \in BuiltinTypes /\ AllFit(e.l, L.type)
    BY <1>3, <1>7 DEF Unified
  <2>2. PICK t : t = L.type
    OBVIOUS
  <2>3. PICK found : found = Promotion(t, R.type)
    OBVIOUS
  <2>4. Pushes(P, L, R, found, V)
    BY <1>7, <2>1, <2>2, <2>3 DEF Common
  <2>5. Fitting(e) => AllFit(e, t)
    BY <1>1, <1>7, <2>1, <2>2, OneType DEF Fitting
  <2>6. AllFit(e.r, t) => found = t
    BY <1>1, <1>7, <2>1, <2>2, <2>3, Promotes
  <2>7. found \in {t, Sentinel} /\ t \notin LiteralTypes /\ t # Sentinel
    <3>1. t \in Types /\ t \notin LiteralTypes /\ t # Sentinel
      BY <2>1, <2>2, MarksAre
    <3>2. found # Sentinel => found \notin LiteralTypes
      BY <2>1, <2>3, <3>1, PromotionType
    <3>3. found # Sentinel => found \in {t, R.type}
      BY <2>1, <2>3, <3>1, <3>2, PromotionType
    <3>4. QED
      BY <2>1, <3>1, <3>2, <3>3
  <2>8. R.node \in AllTrees /\ Same(R.node, e.r)
    BY <1>1, <1>7, VisitAll, MarksAre
  <2>9. V[R.node][t].ok <=> AllFit(e.r, t)
    BY <1>1, <2>1, <2>2, <2>8, CheckAgain
  <2>10. found = t => (P.ok <=> AllFit(e.r, t)) /\ (P.ok => P.type = t)
    BY <2>2, <2>4, <2>7, <2>9 DEF Pushes
  <2>11. found # t => ~P.ok
    BY <2>4, <2>7 DEF Pushes
  <2>12. P.ok <=> AllFit(e, t)
    BY <1>1, <2>1, <2>2, <2>6, <2>10, <2>11
  <2>13. P.ok <=> Fitting(e)
    BY <2>1, <2>2, <2>5, <2>12 DEF Fitting
  <2>14. P.ok => P.type = t
    BY <2>10, <2>11
  <2>15. QED
    BY <1>1, <1>7, <2>1, <2>2, <2>12, <2>13, <2>14 DEF Unified
<1>8. CASE L.ok /\ R.ok /\ ~IsConstant(e.l) /\ ~IsConstant(e.r)
  <2>1. /\ L.type \in BuiltinTypes /\ AllFit(e.l, L.type)
        /\ R.type \in BuiltinTypes /\ AllFit(e.r, R.type)
    BY <1>8 DEF Unified
  <2>2. {L.type, R.type} \cap LiteralTypes = {}
    BY <2>1, MarksAre
  <2>3. Agrees(P, L, R)
    BY <1>8, <2>2 DEF Common
  <2>4. Fitting(e) => L.type = R.type
    <3>1. ASSUME NEW t \in BuiltinTypes, AllFit(e, t)
          PROVE  L.type = t /\ R.type = t
      BY <1>1, <1>8, <2>1, <3>1, OneType
    <3>2. QED
      BY <3>1 DEF Fitting
  <2>5. L.type = R.type => AllFit(e, L.type)
    BY <1>1, <2>1
  <2>6. QED
    BY <1>1, <1>8, <2>1, <2>3, <2>4, <2>5 DEF Unified, Agrees, Fitting
<1>9. QED
  BY <1>4, <1>5, <1>6, <1>7, <1>8

LEMMA InferArithmetic == \A e \in AllTrees : Arithmetic(e) => Unified(V[e][Sentinel], e)
<1>1. PICK S : S = {e \in AllTrees : Arithmetic(e) => Unified(V[e][Sentinel], e)}
  OBVIOUS
<1>2. Sentinel \in Expected
  BY MarksAre
<1>3. ASSUME NEW e \in AllTrees, e.k = "bin" => e.l \in S /\ e.r \in S
      PROVE  e \in S
  <2>1. PICK Q : Q = V[e][Sentinel]
    OBVIOUS
  <2>2. SUFFICES ASSUME Arithmetic(e)
                 PROVE  Unified(Q, e)
    BY <1>1, <2>1
  <2>3. CASE e.k # "bin"
    <3>1. LeafInfers(Q, e)
      BY <1>2, <2>1, <2>3, VisitLeaf
    <3>2. /\ e \in Simple /\ e.k \in {"int", "float", "var", "call"}
          /\ \A t : AllFit(e, t) <=> LeafFits(e, t)
          /\ IsConstant(e) <=> e.k \in {"int", "float"}
          /\ HasFloat(e) <=> e.k = "float"
      BY <2>3, LeafTrees
    <3>3. CASE e.k \in {"int", "float"}
      BY <3>1, <3>2, <3>3 DEF Unified, LeafInfers, Literal
    <3>4. CASE e.k = "var"
      <4>1. Env.vars[e.n] \in BuiltinTypes \cup {Sentinel}
        BY <3>2, <3>4, VarType, SimpleNode DEF Expected
      <4>2. \A t : AllFit(e, t) <=> Env.vars[e.n] = t
        BY <3>2, <3>4 DEF LeafFits
      <4>3. Fitting(e) <=> Env.vars[e.n] # Sentinel
        BY <4>1, <4>2, MarksAre DEF Fitting
      <4>4. (Q.ok <=> Env.vars[e.n] # Sentinel) /\ (Q.ok => Q.type = Env.vars[e.n])
        BY <3>1, <3>4 DEF LeafInfers
      <4>5. ~IsConstant(e)
        BY <3>2, <3>4
      <4>6. QED
        BY <4>1, <4>2, <4>3, <4>4, <4>5 DEF Unified
    <3>5. CASE e.k = "call"
      <4>1. \A t : AllFit(e, t) <=> e.f \in Env.fns /\ t = "Int32"
        BY <3>2, <3>5 DEF LeafFits
      <4>2. "Int32" \in BuiltinTypes
        BY TypesAre
      <4>3. Fitting(e) <=> e.f \in Env.fns
        BY <4>1, <4>2 DEF Fitting
      <4>4. (Q.ok <=> e.f \in Env.fns) /\ (Q.ok => Q.type = "Int32")
        BY <3>1, <3>5 DEF LeafInfers
      <4>5. ~IsConstant(e)
        BY <3>2, <3>5
      <4>6. QED
        BY <4>1, <4>2, <4>3, <4>4, <4>5 DEF Unified
    <3>6. QED
      BY <3>2, <3>3, <3>4, <3>5
  <2>4. CASE e.k = "bin"
    <3>1. /\ e.op \notin BoolOperators /\ Arithmetic(e.l) /\ Arithmetic(e.r)
          /\ e.l \in AllTrees /\ e.r \in AllTrees
      BY <2>2, <2>4, BinTrees
    <3>2. Infers2(Q, e, V)
      BY <1>2, <2>1, <2>4, VisitBin
    <3>3. PICK P : /\ Common(P, V[e.l][Sentinel], V[e.r][Sentinel], V) /\ Finishes(Q, P, e.op, V)
                   /\ P.ok \in BOOLEAN
      BY <3>2 DEF Infers2
    <3>4. Unified(V[e.l][Sentinel], e.l) /\ Unified(V[e.r][Sentinel], e.r)
      BY <1>1, <1>3, <2>4, <3>1
    <3>5. Unified(P, e)
      BY <2>4, <3>1, <3>3, <3>4, SidesUnify
    <3>6. (Q.ok <=> P.ok) /\ (Q.ok => Q.type = P.type)
      BY <3>1, <3>3 DEF Finishes
    <3>7. QED
      BY <3>5, <3>6 DEF Unified
  <2>5. QED
    BY <2>3, <2>4
<1>4. QED
  BY <1>1, <1>3, TreeInduction

DefaultOf(e) == get_literal_default(Literal(e))

Accepts(e) == IF IsConstant(e) THEN AllFit(e, DefaultOf(e)) ELSE Fitting(e)

LEMMA DefaultOfType ==
    ASSUME NEW e
    PROVE  DefaultOf(e) \in BuiltinTypes /\ DefaultOf(e) = Default(e) /\ Literal(e) \in LiteralTypes
BY TypesAre DEF DefaultOf, Literal, Default, HasFloat, get_literal_default

\* A comparison of expressions without comparisons: its operands' type.
LEMMA InferComparison ==
    ASSUME NEW e \in AllTrees, Comparison(e)
    PROVE  /\ V[e][Sentinel].ok <=> Accepts(e)
           /\ V[e][Sentinel].ok =>
                  /\ V[e][Sentinel].type = "Bool"
                  /\ V[e][Sentinel].node.ot \in BuiltinTypes /\ AllFit(e, V[e][Sentinel].node.ot)
                  /\ IsConstant(e) => V[e][Sentinel].node.ot = DefaultOf(e)
<1>1. e.k = "bin" /\ e.op \in BoolOperators /\ Arithmetic(e.l) /\ Arithmetic(e.r)
  BY DEF Comparison
<1>2. /\ e.l \in AllTrees /\ e.r \in AllTrees
      /\ \A t : AllFit(e, t) <=> AllFit(e.l, t) /\ AllFit(e.r, t)
  BY <1>1, BinTrees
<1>3. PICK Q : Q = V[e][Sentinel]
  OBVIOUS
<1>4. /\ Infers2(Q, e, V) /\ Q.ok \in BOOLEAN
      /\ Q.node \in AllTrees /\ Q.node.k = "bin" /\ Q.node.op = e.op
  BY <1>1, <1>3, VisitBin, VisitAll, MarksAre
<1>5. PICK P : /\ Common(P, V[e.l][Sentinel], V[e.r][Sentinel], V) /\ Finishes(Q, P, e.op, V)
               /\ P.ok \in BOOLEAN /\ (P.ok => P.type \in Types)
  BY <1>4 DEF Infers2
<1>6. Unified(P, e)
  BY <1>1, <1>2, <1>5, InferArithmetic, SidesUnify
<1>7. Infers1(e.l) /\ Infers1(e.r)
  BY <1>2, InferSettles
<1>8. P.ok => SidesSettled(P, e)
  BY <1>1, <1>5, <1>7, SidesSettle DEF Infers1
<1>9. CASE ~P.ok
  <2>1. ~Q.ok
    BY <1>5, <1>9 DEF Finishes
  <2>2. ~IsConstant(e) /\ ~Fitting(e)
    BY <1>6, <1>9 DEF Unified
  <2>3. QED
    BY <1>3, <2>1, <2>2 DEF Accepts
<1>10. CASE P.ok /\ ~IsConstant(e)
  <2>1. P.type \in BuiltinTypes /\ AllFit(e, P.type) /\ Fitting(e)
    BY <1>6, <1>10 DEF Unified
  <2>2. P.type \notin LiteralTypes
    BY <2>1, MarksAre
  <2>3. Q.ok /\ Q.type = "Bool" /\ Q.node.ot = P.type
    BY <1>1, <1>5, <1>10, <2>2 DEF Finishes
  <2>4. QED
    BY <1>3, <1>10, <2>1, <2>3 DEF Accepts
<1>11. CASE P.ok /\ IsConstant(e)
  <2>1. P.type = Literal(e) /\ P.type \in LiteralTypes
    BY <1>6, <1>11, DefaultOfType DEF Unified
  <2>2. PICK t : t = DefaultOf(e)
    OBVIOUS
  <2>3. t \in BuiltinTypes /\ t = get_literal_default(P.type)
    BY <2>1, <2>2, DefaultOfType DEF DefaultOf
  <2>4. /\ Same(P.node.l, e.l) /\ Same(P.node.r, e.r)
        /\ P.node.l \in AllTrees /\ P.node.r \in AllTrees
    BY <1>8, <1>11, <2>1 DEF SidesSettled
  <2>5. (V[P.node.l][t].ok <=> AllFit(e.l, t)) /\ (V[P.node.r][t].ok <=> AllFit(e.r, t))
    BY <1>1, <1>2, <2>3, <2>4, CheckAgain
  <2>6. /\ Q.ok = (V[P.node.l][t].ok /\ V[P.node.r][t].ok)
        /\ Q.ok => Q.type = "Bool" /\ Q.node.ot = t
    BY <1>1, <1>5, <1>11, <2>1, <2>3 DEF Finishes
  <2>7. Q.ok <=> AllFit(e, t)
    BY <1>2, <1>4, <2>5, <2>6
  <2>8. QED
    BY <1>3, <1>11, <2>2, <2>3, <2>6, <2>7 DEF Accepts
<1>12. QED
  BY <1>5, <1>9, <1>10, <1>11

\* What a statement without an annotation makes of an expression.
Top(e) == infer_expr_top_level(e, Env)

LEMMA TopIs ==
    ASSUME NEW e \in AllTrees
    PROVE  /\ Top(e).ok \in BOOLEAN /\ (Top(e).ok => V[e][Sentinel].ok)
           /\ Top(e).ok => /\ Top(e).type \in BuiltinTypes /\ TypedAs(Top(e).node, Top(e).type)
                           /\ Top(e).node \in AllTrees /\ Same(Top(e).node, e)
           /\ Arithmetic(e) => /\ Top(e).ok <=> Accepts(e)
                               /\ Top(e).ok => /\ AllFit(e, Top(e).type)
                                               /\ IsConstant(e) => Top(e).type = DefaultOf(e)
           /\ Comparison(e) => Top(e) = V[e][Sentinel]
<1>1. PICK I : I = V[e][Sentinel]
  OBVIOUS
<1>2. I.ok \in BOOLEAN /\ I.node \in AllTrees /\ (I.ok => I.type \in Types /\ Same(I.node, e))
  BY <1>1, VisitAll, MarksAre
<1>3. Top(e) = IF ~I.ok \/ I.type \notin LiteralTypes THEN I
               ELSE V[I.node][get_literal_default(I.type)]
  BY <1>1 DEF Top, infer_expr_top_level, default_literal, V
<1>4. I.ok => Settled(I, e)
  BY <1>1, InferSettles DEF Infers1
<1>5. Arithmetic(e) => Unified(I, e)
  BY <1>1, InferArithmetic
<1>6. Comparison(e) /\ I.ok => I.type = "Bool"
  BY <1>1, InferComparison
<1>7. "Bool" \notin LiteralTypes
  BY TypesAre
<1>8. CASE ~I.ok
  <2>1. Top(e) = I
    BY <1>3, <1>8
  <2>2. Arithmetic(e) => ~Accepts(e)
    BY <1>5, <1>8 DEF Unified, Accepts
  <2>3. QED
    BY <1>1, <1>2, <1>8, <2>1, <2>2
<1>9. CASE I.ok /\ I.type \notin LiteralTypes
  <2>1. Top(e) = I
    BY <1>3, <1>9
  <2>2. I.type \in BuiltinTypes /\ TypedAs(I.node, I.type)
    BY <1>4, <1>9 DEF Settled
  <2>3. Arithmetic(e) => ~IsConstant(e) /\ AllFit(e, I.type)
    BY <1>5, <1>9, DefaultOfType DEF Unified
  <2>4. Arithmetic(e) => Accepts(e)
    BY <2>2, <2>3 DEF Accepts, Fitting
  <2>5. QED
    BY <1>1, <1>2, <1>9, <2>1, <2>2, <2>3, <2>4
<1>10. CASE I.ok /\ I.type \in LiteralTypes
  <2>1. PICK t : t = DefaultOf(e)
    OBVIOUS
  <2>2. Arithmetic(e) /\ IsConstant(e) /\ I.type = Literal(e)
    BY <1>4, <1>10 DEF Settled
  <2>3. t \in BuiltinTypes /\ t \in Expected /\ t = get_literal_default(I.type)
    BY <2>1, <2>2, DefaultOfType, MarksAre DEF DefaultOf
  <2>4. PICK K : K = V[I.node][t]
    OBVIOUS
  <2>5. Top(e) = K
    BY <1>3, <1>10, <2>3, <2>4
  <2>6. (K.ok <=> AllFit(e, t)) /\ (K.ok => K.type = t /\ TypedAs(K.node, t))
    BY <1>2, <1>10, <2>2, <2>3, <2>4, CheckAgain
  <2>7. K.ok \in BOOLEAN /\ K.node \in AllTrees /\ (K.ok => Same(K.node, I.node))
    BY <1>2, <2>3, <2>4, VisitAll
  <2>8. K.ok => Same(K.node, e)
    BY <1>2, <1>10, <2>7, SameTrans
  <2>9. Accepts(e) <=> AllFit(e, t)
    BY <2>1, <2>2 DEF Accepts
  <2>10. ~Comparison(e)
    BY <1>6, <1>7, <1>10
  <2>11. QED
    BY <1>1, <1>10, <2>1, <2>2, <2>3, <2>5, <2>6, <2>7, <2>8, <2>9, <2>10
<1>11. QED
  BY <1>2, <1>8, <1>9, <1>10

(***************************************************************************)
(* The reference definition, and the leaves.                               *)
(***************************************************************************)
LEMMA ConcreteLeaves ==
    ASSUME NEW e \in AllTrees
    PROVE  \A t : t \in Concrete(e) <=>
               \E l \in Leaves(e) : \/ l.k = "var" /\ t = Env.vars[l.n]
                                    \/ l.k = "call" /\ t = "Int32"
BY DEF Concrete

LEMMA AllFitIs ==
    ASSUME NEW e \in AllTrees, NEW t \in BuiltinTypes
    PROVE  AllFit(e, t) <=> Known(e) /\ Concrete(e) \subseteq {t} /\ Fits(e, t)
<1>1. t # Sentinel
  BY MarksAre
<1>2. ASSUME NEW l \in Leaves(e)
      PROVE  LeafFits(l, t) <=> /\ l.k = "var" => Env.vars[l.n] = t
                                /\ l.k = "call" => l.f \in Env.fns /\ t = "Int32"
                                /\ l.k = "int" => int_is_in_range(l.v, t)
                                /\ l.k = "float" => float_is_in_range(l.v, t)
  <2>1. l.k \in {"int", "float", "var", "call"}
    BY LeavesSimple
  <2>2. QED
    BY <2>1 DEF LeafFits
<1>3. ASSUME NEW l \in Leaves(e), Concrete(e) \subseteq {t}
      PROVE  (l.k = "var" => Env.vars[l.n] = t) /\ (l.k = "call" => t = "Int32")
  <2>1. l.k = "var" => Env.vars[l.n] \in Concrete(e)
    BY ConcreteLeaves
  <2>2. l.k = "call" => "Int32" \in Concrete(e)
    BY ConcreteLeaves
  <2>3. QED
    BY <1>3, <2>1, <2>2
<1>4. ASSUME \A l \in Leaves(e) : (l.k = "var" => Env.vars[l.n] = t) /\ (l.k = "call" => t = "Int32"),
             NEW u \in Concrete(e)
      PROVE  u = t
  <2>1. PICK l \in Leaves(e) : \/ l.k = "var" /\ u = Env.vars[l.n]
                               \/ l.k = "call" /\ u = "Int32"
    BY ConcreteLeaves
  <2>2. QED
    BY <1>4, <2>1
<1>5. ASSUME AllFit(e, t)
      PROVE  Known(e) /\ Concrete(e) \subseteq {t} /\ Fits(e, t)
  <2>1. \A l \in Leaves(e) : LeafFits(l, t)
    BY <1>5 DEF AllFit
  <2>2. Known(e)
    BY <1>1, <1>2, <2>1 DEF Known
  <2>3. Fits(e, t)
    BY <1>2, <2>1 DEF Fits
  <2>4. QED
    BY <1>2, <1>4, <2>1, <2>2, <2>3
<1>6. ASSUME Known(e), Concrete(e) \subseteq {t}, Fits(e, t)
      PROVE  AllFit(e, t)
  <2>1. ASSUME NEW l \in Leaves(e)
        PROVE  LeafFits(l, t)
    <3>1. (l.k = "var" => Env.vars[l.n] = t) /\ (l.k = "call" => t = "Int32")
      BY <1>3, <1>6
    <3>2. l.k = "call" => l.f \in Env.fns
      BY <1>6 DEF Known
    <3>3. /\ l.k = "int" => int_is_in_range(l.v, t)
          /\ l.k = "float" => float_is_in_range(l.v, t)
      BY <1>6 DEF Fits
    <3>4. QED
      BY <1>2, <3>1, <3>2, <3>3
  <2>2. QED
    BY <2>1 DEF AllFit
<1>7. QED
  BY <1>5, <1>6

LEMMA ConcreteIs ==
    ASSUME NEW e \in AllTrees
    PROVE  Concrete(e) = {} <=> IsConstant(e)
<1>1. \A l \in Leaves(e) : l.k \in {"int", "float", "var", "call"}
  BY LeavesSimple
<1>2. QED
  BY <1>1, ConcreteLeaves DEF IsConstant

LEMMA AcceptsIs ==
    ASSUME NEW e \in AllTrees
    PROVE  Accepts(e) <=> Known(e) /\ Unifies(e)
<1>1. CASE IsConstant(e)
  <2>1. PICK t : t = DefaultOf(e)
    OBVIOUS
  <2>2. t \in BuiltinTypes /\ t = Default(e)
    BY <2>1, DefaultOfType
  <2>3. Concrete(e) = {}
    BY <1>1, ConcreteIs
  <2>4. AllFit(e, t) <=> Known(e) /\ Fits(e, t)
    BY <2>2, <2>3, AllFitIs
  <2>5. QED
    BY <1>1, <2>1, <2>2, <2>3, <2>4 DEF Accepts, Unifies
<1>2. CASE ~IsConstant(e)
  <2>1. Concrete(e) # {}
    BY <1>2, ConcreteIs
  <2>2. ASSUME NEW t \in BuiltinTypes, AllFit(e, t)
        PROVE  Known(e) /\ t \in Concrete(e) /\ Concrete(e) = {t} /\ Fits(e, t)
    BY <2>1, <2>2, AllFitIs
  <2>3. ASSUME Known(e), NEW t \in Concrete(e), Concrete(e) = {t}, Fits(e, t)
        PROVE  t \in BuiltinTypes /\ AllFit(e, t)
    <3>1. PICK l \in Leaves(e) : \/ l.k = "var" /\ t = Env.vars[l.n]
                                 \/ l.k = "call" /\ t = "Int32"
      BY <2>3, ConcreteLeaves
    <3>2. l.k = "var" => Env.vars[l.n] \in Expected /\ Env.vars[l.n] # Sentinel
      BY <2>3, <3>1, LeavesSimple, VarType, SimpleNode DEF Known
    <3>3. t \in BuiltinTypes
      BY <3>1, <3>2, TypesAre DEF Expected
    <3>4. QED
      BY <2>3, <3>3, AllFitIs
  <2>4. QED
    BY <1>2, <2>1, <2>2, <2>3 DEF Accepts, Unifies, Fitting
<1>3. QED
  BY <1>1, <1>2

(***************************************************************************)
(* No literal type is left.                                                *)
(***************************************************************************)
Unfinished == LiteralTypes \cup {Sentinel}

Clean(e) == Annotated(e) \cap Unfinished = {}

LEMMA CleanIs ==
    \A e : Clean(e) <=> \A n \in NodesOf[e] : /\ n.k # "call" => n.rt \notin Unfinished
                                              /\ n.k = "bin" => n.ot \notin Unfinished
BY DEF Clean, Annotated

LEMMA CleanLeaf ==
    ASSUME NEW e \in AllTrees, e.k # "bin"
    PROVE  Clean(e) <=> (e.k # "call" => e.rt \notin Unfinished)
<1>1. NodesOf[e] = {e}
  BY NodesAre
<1>2. QED
  BY <1>1, CleanIs

LEMMA CleanBin ==
    ASSUME NEW e \in AllTrees, e.k = "bin"
    PROVE  Clean(e) <=> /\ e.rt \notin Unfinished /\ e.ot \notin Unfinished
                        /\ Clean(e.l) /\ Clean(e.r)
<1>1. NodesOf[e] = {e} \cup NodesOf[e.l] \cup NodesOf[e.r]
  BY NodesAre
<1>2. QED
  BY <1>1, CleanIs

LEMMA BuiltinFinished == \A t \in BuiltinTypes : t \notin Unfinished
BY TypesAre DEF Unfinished

LEMMA IsMarked ==
    ASSUME NEW e \in AllTrees, NEW t, Is(e, t), e.k # "call"
    PROVE  e.rt = t
<1>1. e.k \in {"int", "float", "var", "bin"}
  BY LeafTrees
<1>2. QED
  BY <1>1 DEF Is

LEMMA TypedClean ==
    \A e \in AllTrees : \A t \in BuiltinTypes : TypedAs(e, t) => Clean(e)
<1>1. PICK S : S = {e \in AllTrees : \A t \in BuiltinTypes : TypedAs(e, t) => Clean(e)}
  OBVIOUS
<1>2. ASSUME NEW e \in AllTrees, e.k = "bin" => e.l \in S /\ e.r \in S
      PROVE  e \in S
  <2>1. SUFFICES ASSUME NEW t \in BuiltinTypes, TypedAs(e, t)
                 PROVE  Clean(e)
    BY <1>1
  <2>2. t \notin Unfinished
    BY BuiltinFinished
  <2>3. CASE e.k # "bin"
    <3>1. Is(e, t)
      BY <2>1, <2>3, TypedLeaf
    <3>2. e.k # "call" => e.rt = t
      BY <3>1, IsMarked
    <3>3. QED
      BY <2>2, <2>3, <3>2, CleanLeaf
  <2>4. CASE e.k = "bin"
    <3>1. Is(e, t) /\ e.ot \in BuiltinTypes /\ TypedAs(e.l, e.ot) /\ TypedAs(e.r, e.ot)
      BY <2>1, <2>4, TypedBin
    <3>2. Clean(e.l) /\ Clean(e.r)
      BY <1>1, <1>2, <2>4, <3>1
    <3>3. e.rt = t /\ e.ot \notin Unfinished
      BY <2>4, <3>1, IsMarked, BuiltinFinished
    <3>4. QED
      BY <2>2, <2>4, <3>2, <3>3, CleanBin
  <2>5. QED
    BY <2>3, <2>4
<1>3. QED
  BY <1>1, <1>2, TreeInduction

(***************************************************************************)
(* What an expression of type t is computed from.                          *)
(***************************************************************************)
OperandsTyped(e, t) == \A o \in Operands[e] : o.k # "bin" => Is(o, t)

LEMMA OperandsOne ==
    ASSUME NEW e \in AllTrees, e.k # "bin" \/ e.op \in BoolOperators
    PROVE  Operands[e] = {e}
BY OperandsAre

LEMMA OperandsTwo ==
    ASSUME NEW e \in AllTrees, e.k = "bin", e.op \notin BoolOperators
    PROVE  Operands[e] = Operands[e.l] \cup Operands[e.r]
BY OperandsAre

LEMMA OperandsTypedTwo ==
    ASSUME NEW e \in AllTrees, e.k = "bin", e.op \notin BoolOperators, NEW t,
           OperandsTyped(e.l, t), OperandsTyped(e.r, t)
    PROVE  OperandsTyped(e, t)
<1>1. Operands[e] = Operands[e.l] \cup Operands[e.r]
  BY OperandsTwo
<1>2. QED
  BY <1>1 DEF OperandsTyped

LEMMA TypedOperands == \A e \in AllTrees : \A t : TypedAs(e, t) => OperandsTyped(e, t)
<1>1. PICK S : S = {e \in AllTrees : \A t : TypedAs(e, t) => OperandsTyped(e, t)}
  OBVIOUS
<1>2. ASSUME NEW e \in AllTrees, e.k = "bin" => e.l \in S /\ e.r \in S
      PROVE  e \in S
  <2>1. SUFFICES ASSUME NEW t, TypedAs(e, t)
                 PROVE  OperandsTyped(e, t)
    BY <1>1
  <2>2. CASE e.k # "bin" \/ e.op \in BoolOperators
    <3>1. Operands[e] = {e} /\ Is(e, t)
      BY <2>1, <2>2, OperandsOne, TypedIs
    <3>2. QED
      BY <3>1 DEF OperandsTyped
  <2>3. CASE e.k = "bin" /\ e.op \notin BoolOperators
    <3>1. Is(e, t) /\ TypedAs(e.l, e.ot) /\ TypedAs(e.r, e.ot)
      BY <2>1, <2>3, TypedBin
    <3>2. e.ot = t
      BY <2>3, <3>1, IsBin
    <3>3. OperandsTyped(e.l, t) /\ OperandsTyped(e.r, t)
      BY <1>1, <1>2, <2>3, <3>1, <3>2
    <3>4. QED
      BY <2>3, <3>3, OperandsTypedTwo
  <2>4. QED
    BY <2>2, <2>3
<1>3. QED
  BY <1>1, <1>2, TreeInduction

\* Checked, an expression is left without literal types, and its operands that
\* are not comparisons have the type expected.
Checked(e, t) == V[e][t].ok => Clean(V[e][t].node) /\ OperandsTyped(V[e][t].node, t)

LEMMA CheckLeaves == \A e \in AllTrees : \A t \in BuiltinTypes : Checked(e, t)
<1>1. PICK S : S = {e \in AllTrees : \A t \in BuiltinTypes : Checked(e, t)}
  OBVIOUS
<1>2. ASSUME NEW e \in AllTrees, e.k = "bin" => e.l \in S /\ e.r \in S
      PROVE  e \in S
  <2>1. SUFFICES ASSUME NEW t \in BuiltinTypes, V[e][t].ok
                 PROVE  Clean(V[e][t].node) /\ OperandsTyped(V[e][t].node, t)
    BY <1>1 DEF Checked
  <2>2. PICK Q : Q = V[e][t]
    OBVIOUS
  <2>3. t \in Expected /\ t # Sentinel /\ t \notin Unfinished
    BY MarksAre, BuiltinFinished
  <2>4. CASE e.k # "bin"
    <3>1. Arithmetic(e)
      BY <2>4, LeafTrees
    <3>2. Checks(e, t) /\ Q.node \in AllTrees
      BY <2>2, <2>3, <3>1, CheckArithmetic, VisitAll
    <3>3. TypedAs(Q.node, t)
      BY <2>1, <2>2, <3>2 DEF Checks
    <3>4. QED
      BY <2>2, <3>2, <3>3, TypedClean, TypedOperands
  <2>5. CASE e.k = "bin" /\ e.op \in BoolOperators
    <3>1. /\ Infers2(Q, e, V) /\ Q.node \in AllTrees /\ Q.node.k = "bin" /\ Q.node.op = e.op
      BY <2>2, <2>3, <2>5, VisitBin
    <3>2. PICK P : /\ Common(P, V[e.l][Sentinel], V[e.r][Sentinel], V) /\ Finishes(Q, P, e.op, V)
                   /\ P.ok => P.type \in Types
      BY <3>1 DEF Infers2
    <3>3. P.ok
      BY <2>1, <2>2, <3>2 DEF Finishes
    <3>4. Infers1(e.l) /\ Infers1(e.r)
      BY <2>5, BinTrees, InferSettles
    <3>5. SidesSettled(P, e)
      BY <2>5, <3>2, <3>3, <3>4, SidesSettle DEF Infers1
    <3>6. Settled(Q, e) /\ Q.type = "Bool"
      BY <2>1, <2>2, <2>5, <3>1, <3>2, <3>3, <3>5, Finished
    <3>7. "Bool" \notin LiteralTypes /\ "Bool" \in BuiltinTypes
      BY TypesAre
    <3>8. Clean(Q.node)
      BY <3>1, <3>6, <3>7, TypedClean DEF Settled
    <3>9. Operands[Q.node] = {Q.node}
      BY <2>5, <3>1, OperandsOne
    <3>10. QED
      BY <2>2, <3>1, <3>8, <3>9 DEF OperandsTyped
  <2>6. CASE e.k = "bin" /\ e.op \notin BoolOperators
    <3>1. /\ Checks2(Q, e, t, V) /\ Q.node \in AllTrees /\ Q.node.k = "bin" /\ Q.node.op = e.op
      BY <2>2, <2>3, <2>6, VisitBin
    <3>2. /\ V[e.l][t].ok /\ V[e.r][t].ok /\ Q.node.rt = t /\ Q.node.ot = t
          /\ Q.node.l = V[e.l][t].node /\ Q.node.r = V[e.r][t].node
      BY <2>1, <2>2, <3>1 DEF Checks2
    <3>3. Checked(e.l, t) /\ Checked(e.r, t)
      BY <1>1, <1>2, <2>6
    <3>4. /\ Clean(Q.node.l) /\ OperandsTyped(Q.node.l, t)
          /\ Clean(Q.node.r) /\ OperandsTyped(Q.node.r, t)
      BY <3>2, <3>3 DEF Checked
    <3>5. Clean(Q.node)
      BY <2>3, <3>1, <3>2, <3>4, CleanBin
    <3>6. OperandsTyped(Q.node, t)
      BY <2>6, <3>1, <3>4, OperandsTypedTwo
    <3>7. QED
      BY <2>2, <3>5, <3>6
  <2>7. QED
    BY <2>4, <2>5, <2>6
<1>3. QED
  BY <1>1, <1>2, TreeInduction

(***************************************************************************)
(* Lowering.                                                               *)
(***************************************************************************)
OpsType(e) == build_type_operations(IF e.rt = "Bool" THEN e.ot ELSE e.rt)

LEMMA EmitSides ==
    ASSUME NEW e \in AllTrees, e.k = "bin"
    PROVE  /\ e.l \in AllTrees /\ e.r \in AllTrees /\ e.op \in Operators
           /\ \A l \in emit[e.l] : l \in Values
           /\ \A r \in emit[e.r] : r \in Values
           /\ \A v : v \in emit[e] <=> \E l \in emit[e.l], r \in emit[e.r] : v \in emit_bin(e, l, r)
<1>1. e.l \in AllTrees /\ e.r \in AllTrees /\ e.op \in Operators
  BY BinTrees
<1>2. emit[e.l] \in Outcomes /\ emit[e.r] \in Outcomes
  BY <1>1, EmitIs
<1>3. emit[e] = Lowered(e, emit[e.l], emit[e.r])
  BY EmitIs
<1>4. \A v : v \in emit[e] <=> \E l \in emit[e.l], r \in emit[e.r] : v \in emit_bin(e, l, r)
  BY <1>3, LoweredBin
<1>5. QED
  BY <1>1, <1>2, <1>4, OutcomeType

\* What a value an operation ends in has to do with its operands.
LEMMA ApplyValue ==
    ASSUME NEW ops, NEW op, NEW l \in Values, NEW r \in Values, l.st # "throws", r.st # "throws",
           NEW v \in apply(ops, op, l, r), v.st = "ok"
    PROVE  /\ l.st = "ok" /\ r.st = "ok" /\ (v.const <=> l.const /\ r.const)
           /\ op \in BoolOperators => v.ty = <<"i", 1>>
           /\ op \notin BoolOperators => v.ty \in {l.ty, r.ty} /\ (v.const \/ l.ty = r.ty)
<1>1. Throws.st # "ok" /\ Invalid.st # "ok"
  BY ValueType
<1>2. op \in ArithmeticOperators \cup BoolOperators
  BY <1>1 DEF apply
<1>3. l.st # "invalid" /\ r.st # "invalid"
  BY <1>1, <1>2 DEF apply
<1>4. l.st = "ok" /\ r.st = "ok" /\ l.ty \in LLVMTypes /\ r.ty \in LLVMTypes
  BY <1>3, ValueType
<1>5. \A t : OperationType(op, t) = IF op \in BoolOperators THEN <<"i", 1>> ELSE t
  BY DEF OperationType
<1>6. \A t \in LLVMTypes, c \in BOOLEAN :
          Value(OperationType(op, t), c).ty = OperationType(op, t)
          /\ (Value(OperationType(op, t), c).const <=> c)
  BY ValueType, OperationTypeType
<1>7. CASE l.ty = r.ty /\ l.ty[1] = ops
  <2>1. PICK c \in BOOLEAN : c <=> l.const /\ r.const
    OBVIOUS
  <2>2. v = Value(OperationType(op, l.ty), c)
    BY <1>2, <1>3, <1>7, <2>1 DEF apply
  <2>3. v.ty = OperationType(op, l.ty) /\ (v.const <=> l.const /\ r.const)
    BY <1>4, <1>6, <2>1, <2>2
  <2>4. QED
    BY <1>4, <1>5, <1>7, <2>3
<1>8. CASE ~(l.ty = r.ty /\ l.ty[1] = ops)
  <2>1. l.const /\ r.const
    BY <1>1, <1>2, <1>3, <1>8 DEF apply
  <2>2. v \in {Invalid} \cup {Value(OperationType(op, t), TRUE) : t \in {l.ty, r.ty}}
    BY <1>2, <1>3, <1>8, <2>1 DEF apply
  <2>3. PICK t \in {l.ty, r.ty} : v = Value(OperationType(op, t), TRUE)
    BY <1>1, <2>2
  <2>4. v.ty = OperationType(op, t) /\ v.const
    BY <1>4, <1>6, <2>3
  <2>5. QED
    BY <1>4, <1>5, <2>1, <2>4
<1>9. QED
  BY <1>7, <1>8

LEMMA EmitBinValue ==
    ASSUME NEW e \in AllTrees, e.k = "bin", NEW v \in emit[e], v.st = "ok"
    PROVE  \E l \in emit[e.l], r \in emit[e.r] :
               /\ l.st = "ok" /\ r.st = "ok" /\ (v.const <=> l.const /\ r.const)
               /\ e.op \in BoolOperators => v.ty = <<"i", 1>>
               /\ e.op \notin BoolOperators => v.ty \in {l.ty, r.ty} /\ (v.const \/ l.ty = r.ty)
<1>1. PICK l \in emit[e.l], r \in emit[e.r] : v \in emit_bin(e, l, r)
  BY EmitSides
<1>2. l \in Values /\ r \in Values
  BY EmitSides
<1>3. PICK ops : ops = OpsType(e)
  OBVIOUS
<1>4. emit_bin(e, l, r) = IF l.st = "throws" \/ r.st = "throws" \/ ops = Sentinel THEN {Throws}
                          ELSE apply(ops, e.op, l, r)
  BY <1>3 DEF emit_bin, OpsType
<1>5. Throws.st # "ok"
  BY ValueType
<1>6. l.st # "throws" /\ r.st # "throws" /\ v \in apply(ops, e.op, l, r)
  BY <1>1, <1>4, <1>5
<1>7. /\ l.st = "ok" /\ r.st = "ok" /\ (v.const <=> l.const /\ r.const)
      /\ e.op \in BoolOperators => v.ty = <<"i", 1>>
      /\ e.op \notin BoolOperators => v.ty \in {l.ty, r.ty} /\ (v.const \/ l.ty = r.ty)
  <2>1. PICK op : op = e.op
    OBVIOUS
  <2>2. v \in apply(ops, op, l, r)
    BY <1>6, <2>1
  <2>3. QED
    BY <1>2, <1>6, <2>1, <2>2, ApplyValue
<1>8. QED
  BY <1>7

\* Operands of one type, which the operation takes, are all there is to it.
LEMMA EmitBinSame ==
    ASSUME NEW e \in AllTrees, e.k = "bin", e.op # "!=", OpsType(e) # Sentinel,
           NEW y \in LLVMTypes, y[1] = OpsType(e), NEW c \in BOOLEAN, NEW d \in BOOLEAN,
           emit[e.l] = {Value(y, c)}, emit[e.r] = {Value(y, d)}
    PROVE  \E b \in BOOLEAN : emit[e] = {Value(OperationType(e.op, y), b)}
<1>1. PICK l, r : l = Value(y, c) /\ r = Value(y, d)
  OBVIOUS
<1>2. /\ l.st = "ok" /\ l.ty = y /\ r.st = "ok" /\ r.ty = y
  BY <1>1, ValueType
<1>3. emit_bin(e, l, r) = apply(OpsType(e), e.op, l, r)
  BY <1>2 DEF emit_bin, OpsType
<1>4. e.op \in ArithmeticOperators \cup BoolOperators
  BY EmitSides DEF Operators
<1>5. PICK b \in BOOLEAN : b <=> l.const /\ r.const
  OBVIOUS
<1>6. apply(OpsType(e), e.op, l, r) = {Value(OperationType(e.op, y), b)}
  BY <1>2, <1>4, <1>5 DEF apply
<1>7. \A v : v \in emit[e] <=> v \in emit_bin(e, l, r)
  BY <1>1, EmitSides
<1>8. QED
  BY <1>3, <1>6, <1>7

LEMMA OperandKinds ==
    \A e \in AllTrees : /\ Operands[e] # {}
                        /\ \A o \in Operands[e] : o \in AllTrees /\ (o.k = "bin" => o.op \in BoolOperators)
<1>1. PICK S : S = {e \in AllTrees :
                      /\ Operands[e] # {}
                      /\ \A o \in Operands[e] : o \in AllTrees /\ (o.k = "bin" => o.op \in BoolOperators)}
  OBVIOUS
<1>2. ASSUME NEW e \in AllTrees, e.k = "bin" => e.l \in S /\ e.r \in S
      PROVE  e \in S
  <2>1. CASE e.k # "bin" \/ e.op \in BoolOperators
    BY <1>1, <2>1, OperandsOne
  <2>2. CASE e.k = "bin" /\ e.op \notin BoolOperators
    BY <1>1, <1>2, <2>2, OperandsTwo
  <2>3. QED
    BY <2>1, <2>2
<1>3. QED
  BY <1>1, <1>2, TreeInduction

LEMMA ConstantOperands ==
    \A e \in AllTrees : IsConstant(e) => \A o \in Operands[e] : IsConstant(o)
<1>1. PICK S : S = {e \in AllTrees : IsConstant(e) => \A o \in Operands[e] : IsConstant(o)}
  OBVIOUS
<1>2. ASSUME NEW e \in AllTrees, e.k = "bin" => e.l \in S /\ e.r \in S
      PROVE  e \in S
  <2>1. CASE e.k # "bin" \/ e.op \in BoolOperators
    BY <1>1, <2>1, OperandsOne
  <2>2. CASE e.k = "bin" /\ e.op \notin BoolOperators
    <3>1. IsConstant(e) => IsConstant(e.l) /\ IsConstant(e.r)
      BY <2>2, BinTrees
    <3>2. QED
      BY <1>1, <1>2, <2>2, <3>1, OperandsTwo
  <2>3. QED
    BY <2>1, <2>2
<1>3. QED
  BY <1>1, <1>2, TreeInduction

\* A value of the operand o has the type y.
Gives(o, y) == \E w \in emit[o] : w.st = "ok" /\ w.ty = y

\* A value that is built has the type of every operand that is not a constant,
\* and of one operand in any case; it is a constant when they all are.
Emitted(e, v) ==
    /\ v.const <=> IsConstant(e)
    /\ \A o \in Operands[e] : ~IsConstant(o) => Gives(o, v.ty)
    /\ \E o \in Operands[e] : Gives(o, v.ty)

LEMMA EmittedLeaf ==
    ASSUME NEW e \in AllTrees, e.k # "bin", NEW v \in emit[e], v.st = "ok"
    PROVE  v.const <=> IsConstant(e)
<1>1. e.k \in {"int", "float", "var", "call"} /\ (IsConstant(e) <=> e.k \in {"int", "float"})
  BY LeafTrees
<1>2. v \in Lowered(e, emit[e.l], emit[e.r])
  BY EmitIs
<1>3. Throws.st # "ok" /\ \A y : Value(y, TRUE).const /\ ~Value(y, FALSE).const
  BY ValueType DEF Value
<1>4. CASE e.k = "int"
  BY <1>1, <1>2, <1>3, <1>4 DEF Lowered
<1>5. CASE e.k = "float"
  BY <1>1, <1>2, <1>3, <1>5 DEF Lowered
<1>6. CASE e.k = "var"
  BY <1>1, <1>2, <1>3, <1>6 DEF Lowered
<1>7. CASE e.k = "call"
  BY <1>1, <1>2, <1>3, <1>7 DEF Lowered
<1>8. QED
  BY <1>1, <1>4, <1>5, <1>6, <1>7

LEMMA OperandEmits == \A e \in AllTrees : \A v \in emit[e] : v.st = "ok" => Emitted(e, v)
<1>1. PICK S : S = {e \in AllTrees : \A v \in emit[e] : v.st = "ok" => Emitted(e, v)}
  OBVIOUS
<1>2. ASSUME NEW e \in AllTrees, e.k = "bin" => e.l \in S /\ e.r \in S
      PROVE  e \in S
  <2>1. SUFFICES ASSUME NEW v \in emit[e], v.st = "ok"
                 PROVE  Emitted(e, v)
    BY <1>1
  <2>2. CASE e.k # "bin"
    <3>1. v.const <=> IsConstant(e)
      BY <2>1, <2>2, EmittedLeaf
    <3>2. Operands[e] = {e} /\ Gives(e, v.ty)
      BY <2>1, <2>2, OperandsOne DEF Gives
    <3>3. QED
      BY <3>1, <3>2 DEF Emitted
  <2>3. CASE e.k = "bin"
    <3>1. PICK l \in emit[e.l], r \in emit[e.r] :
               /\ l.st = "ok" /\ r.st = "ok" /\ (v.const <=> l.const /\ r.const)
               /\ e.op \in BoolOperators => v.ty = <<"i", 1>>
               /\ e.op \notin BoolOperators => v.ty \in {l.ty, r.ty} /\ (v.const \/ l.ty = r.ty)
      BY <2>1, <2>3, EmitBinValue
    <3>2. Emitted(e.l, l) /\ Emitted(e.r, r)
      BY <1>1, <1>2, <2>3, <3>1
    <3>3. e.l \in AllTrees /\ e.r \in AllTrees /\ (IsConstant(e) <=> IsConstant(e.l) /\ IsConstant(e.r))
      BY <2>3, BinTrees
    <3>4. v.const <=> IsConstant(e)
      BY <3>1, <3>2, <3>3 DEF Emitted
    <3>5. CASE e.op \in BoolOperators
      <4>1. Operands[e] = {e} /\ Gives(e, v.ty)
        BY <2>1, <3>5, OperandsOne DEF Gives
      <4>2. QED
        BY <3>4, <4>1 DEF Emitted
    <3>6. CASE e.op \notin BoolOperators
      <4>1. Operands[e] = Operands[e.l] \cup Operands[e.r]
        BY <2>3, <3>6, OperandsTwo
      <4>2. v.ty \in {l.ty, r.ty} /\ (v.const \/ l.ty = r.ty)
        BY <3>1, <3>6
      <4>3. ASSUME NEW o \in Operands[e], ~IsConstant(o)
            PROVE  Gives(o, v.ty)
        <5>1. ~v.const
          BY <3>3, <3>4, <4>1, <4>3, ConstantOperands
        <5>2. v.ty = l.ty /\ v.ty = r.ty
          BY <4>2, <5>1
        <5>3. QED
          BY <3>2, <4>1, <4>3, <5>2 DEF Emitted
      <4>4. \E o \in Operands[e] : Gives(o, v.ty)
        BY <3>2, <4>1, <4>2 DEF Emitted
      <4>5. QED
        BY <3>4, <4>3, <4>4 DEF Emitted
    <3>7. QED
      BY <3>5, <3>6
  <2>4. QED
    BY <2>2, <2>3
<1>3. QED
  BY <1>1, <1>2, TreeInduction

LEMMA NumericOperations ==
    \A t \in IntTypes : build_type_operations(t) = "i" /\ t # "Bool"
BY TypesAre DEF build_type_operations

\* An operand is lowered to a value of its type, a float literal to a double.
LEMMA OperandValue ==
    ASSUME NEW o \in AllTrees, o.k # "bin", NEW t \in BuiltinTypes, Is(o, t), HasLLVMType(t),
           NEW w \in emit[o], w.st = "ok"
    PROVE  /\ o.k # "float" => w.ty = get_llvm_type(t)
           /\ o.k = "float" => t \in FloatTypes /\ w.ty = <<"fp", 64>>
<1>1. o.k \in {"int", "float", "var", "call"}
  BY LeafTrees
<1>2. w \in Lowered(o, emit[o.l], emit[o.r])
  BY EmitIs
<1>3. Throws.st # "ok" /\ \A y, c : Value(y, c).ty = y
  BY ValueType DEF Value
<1>4. CASE o.k = "int"
  <2>1. o.rt = t
    BY <1>4 DEF Is
  <2>2. w \in {IF t \in IntTypes THEN Value(get_llvm_type(t), TRUE) ELSE Throws}
    BY <1>2, <1>4, <2>1 DEF Lowered
  <2>3. QED
    BY <1>3, <1>4, <2>2
<1>5. CASE o.k = "float"
  <2>1. t \in FloatTypes
    BY <1>5 DEF Is, float_is_in_range
  <2>2. w = Value(<<"fp", 64>>, TRUE)
    BY <1>2, <1>5 DEF Lowered
  <2>3. QED
    BY <1>3, <1>5, <2>1, <2>2
<1>6. CASE o.k = "var"
  <2>1. o.rt = t
    BY <1>6 DEF Is
  <2>2. w = Value(get_llvm_type(t), FALSE)
    BY <1>2, <1>6, <2>1 DEF Lowered
  <2>3. QED
    BY <1>3, <1>6, <2>2
<1>7. CASE o.k = "call"
  <2>1. t = "Int32"
    BY <1>7 DEF Is
  <2>2. w = Value(<<"i", 32>>, FALSE)
    BY <1>2, <1>7 DEF Lowered
  <2>3. get_llvm_type("Int32") = <<"i", 32>>
    BY LLVMTypeType
  <2>4. QED
    BY <1>3, <1>7, <2>1, <2>2, <2>3
<1>8. QED
  BY <1>1, <1>4, <1>5, <1>6, <1>7

LEMMA OnlyBoolIsABit ==
    ASSUME NEW t, HasLLVMType(t)
    PROVE  get_llvm_type(t) = <<"i", 1>> <=> t = "Bool"
<1>1. get_llvm_type("Bool") = <<"i", 1>> /\ get_llvm_type("Float64") = <<"fp", 64>>
      /\ get_llvm_type("Float32") = <<"fp", 32>> /\ FloatTypes = {"Float32", "Float64"}
  BY LLVMTypeType, TypesAre
<1>2. t \in {"Bool"} \cup IntTypes \cup FloatTypes
  BY DEF HasLLVMType
<1>3. \A u \in IntTypes : get_llvm_type(u) # <<"i", 1>>
  BY LLVMTypeType
<1>4. <<"fp", 32>> # <<"i", 1>> /\ <<"fp", 64>> # <<"i", 1>>
  OBVIOUS
<1>5. QED
  BY <1>1, <1>2, <1>3, <1>4

\* Whether the value of an operand fills a variable of type t.
LEMMA OperandFills ==
    ASSUME NEW o \in AllTrees, o.k = "bin" => o.op \in BoolOperators,
           NEW t \in BuiltinTypes, HasLLVMType(t), o.k # "bin" => Is(o, t),
           NEW y, Gives(o, y)
    PROVE  y = get_llvm_type(t) <=> Fills(o, t)
<1>1. PICK w \in emit[o] : w.st = "ok" /\ w.ty = y
  BY DEF Gives
<1>2. CASE o.k = "bin"
  <2>1. w.ty = <<"i", 1>>
    BY <1>1, <1>2, EmitBinValue
  <2>2. QED
    BY <1>1, <1>2, <2>1, OnlyBoolIsABit DEF Fills
<1>3. CASE o.k = "float"
  <2>1. t \in FloatTypes /\ y = <<"fp", 64>>
    BY <1>1, <1>3, OperandValue
  <2>2. /\ get_llvm_type("Float64") = <<"fp", 64>> /\ get_llvm_type("Float32") = <<"fp", 32>>
        /\ <<"fp", 32>> # <<"fp", 64>> /\ FloatTypes = {"Float32", "Float64"}
    BY LLVMTypeType, TypesAre
  <2>3. y = get_llvm_type(t) <=> t # "Float32"
    BY <2>1, <2>2
  <2>4. QED
    BY <1>3, <2>3 DEF Fills
<1>4. CASE o.k # "bin" /\ o.k # "float"
  <2>1. y = get_llvm_type(t)
    BY <1>1, <1>4, OperandValue
  <2>2. QED
    BY <1>4, <2>1 DEF Fills
<1>5. QED
  BY <1>2, <1>3, <1>4

\* Only the kinds of the operands matter to whether they fill a variable.
LEMMA FillsByKind ==
    ASSUME NEW d, NEW e, Kinds(d) = Kinds(e), Computed(d) = Computed(e), NEW t, NEW b \in BOOLEAN,
           \A o \in Operands[d] : ~IsConstant(o) => (b <=> Fills(o, t)),
           \E o \in Operands[d] : b <=> Fills(o, t)
    PROVE  /\ \A o \in Operands[e] : ~IsConstant(o) => (b <=> Fills(o, t))
           /\ \E o \in Operands[e] : b <=> Fills(o, t)
<1>1. \A o, n : o.k = n.k => (Fills(o, t) <=> Fills(n, t))
  BY DEF Fills
<1>2. \A x, k : k \in Kinds(x) <=> \E o \in Operands[x] : o.k = k
  BY DEF Kinds
<1>3. \A x, k : k \in Computed(x) <=> \E o \in Operands[x] : o.k = k /\ ~IsConstant(o)
  BY DEF Computed, Kinds
<1>4. ASSUME NEW o \in Operands[e], ~IsConstant(o)
      PROVE  b <=> Fills(o, t)
  <2>1. o.k \in Computed(d)
    BY <1>3, <1>4
  <2>2. PICK n \in Operands[d] : n.k = o.k /\ ~IsConstant(n)
    BY <1>3, <2>1
  <2>3. QED
    BY <1>1, <2>2
<1>5. \E o \in Operands[e] : b <=> Fills(o, t)
  <2>1. PICK n \in Operands[d] : b <=> Fills(n, t)
    OBVIOUS
  <2>2. n.k \in Kinds(e)
    BY <1>2
  <2>3. PICK o \in Operands[e] : o.k = n.k
    BY <1>2, <2>2
  <2>4. QED
    BY <1>1, <2>1, <2>3
<1>6. QED
  BY <1>4, <1>5

LEMMA StoredValue ==
    ASSUME NEW e \in AllTrees, NEW t \in BuiltinTypes, HasLLVMType(t), OperandsTyped(e, t),
           NEW v \in emit[e], v.st = "ok"
    PROVE  /\ \A o \in Operands[e] : ~IsConstant(o) => (v.ty = get_llvm_type(t) <=> Fills(o, t))
           /\ \E o \in Operands[e] : v.ty = get_llvm_type(t) <=> Fills(o, t)
<1>1. \A o \in Operands[e] : o \in AllTrees /\ (o.k = "bin" => o.op \in BoolOperators)
  BY OperandKinds
<1>2. \A o \in Operands[e] : Gives(o, v.ty) => (v.ty = get_llvm_type(t) <=> Fills(o, t))
  BY <1>1, OperandFills DEF OperandsTyped
<1>3. Emitted(e, v)
  BY OperandEmits
<1>4. QED
  BY <1>2, <1>3 DEF Emitted

\* Integer arithmetic is lowered to a value of its type.
BuiltAs(e, y) == \E c \in BOOLEAN : emit[e] = {Value(y, c)}

LEMMA EmitInteger ==
    \A e \in AllTrees : \A t \in IntTypes :
        TypedAs(e, t) /\ Arithmetic(e) /\ "!=" \notin Ops(e) => BuiltAs(e, get_llvm_type(t))
<1>1. PICK S : S = {e \in AllTrees : \A t \in IntTypes :
                      TypedAs(e, t) /\ Arithmetic(e) /\ "!=" \notin Ops(e) =>
                          BuiltAs(e, get_llvm_type(t))}
  OBVIOUS
<1>2. ASSUME NEW e \in AllTrees, e.k = "bin" => e.l \in S /\ e.r \in S
      PROVE  e \in S
  <2>1. SUFFICES ASSUME NEW t \in IntTypes, TypedAs(e, t), Arithmetic(e), "!=" \notin Ops(e)
                 PROVE  BuiltAs(e, get_llvm_type(t))
    BY <1>1
  <2>2. PICK y : y = get_llvm_type(t)
    OBVIOUS
  <2>3. y \in LLVMTypes /\ y[1] = "i" /\ HasLLVMType(t)
    BY <2>2, LLVMTypeType
  <2>4. CASE e.k # "bin"
    <3>1. Is(e, t) /\ e.k \in {"int", "float", "var", "call"}
      BY <2>1, <2>4, TypedLeaf, LeafTrees
    <3>2. emit[e] = Lowered(e, emit[e.l], emit[e.r])
      BY EmitIs
    <3>3. e.k # "float"
      BY <3>1, MarksAre DEF Is, float_is_in_range
    <3>4. e.k \in {"int", "var"} => e.rt = t
      BY <3>1, IsMarked
    <3>5. CASE e.k = "int"
      BY <2>2, <2>3, <3>2, <3>4, <3>5 DEF Lowered, BuiltAs
    <3>6. CASE e.k = "var"
      BY <2>2, <2>3, <3>2, <3>4, <3>6 DEF Lowered, BuiltAs
    <3>7. CASE e.k = "call"
      <4>1. t = "Int32"
        BY <3>1, <3>7 DEF Is
      <4>2. QED
        BY <2>2, <3>2, <3>7, <4>1, LLVMTypeType DEF Lowered, BuiltAs
    <3>8. QED
      BY <3>1, <3>3, <3>5, <3>6, <3>7
  <2>5. CASE e.k = "bin"
    <3>1. /\ e.op \notin BoolOperators /\ e.op # "!=" /\ Arithmetic(e.l) /\ Arithmetic(e.r)
          /\ "!=" \notin Ops(e.l) /\ "!=" \notin Ops(e.r)
      BY <2>1, <2>5, BinTrees
    <3>2. Is(e, t) /\ TypedAs(e.l, e.ot) /\ TypedAs(e.r, e.ot)
      BY <2>1, <2>5, TypedBin
    <3>3. e.rt = t /\ e.ot = t
      BY <2>5, <3>1, <3>2, IsBin
    <3>4. BuiltAs(e.l, y) /\ BuiltAs(e.r, y)
      BY <1>1, <1>2, <2>2, <2>5, <3>1, <3>2, <3>3
    <3>5. OpsType(e) = "i" /\ "i" # Sentinel
      BY <3>3, NumericOperations DEF OpsType, Sentinel
    <3>6. \E b \in BOOLEAN : emit[e] = {Value(OperationType(e.op, y), b)}
      BY <2>3, <2>5, <3>1, <3>4, <3>5, EmitBinSame DEF BuiltAs
    <3>7. OperationType(e.op, y) = y
      BY <3>1 DEF OperationType
    <3>8. QED
      BY <2>2, <3>6, <3>7 DEF BuiltAs
  <2>6. QED
    BY <2>4, <2>5
<1>3. QED
  BY <1>1, <1>2, TreeInduction

LEMMA EmitIntegerComparison ==
    ASSUME NEW e \in AllTrees, e.k = "bin", e.op \in BoolOperators, TypedAs(e, "Bool"),
           e.ot \in IntTypes, Arithmetic(e.l), Arithmetic(e.r), "!=" \notin Ops(e)
    PROVE  BuiltAs(e, get_llvm_type("Bool"))
<1>1. PICK y : y = get_llvm_type(e.ot)
  OBVIOUS
<1>2. y \in LLVMTypes /\ y[1] = "i"
  BY <1>1, LLVMTypeType
<1>3. /\ e.op # "!=" /\ "!=" \notin Ops(e.l) /\ "!=" \notin Ops(e.r)
      /\ e.l \in AllTrees /\ e.r \in AllTrees
  BY BinTrees
<1>4. Is(e, "Bool") /\ TypedAs(e.l, e.ot) /\ TypedAs(e.r, e.ot)
  BY TypedBin
<1>5. e.rt = "Bool"
  BY <1>4, IsBin
<1>6. BuiltAs(e.l, y) /\ BuiltAs(e.r, y)
  BY <1>1, <1>3, <1>4, EmitInteger
<1>7. OpsType(e) = "i" /\ "i" # Sentinel
  BY <1>5, NumericOperations DEF OpsType, Sentinel
<1>8. \E b \in BOOLEAN : emit[e] = {Value(OperationType(e.op, y), b)}
  BY <1>2, <1>3, <1>6, <1>7, EmitBinSame DEF BuiltAs
<1>9. OperationType(e.op, y) = get_llvm_type("Bool")
  BY LLVMTypeType DEF OperationType
<1>10. QED
  BY <1>8, <1>9 DEF BuiltAs

(***************************************************************************)
(* An expression on its way through the compiler.                          *)
(***************************************************************************)
StatementType(c, r) ==
    CASE c \in Infers      -> r.type
      [] c = "condition"   -> "Bool"
      [] c \in Annotations -> c

Used(v) == IF v.st = "throws" THEN v ELSE Use(v)

Becomes(v) == CASE v.st = "throws"  -> "threw"
                [] v.st = "invalid" -> "invalid"
                [] v.st = "ok"      -> "emitted"

Lowers == \E v \in emit[tree] : phase = Becomes(Used(v)) /\ value = Used(v).ty

(***************************************************************************)
(* The inductive invariant: what has been reached is what typing the tree  *)
(* and lowering the typed tree return.                                     *)
(***************************************************************************)
EInv ==
    /\ expr \in Trees /\ context \in Contexts
    /\ phase \in {"parsed", "rejected", "typed", "threw", "invalid", "emitted"}
    /\ phase \in {"parsed", "rejected"} => tree = expr
    /\ phase = "rejected" => ~Typing(expr, context).ok
    /\ Accepted => /\ Typing(expr, context).ok
                   /\ tree = Typing(expr, context).node
                   /\ type = StatementType(context, Typing(expr, context))
    /\ phase \in {"parsed", "rejected", "typed"} => value = << >>
    /\ phase \in {"threw", "invalid", "emitted"} => Lowers

LEMMA ContextIs ==
    ASSUME NEW c \in Contexts
    PROVE  /\ c \in Infers => c # "condition" /\ c \notin BuiltinTypes /\ c \notin Annotations
           /\ c \notin Infers /\ c # "condition" => c \in Annotations /\ c \in BuiltinTypes
           /\ "condition" \notin Infers /\ "condition" \notin Annotations
<1>1. "decl" \notin BuiltinTypes /\ "show" \notin BuiltinTypes /\ "return" \notin BuiltinTypes
      /\ "condition" \notin BuiltinTypes
  BY TypesAre
<1>2. Infers = {"decl", "show", "return"}
  BY DEF Infers
<1>3. QED
  BY <1>1, <1>2, AnnotationsAssumption DEF Contexts

LEMMA TypingIs ==
    ASSUME NEW e, NEW c \in Contexts
    PROVE  /\ c \in Infers => /\ Typing(e, c) = Top(e)
                              /\ \A r : StatementType(c, r) = r.type
           /\ c = "condition" => /\ Typing(e, c) = V[e]["Bool"]
                                 /\ \A r : StatementType(c, r) = "Bool"
           /\ c \notin Infers /\ c # "condition" =>
                  Typing(e, c) = V[e][c] /\ \A r : StatementType(c, r) = c
<1>1. CASE c \in Infers
  BY <1>1, ContextIs DEF Typing, Top, StatementType
<1>2. CASE c = "condition"
  BY <1>2, ContextIs DEF Typing, V, StatementType
<1>3. CASE c \notin Infers /\ c # "condition"
  BY <1>3, ContextIs DEF Typing, V, StatementType
<1>4. QED
  BY <1>1, <1>2, <1>3

\* What the visitors of the statements leave in an accepted tree.
LEMMA TypingType ==
    ASSUME NEW e \in AllTrees, NEW c \in Contexts, NEW r, r = Typing(e, c), r.ok,
           NEW t, t = StatementType(c, r)
    PROVE  /\ t \in BuiltinTypes /\ r.node \in AllTrees /\ Same(r.node, e)
           /\ Clean(r.node) /\ OperandsTyped(r.node, t)
           /\ c \in Infers => TypedAs(r.node, t)
<1>1. CASE c \in Infers
  <2>1. r = Top(e) /\ t = r.type
    BY <1>1, TypingIs
  <2>2. t \in BuiltinTypes /\ TypedAs(r.node, t) /\ r.node \in AllTrees /\ Same(r.node, e)
    BY <2>1, TopIs
  <2>3. QED
    BY <2>2, TypedClean, TypedOperands
<1>2. CASE c \notin Infers
  <2>1. t \in BuiltinTypes /\ r = V[e][t]
    BY <1>2, TypingIs, ContextIs, MarksAre
  <2>2. t \in Expected
    BY <2>1, MarksAre
  <2>3. r.node \in AllTrees /\ Same(r.node, e)
    BY <2>1, <2>2, VisitAll
  <2>4. Clean(r.node) /\ OperandsTyped(r.node, t)
    BY <2>1, CheckLeaves DEF Checked
  <2>5. QED
    BY <1>2, <2>1, <2>3, <2>4
<1>3. QED
  BY <1>1, <1>2

LEMMA UsedType ==
    ASSUME context \in Contexts, NEW v \in Values
    PROVE  Used(v) \in Values
<1>1. \/ context \in {"decl"} \cup Annotations
      \/ context = "condition"
      \/ context = "return"
      \/ context = "show"
  BY ContextIs DEF Infers
<1>2. Use(v) \in {v, Throws, Invalid}
  BY <1>1, ContextIs DEF Use
<1>3. QED
  BY <1>2, ValueType DEF Used

LEMMA EInit == Init => EInv
BY DEF Init, EInv, Accepted

LEMMA EStep == EInv /\ [Next]_evars => EInv'
<1>1. SUFFICES ASSUME EInv, [Next]_evars
               PROVE  EInv'
  OBVIOUS
<1>2. CASE TypeCheck
  <2>1. PICK r : r = Typing(expr, context)
    OBVIOUS
  <2>2. phase = "parsed" /\ expr' = expr /\ context' = context /\ value' = value
    BY <1>2 DEF TypeCheck
  <2>3. r = Typing(expr', context')
    BY <2>1, <2>2 DEF Typing
  <2>4. value = << >> /\ tree = expr
    BY <1>1, <2>2 DEF EInv
  <2>5. CASE r.ok
    <3>1. phase' = "typed" /\ tree' = r.node /\ type' = StatementType(context, r)
      BY <1>2, <2>1, <2>5 DEF TypeCheck, StatementType
    <3>2. QED
      BY <1>1, <2>2, <2>3, <2>4, <2>5, <3>1 DEF EInv, Accepted
  <2>6. CASE ~r.ok
    <3>1. phase' = "rejected" /\ tree' = tree
      BY <1>2, <2>1, <2>6 DEF TypeCheck
    <3>2. QED
      BY <1>1, <2>2, <2>3, <2>4, <2>6, <3>1 DEF EInv, Accepted
  <2>7. QED
    BY <2>5, <2>6
<1>3. CASE Lower
  <2>1. phase = "typed" /\ expr' = expr /\ context' = context /\ tree' = tree /\ type' = type
    BY <1>3 DEF Lower
  <2>2. PICK v \in emit[tree] : phase' = Becomes(Used(v)) /\ value' = Used(v).ty
    BY <1>3 DEF Lower, Used, Becomes
  <2>3. Lowers'
    <3>1. Used(v)' = Used(v)
      BY <2>1 DEF Used, Use
    <3>2. QED
      BY <2>1, <2>2, <3>1 DEF Lowers, Becomes
  <2>4. v \in Values
    <3>1. expr \in AllTrees /\ context \in Contexts
      BY <1>1, TreesAssumption DEF EInv
    <3>2. Typing(expr, context).ok /\ tree = Typing(expr, context).node
      BY <1>1, <2>1 DEF EInv, Accepted
    <3>3. tree \in AllTrees
      BY <3>1, <3>2, TypingType
    <3>4. QED
      BY <3>3, EmitIs, OutcomeType
  <2>5. Used(v) \in Values
    BY <1>1, <2>4, UsedType DEF EInv
  <2>6. phase' \in {"threw", "invalid", "emitted"}
    BY <2>2, <2>5, ValueType DEF Becomes
  <2>7. Typing(expr', context') = Typing(expr, context)
    BY <2>1
  <2>8. QED
    BY <1>1, <2>1, <2>3, <2>6, <2>7 DEF EInv, Accepted
<1>4. CASE UNCHANGED evars
  <2>1. /\ expr' = expr /\ context' = context /\ phase' = phase /\ tree' = tree /\ type' = type
        /\ value' = value
    BY <1>4 DEF evars
  <2>2. Lowers' <=> Lowers
    BY <2>1 DEF Lowers, Becomes, Used, Use
  <2>3. QED
    BY <1>1, <2>1, <2>2 DEF EInv, Accepted
<1>5. QED
  BY <1>1, <1>2, <1>3, <1>4 DEF Next, Done

(***************************************************************************)
(* EInv is an invariant: what the two visitors have made of the expression *)
(* so far is what typing the tree and then lowering it return.             *)
(***************************************************************************)
THEOREM ExpressionsInvariant == Spec => []EInv
<1>1. Init => EInv
  BY EInit
<1>2. EInv /\ [Next]_evars => EInv'
  BY EStep
<1>3. QED
  BY <1>1, <1>2, PTL DEF Spec

LEMMA ExprTree == EInv => expr \in AllTrees /\ context \in Contexts
BY TreesAssumption DEF EInv

LEMMA AcceptedTree ==
    ASSUME EInv, Accepted
    PROVE  /\ type \in BuiltinTypes /\ tree \in AllTrees /\ Same(tree, expr)
           /\ Clean(tree) /\ OperandsTyped(tree, type)
           /\ context \in Infers => TypedAs(tree, type)
<1>1. PICK r : r = Typing(expr, context)
  OBVIOUS
<1>2. r.ok /\ tree = r.node /\ type = StatementType(context, r)
  BY <1>1 DEF EInv
<1>3. QED
  BY <1>1, <1>2, ExprTree, TypingType

LEMMA UseStored ==
    ASSUME NEW v, context \in {"decl"} \cup Annotations
    PROVE  Use(v) = IF HasLLVMType(type) THEN v ELSE Throws
<1>1. context \notin {"condition", "return", "show"}
  BY AnnotationsAssumption, TypesAre
<1>2. QED
  BY <1>1 DEF Use

\* Whether the tree was accepted is whether typing it succeeds.
LEMMA AcceptedIs ==
    ASSUME EInv, phase # "parsed"
    PROVE  Accepted <=> Typing(expr, context).ok
BY DEF EInv, Accepted

(***************************************************************************)
(* TypeOK: the state has its types; an accepted expression has a type a    *)
(* program can name, and its value an LLVM type.                           *)
(***************************************************************************)
THEOREM ExpressionsTypeOK == Spec => []TypeOK
<1>1. ASSUME EInv
      PROVE  TypeOK
  <2>1. expr \in AllTrees /\ context \in Contexts
    BY <1>1, ExprTree
  <2>2. expr.k \in {"int", "float", "var", "call", "bin"}
    BY <2>1, LeafTrees
  <2>3. tree.k = expr.k
    <3>1. CASE Accepted
      BY <1>1, <3>1, AcceptedTree DEF Same
    <3>2. CASE ~Accepted
      BY <1>1, <3>2 DEF EInv, Accepted
    <3>3. QED
      BY <3>1, <3>2
  <2>4. Accepted => type \in BuiltinTypes
    BY <1>1, AcceptedTree
  <2>5. value \in {<< >>} \cup LLVMTypes
    <3>1. CASE phase \in {"parsed", "rejected", "typed"}
      BY <1>1, <3>1 DEF EInv
    <3>2. CASE phase \in {"threw", "invalid", "emitted"}
      <4>1. Accepted /\ Lowers
        BY <1>1, <3>2 DEF EInv, Accepted
      <4>2. PICK v \in emit[tree] : value = Used(v).ty
        BY <4>1 DEF Lowers
      <4>3. v \in Values
        BY <1>1, <4>1, AcceptedTree, EmitIs, OutcomeType
      <4>4. Used(v) \in Values
        BY <2>1, <4>3, UsedType
      <4>5. QED
        BY <4>2, <4>4, ValueType
    <3>3. QED
      BY <1>1, <3>1, <3>2 DEF EInv
  <2>6. QED
    BY <1>1, <2>1, <2>2, <2>3, <2>4, <2>5 DEF TypeOK, EInv, LLVMTypes
<1>2. QED
  BY <1>1, ExpressionsInvariant, PTL

(***************************************************************************)
(* InferExact: the two-sided promotion of literals accepts what the leaves *)
(* alone say has a type.                                                   *)
(***************************************************************************)
THEOREM InferenceIsExact == Spec => []InferExact
<1>1. ASSUME EInv
      PROVE  InferExact
  <2>1. SUFFICES ASSUME context \in Infers, Arithmetic(expr) \/ Comparison(expr), phase # "parsed"
                 PROVE  Accepted <=> Known(expr) /\ Unifies(expr)
    BY DEF InferExact
  <2>2. expr \in AllTrees /\ context \in Contexts
    BY <1>1, ExprTree
  <2>3. Accepted <=> Top(expr).ok
    BY <1>1, <2>1, <2>2, AcceptedIs, TypingIs
  <2>4. Top(expr).ok <=> Accepts(expr)
    BY <2>1, <2>2, TopIs, InferComparison
  <2>5. Accepts(expr) <=> Known(expr) /\ Unifies(expr)
    BY <2>2, AcceptsIs
  <2>6. QED
    BY <2>3, <2>4, <2>5
<1>2. QED
  BY <1>1, ExpressionsInvariant, PTL

(***************************************************************************)
(* CheckExact: pushing an annotation down accepts what the leaves alone    *)
(* say has that type.                                                      *)
(***************************************************************************)
THEOREM CheckingIsExact == Spec => []CheckExact
<1>1. ASSUME EInv
      PROVE  CheckExact
  <2>1. PICK t : t = IF context = "condition" THEN "Bool" ELSE context
    OBVIOUS
  <2>2. SUFFICES ASSUME context \notin Infers, Arithmetic(expr), phase # "parsed"
                 PROVE  Accepted <=> Known(expr) /\ Concrete(expr) \subseteq {t} /\ Fits(expr, t)
    BY <2>1 DEF CheckExact
  <2>3. expr \in AllTrees /\ context \in Contexts
    BY <1>1, ExprTree
  <2>4. t \in BuiltinTypes /\ Typing(expr, context) = V[expr][t]
    BY <2>1, <2>2, <2>3, ContextIs, TypingIs, MarksAre
  <2>5. Checks(expr, t)
    BY <2>2, <2>3, <2>4, CheckArithmetic
  <2>6. Accepted <=> AllFit(expr, t)
    BY <1>1, <2>2, <2>4, <2>5, AcceptedIs DEF Checks
  <2>7. QED
    BY <2>3, <2>4, <2>6, AllFitIs
<1>2. QED
  BY <1>1, ExpressionsInvariant, PTL

(***************************************************************************)
(* InferredTreeConsistent: every node of an inferred tree carries the type *)
(* its parent counts on.                                                   *)
(***************************************************************************)
THEOREM InferredTreesAreConsistent == Spec => []InferredTreeConsistent
<1>1. EInv => InferredTreeConsistent
  BY AcceptedTree DEF InferredTreeConsistent
<1>2. QED
  BY <1>1, ExpressionsInvariant, PTL

(***************************************************************************)
(* NoLiteralTypeSurvives: no node of an accepted tree keeps a literal type *)
(* or none.                                                                *)
(***************************************************************************)
THEOREM LiteralTypesAreGone == Spec => []NoLiteralTypeSurvives
<1>1. EInv => NoLiteralTypeSurvives
  BY AcceptedTree DEF NoLiteralTypeSurvives, Clean, Unfinished
<1>2. QED
  BY <1>1, ExpressionsInvariant, PTL

(***************************************************************************)
(* Integer expressions.                                                    *)
(***************************************************************************)
\* The type the leaves of an integer expression have is an integer type.
LEMMA IntegerLeaves ==
    ASSUME NEW e \in AllTrees, IntegersOnly(e), NEW t \in BuiltinTypes, AllFit(e, t),
           IsConstant(e) => t = DefaultOf(e)
    PROVE  t \in IntTypes
<1>1. CASE IsConstant(e)
  <2>1. ~HasFloat(e)
    BY DEF IntegersOnly, HasFloat
  <2>2. t = "Int32"
    BY <1>1, <2>1 DEF DefaultOf, Literal, get_literal_default
  <2>3. QED
    BY <2>2, TypesAre
<1>2. CASE ~IsConstant(e)
  <2>1. Concrete(e) # {} /\ Concrete(e) \subseteq {t}
    BY <1>2, ConcreteIs, AllFitIs
  <2>2. Concrete(e) \subseteq IntTypes \cup {Sentinel}
    BY DEF IntegersOnly
  <2>3. t # Sentinel
    BY MarksAre
  <2>4. QED
    BY <2>1, <2>2, <2>3
<1>3. QED
  BY <1>1, <1>2

LEMMA ComparisonKeeps ==
    ASSUME NEW e \in AllTrees, Comparison(e), V[e][Sentinel].ok
    PROVE  LET d == V[e][Sentinel].node
           IN  /\ d \in AllTrees /\ d.k = "bin" /\ d.op \in BoolOperators
               /\ Arithmetic(d.l) /\ Arithmetic(d.r) /\ Ops(d) = Ops(e)
<1>1. e.k = "bin" /\ e.op \in BoolOperators /\ Arithmetic(e.l) /\ Arithmetic(e.r)
  BY DEF Comparison
<1>2. PICK Q : Q = V[e][Sentinel]
  OBVIOUS
<1>3. /\ Infers2(Q, e, V) /\ Q.node \in AllTrees /\ Q.node.k = "bin" /\ Q.node.op = e.op
  BY <1>1, <1>2, VisitBin, MarksAre
<1>4. VisitsOn(V, AllTrees) /\ e \in BinOver(AllTrees)
  BY <1>1, VisitorIs, MaxHeightType, TreeNode
<1>5. Same(Q.node.l, e.l) /\ Same(Q.node.r, e.r)
  BY <1>2, <1>3, <1>4, VisitKeeps, InferKeeps
<1>6. Same(Q.node, e)
  BY <1>2, VisitAll, MarksAre
<1>7. QED
  BY <1>1, <1>2, <1>3, <1>5, <1>6, SameArithmetic DEF Same

\* A comparison is typed as if nothing was expected.
LEMMA ComparisonAnywhere ==
    ASSUME NEW e \in AllTrees, Comparison(e), NEW t \in BuiltinTypes
    PROVE  V[e][t] = V[e][Sentinel]
<1>1. e.k = "bin" /\ e.op \in BoolOperators
  BY DEF Comparison
<1>2. t \in Expected /\ Sentinel \in Expected /\ t # Sentinel
  BY MarksAre
<1>3. V[e][t] = Visited(e, t, V) /\ V[e][Sentinel] = Visited(e, Sentinel, V)
  BY <1>2, VisitorIs
<1>4. QED
  BY <1>1, <1>2, <1>3 DEF Visited, infer_expr, check_expr

LEMMA IntegerValue ==
    ASSUME EInv, Accepted, IntegersOnly(expr),
           \/ Arithmetic(expr) /\ context \in Infers \cup IntTypes
           \/ Comparison(expr) /\ context \in Infers \cup {"condition"}
    PROVE  BuiltAs(tree, get_llvm_type(type)) /\ type \in {"Bool"} \cup IntTypes
<1>1. expr \in AllTrees /\ context \in Contexts /\ "!=" \notin Ops(expr)
  BY ExprTree DEF IntegersOnly
<1>2. PICK r : r = Typing(expr, context)
  OBVIOUS
<1>3. r.ok /\ tree = r.node /\ type = StatementType(context, r)
  BY <1>2 DEF EInv
<1>4. type \in BuiltinTypes /\ tree \in AllTrees /\ Same(tree, expr)
  BY AcceptedTree
<1>5. CASE Arithmetic(expr)
  <2>1. TypedAs(tree, type) /\ type \in IntTypes
    <3>1. CASE context \in Infers
      <4>1. r = Top(expr) /\ type = r.type
        BY <1>1, <1>2, <1>3, <3>1, TypingIs
      <4>2. AllFit(expr, type) /\ (IsConstant(expr) => type = DefaultOf(expr))
        BY <1>1, <1>3, <1>5, <4>1, TopIs
      <4>3. type \in IntTypes
        BY <1>1, <1>4, <4>2, IntegerLeaves
      <4>4. QED
        BY <3>1, <4>3, AcceptedTree
    <3>2. CASE context \notin Infers
      <4>1. context \in IntTypes
        <5>1. ~Comparison(expr)
          <6>1. expr.k = "bin" => expr.op \in Ops(expr)
            BY <1>1, OpsAre
          <6>2. QED
            BY <1>5, <6>1 DEF Comparison, Arithmetic
        <5>2. QED
          BY <3>2, <5>1
      <4>2. context # "condition" /\ context \in BuiltinTypes
        BY <4>1, TypesAre
      <4>3. r = V[expr][context] /\ type = context
        BY <1>1, <1>2, <1>3, <3>2, <4>2, TypingIs
      <4>4. Checks(expr, context)
        BY <1>1, <1>5, <4>2, CheckArithmetic
      <4>5. QED
        BY <1>3, <4>1, <4>3, <4>4 DEF Checks
    <3>3. QED
      BY <3>1, <3>2
  <2>2. Arithmetic(tree) /\ "!=" \notin Ops(tree)
    BY <1>1, <1>4, <1>5, SameArithmetic DEF Same
  <2>3. QED
    BY <1>4, <2>1, <2>2, EmitInteger
<1>6. CASE Comparison(expr)
  <2>1. context \in Infers \cup {"condition"}
    <3>1. ~Arithmetic(expr)
      <4>1. expr.k = "bin" => expr.op \in Ops(expr)
        BY <1>1, OpsAre
      <4>2. QED
        BY <1>6, <4>1 DEF Comparison, Arithmetic
    <3>2. QED
      BY <3>1
  <2>2. r = V[expr][Sentinel]
    <3>1. CASE context \in Infers
      <4>1. r = Top(expr)
        BY <1>1, <1>2, <3>1, TypingIs
      <4>2. QED
        BY <1>1, <1>6, <4>1, TopIs
    <3>2. CASE context = "condition"
      <4>1. r = V[expr]["Bool"]
        BY <1>1, <1>2, <3>2, TypingIs
      <4>2. QED
        BY <1>1, <1>6, <4>1, ComparisonAnywhere, MarksAre
    <3>3. QED
      BY <2>1, <3>1, <3>2
  <2>3. /\ r.type = "Bool" /\ tree.ot \in BuiltinTypes /\ AllFit(expr, tree.ot)
        /\ IsConstant(expr) => tree.ot = DefaultOf(expr)
    BY <1>1, <1>3, <1>6, <2>2, InferComparison
  <2>4. type = "Bool"
    BY <1>1, <1>3, <2>1, <2>3, TypingIs
  <2>5. tree.ot \in IntTypes
    BY <1>1, <2>3, IntegerLeaves
  <2>6. /\ tree.k = "bin" /\ tree.op \in BoolOperators
        /\ Arithmetic(tree.l) /\ Arithmetic(tree.r) /\ "!=" \notin Ops(tree)
    BY <1>1, <1>3, <1>6, <2>2, ComparisonKeeps
  <2>7. TypedAs(tree, "Bool")
    <3>1. Settled(r, expr)
      BY <1>1, <1>3, <2>2, InferSettles DEF Infers1
    <3>2. QED
      BY <1>3, <2>3, <3>1, TypesAre DEF Settled
  <2>8. QED
    BY <1>4, <2>4, <2>5, <2>6, <2>7, EmitIntegerComparison
<1>7. QED
  BY <1>5, <1>6

(***************************************************************************)
(* IntegersLower: accepted integer expressions can be built, and the value *)
(* has the LLVM type of the type the checker gave the expression.          *)
(***************************************************************************)
THEOREM IntegersAreLowered == Spec => []IntegersLower
<1>1. ASSUME EInv
      PROVE  IntegersLower
  <2>1. SUFFICES ASSUME IntegersOnly(expr),
                        \/ Arithmetic(expr) /\ context \in {"decl", "show"} \cup IntTypes
                        \/ Comparison(expr) /\ context \in {"decl", "show", "condition"}
                 PROVE  /\ phase \notin {"threw", "invalid"}
                        /\ phase = "emitted" => value = get_llvm_type(type)
    BY DEF IntegersLower
  <2>2. SUFFICES ASSUME phase \in {"threw", "invalid", "emitted"}
                 PROVE  phase = "emitted" /\ value = get_llvm_type(type)
    OBVIOUS
  <2>3. Accepted /\ Lowers /\ context \in Contexts
    BY <1>1, <2>2 DEF EInv, Accepted
  <2>4. PICK v \in emit[tree] : phase = Becomes(Used(v)) /\ value = Used(v).ty
    BY <2>3 DEF Lowers
  <2>5. BuiltAs(tree, get_llvm_type(type)) /\ type \in {"Bool"} \cup IntTypes
    BY <1>1, <2>1, <2>3, IntegerValue DEF Infers
  <2>6. HasLLVMType(type)
    BY <2>5, LLVMTypeType
  <2>7. v.st = "ok" /\ v.ty = get_llvm_type(type)
    BY <2>4, <2>5, <2>6, LLVMTypeType, ValueType DEF BuiltAs
  <2>8. Use(v) = v
    <3>1. CASE context \in {"decl"} \cup Annotations
      BY <2>6, <3>1, UseStored
    <3>2. CASE context = "show"
      <4>1. context \notin Annotations /\ context \in Infers
        BY <2>3, <3>2, ContextIs DEF Infers
      <4>2. QED
        BY <3>2, <4>1 DEF Use
    <3>3. CASE context = "condition"
      <4>1. context \notin Annotations /\ context \notin Infers /\ context \notin IntTypes
        BY <3>3, <2>3, ContextIs, TypesAre
      <4>2. Comparison(expr)
        BY <2>1, <3>3, <4>1 DEF Infers
      <4>3. type = "Bool"
        <5>1. type = StatementType(context, Typing(expr, context))
          BY <1>1, <2>3 DEF EInv
        <5>2. QED
          BY <2>3, <3>3, <5>1, TypingIs
      <4>4. v.ty = <<"i", 1>>
        BY <2>7, <4>3, LLVMTypeType
      <4>5. QED
        BY <3>3, <4>1, <4>4 DEF Use
    <3>4. context \in {"decl", "show", "condition"} \cup Annotations
      BY <2>1, <2>3, ContextIs, TypesAre DEF Infers
    <3>5. QED
      BY <3>1, <3>2, <3>3, <3>4
  <2>9. Used(v) = v
    BY <2>8 DEF Used
  <2>10. QED
    BY <2>4, <2>7, <2>9 DEF Becomes
<1>2. QED
  BY <1>1, ExpressionsInvariant, PTL

(***************************************************************************)
(* ReturnExact: an integer expression that is returned can be built if and *)
(* only if it is 32 bits wide.                                             *)
(***************************************************************************)
THEOREM ReturnsAreExact == Spec => []ReturnExact
<1>1. ASSUME EInv
      PROVE  ReturnExact
  <2>1. SUFFICES ASSUME context = "return", IntegersOnly(expr),
                        Arithmetic(expr) \/ Comparison(expr), phase \in {"threw", "invalid", "emitted"}
                 PROVE  phase = "emitted" <=> get_llvm_type(type) = <<"i", 32>>
    BY DEF ReturnExact
  <2>2. Accepted /\ Lowers /\ context \in Contexts /\ context \in Infers
    BY <1>1, <2>1 DEF EInv, Accepted, Infers
  <2>3. PICK v \in emit[tree] : phase = Becomes(Used(v))
    BY <2>2 DEF Lowers
  <2>4. BuiltAs(tree, get_llvm_type(type)) /\ type \in {"Bool"} \cup IntTypes
    BY <1>1, <2>1, <2>2, IntegerValue
  <2>5. v.st = "ok" /\ v.ty = get_llvm_type(type)
    BY <2>3, <2>4, LLVMTypeType, ValueType DEF BuiltAs
  <2>6. context \notin Annotations
    BY <2>2, ContextIs
  <2>7. Used(v) = IF v.ty = <<"i", 32>> THEN v ELSE Invalid
    BY <2>1, <2>5, <2>6 DEF Used, Use
  <2>8. Invalid.st = "invalid"
    BY ValueType
  <2>9. CASE v.ty = <<"i", 32>>
    BY <2>3, <2>5, <2>7, <2>9 DEF Becomes
  <2>10. CASE v.ty # <<"i", 32>>
    BY <2>3, <2>5, <2>7, <2>8, <2>10 DEF Becomes
  <2>11. QED
    BY <2>9, <2>10
<1>2. QED
  BY <1>1, ExpressionsInvariant, PTL

(***************************************************************************)
(* StoredValueExact: a stored value has its variable's LLVM type if and    *)
(* only if the operands it is computed from do, which float literals at    *)
(* Float32 and comparisons at anything but Bool do not; where constants of *)
(* different types are folded, one of them decides.                        *)
(***************************************************************************)
THEOREM StoredValuesAreExact == Spec => []StoredValueExact
<1>1. ASSUME EInv
      PROVE  StoredValueExact
  <2>1. SUFFICES ASSUME phase = "emitted", context \in {"decl"} \cup Annotations
                 PROVE  /\ \A o \in Operands[expr] : ~IsConstant(o) =>
                               (value = get_llvm_type(type) <=> Fills(o, type))
                        /\ \E o \in Operands[expr] : value = get_llvm_type(type) <=> Fills(o, type)
    BY DEF StoredValueExact
  <2>2. Accepted /\ Lowers /\ context \in Contexts
    BY <1>1, <2>1 DEF EInv, Accepted
  <2>3. type \in BuiltinTypes /\ tree \in AllTrees /\ Same(tree, expr) /\ OperandsTyped(tree, type)
    BY <1>1, <2>2, AcceptedTree
  <2>4. PICK v \in emit[tree] : phase = Becomes(Used(v)) /\ value = Used(v).ty
    BY <2>2 DEF Lowers
  <2>5. v \in Values
    BY <2>3, EmitIs, OutcomeType
  <2>6. Used(v) = IF v.st = "throws" THEN v ELSE IF HasLLVMType(type) THEN v ELSE Throws
    BY <2>1, UseStored DEF Used
  <2>7. Used(v).st = "ok"
    BY <2>1, <2>2, <2>4, <2>5, UsedType, ValueType DEF Becomes
  <2>8. HasLLVMType(type) /\ v.st = "ok" /\ value = v.ty
    BY <2>4, <2>6, <2>7, ValueType
  <2>9. PICK fills \in BOOLEAN : fills <=> value = get_llvm_type(type)
    OBVIOUS
  <2>10. /\ \A o \in Operands[tree] : ~IsConstant(o) => (fills <=> Fills(o, type))
         /\ \E o \in Operands[tree] : fills <=> Fills(o, type)
    BY <2>3, <2>8, <2>9, StoredValue
  <2>11. Kinds(tree) = Kinds(expr) /\ Computed(tree) = Computed(expr)
    BY <2>3 DEF Same
  <2>12. /\ \A o \in Operands[expr] : ~IsConstant(o) => (fills <=> Fills(o, type))
         /\ \E o \in Operands[expr] : fills <=> Fills(o, type)
    BY <2>10, <2>11, FillsByKind
  <2>13. QED
    BY <2>9, <2>12
<1>2. QED
  BY <1>1, ExpressionsInvariant, PTL
=============================================================================
