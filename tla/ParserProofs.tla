---------------------------- MODULE ParserProofs -----------------------------
(***************************************************************************)
(* For token streams of any length and any nesting: the parser stops at    *)
(* the end of them, and builds the tree that the levels of the operators   *)
(* define.                                                                 *)
(*                                                                         *)
(* PInv types the tokens and the items of todo.  XInv says where the       *)
(* parser can be: among statements, or in one of seven places inside an    *)
(* expression, each with the values it has read and with what waits for    *)
(* the one it reads (Waiting).  Of every finished part, Expr says that its *)
(* tree is the one Grouping gives it and how loose its operators are;      *)
(* joining two such parts gives another.                                   *)
(*                                                                         *)
(* NInv, in the second half, relates the text consumed so far to what todo *)
(* waits for: which construct of the text takes which `end`, and where the *)
(* parser throws.                                                          *)
(***************************************************************************)
EXTENDS Parser, SequenceTheorems, FiniteSetTheorems, FunctionTheorems,
        WellFoundedInduction, TLAPS

Real == TokenTypes \ {"EndOfFile"}

\* What may stand in todo: no function consumes EndOfFile as a token it expects.
Items ==
    [do : {"token"}, type : Real] \cup
    [do : {"block"}, until : {{"End"}, IF_TERMINATORS}] \cup
    [do : {"end", "iftail", "endif"}, of : Nat] \cup
    [do : {"expression"}, min : Nat] \cup
    [do : {"operators"}, min : Nat, from : Nat] \cup
    [do : {"binary"}, op : Nat] \cup
    [do : {"program", "annotation", "type", "call"}]

PInv ==
    /\ lang \in Languages
    /\ la \in TokenTypes
    /\ tokens \in Seq(Real)
    /\ todo \in Seq(Items)

(***************************************************************************)
(* The constructors of items.                                              *)
(***************************************************************************)
LEMMA ItemTypes ==
    /\ \A t \in Real : Token(t) \in Items
    /\ Block({"End"}) \in Items /\ Block(IF_TERMINATORS) \in Items
    /\ \A n \in Nat : /\ End(n) \in Items
                      /\ [do |-> "iftail", of |-> n] \in Items
                      /\ [do |-> "endif", of |-> n] \in Items
                      /\ Expression(n) \in Items
                      /\ Binary(n) \in Items
    /\ \A n, m \in Nat : Operators(n, m) \in Items
    /\ \A k \in {"program", "annotation", "type", "call"} : [do |-> k] \in Items
<1>1. \A t \in Real : Token(t) \in Items
  BY DEF Token, Items
<1>2. Block({"End"}) \in Items /\ Block(IF_TERMINATORS) \in Items
  BY DEF Block, Items
<1>3. ASSUME NEW n \in Nat
      PROVE  /\ End(n) \in Items
             /\ [do |-> "iftail", of |-> n] \in Items
             /\ [do |-> "endif", of |-> n] \in Items
             /\ Expression(n) \in Items
             /\ Binary(n) \in Items
  BY DEF End, Expression, Binary, Items
<1>4. \A n, m \in Nat : Operators(n, m) \in Items
  BY DEF Operators, Items
<1>5. \A k \in {"program", "annotation", "type", "call"} : [do |-> k] \in Items
  BY DEF Items
<1>6. QED
  BY <1>1, <1>2, <1>3, <1>4, <1>5

\* What the items that are read hold.
LEMMA HeadType ==
    ASSUME PInv, todo # << >>
    PROVE  /\ Head(todo) \in Items
           /\ Tail(todo) \in Seq(Items)
           /\ Head(todo).do = "token" => Head(todo).type \in Real
           /\ Head(todo).do \in {"end", "iftail", "endif"} => Head(todo).of \in Nat
           /\ Head(todo).do \in {"expression", "operators"} => Head(todo).min \in Nat
<1>1. Head(todo) \in Items /\ Tail(todo) \in Seq(Items)
  BY DEF PInv
<1>2. \A i \in Items : /\ i.do = "token" => i.type \in Real
                       /\ i.do \in {"end", "iftail", "endif"} => i.of \in Nat
                       /\ i.do \in {"expression", "operators"} => i.min \in Nat
  BY DEF Items
<1>3. QED
  BY <1>1, <1>2

LEMMA Replaced ==
    ASSUME PInv, todo # << >>, NEW more \in Seq(Items), Then(more)
    PROVE  todo' \in Seq(Items)
BY HeadType, ConcatProperties DEF Then

LEMMA Popped ==
    ASSUME PInv, todo # << >>, Then(<< >>)
    PROVE  todo' \in Seq(Items)
<1>1. << >> \in Seq(Items)
  OBVIOUS
<1>2. QED
  BY <1>1, Replaced

LEMMA Called ==
    ASSUME PInv, NEW more \in Seq(Items), todo' = more \o todo
    PROVE  todo' \in Seq(Items)
BY ConcatProperties DEF PInv

\* A token is consumed that is not the end.
LEMMA Advanced ==
    ASSUME PInv, Advance, la # "EndOfFile"
    PROVE  tokens' \in Seq(Real) /\ la' \in TokenTypes
<1>1. lang.types \subseteq TokenTypes
  BY LanguagesAssumption DEF PInv
<1>2. "EndOfFile" \in TokenTypes
  BY DEF TokenTypes
<1>3. la' \in lang.types \cup {"EndOfFile"}
  BY DEF Advance
<1>4. la \in Real
  BY DEF PInv, Real
<1>5. QED
  BY <1>1, <1>2, <1>3, <1>4 DEF Advance, PInv

LEMMA Stayed ==
    ASSUME PInv, Stay
    PROVE  tokens' \in Seq(Real) /\ la' \in TokenTypes
BY DEF Stay, PInv

LEMMA Rejected ==
    ASSUME PInv, Reject, UNCHANGED lang
    PROVE  PInv'
BY DEF Reject, Stay, PInv

LEMMA Position == PInv => Here \in Nat
BY DEF PInv, Here

\* Only operators have a level.
LEMMA Levels ==
    /\ precedence("EndOfFile") = 0
    /\ \A t \in TokenTypes : precedence(t) \in Nat
BY DEF precedence, Comparisons, Orderings

LEMMA IfItems ==
    ASSUME PInv, la \in {"If", "ElseIf"}, NEW n \in Nat
    PROVE  If(n) \in Seq(Items)
<1>1. la \in Real
  BY DEF Real, PInv
<1>2. /\ Token(la) \in Items /\ Expression(0) \in Items /\ Block(IF_TERMINATORS) \in Items
      /\ [do |-> "iftail", of |-> n] \in Items /\ [do |-> "endif", of |-> n] \in Items
  BY <1>1, ItemTypes
<1>3. QED
  BY <1>2 DEF If

LEMMA StatementItems ==
    ASSUME PInv, la \in Starters
    PROVE  Statement \in Seq(Items)
<1> DEFINE ts == {"Identifier", "Assignment", "Set", "Loop", "Show", "Return", "Break",
                  "Cycle"}
<1>1. ts \subseteq Real
  BY DEF Real, TokenTypes, Starters
<1>2. \A t \in ts : Token(t) \in Items
  BY <1>1, ItemTypes
<1>3. /\ Expression(0) \in Items /\ [do |-> "annotation"] \in Items
      /\ Block({"End"}) \in Items /\ End(Here) \in Items
  BY ItemTypes, Position
<1>4. Declaration \in Seq(Items) /\ Assignment \in Seq(Items) /\ Loop \in Seq(Items)
  BY <1>2, <1>3 DEF Declaration, Assignment, Loop
<1>5. la \in {"Show", "Return"} => WithValue \in Seq(Items)
  BY <1>2, <1>3 DEF WithValue
<1>6. la \in {"Break", "Cycle"} => Jump \in Seq(Items)
  BY <1>2 DEF Jump
<1>7. la = "If" => If(Here) \in Seq(Items)
  BY IfItems, Position
<1>8. QED
  BY <1>4, <1>5, <1>6, <1>7, Zenon DEF Statement, Starters, Is

(***************************************************************************)
(* The functions.                                                          *)
(***************************************************************************)
LEMMA InitPInv == Init => PInv
<1> SUFFICES ASSUME Init PROVE PInv
  OBVIOUS
<1>1. lang.types \subseteq TokenTypes /\ "EndOfFile" \in TokenTypes
  BY LanguagesAssumption DEF Init, TokenTypes
<1>2. [do |-> "program"] \in Items
  BY ItemTypes
<1>3. QED
  BY <1>1, <1>2 DEF Init, PInv

LEMMA consumeInv ==
    ASSUME PInv, consume
    PROVE  PInv'
<1>1. todo # << >> /\ Head(todo).type \in Real
  BY HeadType DEF consume, Doing
<1>2. CASE Is(Head(todo).type)
  <2>1. la # "EndOfFile"
    BY <1>1, <1>2 DEF Is, Real
  <2>2. Advance /\ Then(<< >>) /\ UNCHANGED lang
    BY <1>2 DEF consume
  <2>3. QED
    BY <1>1, <2>1, <2>2, Advanced, Popped DEF PInv
<1>3. CASE ~Is(Head(todo).type)
  BY <1>3, Rejected DEF consume
<1>4. QED
  BY <1>2, <1>3

LEMMA parse_top_levelInv ==
    ASSUME PInv, parse_top_level
    PROVE  PInv'
<1>1. CASE la = "EndOfFile"
  BY <1>1 DEF parse_top_level, Stay, PInv
<1>2. CASE la = "Function"
  <2> DEFINE more == <<Token("Identifier"), Token("LParen"), Token("RParen"),
                       Block({"End"}), End(Here)>>
  <2>1. {"Identifier", "LParen", "RParen"} \subseteq Real
    BY DEF Real, TokenTypes, Starters
  <2>2. more \in Seq(Items)
    <3>1. /\ Token("Identifier") \in Items /\ Token("LParen") \in Items
          /\ Token("RParen") \in Items
      BY <2>1, ItemTypes
    <3>2. Block({"End"}) \in Items /\ End(Here) \in Items
      BY ItemTypes, Position
    <3>3. QED
      BY <3>1, <3>2
  <2>3. Advance /\ todo' = more \o todo /\ UNCHANGED lang
    BY <1>2 DEF parse_top_level
  <2> HIDE DEF more
  <2>4. QED
    BY <1>2, <2>2, <2>3, Advanced, Called DEF PInv
<1>3. CASE la \notin {"EndOfFile", "Function"}
  BY <1>3, Rejected DEF parse_top_level
<1>4. QED
  BY <1>1, <1>2, <1>3

LEMMA parse_block_statementInv ==
    ASSUME PInv, parse_block_statement
    PROVE  PInv'
<1>1. todo # << >>
  BY DEF parse_block_statement, Doing
<1>2. CASE la \in Head(todo).until
  BY <1>1, <1>2, Stayed, Popped DEF parse_block_statement, PInv
<1>3. CASE la \in Starters /\ la \notin Head(todo).until
  BY <1>3, Stayed, StatementItems, Called DEF parse_block_statement, PInv
<1>4. CASE la \notin Head(todo).until \cup Starters
  BY <1>4, Rejected DEF parse_block_statement
<1>5. QED
  BY <1>2, <1>3, <1>4

LEMMA EndInv ==
    ASSUME PInv, consume_end \/ consume_end_of_if
    PROVE  PInv'
<1>1. todo # << >> /\ UNCHANGED lang
  BY DEF consume_end, consume_end_of_if, Doing
<1>2. ASSUME Then(<< >>), Stay \/ (la = "End" /\ Advance)
      PROVE  PInv'
  BY <1>1, <1>2, Advanced, Stayed, Popped DEF PInv
<1>3. CASE consume_end
  BY <1>2, <1>3, Rejected DEF consume_end
<1>4. CASE consume_end_of_if
  BY <1>2, <1>4 DEF consume_end_of_if
<1>5. QED
  BY <1>3, <1>4

LEMMA parse_if_elseInv ==
    ASSUME PInv, parse_if_else
    PROVE  PInv'
<1> DEFINE more == CASE la = "ElseIf" -> If(Head(todo).of)
                     [] la = "Else"   -> <<Token("Else"), Block({"End"})>>
                     [] OTHER         -> << >>
<1>1. /\ todo # << >> /\ Head(todo).of \in Nat
      /\ Then(more) /\ Stay /\ UNCHANGED lang
  BY HeadType DEF parse_if_else, Doing
<1>2. "Else" \in Real
  BY DEF Real, TokenTypes
<1>3. <<Token("Else"), Block({"End"})>> \in Seq(Items)
  BY <1>2, ItemTypes
<1>4. more \in Seq(Items)
  BY <1>1, <1>3, IfItems
<1> HIDE DEF more
<1>5. QED
  BY <1>1, <1>4, Stayed, Replaced DEF PInv

LEMMA TypeInv ==
    ASSUME PInv, parse_annotation \/ parse_type_expression
    PROVE  PInv'
<1>1. todo # << >> /\ UNCHANGED lang
  BY DEF parse_annotation, parse_type_expression, Doing
<1>2. <<[do |-> "type"]>> \in Seq(Items) /\ << >> \in Seq(Items)
  BY ItemTypes
<1>3. CASE parse_annotation
  BY <1>1, <1>2, <1>3, Advanced, Stayed, Replaced DEF parse_annotation, PInv
<1>4. CASE parse_type_expression
  BY <1>1, <1>2, <1>4, Advanced, Replaced, Rejected DEF parse_type_expression, PInv
<1>5. QED
  BY <1>3, <1>4

LEMMA parse_primary_expressionInv ==
    ASSUME PInv, parse_primary_expression
    PROVE  PInv'
<1> DEFINE rest == Operators(Head(todo).min, Here)
<1>1. todo # << >> /\ Head(todo).min \in Nat /\ UNCHANGED lang
  BY HeadType DEF parse_primary_expression, Doing
<1>2. CASE la \in Literals \cup {"Identifier", "TypeName", "LParen"}
  <2>1. rest \in Items
    BY <1>1, ItemTypes, Position
  <2>2. Expression(0) \in Items /\ Token("RParen") \in Items /\ [do |-> "call"] \in Items
    BY ItemTypes DEF Real, TokenTypes
  <2>3. la # "EndOfFile" /\ Advance
    BY <1>2 DEF Literals, parse_primary_expression
  <2> HIDE DEF rest
  <2>4. /\ <<rest>> \in Seq(Items)
        /\ <<Expression(0), Token("RParen"), rest>> \in Seq(Items)
        /\ <<[do |-> "call"], rest>> \in Seq(Items)
    BY <2>1, <2>2
  <2>5. \/ Then(<<rest>>)
        \/ Then(<<Expression(0), Token("RParen"), rest>>)
        \/ Then(<<[do |-> "call"], rest>>)
    BY <1>2, Zenon DEF parse_primary_expression, rest
  <2>6. todo' \in Seq(Items)
    BY <1>1, <2>4, <2>5, Replaced
  <2>7. QED
    BY <1>1, <2>3, <2>6, Advanced DEF PInv
<1>3. CASE la \notin Literals \cup {"Identifier", "TypeName", "LParen"}
  BY <1>3, Rejected DEF parse_primary_expression
<1>4. QED
  BY <1>2, <1>3

LEMMA parse_callInv ==
    ASSUME PInv, parse_call
    PROVE  PInv'
<1>1. todo # << >> /\ Stay /\ UNCHANGED lang
  BY DEF parse_call, Doing
<1>2. <<Token("LParen"), Token("RParen")>> \in Seq(Items) /\ << >> \in Seq(Items)
  BY ItemTypes DEF Real, TokenTypes
<1>3. Then(<<Token("LParen"), Token("RParen")>>) \/ Then(<< >>)
  BY DEF parse_call
<1>4. QED
  BY <1>1, <1>2, <1>3, Stayed, Replaced DEF PInv

LEMMA parse_operatorsInv ==
    ASSUME PInv, parse_operators
    PROVE  PInv'
<1>1. todo # << >> /\ Head(todo).min \in Nat /\ UNCHANGED lang
  BY HeadType DEF parse_operators, Doing
<1>2. CASE precedence(la) > Head(todo).min
  <2> DEFINE more == <<Expression(precedence(la)), Binary(Here)>>
  <2>1. precedence(la) \in Nat /\ precedence(la) # 0
    BY <1>1, <1>2, Levels DEF PInv
  <2>2. la # "EndOfFile"
    BY <2>1, Levels
  <2>3. more \in Seq(Items)
    <3>1. Expression(precedence(la)) \in Items /\ Binary(Here) \in Items
      BY <2>1, ItemTypes, Position, Zenon
    <3>2. QED
      BY <3>1
  <2>4. Advance /\ todo' = more \o todo
    BY <1>2 DEF parse_operators
  <2> HIDE DEF more
  <2>5. QED
    BY <1>1, <2>2, <2>3, <2>4, Advanced, Called DEF PInv
<1>3. CASE ~(precedence(la) > Head(todo).min)
  BY <1>1, <1>3, Stayed, Popped DEF parse_operators, PInv
<1>4. QED
  BY <1>2, <1>3

LEMMA make_binaryInv ==
    ASSUME PInv, make_binary
    PROVE  PInv'
<1>1. todo # << >> /\ Stay /\ Then(<< >>) /\ UNCHANGED lang
  BY DEF make_binary, Doing
<1>2. QED
  BY <1>1, Stayed, Popped DEF PInv

LEMMA NextPInv == PInv /\ [Next]_vars => PInv'
<1> SUFFICES ASSUME PInv, [Next]_vars PROVE PInv'
  OBVIOUS
<1>1. CASE UNCHANGED vars \/ Stopped
  BY <1>1 DEF vars, Stopped, PInv
<1>2. CASE Parse
  BY <1>2, consumeInv, parse_top_levelInv, parse_block_statementInv, EndInv,
     parse_if_elseInv, TypeInv, parse_primary_expressionInv, parse_callInv,
     parse_operatorsInv, make_binaryInv DEF Parse
<1>3. QED
  BY <1>1, <1>2 DEF Next

(***************************************************************************)
(* The definitions an expression is judged by, of any tokens.              *)
(***************************************************************************)
CountIn(ts, types, i, j) == Cardinality({p \in i .. j : ts[p] \in types})

OpsIn(ts, i, j) ==
    {k \in i .. j : /\ precedence(ts[k]) > 0
                    /\ CountIn(ts, {"LParen"}, i, k) = CountIn(ts, {"RParen"}, i, k)}

LoosestIn(ts, K) == CHOOSE k \in K : \A m \in K :
                       \/ precedence(ts[k]) < precedence(ts[m])
                       \/ precedence(ts[k]) = precedence(ts[m]) /\ m <= k

NodeIn(ts, f, p) ==
    LET i == p[1]
        j == p[2]
        K == OpsIn(ts, i, j)
    IN  IF K # {} THEN [at |-> LoosestIn(ts, K), l |-> f[<<i, LoosestIn(ts, K) - 1>>],
                        r |-> f[<<LoosestIn(ts, K) + 1, j>>]]
        ELSE IF i < j /\ ts[i] = "LParen" THEN f[<<i + 1, j - 1>>]
        ELSE [at |-> i]

Groups(ts, f) == f = [p \in Spans |-> NodeIn(ts, f, p)]
TreeOf(ts)    == CHOOSE f : Groups(ts, f)

LEMMA GroupingIs == \A i, j : Grouping(i, j) = TreeOf(tokens)[<<i, j>>]
BY DEF Grouping, TreeOf, Groups, NodeIn, OpsIn, CountIn, LoosestIn, OperatorsAt, Count, Loosest

LEMMA LevelsUpTo4 == \A t : precedence(t) \in 0 .. 4
BY DEF precedence

(***************************************************************************)
(* Induction.                                                              *)
(***************************************************************************)
LEMMA LeastNatural ==
    ASSUME NEW T, T \subseteq Nat, T # {}
    PROVE  \E x \in T : \A y \in T : x <= y
<1> DEFINE R == OpToRel(<, Nat)
<1>1. IsWellFoundedOn(R, Nat)
  BY NatLessThanWellFounded
<1>2. \A a, b \in Nat : a < b => <<a, b>> \in R
  BY DEF OpToRel
<1> HIDE DEF R
<1>3. PICK x \in T : \A y \in T : ~ (<<y, x>> \in R)
  BY <1>1, WFMin
<1>4. ASSUME NEW y \in T
      PROVE  x <= y
  <2>1. ~(y < x)
    BY <1>2, <1>3
  <2>2. QED
    BY <2>1
<1>5. QED
  BY <1>4

(***************************************************************************)
(* The operator that binds least.                                          *)
(***************************************************************************)
Loose(ts, K, k) == \A m \in K : \/ precedence(ts[k]) < precedence(ts[m])
                                \/ precedence(ts[k]) = precedence(ts[m]) /\ m <= k

LEMMA LoosestExists ==
    ASSUME NEW ts, NEW i \in Nat, NEW j \in Nat, NEW K, K \subseteq i .. j, K # {}
    PROVE  \E k \in K : Loose(ts, K, k)
<1>1. PICK P : P = {precedence(ts[k]) : k \in K}
  OBVIOUS
<1>2. P \subseteq Nat /\ P # {}
  <2>1. \A k \in K : precedence(ts[k]) \in Nat
    BY LevelsUpTo4
  <2>2. QED
    BY <1>1, <2>1
<1>3. PICK n \in P : \A m \in P : n <= m
  BY <1>2, LeastNatural
<1>4. PICK B : B = {k \in K : precedence(ts[k]) = n}
  OBVIOUS
<1>5. PICK T : T = {j - k : k \in B}
  OBVIOUS
<1>6. B # {}
  BY <1>1, <1>3, <1>4
<1>7. T \subseteq Nat /\ T # {}
  <2>1. \A k \in B : k \in i .. j
    BY <1>4
  <2>2. \A k \in B : j - k \in Nat
    BY <2>1
  <2>3. QED
    BY <1>5, <1>6, <2>2
<1>8. PICK d \in T : \A e \in T : d <= e
  BY <1>7, LeastNatural
<1>9. PICK k \in B : d = j - k
  BY <1>5, <1>8
<1>10. \A m \in B : m <= k
  <2>1. TAKE m \in B
  <2>2. j - m \in T
    BY <1>5
  <2>3. j - k <= j - m /\ k \in Int /\ m \in Int
    BY <1>4, <1>8, <1>9, <2>2
  <2>4. QED
    BY <2>3
<1>11. ASSUME NEW m \in K
       PROVE  \/ precedence(ts[k]) < precedence(ts[m])
              \/ precedence(ts[k]) = precedence(ts[m]) /\ m <= k
  <2>1. precedence(ts[m]) \in P /\ n <= precedence(ts[m]) /\ precedence(ts[k]) = n
    BY <1>1, <1>3, <1>4
  <2>2. precedence(ts[m]) \in Nat /\ n \in Nat
    BY <1>2, <1>3, LevelsUpTo4
  <2>3. precedence(ts[m]) = n => m <= k
    BY <1>4, <1>10
  <2>4. QED
    BY <2>1, <2>2, <2>3
<1>12. k \in K
  BY <1>4
<1>13. QED
  BY <1>11, <1>12 DEF Loose

LEMMA LoosestIs ==
    ASSUME NEW ts, NEW i \in Nat, NEW j \in Nat, NEW K, K \subseteq i .. j, K # {}
    PROVE  LoosestIn(ts, K) \in K /\ Loose(ts, K, LoosestIn(ts, K))
<1>1. \E k \in K : Loose(ts, K, k)
  BY LoosestExists
<1>2. QED
  BY <1>1 DEF LoosestIn, Loose

\* There is one only.
LEMMA LoosestOne ==
    ASSUME NEW ts, NEW i \in Nat, NEW j \in Nat, NEW K, K \subseteq i .. j, NEW k \in K, Loose(ts, K, k)
    PROVE  LoosestIn(ts, K) = k
<1>1. PICK m : m = LoosestIn(ts, K)
  OBVIOUS
<1>2. m \in K /\ Loose(ts, K, m)
  BY <1>1, LoosestIs
<1>3. precedence(ts[m]) \in Nat /\ precedence(ts[k]) \in Nat /\ m \in Int /\ k \in Int
  BY <1>2, LevelsUpTo4
<1>4. QED
  BY <1>1, <1>2, <1>3 DEF Loose

(***************************************************************************)
(* The recursion of Grouping goes down: there is one such function.        *)
(***************************************************************************)
Size(p) == IF p[1] <= p[2] THEN p[2] - p[1] + 1 ELSE 0

LEMMA SizeType == \A p \in Spans : Size(p) \in Nat
BY DEF Spans, Size

\* Functions alike on smaller spans have the same node.
LEMMA NodeAlike ==
    ASSUME NEW ts, NEW f, NEW g, NEW p \in Spans,
           \A q \in Spans : Size(q) < Size(p) => f[q] = g[q]
    PROVE  NodeIn(ts, f, p) = NodeIn(ts, g, p)
<1>1. PICK i, j : i = p[1] /\ j = p[2]
  OBVIOUS
<1>2. i \in Nat \ {0} /\ j \in Nat
  BY <1>1 DEF Spans
<1>3. PICK K : K = OpsIn(ts, i, j)
  OBVIOUS
<1>4. CASE K # {}
  <2>1. PICK k : k = LoosestIn(ts, K)
    OBVIOUS
  <2>2. K \subseteq i .. j
    BY <1>3 DEF OpsIn
  <2>3. k \in i .. j
    BY <1>2, <1>4, <2>1, <2>2, LoosestIs
  <2>4. PICK q, r : q = <<i, k - 1>> /\ r = <<k + 1, j>>
    OBVIOUS
  <2>5. /\ q \in Spans /\ r \in Spans
        /\ q[1] = i /\ q[2] = k - 1 /\ r[1] = k + 1 /\ r[2] = j
    BY <1>2, <2>3, <2>4 DEF Spans
  <2>6. Size(q) < Size(p) /\ Size(r) < Size(p)
    BY <1>1, <1>2, <2>3, <2>5 DEF Size
  <2>7. f[q] = g[q] /\ f[r] = g[r]
    BY <2>5, <2>6
  <2>8. NodeIn(ts, f, p) = [at |-> k, l |-> f[q], r |-> f[r]]
    BY <1>1, <1>3, <1>4, <2>1, <2>4 DEF NodeIn
  <2>9. NodeIn(ts, g, p) = [at |-> k, l |-> g[q], r |-> g[r]]
    BY <1>1, <1>3, <1>4, <2>1, <2>4 DEF NodeIn
  <2>10. QED
    BY <2>7, <2>8, <2>9
<1>5. CASE K = {} /\ i < j /\ ts[i] = "LParen"
  <2>1. PICK q : q = <<i + 1, j - 1>>
    OBVIOUS
  <2>2. q \in Spans /\ q[1] = i + 1 /\ q[2] = j - 1
    BY <1>2, <1>5, <2>1 DEF Spans
  <2>3. Size(q) < Size(p)
    BY <1>1, <1>2, <1>5, <2>2 DEF Size
  <2>4. f[q] = g[q]
    BY <2>2, <2>3
  <2>5. NodeIn(ts, f, p) = f[q] /\ NodeIn(ts, g, p) = g[q]
    BY <1>1, <1>3, <1>5, <2>1 DEF NodeIn
  <2>6. QED
    BY <2>4, <2>5
<1>6. CASE K = {} /\ ~(i < j /\ ts[i] = "LParen")
  BY <1>1, <1>3, <1>6 DEF NodeIn
<1>7. QED
  BY <1>4, <1>5, <1>6

\* f is as Grouping asks on spans of at most m tokens.
UpTo(ts, m, f) == \A p \in Spans : Size(p) <= m => f[p] = NodeIn(ts, f, p)

LEMMA UpToOne ==
    ASSUME NEW ts, NEW m \in Nat, NEW n \in Nat, NEW f, NEW g, UpTo(ts, m, f), UpTo(ts, n, g)
    PROVE  \A p \in Spans : Size(p) <= m /\ Size(p) <= n => f[p] = g[p]
<1>1. SUFFICES ASSUME NEW p0 \in Spans, Size(p0) <= m, Size(p0) <= n, f[p0] # g[p0]
               PROVE  FALSE
  OBVIOUS
<1>2. PICK T : T = {k \in Nat : \E p \in Spans : Size(p) = k /\ k <= m /\ k <= n /\ f[p] # g[p]}
  OBVIOUS
<1>3. Size(p0) \in T
  BY <1>1, <1>2, SizeType
<1>4. T \subseteq Nat /\ T # {}
  BY <1>2, <1>3
<1>5. PICK k \in T : \A y \in T : k <= y
  BY <1>4, LeastNatural
<1>6. PICK p \in Spans : Size(p) = k /\ k <= m /\ k <= n /\ f[p] # g[p]
  BY <1>2, <1>5
<1>7. ASSUME NEW q \in Spans, Size(q) < Size(p)
      PROVE  f[q] = g[q]
  <2>1. Size(q) \in Nat /\ k \in Nat
    BY <1>2, <1>5, SizeType
  <2>2. Size(q) \notin T
    BY <1>5, <1>6, <1>7, <2>1
  <2>3. Size(q) <= m /\ Size(q) <= n
    BY <1>6, <1>7, <2>1
  <2>4. QED
    BY <1>2, <2>1, <2>2, <2>3
<1>8. NodeIn(ts, f, p) = NodeIn(ts, g, p)
  BY <1>7, NodeAlike
<1>9. f[p] = NodeIn(ts, f, p) /\ g[p] = NodeIn(ts, g, p)
  BY <1>6 DEF UpTo
<1>10. QED
  BY <1>6, <1>8, <1>9

LEMMA UpToExists ==
    ASSUME NEW ts, NEW m0 \in Nat
    PROVE  \E f : UpTo(ts, m0, f)
<1>1. SUFFICES ASSUME ~ \E f : UpTo(ts, m0, f) PROVE FALSE
  OBVIOUS
<1>2. PICK T : T = {k \in Nat : ~ \E f : UpTo(ts, k, f)}
  OBVIOUS
<1>3. T \subseteq Nat /\ T # {}
  BY <1>1, <1>2
<1>4. PICK k \in T : \A y \in T : k <= y
  BY <1>3, LeastNatural
<1>5. k \in Nat /\ ~ \E f : UpTo(ts, k, f)
  BY <1>2
<1>6. \E f : \A p \in Spans : Size(p) < k => f[p] = NodeIn(ts, f, p)
  <2>1. CASE k = 0
    <3>1. \A p \in Spans : ~(Size(p) < k)
      BY <2>1, SizeType
    <3>2. QED
      BY <3>1
  <2>2. CASE k # 0
    <3>1. k - 1 \in Nat /\ k - 1 \notin T
      BY <1>4, <1>5, <2>2
    <3>2. PICK f : UpTo(ts, k - 1, f)
      BY <1>2, <3>1
    <3>3. \A p \in Spans : Size(p) < k => Size(p) <= k - 1
      BY <1>5, SizeType
    <3>4. QED
      BY <3>2, <3>3 DEF UpTo
  <2>3. QED
    BY <2>1, <2>2
<1>7. PICK f : \A p \in Spans : Size(p) < k => f[p] = NodeIn(ts, f, p)
  BY <1>6
<1>8. PICK g : g = [p \in Spans |-> NodeIn(ts, f, p)]
  OBVIOUS
<1>9. \A q \in Spans : Size(q) < k => g[q] = f[q]
  BY <1>7, <1>8
<1>10. ASSUME NEW p \in Spans, Size(p) <= k
       PROVE  g[p] = NodeIn(ts, g, p)
  <2>1. \A q \in Spans : Size(q) < Size(p) => f[q] = g[q]
    BY <1>5, <1>9, <1>10, SizeType
  <2>2. NodeIn(ts, f, p) = NodeIn(ts, g, p)
    BY <2>1, NodeAlike
  <2>3. QED
    BY <1>8, <2>2
<1>11. UpTo(ts, k, g)
  BY <1>10 DEF UpTo
<1>12. QED
  BY <1>5, <1>11

LEMMA TreeExists == \A ts : \E f : Groups(ts, f)
<1>1. TAKE ts
<1>2. PICK F : F = [p \in Spans |-> (CHOOSE f : UpTo(ts, Size(p), f))[p]]
  OBVIOUS
<1>3. ASSUME NEW p \in Spans
      PROVE  F[p] = NodeIn(ts, F, p)
  <2>1. PICK f : f = CHOOSE g : UpTo(ts, Size(p), g)
    OBVIOUS
  <2>2. UpTo(ts, Size(p), f)
    BY <2>1, SizeType, UpToExists
  <2>3. F[p] = f[p]
    BY <1>2, <2>1
  <2>4. f[p] = NodeIn(ts, f, p)
    BY <2>2, SizeType DEF UpTo
  <2>5. ASSUME NEW q \in Spans, Size(q) < Size(p)
        PROVE  f[q] = F[q]
    <3>1. PICK g : g = CHOOSE h : UpTo(ts, Size(q), h)
      OBVIOUS
    <3>2. UpTo(ts, Size(q), g)
      BY <3>1, SizeType, UpToExists
    <3>3. F[q] = g[q]
      BY <1>2, <3>1
    <3>4. Size(q) \in Nat /\ Size(p) \in Nat /\ Size(q) <= Size(q) /\ Size(q) <= Size(p)
      BY <2>5, SizeType
    <3>5. QED
      BY <2>2, <3>2, <3>3, <3>4, UpToOne
  <2>6. NodeIn(ts, f, p) = NodeIn(ts, F, p)
    BY <2>5, NodeAlike
  <2>7. QED
    BY <2>3, <2>4, <2>6
<1>4. F = [p \in Spans |-> NodeIn(ts, F, p)]
  BY <1>2, <1>3
<1>5. QED
  BY <1>4 DEF Groups

LEMMA TreeNode ==
    ASSUME NEW ts, NEW p \in Spans
    PROVE  TreeOf(ts)[p] = NodeIn(ts, TreeOf(ts), p)
<1>1. PICK F : F = TreeOf(ts)
  OBVIOUS
<1>2. Groups(ts, F)
  BY <1>1, TreeExists DEF TreeOf
<1>3. F = [q \in Spans |-> NodeIn(ts, F, q)]
  BY <1>2 DEF Groups
<1>4. F[p] = NodeIn(ts, F, p)
  BY <1>3
<1>5. QED
  BY <1>1, <1>4

(***************************************************************************)
(* Counting tokens.                                                        *)
(***************************************************************************)
LEMMA CountFinite ==
    ASSUME NEW ts, NEW types, NEW i \in Int, NEW j \in Int
    PROVE  IsFiniteSet({p \in i .. j : ts[p] \in types}) /\ CountIn(ts, types, i, j) \in Nat
<1>1. IsFiniteSet(i .. j)
  BY FS_Interval
<1>2. {p \in i .. j : ts[p] \in types} \subseteq i .. j
  OBVIOUS
<1>3. IsFiniteSet({p \in i .. j : ts[p] \in types})
  BY <1>1, <1>2, FS_Subset
<1>4. QED
  BY <1>3, FS_CardinalityType DEF CountIn

LEMMA CountSplit ==
    ASSUME NEW ts, NEW types, NEW i \in Int, NEW m \in Int, NEW j \in Int, i <= m + 1, m <= j
    PROVE  CountIn(ts, types, i, j) = CountIn(ts, types, i, m) + CountIn(ts, types, m + 1, j)
<1>1. PICK A, B, C : /\ A = {p \in i .. m : ts[p] \in types}
                     /\ B = {p \in (m + 1) .. j : ts[p] \in types}
                     /\ C = {p \in i .. j : ts[p] \in types}
  OBVIOUS
<1>2. C = A \cup B /\ A \cap B = {}
  BY <1>1
<1>3. IsFiniteSet(A) /\ IsFiniteSet(B) /\ Cardinality(A) \in Nat /\ Cardinality(B) \in Nat
  <2>1. IsFiniteSet({p \in i .. m : ts[p] \in types})
    BY CountFinite
  <2>2. m + 1 \in Int
    OBVIOUS
  <2>3. IsFiniteSet({p \in (m + 1) .. j : ts[p] \in types})
    BY <2>2, CountFinite
  <2>4. IsFiniteSet(A) /\ IsFiniteSet(B)
    BY ONLY <1>1, <2>1, <2>3
  <2>5. QED
    BY <2>4, FS_CardinalityType
<1>4. Cardinality(A \cup B) = Cardinality(A) + Cardinality(B) - Cardinality(A \cap B)
  BY <1>3, FS_Union
<1>5. Cardinality({}) = 0
  BY FS_EmptySet
<1>6. Cardinality(C) = Cardinality(A) + Cardinality(B)
  <2>1. Cardinality(A \cap B) = 0
    BY ONLY <1>2, <1>5
  <2>2. Cardinality(C) = Cardinality(A \cup B)
    BY ONLY <1>2
  <2>3. QED
    BY ONLY <1>3, <1>4, <2>1, <2>2
<1>7. QED
  BY <1>1, <1>6 DEF CountIn

LEMMA CountOne ==
    ASSUME NEW ts, NEW types, NEW i \in Int
    PROVE  CountIn(ts, types, i, i) = IF ts[i] \in types THEN 1 ELSE 0
<1>1. {p \in i .. i : ts[p] \in types} = IF ts[i] \in types THEN {i} ELSE {}
  OBVIOUS
<1>2. Cardinality({i}) = 1
  BY FS_Singleton
<1>3. Cardinality({}) = 0
  BY FS_EmptySet
<1>4. QED
  BY <1>1, <1>2, <1>3 DEF CountIn

LEMMA CountSame ==
    ASSUME NEW ts, NEW us, NEW types, NEW i, NEW j, \A p \in i .. j : ts[p] = us[p]
    PROVE  CountIn(ts, types, i, j) = CountIn(us, types, i, j)
BY DEF CountIn

(***************************************************************************)
(* Parentheses: how many are open, and closed, at j since i.               *)
(***************************************************************************)
Opened(ts, i, j) == CountIn(ts, {"LParen"}, i, j)
Shut(ts, i, j)   == CountIn(ts, {"RParen"}, i, j)

LEMMA Parens ==
    ASSUME NEW ts, NEW i \in Int, NEW m \in Int, NEW j \in Int, i <= m + 1, m <= j
    PROVE  /\ Opened(ts, i, j) = Opened(ts, i, m) + Opened(ts, m + 1, j)
           /\ Shut(ts, i, j) = Shut(ts, i, m) + Shut(ts, m + 1, j)
BY CountSplit DEF Opened, Shut

LEMMA ParenOne ==
    ASSUME NEW ts, NEW i \in Int
    PROVE  /\ Opened(ts, i, i) = IF ts[i] = "LParen" THEN 1 ELSE 0
           /\ Shut(ts, i, i) = IF ts[i] = "RParen" THEN 1 ELSE 0
BY CountOne DEF Opened, Shut

LEMMA ParenType ==
    ASSUME NEW ts, NEW i \in Int, NEW j \in Int
    PROVE  Opened(ts, i, j) \in Nat /\ Shut(ts, i, j) \in Nat
BY CountFinite DEF Opened, Shut

\* The parentheses of i .. j match.
Whole(ts, i, j) ==
    /\ i \in Nat \ {0} /\ j \in Nat /\ i <= j /\ j <= Len(ts)
    /\ Opened(ts, i, j) = Shut(ts, i, j)
    /\ \A k \in i .. j : Shut(ts, i, k) <= Opened(ts, i, k)

\* The tokens i .. j are an expression with tree v; outside of parentheses its
\* operators have level low or more.
Expr(ts, i, j, v, low) ==
    /\ Whole(ts, i, j)
    /\ v = TreeOf(ts)[<<i, j>>]
    /\ \A k \in OpsIn(ts, i, j) : precedence(ts[k]) >= low

NoOperator == {"Identifier", "TypeName"} \cup Literals

LEMMA OpsAre ==
    ASSUME NEW ts, NEW i, NEW j, NEW k
    PROVE  k \in OpsIn(ts, i, j) <=> /\ k \in i .. j /\ precedence(ts[k]) > 0
                                     /\ Opened(ts, i, k) = Shut(ts, i, k)
BY DEF OpsIn, Opened, Shut

LEMMA NoLevel ==
    /\ precedence("LParen") = 0 /\ precedence("RParen") = 0
    /\ \A t \in NoOperator : precedence(t) = 0 /\ t # "LParen" /\ t # "RParen"
BY DEF precedence, NoOperator, Literals, Comparisons, Orderings

LEMMA SpanIs ==
    ASSUME NEW i \in Nat \ {0}, NEW j \in Nat
    PROVE  <<i, j>> \in Spans /\ <<i, j>>[1] = i /\ <<i, j>>[2] = j
BY DEF Spans

LEMMA NoOpsTree ==
    ASSUME NEW ts, NEW i \in Nat \ {0}, NEW j \in Nat, OpsIn(ts, i, j) = {}
    PROVE  TreeOf(ts)[<<i, j>>] = IF i < j /\ ts[i] = "LParen" THEN TreeOf(ts)[<<i + 1, j - 1>>]
                                  ELSE [at |-> i]
<1>1. PICK p : p = <<i, j>>
  OBVIOUS
<1>2. p \in Spans /\ p[1] = i /\ p[2] = j
  BY <1>1, SpanIs
<1>3. TreeOf(ts)[p] = NodeIn(ts, TreeOf(ts), p)
  BY <1>2, TreeNode
<1>4. QED
  BY <1>1, <1>2, <1>3 DEF NodeIn

LEMMA OpsTree ==
    ASSUME NEW ts, NEW i \in Nat \ {0}, NEW j \in Nat, NEW k \in OpsIn(ts, i, j),
           Loose(ts, OpsIn(ts, i, j), k)
    PROVE  TreeOf(ts)[<<i, j>>] = [at |-> k, l |-> TreeOf(ts)[<<i, k - 1>>],
                                   r |-> TreeOf(ts)[<<k + 1, j>>]]
<1>1. PICK p : p = <<i, j>>
  OBVIOUS
<1>2. p \in Spans /\ p[1] = i /\ p[2] = j
  BY <1>1, SpanIs
<1>3. TreeOf(ts)[p] = NodeIn(ts, TreeOf(ts), p)
  BY <1>2, TreeNode
<1>4. PICK K : K = OpsIn(ts, i, j)
  OBVIOUS
<1>5. K \subseteq i .. j /\ i \in Nat
  BY <1>4 DEF OpsIn
<1>6. LoosestIn(ts, K) = k
  BY <1>4, <1>5, LoosestOne
<1>7. K # {}
  BY <1>4
<1>8. QED
  BY ONLY <1>1, <1>2, <1>3, <1>4, <1>6, <1>7 DEF NodeIn

LEMMA LeafTree ==
    ASSUME NEW ts, NEW i \in Nat \ {0}, NEW j \in Nat, OpsIn(ts, i, j) = {},
           ~(i < j /\ ts[i] = "LParen")
    PROVE  TreeOf(ts)[<<i, j>>] = [at |-> i]
<1>1. TreeOf(ts)[<<i, j>>] = IF i < j /\ ts[i] = "LParen" THEN TreeOf(ts)[<<i + 1, j - 1>>]
                            ELSE [at |-> i]
  BY NoOpsTree
<1>2. QED
  BY <1>1, Zenon

LEMMA ParenTree ==
    ASSUME NEW ts, NEW i \in Nat \ {0}, NEW j \in Nat, OpsIn(ts, i, j) = {},
           i < j, ts[i] = "LParen"
    PROVE  TreeOf(ts)[<<i, j>>] = TreeOf(ts)[<<i + 1, j - 1>>]
<1>1. TreeOf(ts)[<<i, j>>] = IF i < j /\ ts[i] = "LParen" THEN TreeOf(ts)[<<i + 1, j - 1>>]
                            ELSE [at |-> i]
  BY NoOpsTree
<1>2. QED
  BY <1>1, Zenon

(***************************************************************************)
(* The ways to make an expression.                                         *)
(***************************************************************************)
LEMMA ExprLeaf ==
    ASSUME NEW ts, Len(ts) \in Nat, NEW i \in 1 .. Len(ts), ts[i] \in NoOperator, NEW low
    PROVE  Expr(ts, i, i, [at |-> i], low) /\ OpsIn(ts, i, i) = {}
<1>1. i \in Nat \ {0} /\ i \in Int /\ ~(i < i) /\ i .. i = {i}
  OBVIOUS
<1>2. precedence(ts[i]) = 0 /\ ts[i] # "LParen" /\ ts[i] # "RParen"
  BY NoLevel
<1>3. OpsIn(ts, i, i) = {}
  BY <1>1, <1>2 DEF OpsIn
<1>4. Opened(ts, i, i) = 0 /\ Shut(ts, i, i) = 0
  BY <1>1, <1>2, ParenOne
<1>5. Whole(ts, i, i)
  BY <1>1, <1>4 DEF Whole
<1>6. TreeOf(ts)[<<i, i>>] = [at |-> i]
  BY <1>1, <1>2, <1>3, LeafTree
<1>7. QED
  BY <1>3, <1>5, <1>6 DEF Expr

LEMMA ExprCall ==
    ASSUME NEW ts, Len(ts) \in Nat, NEW i \in 1 .. Len(ts), NEW j \in 1 .. Len(ts), j = i + 2,
           ts[i] \in NoOperator, ts[i + 1] = "LParen", ts[j] = "RParen", NEW low
    PROVE  Expr(ts, i, j, [at |-> i], low) /\ OpsIn(ts, i, j) = {}
<1>1. i \in Nat \ {0} /\ i \in Int /\ i + 1 \in Int /\ j \in Int /\ i .. j = {i, i + 1, j}
      /\ j \in Nat /\ i <= j
  OBVIOUS
<1>2. precedence(ts[i]) = 0 /\ ts[i] # "LParen" /\ ts[i] # "RParen"
      /\ precedence(ts[i + 1]) = 0 /\ precedence(ts[j]) = 0
  BY NoLevel
<1>3. OpsIn(ts, i, j) = {}
  BY <1>1, <1>2 DEF OpsIn
<1>4. /\ Opened(ts, i, i) = 0 /\ Shut(ts, i, i) = 0
      /\ Opened(ts, i + 1, i + 1) = 1 /\ Shut(ts, i + 1, i + 1) = 0
      /\ Opened(ts, j, j) = 0 /\ Shut(ts, j, j) = 1
  BY <1>1, <1>2, ParenOne
<1>5. Opened(ts, i, i + 1) = 1 /\ Shut(ts, i, i + 1) = 0
  <2>1. /\ Opened(ts, i, i + 1) = Opened(ts, i, i) + Opened(ts, i + 1, i + 1)
        /\ Shut(ts, i, i + 1) = Shut(ts, i, i) + Shut(ts, i + 1, i + 1)
    BY <1>1, Parens
  <2>2. QED
    BY <1>4, <2>1
<1>6. Opened(ts, i, j) = 1 /\ Shut(ts, i, j) = 1
  <2>1. (i + 1) + 1 = j /\ i <= (i + 1) + 1 /\ i + 1 <= j
    OBVIOUS
  <2>2. /\ Opened(ts, i, j) = Opened(ts, i, i + 1) + Opened(ts, (i + 1) + 1, j)
        /\ Shut(ts, i, j) = Shut(ts, i, i + 1) + Shut(ts, (i + 1) + 1, j)
    BY <1>1, <2>1, Parens
  <2>3. QED
    BY <1>4, <1>5, <2>1, <2>2
<1>7. Whole(ts, i, j)
  BY <1>1, <1>4, <1>5, <1>6 DEF Whole
<1>8. TreeOf(ts)[<<i, j>>] = [at |-> i]
  <2>1. ~(i < j /\ ts[i] = "LParen")
    BY <1>2
  <2>2. QED
    BY ONLY <1>1, <1>3, <2>1, LeafTree
<1>9. QED
  BY <1>3, <1>7, <1>8 DEF Expr

LEMMA ExprParen ==
    ASSUME NEW ts, Len(ts) \in Nat, NEW i \in 1 .. Len(ts), NEW j \in 1 .. Len(ts), NEW v, NEW lo,
           ts[i] = "LParen", ts[j] = "RParen", Expr(ts, i + 1, j - 1, v, lo), NEW low
    PROVE  Expr(ts, i, j, v, low) /\ OpsIn(ts, i, j) = {}
<1>1. /\ Whole(ts, i + 1, j - 1) /\ v = TreeOf(ts)[<<i + 1, j - 1>>]
      /\ i + 1 <= j - 1 /\ i \in Int /\ j \in Int /\ i + 1 \in Int /\ j - 1 \in Int
  BY DEF Expr, Whole
<1>2. /\ Opened(ts, i, i) = 1 /\ Shut(ts, i, i) = 0
      /\ Opened(ts, j, j) = 0 /\ Shut(ts, j, j) = 1
  BY <1>1, ParenOne
<1>3. ASSUME NEW k \in (i + 1) .. (j - 1)
      PROVE  Shut(ts, i, k) < Opened(ts, i, k)
  <2>1. k \in Int /\ i <= i + 1 /\ i <= k
    BY <1>1
  <2>2. /\ Opened(ts, i, k) = Opened(ts, i, i) + Opened(ts, i + 1, k)
        /\ Shut(ts, i, k) = Shut(ts, i, i) + Shut(ts, i + 1, k)
    BY <1>1, <2>1, Parens
  <2>3. Shut(ts, i + 1, k) <= Opened(ts, i + 1, k)
    BY <1>1, <1>3 DEF Whole
  <2>4. Opened(ts, i + 1, k) \in Nat /\ Shut(ts, i + 1, k) \in Nat
    BY <1>1, <2>1, ParenType
  <2>5. QED
    BY <1>2, <2>2, <2>3, <2>4
<1>4. Opened(ts, i, j) = Shut(ts, i, j)
  <2>1. i <= (j - 1) + 1 /\ j - 1 <= j /\ (j - 1) + 1 = j /\ i <= i + 1 /\ i <= j - 1
    BY <1>1
  <2>2. /\ Opened(ts, i, j) = Opened(ts, i, j - 1) + Opened(ts, (j - 1) + 1, j)
        /\ Shut(ts, i, j) = Shut(ts, i, j - 1) + Shut(ts, (j - 1) + 1, j)
    BY <1>1, <2>1, Parens
  <2>3. /\ Opened(ts, i, j - 1) = Opened(ts, i, i) + Opened(ts, i + 1, j - 1)
        /\ Shut(ts, i, j - 1) = Shut(ts, i, i) + Shut(ts, i + 1, j - 1)
    BY <1>1, <2>1, Parens
  <2>4. Opened(ts, i + 1, j - 1) = Shut(ts, i + 1, j - 1)
    BY <1>1 DEF Whole
  <2>5. Opened(ts, i + 1, j - 1) \in Nat
    BY <1>1, ParenType
  <2>6. QED
    BY <1>2, <2>1, <2>2, <2>3, <2>4, <2>5
<1>5. Whole(ts, i, j)
  <2>1. ASSUME NEW k \in i .. j
        PROVE  Shut(ts, i, k) <= Opened(ts, i, k)
    <3>1. k = i \/ k = j \/ k \in (i + 1) .. (j - 1)
      BY <1>1
    <3>2. Opened(ts, i, k) \in Nat /\ Shut(ts, i, k) \in Nat
      BY <1>1, ParenType
    <3>3. QED
      BY <1>2, <1>3, <1>4, <3>1, <3>2
  <2>2. i \in Nat \ {0} /\ j \in Nat /\ i <= j /\ j <= Len(ts)
    BY <1>1
  <2>3. QED
    BY <1>4, <2>1, <2>2 DEF Whole
<1>6. OpsIn(ts, i, j) = {}
  <2>1. SUFFICES ASSUME NEW k \in OpsIn(ts, i, j) PROVE FALSE
    OBVIOUS
  <2>2. k \in i .. j /\ precedence(ts[k]) > 0 /\ Opened(ts, i, k) = Shut(ts, i, k)
    BY <2>1, OpsAre
  <2>3. k # i /\ k # j
    BY <2>2, NoLevel
  <2>4. k \in (i + 1) .. (j - 1)
    BY <1>1, <2>2, <2>3
  <2>5. Shut(ts, i, k) < Opened(ts, i, k) /\ Opened(ts, i, k) \in Nat /\ Shut(ts, i, k) \in Nat
    BY <1>1, <1>3, <2>4, ParenType
  <2>6. QED
    BY <2>2, <2>5
<1>7. TreeOf(ts)[<<i, j>>] = v
  <2>1. i \in Nat \ {0} /\ j \in Nat /\ i < j
    BY <1>1
  <2>2. TreeOf(ts)[<<i, j>>] = TreeOf(ts)[<<i + 1, j - 1>>]
    BY <1>6, <2>1, ParenTree
  <2>3. QED
    BY <1>1, <2>2
<1>8. QED
  BY <1>5, <1>6, <1>7 DEF Expr

\* Parentheses behind a part in which they match count as if it were not there.
LEMMA Behind ==
    ASSUME NEW ts, NEW i \in Int, NEW o \in Int, NEW k \in Int, i <= o + 1, o <= k,
           Opened(ts, i, o) = Shut(ts, i, o)
    PROVE  Opened(ts, i, k) - Shut(ts, i, k) = Opened(ts, o + 1, k) - Shut(ts, o + 1, k)
<1>1. /\ Opened(ts, i, k) = Opened(ts, i, o) + Opened(ts, o + 1, k)
      /\ Shut(ts, i, k) = Shut(ts, i, o) + Shut(ts, o + 1, k)
  BY Parens
<1>2. /\ Opened(ts, i, o) \in Nat /\ Shut(ts, i, o) \in Nat
      /\ Opened(ts, o + 1, k) \in Nat /\ Shut(ts, o + 1, k) \in Nat
  BY ParenType
<1>3. QED
  BY ONLY <1>1, <1>2, Opened(ts, i, o) = Shut(ts, i, o)

LEMMA ExprBinary ==
    ASSUME NEW ts, Len(ts) \in Nat, NEW i \in 1 .. Len(ts), NEW o \in 1 .. Len(ts),
           NEW j \in 1 .. Len(ts), NEW l, NEW r, NEW p \in Nat \ {0}, precedence(ts[o]) = p,
           Expr(ts, i, o - 1, l, p), Expr(ts, o + 1, j, r, p + 1)
    PROVE  Expr(ts, i, j, [at |-> o, l |-> l, r |-> r], p)
<1>1. /\ Whole(ts, i, o - 1) /\ l = TreeOf(ts)[<<i, o - 1>>]
      /\ Whole(ts, o + 1, j) /\ r = TreeOf(ts)[<<o + 1, j>>]
      /\ \A k \in OpsIn(ts, i, o - 1) : precedence(ts[k]) >= p
      /\ \A k \in OpsIn(ts, o + 1, j) : precedence(ts[k]) >= p + 1
  BY DEF Expr
<1>2. /\ i <= o - 1 /\ o + 1 <= j /\ i \in Int /\ o \in Int /\ j \in Int
      /\ o - 1 \in Int /\ o + 1 \in Int /\ (o - 1) + 1 = o
  BY <1>1 DEF Whole
<1>3. ts[o] # "LParen" /\ ts[o] # "RParen"
  BY NoLevel
<1>4. Opened(ts, o, o) = 0 /\ Shut(ts, o, o) = 0
  BY <1>2, <1>3, ParenOne
<1>5. Opened(ts, i, o) = Shut(ts, i, o)
  <2>1. Opened(ts, i, o - 1) = Shut(ts, i, o - 1)
    BY <1>1 DEF Whole
  <2>2. i <= (o - 1) + 1 /\ o - 1 <= o
    BY <1>2
  <2>3. Opened(ts, i, o) - Shut(ts, i, o) = Opened(ts, (o - 1) + 1, o) - Shut(ts, (o - 1) + 1, o)
    BY <1>2, <2>1, <2>2, Behind
  <2>4. Opened(ts, i, o) \in Nat /\ Shut(ts, i, o) \in Nat
    BY <1>2, ParenType
  <2>5. QED
    BY ONLY <1>2, <1>4, <2>3, <2>4
<1>6. ASSUME NEW k \in (o + 1) .. j
      PROVE  /\ Opened(ts, i, k) - Shut(ts, i, k) = Opened(ts, o + 1, k) - Shut(ts, o + 1, k)
             /\ Opened(ts, i, k) \in Nat /\ Shut(ts, i, k) \in Nat
             /\ Opened(ts, o + 1, k) \in Nat /\ Shut(ts, o + 1, k) \in Nat
  <2>1. k \in Int /\ i <= o + 1 /\ o <= k
    BY <1>2
  <2>2. Opened(ts, i, k) - Shut(ts, i, k) = Opened(ts, o + 1, k) - Shut(ts, o + 1, k)
    BY <1>2, <1>5, <2>1, Behind
  <2>3. QED
    BY <1>2, <2>1, <2>2, ParenType
<1>7. Whole(ts, i, j)
  <2>1. Opened(ts, i, j) = Shut(ts, i, j)
    <3>1. Opened(ts, o + 1, j) = Shut(ts, o + 1, j) /\ j \in (o + 1) .. j
      BY <1>1, <1>2 DEF Whole
    <3>2. QED
      <4>1. /\ Opened(ts, i, j) - Shut(ts, i, j) = Opened(ts, o + 1, j) - Shut(ts, o + 1, j)
            /\ Opened(ts, i, j) \in Nat /\ Shut(ts, i, j) \in Nat
            /\ Opened(ts, o + 1, j) \in Nat /\ Shut(ts, o + 1, j) \in Nat
        BY <1>6, <3>1
      <4>2. QED
        BY ONLY <3>1, <4>1
  <2>2. ASSUME NEW k \in i .. j
        PROVE  Shut(ts, i, k) <= Opened(ts, i, k)
    <3>1. k \in i .. (o - 1) \/ k = o \/ k \in (o + 1) .. j
      BY <1>2
    <3>2. CASE k \in i .. (o - 1)
      BY <1>1, <3>2 DEF Whole
    <3>3. CASE k = o
      <4>1. Opened(ts, i, o) \in Nat
        BY <1>2, ParenType
      <4>2. QED
        BY <1>5, <3>3, <4>1
    <3>4. CASE k \in (o + 1) .. j
      <4>1. Shut(ts, o + 1, k) <= Opened(ts, o + 1, k)
        BY <1>1, <3>4 DEF Whole
      <4>2. QED
        BY <1>6, <3>4, <4>1
    <3>5. QED
      BY <3>1, <3>2, <3>3, <3>4
  <2>3. i \in Nat \ {0} /\ j \in Nat /\ i <= j /\ j <= Len(ts)
    BY <1>2
  <2>4. QED
    BY <2>1, <2>2, <2>3 DEF Whole
<1>8. ASSUME NEW k \in OpsIn(ts, i, j)
      PROVE  /\ k \in Int
             /\ \/ k < o /\ precedence(ts[k]) >= p
                \/ k = o
                \/ k > o /\ precedence(ts[k]) >= p + 1
  <2>1. k \in i .. j /\ precedence(ts[k]) > 0 /\ Opened(ts, i, k) = Shut(ts, i, k)
    BY <1>8, OpsAre
  <2>2. k \in Int /\ (k \in i .. (o - 1) \/ k = o \/ k \in (o + 1) .. j)
    BY <1>2, <2>1
  <2>3. CASE k \in i .. (o - 1)
    <3>1. k \in OpsIn(ts, i, o - 1)
      BY <2>1, <2>3, OpsAre
    <3>2. k < o
      BY <1>2, <2>3
    <3>3. QED
      BY <1>1, <2>2, <3>1, <3>2
  <2>4. CASE k \in (o + 1) .. j
    <3>1. Opened(ts, o + 1, k) = Shut(ts, o + 1, k)
      <4>1. /\ Opened(ts, i, k) - Shut(ts, i, k) = Opened(ts, o + 1, k) - Shut(ts, o + 1, k)
            /\ Opened(ts, i, k) \in Nat /\ Shut(ts, i, k) \in Nat
            /\ Opened(ts, o + 1, k) \in Nat /\ Shut(ts, o + 1, k) \in Nat
        BY <1>6, <2>4
      <4>2. Opened(ts, i, k) = Shut(ts, i, k)
        BY <2>1
      <4>3. QED
        BY ONLY <4>1, <4>2
    <3>2. k \in OpsIn(ts, o + 1, j)
      BY <2>1, <2>4, <3>1, OpsAre
    <3>3. k > o
      BY <1>2, <2>4
    <3>4. QED
      BY <1>1, <2>2, <3>2, <3>3
  <2>5. QED
    BY <2>2, <2>3, <2>4
<1>9. o \in OpsIn(ts, i, j)
  <2>1. o \in i .. j
    BY <1>2
  <2>2. precedence(ts[o]) > 0
    OBVIOUS
  <2>3. QED
    BY <1>5, <2>1, <2>2, OpsAre
<1>10. Loose(ts, OpsIn(ts, i, j), o)
  <2>1. ASSUME NEW k \in OpsIn(ts, i, j)
        PROVE  \/ precedence(ts[o]) < precedence(ts[k])
               \/ precedence(ts[o]) = precedence(ts[k]) /\ k <= o
    <3>1. precedence(ts[k]) \in Nat
      BY LevelsUpTo4
    <3>2. QED
      BY <1>8, <2>1, <3>1
  <2>2. QED
    BY <2>1 DEF Loose
<1>11. TreeOf(ts)[<<i, j>>] = [at |-> o, l |-> l, r |-> r]
  <2>1. i \in Nat \ {0} /\ j \in Nat
    BY <1>2
  <2>2. TreeOf(ts)[<<i, j>>] = [at |-> o, l |-> TreeOf(ts)[<<i, o - 1>>],
                                r |-> TreeOf(ts)[<<o + 1, j>>]]
    BY ONLY <1>9, <1>10, <2>1, OpsTree
  <2>3. QED
    BY <1>1, <2>2
<1>12. \A k \in OpsIn(ts, i, j) : precedence(ts[k]) >= p
  <2>1. TAKE k \in OpsIn(ts, i, j)
  <2>2. precedence(ts[k]) \in Nat
    BY LevelsUpTo4
  <2>3. QED
    BY <1>8, <2>1, <2>2
<1>13. QED
  BY <1>7, <1>11, <1>12 DEF Expr

\* A lower bound on the levels may be lowered.
LEMMA ExprLower ==
    ASSUME NEW ts, NEW i, NEW j, NEW v, NEW p \in Nat, NEW q \in Nat, q <= p, Expr(ts, i, j, v, p)
    PROVE  Expr(ts, i, j, v, q)
<1>1. \A k \in OpsIn(ts, i, j) : precedence(ts[k]) >= q
  <2>1. TAKE k \in OpsIn(ts, i, j)
  <2>2. precedence(ts[k]) \in Nat /\ precedence(ts[k]) >= p
    BY LevelsUpTo4 DEF Expr
  <2>3. QED
    BY <2>2
<1>2. QED
  BY <1>1 DEF Expr

(***************************************************************************)
(* Tokens behind an expression do not change it.                           *)
(***************************************************************************)
Extends(us, ts) == /\ Len(ts) \in Nat /\ Len(us) \in Nat /\ Len(ts) <= Len(us)
                   /\ \A p \in 1 .. Len(ts) : us[p] = ts[p]

LEMMA OpsSame ==
    ASSUME NEW ts, NEW us, NEW i \in Nat, NEW j \in Nat, \A p \in i .. j : us[p] = ts[p]
    PROVE  OpsIn(ts, i, j) = OpsIn(us, i, j)
<1>1. ASSUME NEW k \in i .. j
      PROVE  Opened(ts, i, k) = Opened(us, i, k) /\ Shut(ts, i, k) = Shut(us, i, k)
  <2>1. \A p \in i .. k : us[p] = ts[p]
    OBVIOUS
  <2>2. QED
    BY <2>1, CountSame DEF Opened, Shut
<1>2. \A k : k \in OpsIn(ts, i, j) <=> k \in OpsIn(us, i, j)
  BY <1>1, OpsAre
<1>3. QED
  BY <1>2

LEMMA TreeSame ==
    ASSUME NEW ts, NEW us, Extends(us, ts)
    PROVE  \A p \in Spans : p[2] <= Len(ts) => TreeOf(ts)[p] = TreeOf(us)[p]
<1> DEFINE f == TreeOf(ts)
           g == TreeOf(us)
<1>1. SUFFICES ASSUME NEW p0 \in Spans, p0[2] <= Len(ts), f[p0] # g[p0]
               PROVE  FALSE
  OBVIOUS
<1>2. PICK T : T = {k \in Nat : \E p \in Spans : Size(p) = k /\ p[2] <= Len(ts) /\ f[p] # g[p]}
  OBVIOUS
<1>3. Size(p0) \in T
  BY <1>1, <1>2, SizeType
<1>4. T \subseteq Nat /\ T # {}
  BY <1>2, <1>3
<1>5. PICK n \in T : \A y \in T : n <= y
  BY <1>4, LeastNatural
<1>6. PICK p \in Spans : Size(p) = n /\ p[2] <= Len(ts) /\ f[p] # g[p]
  BY <1>2, <1>5
<1>7. ASSUME NEW q \in Spans, Size(q) < Size(p), q[2] <= Len(ts)
      PROVE  f[q] = g[q]
  <2>1. Size(q) \in Nat /\ n \in Nat
    BY <1>2, <1>5, SizeType
  <2>2. Size(q) \notin T
    BY <1>5, <1>6, <1>7, <2>1
  <2>3. QED
    BY <1>2, <1>7, <2>1, <2>2
<1>8. f[p] = NodeIn(ts, f, p) /\ g[p] = NodeIn(us, g, p)
  BY TreeNode
<1> HIDE DEF f, g
<1>9. PICK i, j : i = p[1] /\ j = p[2]
  OBVIOUS
<1>10. i \in Nat \ {0} /\ j \in Nat /\ j <= Len(ts)
  BY <1>6, <1>9 DEF Spans
<1>11. \A m \in i .. j : us[m] = ts[m]
  BY <1>10 DEF Extends
<1>12. PICK K : K = OpsIn(ts, i, j)
  OBVIOUS
<1>13. K = OpsIn(us, i, j)
  BY <1>10, <1>11, <1>12, OpsSame
<1>14. CASE K # {}
  <2>1. PICK k : k = LoosestIn(ts, K)
    OBVIOUS
  <2>2. K \subseteq i .. j /\ i \in Nat /\ j \in Nat
    BY <1>10, <1>12 DEF OpsIn
  <2>3. k \in i .. j
    BY <1>10, <1>14, <2>1, <2>2, LoosestIs
  <2>4. k = LoosestIn(us, K)
    <3>1. k \in K /\ Loose(ts, K, k)
      BY <1>14, <2>1, <2>2, LoosestIs
    <3>2. \A m \in K : us[m] = ts[m]
      BY <1>11, <2>2
    <3>3. Loose(us, K, k)
      BY <3>1, <3>2 DEF Loose
    <3>4. QED
      BY <2>2, <3>1, <3>3, LoosestOne
  <2>5. PICK q, r : q = <<i, k - 1>> /\ r = <<k + 1, j>>
    OBVIOUS
  <2>6. /\ q \in Spans /\ r \in Spans
        /\ q[1] = i /\ q[2] = k - 1 /\ r[1] = k + 1 /\ r[2] = j
    BY <1>10, <2>3, <2>5 DEF Spans
  <2>7. Size(q) < Size(p) /\ Size(r) < Size(p) /\ k - 1 <= Len(ts)
    <3>1. Size(q) < Size(p) /\ Size(r) < Size(p)
      <4>1. Size(p) = j - i + 1 /\ k \in Int /\ i <= k /\ k <= j
        BY ONLY <1>9, <1>10, <2>3 DEF Size
      <4>2. Size(q) \in {k - i, 0}
        BY ONLY <1>10, <2>6, <4>1 DEF Size
      <4>3. Size(r) \in {j - k, 0}
        BY ONLY <1>10, <2>6, <4>1 DEF Size
      <4>4. QED
        BY ONLY <1>10, <4>1, <4>2, <4>3
    <3>2. Len(ts) \in Nat
      BY DEF Extends
    <3>3. QED
      BY ONLY <1>10, <2>3, <3>1, <3>2
  <2>8. f[q] = g[q] /\ f[r] = g[r]
    BY <1>7, <1>10, <2>6, <2>7
  <2>9. NodeIn(ts, f, p) = [at |-> k, l |-> f[q], r |-> f[r]]
    BY <1>9, <1>12, <1>14, <2>1, <2>5 DEF NodeIn
  <2>10. NodeIn(us, g, p) = [at |-> k, l |-> g[q], r |-> g[r]]
    BY <1>9, <1>13, <1>14, <2>4, <2>5 DEF NodeIn
  <2>11. QED
    BY <1>6, <1>8, <2>8, <2>9, <2>10
<1>15. CASE K = {} /\ i < j /\ ts[i] = "LParen"
  <2>1. PICK q : q = <<i + 1, j - 1>>
    OBVIOUS
  <2>2. q \in Spans /\ q[1] = i + 1 /\ q[2] = j - 1
    BY <1>10, <1>15, <2>1 DEF Spans
  <2>3. Size(q) < Size(p) /\ j - 1 <= Len(ts)
    <3>1. Size(q) < Size(p)
      <4>1. Size(p) = j - i + 1
        BY ONLY <1>9, <1>10, <1>15 DEF Size
      <4>2. Size(q) \in {j - i - 1, 0}
        BY ONLY <1>10, <2>2 DEF Size
      <4>3. i < j /\ i \in Nat /\ j \in Nat
        BY ONLY <1>10, <1>15
      <4>4. QED
        BY ONLY <4>1, <4>2, <4>3
    <3>2. Len(ts) \in Nat
      BY DEF Extends
    <3>3. QED
      BY ONLY <1>10, <3>1, <3>2
  <2>4. f[q] = g[q]
    BY <1>7, <2>2, <2>3
  <2>5. us[i] = ts[i]
    BY <1>10, <1>11, <1>15
  <2>6. NodeIn(ts, f, p) = f[q] /\ NodeIn(us, g, p) = g[q]
    BY <1>9, <1>12, <1>13, <1>15, <2>1, <2>5 DEF NodeIn
  <2>7. QED
    BY <1>6, <1>8, <2>4, <2>6
<1>16. CASE K = {} /\ ~(i < j /\ ts[i] = "LParen")
  <2>1. i < j => us[i] = ts[i]
    BY <1>10, <1>11
  <2>2. NodeIn(ts, f, p) = [at |-> i] /\ NodeIn(us, g, p) = [at |-> i]
    BY <1>9, <1>12, <1>13, <1>16, <2>1 DEF NodeIn
  <2>3. QED
    BY <1>6, <1>8, <2>2
<1>17. QED
  BY <1>14, <1>15, <1>16

LEMMA ExprKeeps ==
    ASSUME NEW ts, NEW us, Extends(us, ts), NEW i, NEW j, NEW v, NEW low, Expr(ts, i, j, v, low)
    PROVE  Expr(us, i, j, v, low) /\ OpsIn(us, i, j) = OpsIn(ts, i, j)
<1>1. /\ i \in Nat \ {0} /\ j \in Nat /\ i <= j /\ j <= Len(ts)
      /\ Opened(ts, i, j) = Shut(ts, i, j)
      /\ \A k \in i .. j : Shut(ts, i, k) <= Opened(ts, i, k)
  BY DEF Expr, Whole
<1>2. \A p \in i .. j : us[p] = ts[p]
  BY <1>1 DEF Extends
<1>3. OpsIn(us, i, j) = OpsIn(ts, i, j)
  BY <1>1, <1>2, OpsSame
<1>4. ASSUME NEW k \in i .. j
      PROVE  Opened(ts, i, k) = Opened(us, i, k) /\ Shut(ts, i, k) = Shut(us, i, k)
  <2>1. \A p \in i .. k : us[p] = ts[p]
    BY <1>1, <1>2
  <2>2. QED
    BY <2>1, CountSame DEF Opened, Shut
<1>5. Whole(us, i, j)
  <2>1. j \in i .. j /\ j <= Len(us)
    BY <1>1 DEF Extends
  <2>2. Opened(us, i, j) = Shut(us, i, j)
    BY <1>1, <1>4, <2>1
  <2>3. \A k \in i .. j : Shut(us, i, k) <= Opened(us, i, k)
    BY <1>1, <1>4
  <2>4. QED
    BY <1>1, <2>1, <2>2, <2>3 DEF Whole
<1>6. TreeOf(us)[<<i, j>>] = v
  <2>1. PICK p : p = <<i, j>>
    OBVIOUS
  <2>2. p \in Spans /\ p[2] = j
    BY <1>1, <2>1, SpanIs
  <2>3. TreeOf(ts)[p] = TreeOf(us)[p]
    BY <1>1, <2>2, TreeSame
  <2>4. QED
    BY <2>1, <2>3 DEF Expr
<1>7. \A k \in OpsIn(us, i, j) : precedence(us[k]) >= low
  <2>1. TAKE k \in OpsIn(us, i, j)
  <2>2. k \in OpsIn(ts, i, j) /\ k \in i .. j
    BY <1>3, OpsAre
  <2>3. us[k] = ts[k]
    BY <1>2, <2>2
  <2>4. QED
    BY <2>2, <2>3 DEF Expr
<1>8. QED
  BY <1>3, <1>5, <1>6, <1>7 DEF Expr

(***************************************************************************)
(* A list of things to do, by its first.                                   *)
(***************************************************************************)
Cons(a, R) == <<a>> \o R

LEMMA ConsIs ==
    ASSUME NEW a \in Items, NEW R \in Seq(Items)
    PROVE  /\ Cons(a, R) \in Seq(Items)
           /\ Cons(a, R) # << >>
           /\ Len(Cons(a, R)) = Len(R) + 1
           /\ DOMAIN Cons(a, R) = 1 .. Len(R) + 1
           /\ Cons(a, R)[1] = a
           /\ \A i \in 1 .. Len(R) : Cons(a, R)[i + 1] = R[i]
           /\ Head(Cons(a, R)) = a
           /\ Tail(Cons(a, R)) = R
<1>1. <<a>> \in Seq(Items) /\ Len(<<a>>) = 1 /\ <<a>>[1] = a
  OBVIOUS
<1>2. PICK L : L = Cons(a, R)
  OBVIOUS
<1>3. /\ L \in Seq(Items) /\ Len(L) = 1 + Len(R)
      /\ \A i \in 1 .. 1 + Len(R) : L[i] = IF i <= 1 THEN <<a>>[i] ELSE R[i - 1]
  BY <1>1, <1>2, ConcatProperties DEF Cons
<1>4. Len(R) \in Nat /\ DOMAIN L = 1 .. Len(L)
  BY <1>3, LenProperties
<1>5. L[1] = a /\ L # << >>
  BY <1>1, <1>3, <1>4
<1>6. \A i \in 1 .. Len(R) : L[i + 1] = R[i]
  BY <1>3, <1>4
<1>7. Head(L) = a
  BY <1>3, <1>5
<1>8. Tail(L) = R
  <2>1. PICK T : T = Tail(L)
    OBVIOUS
  <2>2. T \in Seq(Items) /\ Len(T) = Len(R) /\ \A i \in 1 .. Len(T) : T[i] = L[i + 1]
    BY <1>3, <1>4, <1>5, <2>1, HeadTailProperties
  <2>3. \A i \in 1 .. Len(T) : T[i] = R[i]
    BY <1>6, <2>2
  <2>4. T = R
    BY <2>2, <2>3, SeqEqual
  <2>5. QED
    BY <2>1, <2>4
<1>9. QED
  BY <1>2, <1>3, <1>4, <1>5, <1>6, <1>7, <1>8

LEMMA ConsOne ==
    ASSUME NEW a \in Items, NEW R \in Seq(Items), NEW L \in Seq(Items), Len(L) = Len(R) + 1,
           L[1] = a, \A i \in 1 .. Len(R) : L[i + 1] = R[i]
    PROVE  L = Cons(a, R)
<1>1. PICK M : M = Cons(a, R)
  OBVIOUS
<1>2. /\ M \in Seq(Items) /\ Len(M) = Len(R) + 1 /\ M[1] = a
      /\ \A i \in 1 .. Len(R) : M[i + 1] = R[i]
  <2>1. /\ Cons(a, R) \in Seq(Items) /\ Len(Cons(a, R)) = Len(R) + 1 /\ Cons(a, R)[1] = a
        /\ \A i \in 1 .. Len(R) : Cons(a, R)[i + 1] = R[i]
    BY ConsIs
  <2>2. QED
    BY ONLY <1>1, <2>1
<1>3. Len(R) \in Nat
  BY LenProperties
<1>4. ASSUME NEW i \in 1 .. Len(L)
      PROVE  L[i] = M[i]
  <2>1. i = 1 \/ (i - 1 \in 1 .. Len(R) /\ (i - 1) + 1 = i)
    BY <1>3
  <2>2. QED
    BY <1>2, <2>1
<1>5. L = M
  BY <1>2, <1>4, SeqEqual
<1>6. QED
  BY <1>1, <1>5

\* Every list but the empty one has a first.
LEMMA ConsOf ==
    ASSUME NEW L \in Seq(Items), L # << >>
    PROVE  Head(L) \in Items /\ Tail(L) \in Seq(Items) /\ L = Cons(Head(L), Tail(L))
<1>1. PICK a, R : a = Head(L) /\ R = Tail(L)
  OBVIOUS
<1>2. /\ a \in Items /\ R \in Seq(Items) /\ a = L[1]
      /\ Len(R) = Len(L) - 1 /\ \A i \in 1 .. Len(R) : R[i] = L[i + 1]
  BY <1>1, HeadTailProperties
<1>3. Len(L) = Len(R) + 1
  <2>1. Len(L) \in Nat
    BY LenProperties
  <2>2. QED
    BY <1>2, <2>1
<1>4. L = Cons(a, R)
  BY <1>2, <1>3, ConsOne
<1>5. QED
  BY <1>1, <1>2, <1>4

\* What is put in front of a list.
LEMMA FrontMore ==
    ASSUME NEW R \in Seq(Items), NEW a \in Items, NEW s \in Seq(Items), NEW t \in Seq(Items),
           Len(t) = Len(s) + 1, t[1] = a, \A i \in 1 .. Len(s) : t[i + 1] = s[i]
    PROVE  t \o R = Cons(a, s \o R)
<1>1. t = Cons(a, s)
  BY ConsOne
<1>2. <<a>> \in Seq(Items)
  OBVIOUS
<1>3. (<<a>> \o s) \o R = <<a>> \o (s \o R)
  BY <1>2, ConcatAssociative
<1>4. QED
  BY <1>1, <1>3 DEF Cons

LEMMA Front1 ==
    ASSUME NEW R \in Seq(Items), NEW a \in Items
    PROVE  <<a>> \o R = Cons(a, R)
BY DEF Cons

LEMMA Front2 ==
    ASSUME NEW R \in Seq(Items), NEW a \in Items, NEW b \in Items
    PROVE  <<a, b>> \o R = Cons(a, Cons(b, R))
<1>1. PICK s, t : s = <<b>> /\ t = <<a, b>>
  OBVIOUS
<1>2. /\ s \in Seq(Items) /\ t \in Seq(Items) /\ Len(t) = Len(s) + 1 /\ t[1] = a
      /\ \A i \in 1 .. Len(s) : t[i + 1] = s[i]
  BY <1>1
<1>3. t \o R = Cons(a, s \o R)
  BY <1>2, FrontMore
<1>4. s \o R = Cons(b, R)
  BY <1>1, Front1
<1>5. QED
  BY <1>1, <1>3, <1>4

LEMMA Front3 ==
    ASSUME NEW R \in Seq(Items), NEW a \in Items, NEW b \in Items, NEW c \in Items
    PROVE  <<a, b, c>> \o R = Cons(a, Cons(b, Cons(c, R)))
<1>1. PICK s, t : s = <<b, c>> /\ t = <<a, b, c>>
  OBVIOUS
<1>2. /\ s \in Seq(Items) /\ t \in Seq(Items) /\ Len(t) = Len(s) + 1 /\ t[1] = a
      /\ \A i \in 1 .. Len(s) : t[i + 1] = s[i]
  BY <1>1
<1>3. t \o R = Cons(a, s \o R)
  BY <1>2, FrontMore
<1>4. s \o R = Cons(b, Cons(c, R))
  BY <1>1, Front2
<1>5. QED
  BY <1>1, <1>3, <1>4

LEMMA Front4 ==
    ASSUME NEW R \in Seq(Items), NEW a \in Items, NEW b \in Items, NEW c \in Items, NEW d \in Items
    PROVE  <<a, b, c, d>> \o R = Cons(a, Cons(b, Cons(c, Cons(d, R))))
<1>1. PICK s, t : s = <<b, c, d>> /\ t = <<a, b, c, d>>
  OBVIOUS
<1>2. /\ s \in Seq(Items) /\ t \in Seq(Items) /\ Len(t) = Len(s) + 1 /\ t[1] = a
      /\ \A i \in 1 .. Len(s) : t[i + 1] = s[i]
  BY <1>1
<1>3. t \o R = Cons(a, s \o R)
  BY <1>2, FrontMore
<1>4. s \o R = Cons(b, Cons(c, Cons(d, R)))
  BY <1>1, Front3
<1>5. QED
  BY <1>1, <1>3, <1>4

(***************************************************************************)
(* The operators whose right side is being read.                           *)
(***************************************************************************)
BinaryAt(L) == {k \in DOMAIN L : L[k].do = "binary"}
Pend(L)     == Cardinality(BinaryAt(L))

LEMMA PendCons ==
    ASSUME NEW a \in Items, NEW R \in Seq(Items)
    PROVE  /\ Pend(R) \in Nat
           /\ Pend(Cons(a, R)) = IF a.do = "binary" THEN Pend(R) + 1 ELSE Pend(R)
<1>1. PICK L : L = Cons(a, R)
  OBVIOUS
<1>2. /\ DOMAIN L = 1 .. Len(R) + 1 /\ L[1] = a /\ \A i \in 1 .. Len(R) : L[i + 1] = R[i]
      /\ Len(R) \in Nat /\ DOMAIN R = 1 .. Len(R)
  <2>1. Len(R) \in Nat /\ DOMAIN R = 1 .. Len(R)
    BY LenProperties
  <2>2. DOMAIN L = 1 .. Len(R) + 1 /\ L[1] = a /\ \A i \in 1 .. Len(R) : L[i + 1] = R[i]
    <3>1. /\ DOMAIN Cons(a, R) = 1 .. Len(R) + 1 /\ Cons(a, R)[1] = a
          /\ \A i \in 1 .. Len(R) : Cons(a, R)[i + 1] = R[i]
      BY ConsIs, Zenon
    <3>2. QED
      BY ONLY <1>1, <3>1, Zenon
  <2>3. QED
    BY <2>1, <2>2
<1>3. PICK A : A = BinaryAt(R)
  OBVIOUS
<1>4. A \subseteq 1 .. Len(R)
  BY <1>2, <1>3 DEF BinaryAt
<1>5. IsFiniteSet(A) /\ Cardinality(A) \in Nat
  <2>1. IsFiniteSet(1 .. Len(R))
    BY <1>2, FS_Interval
  <2>2. QED
    BY <1>4, <2>1, FS_Subset, FS_CardinalityType
<1>6. PICK B : B = {k + 1 : k \in A}
  OBVIOUS
<1>7. PICK f : f = [k \in A |-> k + 1]
  OBVIOUS
<1>8. f \in Bijection(A, B)
  <2>1. f \in [A -> B]
    BY <1>6, <1>7
  <2>2. \A x, y \in A : f[x] = f[y] => x = y
    BY <1>4, <1>7
  <2>3. \A y \in B : \E x \in A : f[x] = y
    BY <1>6, <1>7
  <2>4. QED
    BY <2>1, <2>2, <2>3, Fun_IsBij
<1>9. IsFiniteSet(B) /\ Cardinality(B) = Cardinality(A)
  <2>1. ExistsBijection(A, B)
    BY <1>8 DEF ExistsBijection
  <2>2. QED
    BY <1>5, <2>1, FS_Bijection
<1>10. 1 \notin B
  <2>1. \A k \in A : k + 1 # 1
    BY <1>2, <1>4
  <2>2. QED
    BY ONLY <1>6, <2>1
<1>11. BinaryAt(L) = IF a.do = "binary" THEN B \cup {1} ELSE B
  <2>1. \A k : k \in B <=> k \in 2 .. Len(R) + 1 /\ L[k].do = "binary"
    <3>1. ASSUME NEW k \in B
          PROVE  k \in 2 .. Len(R) + 1 /\ L[k].do = "binary"
      <4>1. PICK i \in A : k = i + 1
        BY <1>6
      <4>2. i \in 1 .. Len(R) /\ R[i].do = "binary"
        BY <1>3, <1>4 DEF BinaryAt
      <4>3. QED
        BY <1>2, <4>1, <4>2
    <3>2. ASSUME NEW k \in 2 .. Len(R) + 1, L[k].do = "binary"
          PROVE  k \in B
      <4>1. k - 1 \in 1 .. Len(R) /\ (k - 1) + 1 = k
        BY <1>2
      <4>2. R[k - 1].do = "binary"
        BY <1>2, <3>2, <4>1
      <4>3. k - 1 \in A
        BY <1>2, <1>3, <4>1, <4>2 DEF BinaryAt
      <4>4. QED
        BY <1>6, <4>1, <4>3
    <3>3. QED
      BY <3>1, <3>2
  <2>2. \A k : k \in BinaryAt(L) <=> (k = 1 /\ a.do = "binary") \/ k \in B
    <3>1. \A k : k \in BinaryAt(L) <=> k \in 1 .. Len(R) + 1 /\ L[k].do = "binary"
      BY <1>2 DEF BinaryAt
    <3>2. \A k : k \in 1 .. Len(R) + 1 <=> k = 1 \/ k \in 2 .. Len(R) + 1
      BY <1>2
    <3>3. QED
      BY <1>2, <2>1, <3>1, <3>2
  <2>3. QED
    BY <2>2
<1>12. Cardinality(B \cup {1}) = Cardinality(B) + 1
  BY <1>9, <1>10, FS_AddElement
<1>13. QED
  BY <1>1, <1>3, <1>5, <1>9, <1>11, <1>12 DEF Pend

(***************************************************************************)
(* What is left of the statements: no expression has begun.                *)
(***************************************************************************)
StatementDo == {"token", "annotation", "type", "block", "end", "iftail", "endif", "program"}

InOrder(L, i) ==
    /\ L[i].do \in StatementDo \cup {"expression"}
    /\ L[i].do = "program" <=> i = Len(L)
    /\ L[i].do = "expression" => L[i] = Expression(0) /\ L[i + 1].do = "block"

Level(L) == L # << >> /\ \A i \in DOMAIN L : InOrder(L, i)

LEMMA Inside ==
    ASSUME NEW n \in Nat, NEW k \in 1 .. n
    PROVE  /\ k # n => k + 1 \in 1 .. n
           /\ k + 1 = n + 1 <=> k = n
           /\ k + 1 \in 1 .. n + 1
OBVIOUS

LEMMA LevelCons ==
    ASSUME NEW a \in Items, NEW R \in Seq(Items), Level(R),
           \/ a.do \in StatementDo \ {"program"}
           \/ a = Expression(0) /\ Head(R).do = "block"
    PROVE  Level(Cons(a, R))
<1>1. PICK L : L = Cons(a, R)
  OBVIOUS
<1>2. /\ L \in Seq(Items) /\ L # << >> /\ Len(L) = Len(R) + 1 /\ DOMAIN L = 1 .. Len(R) + 1
      /\ L[1] = a /\ \A i \in 1 .. Len(R) : L[i + 1] = R[i]
  <2>1. /\ Cons(a, R) \in Seq(Items) /\ Cons(a, R) # << >> /\ Len(Cons(a, R)) = Len(R) + 1
        /\ DOMAIN Cons(a, R) = 1 .. Len(R) + 1
        /\ Cons(a, R)[1] = a /\ \A i \in 1 .. Len(R) : Cons(a, R)[i + 1] = R[i]
    BY ConsIs
  <2>2. QED
    BY ONLY <1>1, <2>1
<1>3. R # << >> /\ Len(R) \in Nat /\ Len(R) >= 1 /\ DOMAIN R = 1 .. Len(R) /\ Head(R) = R[1]
  <2>1. R # << >>
    BY DEF Level
  <2>2. QED
    BY <2>1, EmptySeq, LenProperties
<1>4. Expression(0).do = "expression"
  BY DEF Expression
<1>5. ASSUME NEW i \in DOMAIN L
      PROVE  /\ L[i].do \in StatementDo \cup {"expression"}
             /\ L[i].do = "program" <=> i = Len(L)
             /\ L[i].do = "expression" => L[i] = Expression(0) /\ L[i + 1].do = "block"
  <2>1. CASE i = 1
    <3>1. /\ L[i] = a /\ L[i + 1] = R[1] /\ i # Len(L)
      BY <1>2, <1>3, <2>1
    <3>2. a.do \in StatementDo \cup {"expression"} /\ a.do # "program"
      BY <1>4 DEF StatementDo
    <3>3. a.do = "expression" => a = Expression(0) /\ R[1].do = "block"
      BY <1>3 DEF StatementDo
    <3>4. QED
      BY <3>1, <3>2, <3>3
  <2>2. CASE i # 1
    <3>1. PICK k : k = i - 1
      OBVIOUS
    <3>2. k \in 1 .. Len(R) /\ i = k + 1
      BY <1>2, <1>3, <2>2, <3>1
    <3>3. L[i] = R[k] /\ (i = Len(L) <=> k = Len(R))
      <4>1. k + 1 = Len(R) + 1 <=> k = Len(R)
        BY ONLY <1>3, <3>2, Inside
      <4>2. QED
        BY ONLY <1>2, <3>2, <4>1
    <3>4. /\ R[k].do \in StatementDo \cup {"expression"}
          /\ R[k].do = "program" <=> k = Len(R)
          /\ R[k].do = "expression" => R[k] = Expression(0) /\ R[k + 1].do = "block"
      <4>1. InOrder(R, k)
        BY <1>3, <3>2 DEF Level
      <4>2. QED
        BY ONLY <4>1 DEF InOrder
    <3>5. R[k].do = "expression" => L[i + 1] = R[k + 1]
      <4>1. SUFFICES ASSUME R[k].do = "expression" PROVE L[i + 1] = R[k + 1]
        OBVIOUS
      <4>2. k # Len(R)
        BY <3>4, <4>1
      <4>3. k + 1 \in 1 .. Len(R) /\ i + 1 = (k + 1) + 1
        <5>1. k + 1 \in 1 .. Len(R)
          BY ONLY <1>3, <3>2, <4>2, Inside
        <5>2. QED
          BY ONLY <3>2, <5>1
      <4>4. L[(k + 1) + 1] = R[k + 1]
        BY <1>2, <4>3
      <4>5. QED
        BY ONLY <4>3, <4>4
    <3>6. QED
      BY ONLY <3>3, <3>4, <3>5
  <2>3. QED
    BY <2>1, <2>2
<1>6. Level(L)
  <2>1. \A i \in DOMAIN L : InOrder(L, i)
    BY ONLY <1>5 DEF InOrder
  <2>2. QED
    BY <1>2, <2>1 DEF Level
<1>7. QED
  BY <1>1, <1>6

LEMMA LevelTail ==
    ASSUME NEW a \in Items, NEW R \in Seq(Items), Level(Cons(a, R))
    PROVE  /\ a.do \in StatementDo \cup {"expression"}
           /\ a.do # "program" => Level(R)
           /\ a.do = "expression" => a = Expression(0) /\ Head(R).do = "block"
<1>1. PICK L : L = Cons(a, R)
  OBVIOUS
<1>2. /\ Len(L) = Len(R) + 1 /\ DOMAIN L = 1 .. Len(R) + 1
      /\ L[1] = a /\ \A i \in 1 .. Len(R) : L[i + 1] = R[i]
  <2>1. /\ Len(Cons(a, R)) = Len(R) + 1 /\ DOMAIN Cons(a, R) = 1 .. Len(R) + 1
        /\ Cons(a, R)[1] = a /\ \A i \in 1 .. Len(R) : Cons(a, R)[i + 1] = R[i]
    BY ConsIs
  <2>2. QED
    BY ONLY <1>1, <2>1
<1>3. Len(R) \in Nat /\ DOMAIN R = 1 .. Len(R) /\ (R # << >> => Head(R) = R[1] /\ Len(R) >= 1)
  BY EmptySeq, LenProperties
<1>4. Level(L)
  BY <1>1
<1>5. /\ a.do \in StatementDo \cup {"expression"}
      /\ a.do = "program" <=> 1 = Len(L)
      /\ a.do = "expression" => a = Expression(0) /\ L[2].do = "block"
  <2>1. 1 \in DOMAIN L /\ 1 + 1 = 2
    BY <1>2, <1>3
  <2>2. /\ L[1].do \in StatementDo \cup {"expression"}
        /\ L[1].do = "program" <=> 1 = Len(L)
        /\ L[1].do = "expression" => L[1] = Expression(0) /\ L[1 + 1].do = "block"
    <3>1. InOrder(L, 1)
      BY <1>4, <2>1 DEF Level
    <3>2. QED
      BY ONLY <3>1 DEF InOrder
  <2>3. QED
    BY ONLY <1>2, <2>1, <2>2
<1>6. a.do # "program" => R # << >> /\ Len(R) >= 1
  <2>1. SUFFICES ASSUME a.do # "program" PROVE R # << >> /\ Len(R) >= 1
    OBVIOUS
  <2>2. Len(R) # 0
    BY <1>2, <1>5, <2>1
  <2>3. QED
    BY <1>3, <2>2, EmptySeq
<1>7. a.do = "expression" => Head(R).do = "block"
  <2>1. SUFFICES ASSUME a.do = "expression" PROVE Head(R).do = "block"
    OBVIOUS
  <2>2. R # << >> /\ Len(R) >= 1
    BY <1>6, <2>1
  <2>3. L[2] = R[1]
    BY <1>2, <1>3, <2>2
  <2>4. QED
    BY <1>3, <1>5, <2>1, <2>2, <2>3
<1>8. ASSUME a.do # "program"
      PROVE  Level(R)
  <2>1. ASSUME NEW k \in 1 .. Len(R)
        PROVE  /\ R[k].do \in StatementDo \cup {"expression"}
               /\ R[k].do = "program" <=> k = Len(R)
               /\ R[k].do = "expression" => R[k] = Expression(0) /\ R[k + 1].do = "block"
    <3>1. k + 1 \in DOMAIN L /\ L[k + 1] = R[k] /\ (k + 1 = Len(L) <=> k = Len(R))
      <4>1. k + 1 = Len(R) + 1 <=> k = Len(R)
        BY <1>3, Inside
      <4>2. k + 1 \in 1 .. Len(R) + 1
        BY <1>3, Inside
      <4>3. QED
        BY <1>2, <4>1, <4>2
    <3>2. /\ L[k + 1].do \in StatementDo \cup {"expression"}
          /\ L[k + 1].do = "program" <=> k + 1 = Len(L)
          /\ L[k + 1].do = "expression" => L[k + 1] = Expression(0) /\ L[(k + 1) + 1].do = "block"
      <4>1. InOrder(L, k + 1)
        BY <1>4, <3>1 DEF Level
      <4>2. QED
        BY ONLY <4>1 DEF InOrder
    <3>3. k # Len(R) => L[(k + 1) + 1] = R[k + 1]
      <4>1. SUFFICES ASSUME k # Len(R) PROVE L[(k + 1) + 1] = R[k + 1]
        OBVIOUS
      <4>2. k + 1 \in 1 .. Len(R)
        BY <1>3, <4>1, Inside
      <4>3. QED
        BY <1>2, <4>2
    <3>4. R[k].do = "expression" => k # Len(R)
      BY <3>1, <3>2
    <3>5. QED
      BY ONLY <3>1, <3>2, <3>3, <3>4
  <2>2. R # << >>
    BY <1>6, <1>8
  <2>3. QED
    <3>1. \A k \in 1 .. Len(R) : InOrder(R, k)
      BY ONLY <2>1 DEF InOrder
    <3>2. QED
      BY <1>3, <2>2, <3>1 DEF Level
<1>9. QED
  BY <1>5, <1>7, <1>8

LEMMA LevelPend ==
    ASSUME NEW R \in Seq(Items), Level(R)
    PROVE  Pend(R) = 0
<1>1. \A i \in DOMAIN R : R[i].do # "binary"
  BY DEF Level, InOrder, StatementDo
<1>2. BinaryAt(R) = {}
  BY <1>1 DEF BinaryAt
<1>3. QED
  BY <1>2, FS_EmptySet DEF Pend

(***************************************************************************)
(* The functions, ifs and loops that wait for an end.                      *)
(***************************************************************************)
Closers == {"end", "iftail", "endif"}

OfUpTo(L, n) == \A i \in DOMAIN L : L[i].do \in Closers => L[i].of \in 1 .. n

LEMMA OfCons ==
    ASSUME NEW a \in Items, NEW R \in Seq(Items), NEW n
    PROVE  OfUpTo(Cons(a, R), n) <=> OfUpTo(R, n) /\ (a.do \in Closers => a.of \in 1 .. n)
<1>1. PICK L : L = Cons(a, R)
  OBVIOUS
<1>2. /\ DOMAIN L = 1 .. Len(R) + 1
      /\ L[1] = a /\ \A i \in 1 .. Len(R) : L[i + 1] = R[i]
  <2>1. /\ DOMAIN Cons(a, R) = 1 .. Len(R) + 1
        /\ Cons(a, R)[1] = a /\ \A i \in 1 .. Len(R) : Cons(a, R)[i + 1] = R[i]
    BY ConsIs
  <2>2. QED
    BY ONLY <1>1, <2>1
<1>3. Len(R) \in Nat /\ DOMAIN R = 1 .. Len(R)
  BY LenProperties
<1>4. ASSUME OfUpTo(L, n)
      PROVE  OfUpTo(R, n) /\ (a.do \in Closers => a.of \in 1 .. n)
  <2>1. 1 \in DOMAIN L /\ \A k \in DOMAIN R : k + 1 \in DOMAIN L /\ L[k + 1] = R[k]
    BY <1>2, <1>3
  <2>2. QED
    BY <1>2, <1>4, <2>1 DEF OfUpTo
<1>5. ASSUME OfUpTo(R, n), a.do \in Closers => a.of \in 1 .. n
      PROVE  OfUpTo(L, n)
  <2>1. ASSUME NEW i \in DOMAIN L, L[i].do \in Closers
        PROVE  L[i].of \in 1 .. n
    <3>1. i = 1 \/ (i - 1 \in DOMAIN R /\ (i - 1) + 1 = i /\ L[i] = R[i - 1])
      <4>1. i = 1 \/ (i - 1 \in 1 .. Len(R) /\ (i - 1) + 1 = i)
        BY <1>2, <1>3
      <4>2. QED
        BY <1>2, <1>3, <4>1
    <3>2. QED
      BY <1>2, <1>5, <2>1, <3>1 DEF OfUpTo
  <2>2. QED
    BY <2>1 DEF OfUpTo
<1>6. QED
  BY <1>1, <1>4, <1>5

LEMMA OfMore ==
    ASSUME NEW L, NEW n \in Int, NEW m \in Int, n <= m, OfUpTo(L, n)
    PROVE  OfUpTo(L, m)
BY DEF OfUpTo

(***************************************************************************)
(* What waits for an expression that begins at s and takes operators of    *)
(* level more than m, with k values on the stack: a statement, an operator *)
(* whose left side is read, or a parenthesis.                              *)
(***************************************************************************)
Idle(R) == Level(R) /\ Head(R).do = "block"

InBinary(ts, vs, R, s, m, k, op, m2, s2, R2) ==
    /\ R = Cons(Binary(op), Cons(Operators(m2, s2), R2))
    /\ op \in 1 .. Len(ts) /\ s2 \in 1 .. Len(ts)
    /\ s = op + 1
    /\ m = precedence(ts[op]) /\ m2 < m
    /\ Expr(ts, s2, op - 1, vs[k], m)

InParen(ts, R, s, m, m2, s2, R2) ==
    /\ R = Cons(Token("RParen"), Cons(Operators(m2, s2), R2))
    /\ s2 \in 1 .. Len(ts) /\ ts[s2] = "LParen"
    /\ s = s2 + 1
    /\ m = 0

Typed(R, s, m, k) == R \in Seq(Items) /\ s \in Nat /\ m \in Nat /\ k \in Nat /\ Pend(R) = k

Frame(Z, ts, vs, R, s, m, k) ==
    /\ Typed(R, s, m, k)
    /\ \/ Idle(R) /\ m = 0 /\ k = 0
       \/ \E op, m2, s2, R2 : InBinary(ts, vs, R, s, m, k, op, m2, s2, R2) /\ <<R2, s2, m2, k - 1>> \in Z
       \/ \E m2, s2, R2 : InParen(ts, R, s, m, m2, s2, R2) /\ <<R2, s2, m2, k>> \in Z

Closed(Z, ts, vs) == \A R, s, m, k : <<R, s, m, k>> \in Z => Frame(Z, ts, vs, R, s, m, k)

Waiting(ts, vs, R, s, m, k) == \E Z : <<R, s, m, k>> \in Z /\ Closed(Z, ts, vs)

LEMMA WaitingTyped ==
    ASSUME NEW ts, NEW vs, NEW R, NEW s, NEW m, NEW k, Waiting(ts, vs, R, s, m, k)
    PROVE  Typed(R, s, m, k)
BY DEF Waiting, Closed, Frame

\* The innermost of what waits, and the rest.
LEMMA WaitingIs ==
    ASSUME NEW ts, NEW vs, NEW R, NEW s, NEW m, NEW k, Waiting(ts, vs, R, s, m, k)
    PROVE  \/ Idle(R) /\ m = 0 /\ k = 0
           \/ \E op, m2, s2, R2 : /\ InBinary(ts, vs, R, s, m, k, op, m2, s2, R2)
                                  /\ Waiting(ts, vs, R2, s2, m2, k - 1)
           \/ \E m2, s2, R2 : /\ InParen(ts, R, s, m, m2, s2, R2)
                              /\ Waiting(ts, vs, R2, s2, m2, k)
<1>1. PICK Z : <<R, s, m, k>> \in Z /\ Closed(Z, ts, vs)
  BY DEF Waiting
<1>2. Frame(Z, ts, vs, R, s, m, k)
  BY <1>1 DEF Closed
<1>3. \A R2, s2, m2, k2 : <<R2, s2, m2, k2>> \in Z => Waiting(ts, vs, R2, s2, m2, k2)
  BY <1>1 DEF Waiting
<1>4. CASE \E op, m2, s2, R2 : /\ InBinary(ts, vs, R, s, m, k, op, m2, s2, R2)
                               /\ <<R2, s2, m2, k - 1>> \in Z
  BY <1>3, <1>4
<1>5. CASE \E m2, s2, R2 : InParen(ts, R, s, m, m2, s2, R2) /\ <<R2, s2, m2, k>> \in Z
  BY <1>3, <1>5
<1>6. QED
  BY <1>2, <1>4, <1>5 DEF Frame

LEMMA FrameMore ==
    ASSUME NEW Z, NEW Y, Z \subseteq Y, NEW ts, NEW vs, NEW R, NEW s, NEW m, NEW k,
           Frame(Z, ts, vs, R, s, m, k)
    PROVE  Frame(Y, ts, vs, R, s, m, k)
BY DEF Frame

\* One more waits.
LEMMA WaitingMore ==
    ASSUME NEW ts, NEW vs, NEW Z, Closed(Z, ts, vs), NEW R, NEW s, NEW m, NEW k,
           Frame(Z, ts, vs, R, s, m, k)
    PROVE  Waiting(ts, vs, R, s, m, k)
<1>1. PICK Y : Y = Z \cup {<<R, s, m, k>>}
  OBVIOUS
<1>2. Z \subseteq Y /\ <<R, s, m, k>> \in Y
  BY <1>1
<1>3. ASSUME NEW R1, NEW s1, NEW m1, NEW k1, <<R1, s1, m1, k1>> \in Y
      PROVE  Frame(Y, ts, vs, R1, s1, m1, k1)
  <2>1. CASE <<R1, s1, m1, k1>> \in Z
    <3>1. Frame(Z, ts, vs, R1, s1, m1, k1)
      BY <2>1 DEF Closed
    <3>2. QED
      BY <1>2, <3>1, FrameMore
  <2>2. CASE <<R1, s1, m1, k1>> = <<R, s, m, k>>
    <3>1. R1 = R /\ s1 = s /\ m1 = m /\ k1 = k
      BY <2>2
    <3>2. Frame(Y, ts, vs, R, s, m, k)
      BY <1>2, FrameMore
    <3>3. QED
      BY <3>1, <3>2
  <2>3. QED
    BY <1>1, <1>3, <2>1, <2>2
<1>4. Closed(Y, ts, vs)
  BY <1>3 DEF Closed
<1>5. QED
  BY <1>2, <1>4 DEF Waiting

LEMMA WaitingIdle ==
    ASSUME NEW ts, NEW vs, NEW R \in Seq(Items), Idle(R), NEW s \in Nat
    PROVE  Waiting(ts, vs, R, s, 0, 0)
<1>1. PICK Z : Z = {}
  OBVIOUS
<1>2. Closed(Z, ts, vs)
  BY <1>1 DEF Closed
<1>3. Pend(R) = 0
  BY LevelPend DEF Idle
<1>4. Frame(Z, ts, vs, R, s, 0, 0)
  BY <1>3 DEF Frame, Typed
<1>5. QED
  BY <1>2, <1>4, WaitingMore

LEMMA Kinds ==
    /\ \A t \in Real : Token(t) \in Items /\ Token(t).do = "token" /\ Token(t).type = t
    /\ "RParen" \in Real /\ "LParen" \in Real
    /\ \A n \in Nat : /\ Binary(n) \in Items /\ Binary(n).do = "binary" /\ Binary(n).op = n
                      /\ Expression(n) \in Items /\ Expression(n).do = "expression"
                      /\ Expression(n).min = n
    /\ \A n, p \in Nat : /\ Operators(n, p) \in Items /\ Operators(n, p).do = "operators"
                         /\ Operators(n, p).min = n /\ Operators(n, p).from = p
    /\ [do |-> "call"] \in Items
<1>1. \A t \in Real : Token(t) \in Items /\ Token(t).do = "token" /\ Token(t).type = t
  BY ItemTypes DEF Token
<1>2. "RParen" \in Real /\ "LParen" \in Real
  BY DEF Real, TokenTypes
<1>3. ASSUME NEW n \in Nat
      PROVE  /\ Binary(n) \in Items /\ Binary(n).do = "binary" /\ Binary(n).op = n
             /\ Expression(n) \in Items /\ Expression(n).do = "expression"
             /\ Expression(n).min = n
  BY ItemTypes DEF Binary, Expression
<1>4. ASSUME NEW n \in Nat, NEW p \in Nat
      PROVE  /\ Operators(n, p) \in Items /\ Operators(n, p).do = "operators"
             /\ Operators(n, p).min = n /\ Operators(n, p).from = p
  BY ItemTypes DEF Operators
<1>5. [do |-> "call"] \in Items
  BY ItemTypes
<1>6. QED
  BY <1>1, <1>2, <1>3, <1>4, <1>5

LEMMA WaitingBinary ==
    ASSUME NEW ts, NEW vs, NEW R, NEW s, NEW m, NEW k, Waiting(ts, vs, R, s, m, k),
           Len(ts) \in Nat, NEW op \in 1 .. Len(ts), NEW p \in Nat, p = precedence(ts[op]), m < p,
           s \in 1 .. Len(ts), Expr(ts, s, op - 1, vs[k + 1], p)
    PROVE  Waiting(ts, vs, Cons(Binary(op), Cons(Operators(m, s), R)), op + 1, p, k + 1)
<1>1. PICK Z : <<R, s, m, k>> \in Z /\ Closed(Z, ts, vs)
  BY DEF Waiting
<1>2. R \in Seq(Items) /\ s \in Nat /\ m \in Nat /\ k \in Nat /\ Pend(R) = k
  BY WaitingTyped DEF Typed
<1>3. PICK a, b : a = Binary(op) /\ b = Operators(m, s)
  OBVIOUS
<1>4. /\ a \in Items /\ b \in Items /\ a.do = "binary" /\ b.do = "operators"
      /\ op \in Nat /\ op + 1 \in Nat /\ k + 1 \in Nat /\ (k + 1) - 1 = k
  BY <1>2, <1>3, Kinds
<1>5. PICK Q : Q = Cons(b, R)
  OBVIOUS
<1>6. Q \in Seq(Items) /\ Pend(Q) = k
  BY <1>2, <1>4, <1>5, ConsIs, PendCons
<1>7. Cons(a, Q) \in Seq(Items) /\ Pend(Cons(a, Q)) = k + 1
  BY <1>4, <1>6, ConsIs, PendCons
<1>8. InBinary(ts, vs, Cons(a, Q), op + 1, p, k + 1, op, m, s, R)
  BY <1>3, <1>5 DEF InBinary
<1>9. Typed(Cons(a, Q), op + 1, p, k + 1)
  BY <1>4, <1>7 DEF Typed
<1>10. Frame(Z, ts, vs, Cons(a, Q), op + 1, p, k + 1)
  BY <1>1, <1>4, <1>8, <1>9 DEF Frame
<1>11. QED
  BY <1>1, <1>3, <1>5, <1>10, WaitingMore

LEMMA WaitingParen ==
    ASSUME NEW ts, NEW vs, NEW R, NEW s, NEW m, NEW k, Waiting(ts, vs, R, s, m, k),
           Len(ts) \in Nat, s \in 1 .. Len(ts), ts[s] = "LParen"
    PROVE  Waiting(ts, vs, Cons(Token("RParen"), Cons(Operators(m, s), R)), s + 1, 0, k)
<1>1. PICK Z : <<R, s, m, k>> \in Z /\ Closed(Z, ts, vs)
  BY DEF Waiting
<1>2. R \in Seq(Items) /\ s \in Nat /\ m \in Nat /\ k \in Nat /\ Pend(R) = k
  BY WaitingTyped DEF Typed
<1>3. PICK a, b : a = Token("RParen") /\ b = Operators(m, s)
  OBVIOUS
<1>4. a \in Items /\ b \in Items /\ a.do = "token" /\ b.do = "operators" /\ s + 1 \in Nat
  BY <1>2, <1>3, Kinds
<1>5. PICK Q : Q = Cons(b, R)
  OBVIOUS
<1>6. Q \in Seq(Items) /\ Pend(Q) = k
  BY <1>2, <1>4, <1>5, ConsIs, PendCons
<1>7. Cons(a, Q) \in Seq(Items) /\ Pend(Cons(a, Q)) = k
  BY <1>4, <1>6, ConsIs, PendCons
<1>8. InParen(ts, Cons(a, Q), s + 1, 0, m, s, R)
  BY <1>3, <1>5 DEF InParen
<1>9. Typed(Cons(a, Q), s + 1, 0, k)
  BY <1>2, <1>4, <1>7 DEF Typed
<1>10. Frame(Z, ts, vs, Cons(a, Q), s + 1, 0, k)
  BY <1>1, <1>8, <1>9 DEF Frame
<1>11. QED
  BY <1>1, <1>3, <1>5, <1>10, WaitingMore

\* Tokens that are read, and values that are pushed, leave it as it is.
LEMMA WaitingKeeps ==
    ASSUME NEW ts, NEW vs, NEW us, NEW ws, NEW R, NEW s, NEW m, NEW k,
           Waiting(ts, vs, R, s, m, k), Extends(us, ts), \A i \in 1 .. k : ws[i] = vs[i]
    PROVE  Waiting(us, ws, R, s, m, k)
<1>1. PICK Z : <<R, s, m, k>> \in Z /\ Closed(Z, ts, vs)
  BY DEF Waiting
<1>2. k \in Nat
  BY WaitingTyped DEF Typed
<1>3. PICK Y : Y = {z \in Z : z[4] <= k}
  OBVIOUS
<1>4. \A R1, s1, m1, k1 : <<R1, s1, m1, k1>> \in Y <=> <<R1, s1, m1, k1>> \in Z /\ k1 <= k
  BY <1>3
<1>5. ASSUME NEW R1, NEW s1, NEW m1, NEW k1, <<R1, s1, m1, k1>> \in Y
      PROVE  Frame(Y, us, ws, R1, s1, m1, k1)
  <2>1. k1 <= k /\ Frame(Z, ts, vs, R1, s1, m1, k1)
    BY <1>1, <1>4, <1>5 DEF Closed
  <2>2. Typed(R1, s1, m1, k1) /\ k1 \in Nat
    BY <2>1 DEF Frame, Typed
  <2>3. CASE Idle(R1) /\ m1 = 0 /\ k1 = 0
    BY <2>2, <2>3 DEF Frame
  <2>4. CASE \E op, m2, s2, R2 : /\ InBinary(ts, vs, R1, s1, m1, k1, op, m2, s2, R2)
                                 /\ <<R2, s2, m2, k1 - 1>> \in Z
    <3>1. PICK op, m2, s2, R2 : /\ InBinary(ts, vs, R1, s1, m1, k1, op, m2, s2, R2)
                                /\ <<R2, s2, m2, k1 - 1>> \in Z
      BY <2>4
    <3>2. k1 - 1 \in Nat
      BY <1>1, <3>1 DEF Closed, Frame, Typed
    <3>3. <<R2, s2, m2, k1 - 1>> \in Y
      <4>1. k1 - 1 <= k
        BY <1>2, <2>1, <2>2
      <4>2. QED
        BY <1>4, <3>1, <4>1
    <3>4. ws[k1] = vs[k1]
      <4>1. k1 \in 1 .. k
        BY <1>2, <2>1, <2>2, <3>2
      <4>2. QED
        BY <4>1
    <3>5. us[op] = ts[op] /\ op \in 1 .. Len(us) /\ s2 \in 1 .. Len(us)
      BY <3>1 DEF InBinary, Extends
    <3>6. Expr(us, s2, op - 1, ws[k1], m1)
      BY <3>1, <3>4, ExprKeeps DEF InBinary
    <3>7. InBinary(us, ws, R1, s1, m1, k1, op, m2, s2, R2)
      BY ONLY <3>1, <3>5, <3>6 DEF InBinary
    <3>8. QED
      BY <2>2, <3>3, <3>7 DEF Frame
  <2>5. CASE \E m2, s2, R2 : /\ InParen(ts, R1, s1, m1, m2, s2, R2)
                             /\ <<R2, s2, m2, k1>> \in Z
    <3>1. PICK m2, s2, R2 : InParen(ts, R1, s1, m1, m2, s2, R2) /\ <<R2, s2, m2, k1>> \in Z
      BY <2>5
    <3>2. <<R2, s2, m2, k1>> \in Y
      BY <1>4, <2>1, <3>1
    <3>3. us[s2] = ts[s2] /\ s2 \in 1 .. Len(us)
      BY <3>1 DEF InParen, Extends
    <3>4. InParen(us, R1, s1, m1, m2, s2, R2)
      BY ONLY <3>1, <3>3 DEF InParen
    <3>5. QED
      BY <2>2, <3>2, <3>4 DEF Frame
  <2>6. QED
    BY <2>1, <2>3, <2>4, <2>5 DEF Frame
<1>6. Closed(Y, us, ws)
  BY <1>5 DEF Closed
<1>7. k <= k
  BY <1>2
<1>8. <<R, s, m, k>> \in Y
  BY <1>1, <1>4, <1>7
<1>9. QED
  BY <1>6, <1>8 DEF Waiting

(***************************************************************************)
(* What a statement puts in front of the block it stands in.               *)
(***************************************************************************)
Plain(a) == a \in Items /\ a.do \in StatementDo \ {"program"}

LEMMA LevelPlain ==
    ASSUME NEW a, Plain(a), NEW R \in Seq(Items), Level(R)
    PROVE  Cons(a, R) \in Seq(Items) /\ Level(Cons(a, R)) /\ Head(Cons(a, R)) = a
BY ConsIs, LevelCons DEF Plain

LEMMA LevelExpression ==
    ASSUME NEW R \in Seq(Items), Level(R), Head(R).do = "block"
    PROVE  /\ Cons(Expression(0), R) \in Seq(Items)
           /\ Level(Cons(Expression(0), R))
           /\ Head(Cons(Expression(0), R)) = Expression(0)
<1>1. Expression(0) \in Items
  BY ItemTypes
<1>2. QED
  BY <1>1, ConsIs, LevelCons

LEMMA PlainItems ==
    /\ \A t \in Real : Plain(Token(t))
    /\ Plain(Block({"End"})) /\ Plain(Block(IF_TERMINATORS))
    /\ Block({"End"}).do = "block" /\ Block(IF_TERMINATORS).do = "block"
    /\ \A n \in Nat : /\ Plain(End(n))
                      /\ Plain([do |-> "iftail", of |-> n])
                      /\ Plain([do |-> "endif", of |-> n])
    /\ Plain([do |-> "annotation"]) /\ Plain([do |-> "type"])
<1>1. \A t \in Real : Plain(Token(t))
  BY ItemTypes DEF Plain, Token, StatementDo
<1>2. /\ Plain(Block({"End"})) /\ Plain(Block(IF_TERMINATORS))
      /\ Block({"End"}).do = "block" /\ Block(IF_TERMINATORS).do = "block"
  BY ItemTypes DEF Plain, Block, StatementDo
<1>3. ASSUME NEW n \in Nat
      PROVE  /\ Plain(End(n))
             /\ Plain([do |-> "iftail", of |-> n])
             /\ Plain([do |-> "endif", of |-> n])
  <2>1. End(n).do = "end" /\ [do |-> "iftail", of |-> n].do = "iftail"
        /\ [do |-> "endif", of |-> n].do = "endif"
    BY DEF End
  <2>2. /\ End(n) \in Items
        /\ [do |-> "iftail", of |-> n] \in Items
        /\ [do |-> "endif", of |-> n] \in Items
    BY ItemTypes
  <2>3. QED
    BY <2>1, <2>2 DEF Plain, StatementDo
<1>4. Plain([do |-> "annotation"]) /\ Plain([do |-> "type"])
  BY ItemTypes DEF Plain, StatementDo
<1>5. QED
  BY <1>1, <1>2, <1>3, <1>4

\* Items that name nothing to close.
LEMMA OfPlain ==
    ASSUME NEW a \in Items, a.do \notin Closers, NEW R \in Seq(Items), NEW n, OfUpTo(R, n)
    PROVE  OfUpTo(Cons(a, R), n)
BY OfCons

LEMMA OfCloser ==
    ASSUME NEW R \in Seq(Items), NEW n \in Nat, NEW p \in 1 .. n, OfUpTo(R, n)
    PROVE  /\ OfUpTo(Cons(End(p), R), n)
           /\ OfUpTo(Cons([do |-> "iftail", of |-> p], R), n)
           /\ OfUpTo(Cons([do |-> "endif", of |-> p], R), n)
<1>1. /\ End(p) \in Items /\ [do |-> "iftail", of |-> p] \in Items
      /\ [do |-> "endif", of |-> p] \in Items
  BY ItemTypes
<1>2. End(p).of = p
  BY DEF End
<1>3. QED
  BY <1>1, <1>2, OfCons

LEMMA NotClosers ==
    /\ \A t : Token(t).do \notin Closers
    /\ \A u : Block(u).do \notin Closers
    /\ \A n : Expression(n).do \notin Closers
    /\ \A n, p : Operators(n, p).do \notin Closers
    /\ \A n : Binary(n).do \notin Closers
    /\ \A k \in {"annotation", "type", "call"} : [do |-> k].do \notin Closers
BY DEF Token, Block, Expression, Operators, Binary, Closers

\* The items R, ready to be parsed, none of which closes what is behind n.
Sound(R, n) == R \in Seq(Items) /\ Level(R) /\ OfUpTo(R, n)

LEMMA SoundPlain ==
    ASSUME NEW a, Plain(a), a.do \notin Closers, NEW R, NEW n, Sound(R, n)
    PROVE  Sound(Cons(a, R), n) /\ Head(Cons(a, R)) = a
BY LevelPlain, OfPlain DEF Sound, Plain

LEMMA SoundCloser ==
    ASSUME NEW R, NEW n \in Nat, NEW p \in 1 .. n, Sound(R, n)
    PROVE  /\ Sound(Cons(End(p), R), n)
           /\ Sound(Cons([do |-> "iftail", of |-> p], R), n)
           /\ Sound(Cons([do |-> "endif", of |-> p], R), n)
<1>1. /\ Plain(End(p)) /\ Plain([do |-> "iftail", of |-> p]) /\ Plain([do |-> "endif", of |-> p])
  BY PlainItems
<1>2. QED
  BY <1>1, LevelPlain, OfCloser DEF Sound

LEMMA SoundExpression ==
    ASSUME NEW R, NEW n, Sound(R, n), Head(R).do = "block"
    PROVE  Sound(Cons(Expression(0), R), n)
<1>1. Expression(0) \in Items
  BY ItemTypes
<1>2. QED
  BY <1>1, LevelExpression, OfPlain, NotClosers DEF Sound

LEMMA SoundToken ==
    ASSUME NEW t \in Real, NEW R, NEW n, Sound(R, n)
    PROVE  Sound(Cons(Token(t), R), n) /\ Head(Cons(Token(t), R)).do = "token"
<1>1. Plain(Token(t)) /\ Token(t).do \notin Closers /\ Token(t).do = "token"
  BY PlainItems, NotClosers DEF Token
<1>2. QED
  BY <1>1, SoundPlain

LEMMA SoundBlock ==
    ASSUME NEW u \in {{"End"}, IF_TERMINATORS}, NEW R, NEW n, Sound(R, n)
    PROVE  Sound(Cons(Block(u), R), n) /\ Head(Cons(Block(u), R)).do = "block"
<1>1. Plain(Block(u)) /\ Block(u).do \notin Closers /\ Block(u).do = "block"
  BY PlainItems, NotClosers
<1>2. QED
  BY <1>1, SoundPlain

LEMMA SoundMore ==
    ASSUME NEW R, NEW n \in Nat, NEW m \in Nat, n <= m, Sound(R, n)
    PROVE  Sound(R, m)
BY OfMore DEF Sound

LEMMA SoundIf ==
    ASSUME PInv, la \in {"If", "ElseIf"}, NEW n \in Nat, NEW p \in 1 .. n, NEW R, Sound(R, n)
    PROVE  Sound(If(p) \o R, n) /\ Head(If(p) \o R).do = "token"
<1>1. la \in Real
  BY DEF Real, PInv
<1>2. PICK a, b : a = [do |-> "iftail", of |-> p] /\ b = [do |-> "endif", of |-> p]
  OBVIOUS
<1>3. a \in Items /\ b \in Items
  BY <1>2, ItemTypes
<1>4. Sound(Cons(a, Cons(b, R)), n)
  <2>1. Sound(Cons(b, R), n)
    BY <1>2, SoundCloser
  <2>2. QED
    BY <1>2, <2>1, SoundCloser
<1>5. PICK Q : Q = Cons(Block(IF_TERMINATORS), Cons(a, Cons(b, R)))
  OBVIOUS
<1>6. Sound(Q, n) /\ Head(Q).do = "block"
  BY <1>4, <1>5, SoundBlock
<1>7. Sound(Cons(Expression(0), Q), n)
  BY <1>6, SoundExpression
<1>8. Sound(Cons(Token(la), Cons(Expression(0), Q)), n)
      /\ Head(Cons(Token(la), Cons(Expression(0), Q))).do = "token"
  BY <1>1, <1>7, SoundToken
<1>9. If(p) \o R = Cons(Token(la), Cons(Expression(0), Q))
  <2>1. Token(la) \in Items /\ Expression(0) \in Items /\ Block(IF_TERMINATORS) \in Items
    BY <1>1, ItemTypes
  <2>2. If(p) = <<Token(la), Expression(0), Block(IF_TERMINATORS), a, b>>
    BY <1>2 DEF If
  <2>3. R \in Seq(Items)
    BY DEF Sound
  <2>4. QED
    <3>1. PICK t, e, u : t = Token(la) /\ e = Expression(0) /\ u = Block(IF_TERMINATORS)
      OBVIOUS
    <3>2. <<t, e, u, a, b>> \o R = Cons(t, Cons(e, Cons(u, Cons(a, Cons(b, R)))))
      <4>1. t \in Items /\ e \in Items /\ u \in Items
        BY <2>1, <3>1
      <4>2. QED
        <5>1. PICK s, f : s = <<e, u, a, b>> /\ f = <<t, e, u, a, b>>
          OBVIOUS
        <5>2. /\ s \in Seq(Items) /\ f \in Seq(Items) /\ Len(f) = Len(s) + 1 /\ f[1] = t
              /\ \A i \in 1 .. Len(s) : f[i + 1] = s[i]
          BY ONLY <1>3, <4>1, <5>1
        <5>3. f \o R = Cons(t, s \o R)
          BY ONLY <2>3, <4>1, <5>2, FrontMore
        <5>4. s \o R = Cons(e, Cons(u, Cons(a, Cons(b, R))))
          BY ONLY <1>3, <2>3, <4>1, <5>1, Front4
        <5>5. QED
          BY ONLY <5>1, <5>3, <5>4
    <3>3. QED
      BY ONLY <1>5, <2>2, <3>1, <3>2
<1>10. QED
  BY <1>8, <1>9

LEMMA SoundStatement ==
    ASSUME PInv, la \in Starters, NEW R, Sound(R, Len(tokens)), Head(R).do = "block"
    PROVE  Sound(Statement \o R, Len(tokens) + 1) /\ Head(Statement \o R).do = "token"
<1>1. PICK n : n = Len(tokens) + 1
  OBVIOUS
<1>2. n \in Nat /\ n \in 1 .. n /\ Here = n /\ Len(tokens) \in Nat /\ Len(tokens) <= n
  BY <1>1 DEF PInv, Here
<1>3. Sound(R, n) /\ R \in Seq(Items)
  BY <1>2, SoundMore DEF Sound
<1> DEFINE ts == {"Identifier", "Assignment", "Set", "Loop", "Show", "Return", "Break",
                  "Cycle"}
<1>4. ts \subseteq Real
  BY DEF Real, TokenTypes, Starters
<1>5. \A t \in ts : Token(t) \in Items
  BY <1>4, ItemTypes
<1>6. Expression(0) \in Items /\ [do |-> "annotation"] \in Items /\ Block({"End"}) \in Items
      /\ End(n) \in Items
  BY <1>2, ItemTypes
<1>7. PICK E : E = Cons(Expression(0), R)
  OBVIOUS
<1>8. Sound(E, n)
  BY <1>3, <1>7, SoundExpression
<1>9. /\ Sound(Declaration \o R, n) /\ Head(Declaration \o R).do = "token"
  <2>1. Sound(Cons(Token("Assignment"), E), n)
    BY <1>4, <1>8, SoundToken
  <2>2. Sound(Cons([do |-> "annotation"], Cons(Token("Assignment"), E)), n)
    BY <2>1, PlainItems, NotClosers, SoundPlain
  <2>3. PICK L : L = Cons(Token("Identifier"), Cons([do |-> "annotation"], Cons(Token("Assignment"), E)))
    OBVIOUS
  <2>4. Sound(L, n) /\ Head(L).do = "token"
    BY <1>4, <2>2, <2>3, SoundToken
  <2>5. Token("Identifier") \in Items /\ Token("Assignment") \in Items
    BY <1>5
  <2>6. Declaration \o R = L
    BY ONLY <1>3, <1>6, <1>7, <2>3, <2>5, Front4 DEF Declaration
  <2>7. QED
    BY <2>4, <2>6
<1>10. /\ Sound(Assignment \o R, n) /\ Head(Assignment \o R).do = "token"
  <2>1. Sound(Cons(Token("Assignment"), E), n)
    BY <1>4, <1>8, SoundToken
  <2>2. Sound(Cons(Token("Identifier"), Cons(Token("Assignment"), E)), n)
    BY <1>4, <2>1, SoundToken
  <2>3. PICK L : L = Cons(Token("Set"), Cons(Token("Identifier"), Cons(Token("Assignment"), E)))
    OBVIOUS
  <2>4. Sound(L, n) /\ Head(L).do = "token"
    BY <1>4, <2>2, <2>3, SoundToken
  <2>5. Token("Identifier") \in Items /\ Token("Assignment") \in Items /\ Token("Set") \in Items
    BY <1>5
  <2>6. Assignment \o R = L
    BY ONLY <1>3, <1>6, <1>7, <2>3, <2>5, Front4 DEF Assignment
  <2>7. QED
    BY <2>4, <2>6
<1>11. ASSUME la \in {"Show", "Return"}
       PROVE  Sound(WithValue \o R, n) /\ Head(WithValue \o R).do = "token"
  <2>1. la \in Real /\ Token(la) \in Items
    BY <1>4, <1>5, <1>11
  <2>2. Sound(Cons(Token(la), E), n) /\ Head(Cons(Token(la), E)).do = "token"
    BY <1>8, <2>1, SoundToken
  <2>3. WithValue \o R = Cons(Token(la), E)
    BY ONLY <1>3, <1>6, <1>7, <2>1, Front2 DEF WithValue
  <2>4. QED
    BY <2>2, <2>3
<1>12. Sound(Loop \o R, n) /\ Head(Loop \o R).do = "token"
  <2>1. PICK Q : Q = Cons(Block({"End"}), Cons(End(n), R))
    OBVIOUS
  <2>2. Sound(Cons(End(n), R), n)
    BY <1>2, <1>3, SoundCloser
  <2>3. Sound(Q, n)
    BY <2>1, <2>2, SoundBlock
  <2>4. Sound(Cons(Token("Loop"), Q), n) /\ Head(Cons(Token("Loop"), Q)).do = "token"
    BY <1>4, <2>3, SoundToken
  <2>5. Token("Loop") \in Items
    BY <1>5
  <2>6. Loop \o R = Cons(Token("Loop"), Q)
    BY ONLY <1>2, <1>3, <1>6, <2>1, <2>5, Front3 DEF Loop
  <2>7. QED
    BY <2>4, <2>6
<1>13. ASSUME la \in {"Break", "Cycle"}
       PROVE  Sound(Jump \o R, n) /\ Head(Jump \o R).do = "token"
  <2>1. la \in Real /\ Token(la) \in Items
    BY <1>4, <1>5, <1>13
  <2>2. Sound(Cons(Token(la), R), n) /\ Head(Cons(Token(la), R)).do = "token"
    BY <1>3, <2>1, SoundToken
  <2>3. Jump \o R = Cons(Token(la), R)
    BY ONLY <1>3, <2>1, Front1 DEF Jump
  <2>4. QED
    BY <2>2, <2>3
<1>14. la = "If" => Sound(If(Here) \o R, n) /\ Head(If(Here) \o R).do = "token"
  BY <1>2, <1>3, SoundIf
<1>15. QED
  BY <1>1, <1>9, <1>10, <1>11, <1>12, <1>13, <1>14, Zenon DEF Statement, Starters, Is

(***************************************************************************)
(* Where the parser can be: at a statement, or at a part of an expression. *)
(***************************************************************************)
IsSeq(vs) == \E S : vs \in Seq(S)

AtLevel(vs, td) == Level(td) /\ (Head(td).do # "block" => vs = << >>)

\* parse_expression begins.
Reading(ts, vs, td) ==
    \E m, k, R : /\ td = Cons(Expression(m), R)
                 /\ Waiting(ts, vs, R, Len(ts) + 1, m, k)
                 /\ Len(vs) = k

\* Its left side is read.
Continuing(ts, vs, l, td) ==
    \E m, s, k, R : /\ td = Cons(Operators(m, s), R)
                    /\ Waiting(ts, vs, R, s, m, k)
                    /\ Len(vs) = k + 1
                    /\ Expr(ts, s, Len(ts), vs[k + 1], m + 1)
                    /\ \A o \in OpsIn(ts, s, Len(ts)) : precedence(l) <= precedence(ts[o])

\* A name is read.
Named(ts, vs, m, s, k, R) ==
    /\ Waiting(ts, vs, R, s, m, k)
    /\ Len(vs) = k + 1
    /\ s \in 1 .. Len(ts) /\ ts[s] \in NoOperator /\ vs[k + 1] = [at |-> s]

Calling(ts, vs, td) ==
    \E m, s, k, R : Named(ts, vs, m, s, k, R) /\ s = Len(ts)
                    /\ td = Cons([do |-> "call"], Cons(Operators(m, s), R))

CallOpens(ts, vs, td) ==
    \E m, s, k, R : Named(ts, vs, m, s, k, R) /\ s = Len(ts)
                    /\ td = Cons(Token("LParen"), Cons(Token("RParen"), Cons(Operators(m, s), R)))

CallCloses(ts, vs, td) ==
    \E m, s, k, R : Named(ts, vs, m, s, k, R) /\ s + 1 = Len(ts) /\ ts[s + 1] = "LParen"
                    /\ td = Cons(Token("RParen"), Cons(Operators(m, s), R))

\* A parenthesis is to be closed.
Closing(ts, vs, td) ==
    \E m, s, k, R : /\ td = Cons(Token("RParen"), Cons(Operators(m, s), R))
                    /\ Waiting(ts, vs, R, s, m, k)
                    /\ Len(vs) = k + 1
                    /\ s \in 1 .. Len(ts) /\ ts[s] = "LParen"
                    /\ Expr(ts, s + 1, Len(ts), vs[k + 1], 1)

\* Both sides of an operator are read.
Sides(ts, vs, l, op, m, s, k, p) ==
    /\ Len(vs) = k + 2
    /\ op \in 1 .. Len(ts) /\ s \in 1 .. Len(ts)
    /\ p = precedence(ts[op]) /\ m < p /\ precedence(l) <= p
    /\ Expr(ts, s, op - 1, vs[k + 1], p)
    /\ Expr(ts, op + 1, Len(ts), vs[k + 2], p + 1)

Joining(ts, vs, l, td) ==
    \E op, m, s, k, p, R : /\ td = Cons(Binary(op), Cons(Operators(m, s), R))
                           /\ Waiting(ts, vs, R, s, m, k)
                           /\ Sides(ts, vs, l, op, m, s, k, p)

Parsing(ts, vs, l, td) ==
    \/ AtLevel(vs, td)
    \/ Reading(ts, vs, td)
    \/ Continuing(ts, vs, l, td)
    \/ Calling(ts, vs, td)
    \/ CallOpens(ts, vs, td)
    \/ CallCloses(ts, vs, td)
    \/ Closing(ts, vs, td)
    \/ Joining(ts, vs, l, td)

(***************************************************************************)
(* A token is consumed, a value is pushed.                                 *)
(***************************************************************************)
Appended(us, ts, l) ==
    /\ Len(ts) \in Nat /\ Len(us) = Len(ts) + 1 /\ us[Len(ts) + 1] = l /\ Extends(us, ts)

LEMMA AppendedIs ==
    ASSUME NEW ts \in Seq(Real), NEW l \in Real
    PROVE  Appended(Append(ts, l), ts, l)
<1>1. PICK us : us = Append(ts, l)
  OBVIOUS
<1>2. /\ Len(ts) \in Nat /\ Len(us) = Len(ts) + 1 /\ us[Len(ts) + 1] = l
      /\ \A i \in 1 .. Len(ts) : us[i] = ts[i]
  BY <1>1, AppendProperties, LenProperties
<1>3. QED
  BY <1>1, <1>2 DEF Appended, Extends

Pushed(ws, vs, v) ==
    /\ Len(ws) = Len(vs) + 1 /\ ws[Len(vs) + 1] = v
    /\ \A i \in 1 .. Len(vs) : ws[i] = vs[i]

LEMMA PushedIs ==
    ASSUME NEW vs, IsSeq(vs), NEW v
    PROVE  IsSeq(Append(vs, v)) /\ Pushed(Append(vs, v), vs, v)
<1>1. PICK S : vs \in Seq(S)
  BY DEF IsSeq
<1>2. PICK T : T = S \cup {v}
  OBVIOUS
<1>3. vs \in Seq(T) /\ v \in T
  BY <1>1, <1>2, SeqMonotonic
<1>4. PICK ws : ws = Append(vs, v)
  OBVIOUS
<1>5. /\ ws \in Seq(T) /\ Len(ws) = Len(vs) + 1 /\ ws[Len(vs) + 1] = v
      /\ \A i \in 1 .. Len(vs) : ws[i] = vs[i]
  BY <1>3, <1>4, AppendProperties
<1>6. QED
  BY <1>4, <1>5 DEF IsSeq, Pushed

\* make_binary replaces the last two.
LastTwo(vs, v) == Append(SubSeq(vs, 1, Len(vs) - 2), v)

Joined(ws, vs, k, v) ==
    IsSeq(ws) /\ Len(ws) = k + 1 /\ ws[k + 1] = v /\ \A i \in 1 .. k : ws[i] = vs[i]

LEMMA JoinedIs ==
    ASSUME NEW vs, IsSeq(vs), NEW k \in Nat, Len(vs) = k + 2, NEW v
    PROVE  Joined(LastTwo(vs, v), vs, k, v)
<1> DEFINE ws == LastTwo(vs, v)
<1>1. PICK S : vs \in Seq(S)
  BY DEF IsSeq
<1>2. PICK us : us = SubSeq(vs, 1, k)
  OBVIOUS
<1>3. us \in Seq(S) /\ Len(us) = k /\ \A i \in 1 .. k : us[i] = vs[i]
  <2>1. \A i \in 1 .. k : vs[i] \in S
    <3>1. \A i \in 1 .. k : i \in 1 .. Len(vs)
      OBVIOUS
    <3>2. QED
      BY <1>1, <3>1, ElementOfSeq
  <2>2. /\ us \in Seq(S) /\ Len(us) = IF 1 <= k THEN k - 1 + 1 ELSE 0
        /\ \A i \in 1 .. k - 1 + 1 : us[i] = vs[1 + i - 1]
    BY <1>2, <2>1, SubSeqProperties
  <2>3. QED
    BY <2>2
<1>4. ws = Append(us, v)
  <2>1. Len(vs) - 2 = k
    OBVIOUS
  <2>2. QED
    BY <1>2, <2>1 DEF LastTwo
<1> HIDE DEF ws
<1>5. IsSeq(us)
  BY <1>3 DEF IsSeq
<1>6. IsSeq(ws) /\ Pushed(ws, us, v)
  BY <1>4, <1>5, PushedIs
<1>7. Joined(ws, vs, k, v)
  BY <1>3, <1>6 DEF Pushed, Joined
<1>8. QED
  BY <1>7 DEF ws

(***************************************************************************)
(* The steps inside an expression.                                         *)
(***************************************************************************)
LEMMA NewLeaf ==
    ASSUME NEW ts, NEW us, NEW l \in NoOperator, Appended(us, ts, l), NEW vs, NEW m, NEW k, NEW R,
           Waiting(ts, vs, R, Len(ts) + 1, m, k), Len(vs) = k, NEW ws, Pushed(ws, vs, [at |-> Len(us)])
    PROVE  /\ Named(us, ws, m, Len(us), k, R)
           /\ m \in Nat /\ k \in Nat /\ R \in Seq(Items) /\ Len(us) \in Nat \ {0}
           /\ Len(us) = Len(ts) + 1
<1>1. m \in Nat /\ k \in Nat /\ R \in Seq(Items)
  BY WaitingTyped DEF Typed
<1>2. Len(us) \in Nat \ {0} /\ Len(us) = Len(ts) + 1 /\ us[Len(us)] = l /\ Extends(us, ts)
  BY DEF Appended
<1>3. Len(ws) = k + 1 /\ ws[k + 1] = [at |-> Len(us)] /\ \A i \in 1 .. k : ws[i] = vs[i]
  BY DEF Pushed
<1>4. Waiting(us, ws, R, Len(us), m, k)
  <2>1. Waiting(us, ws, R, Len(ts) + 1, m, k)
    BY <1>2, <1>3, WaitingKeeps
  <2>2. QED
    BY <1>2, <2>1
<1>5. Len(us) \in 1 .. Len(us)
  BY <1>2
<1>6. QED
  BY <1>1, <1>2, <1>3, <1>4, <1>5 DEF Named

\* A name or a literal by itself is an expression.
LEMMA NamedContinues ==
    ASSUME NEW ts, Len(ts) \in Nat, NEW vs, NEW m, NEW k, NEW R, Named(ts, vs, m, Len(ts), k, R), NEW l
    PROVE  Continuing(ts, vs, l, Cons(Operators(m, Len(ts)), R))
<1>1. PICK n : n = Len(ts)
  OBVIOUS
<1>2. /\ Waiting(ts, vs, R, n, m, k) /\ Len(vs) = k + 1
      /\ n \in 1 .. Len(ts) /\ ts[n] \in NoOperator /\ vs[k + 1] = [at |-> n]
  BY <1>1 DEF Named
<1>3. Expr(ts, n, n, [at |-> n], m + 1) /\ OpsIn(ts, n, n) = {}
  BY <1>2, ExprLeaf
<1>4. QED
  BY <1>1, <1>2, <1>3 DEF Continuing

LEMMA ReadParen ==
    ASSUME NEW ts, NEW us, Appended(us, ts, "LParen"), NEW vs, NEW m, NEW k, NEW R,
           Waiting(ts, vs, R, Len(ts) + 1, m, k), Len(vs) = k
    PROVE  Reading(us, vs, Cons(Expression(0), Cons(Token("RParen"), Cons(Operators(m, Len(ts) + 1), R))))
<1>1. PICK n : n = Len(ts) + 1
  OBVIOUS
<1>2. Len(us) \in Nat /\ n = Len(us) /\ n \in 1 .. Len(us) /\ us[n] = "LParen" /\ Extends(us, ts)
  BY <1>1 DEF Appended
<1>3. Waiting(us, vs, R, n, m, k)
  BY <1>1, <1>2, WaitingKeeps
<1>4. Waiting(us, vs, Cons(Token("RParen"), Cons(Operators(m, n), R)), n + 1, 0, k)
  BY <1>2, <1>3, WaitingParen
<1>5. QED
  BY <1>1, <1>2, <1>4 DEF Reading

LEMMA CallConsumes ==
    ASSUME NEW ts, NEW us, Appended(us, ts, "LParen"), NEW vs, NEW m, NEW s, NEW k, NEW R,
           Named(ts, vs, m, s, k, R), s = Len(ts)
    PROVE  CallCloses(us, vs, Cons(Token("RParen"), Cons(Operators(m, s), R)))
<1>1. /\ Waiting(ts, vs, R, s, m, k) /\ Len(vs) = k + 1
      /\ s \in 1 .. Len(ts) /\ ts[s] \in NoOperator /\ vs[k + 1] = [at |-> s]
  BY DEF Named
<1>2. Len(us) \in Nat /\ s + 1 = Len(us) /\ us[s + 1] = "LParen" /\ Extends(us, ts)
  BY DEF Appended
<1>3. us[s] = ts[s] /\ s \in 1 .. Len(us)
  BY <1>1, <1>2 DEF Extends
<1>4. Waiting(us, vs, R, s, m, k)
  BY <1>1, <1>2, WaitingKeeps
<1>5. Named(us, vs, m, s, k, R)
  BY <1>1, <1>3, <1>4 DEF Named
<1>6. QED
  BY <1>2, <1>5 DEF CallCloses

LEMMA CallDone ==
    ASSUME NEW ts, NEW us, Appended(us, ts, "RParen"), NEW vs, NEW m, NEW s, NEW k, NEW R,
           Named(ts, vs, m, s, k, R), s + 1 = Len(ts), ts[s + 1] = "LParen", NEW l
    PROVE  Continuing(us, vs, l, Cons(Operators(m, s), R))
<1>1. /\ Waiting(ts, vs, R, s, m, k) /\ Len(vs) = k + 1
      /\ s \in 1 .. Len(ts) /\ ts[s] \in NoOperator /\ vs[k + 1] = [at |-> s]
  BY DEF Named
<1>2. Len(us) \in Nat /\ Len(us) = s + 2 /\ us[Len(us)] = "RParen" /\ Extends(us, ts)
  BY <1>1 DEF Appended
<1>3. /\ us[s] = ts[s] /\ us[s + 1] = "LParen" /\ s \in 1 .. Len(us) /\ s + 1 \in 1 .. Len(us)
      /\ Len(us) \in 1 .. Len(us)
  BY <1>1, <1>2 DEF Extends
<1>4. Waiting(us, vs, R, s, m, k)
  BY <1>1, <1>2, WaitingKeeps
<1>5. PICK j : j = Len(us)
  OBVIOUS
<1>6. Expr(us, s, j, [at |-> s], m + 1) /\ OpsIn(us, s, j) = {}
  BY <1>1, <1>2, <1>3, <1>5, ExprCall
<1>7. QED
  BY <1>1, <1>4, <1>5, <1>6 DEF Continuing

LEMMA ParenDone ==
    ASSUME NEW ts, NEW us, Appended(us, ts, "RParen"), NEW vs, NEW m, NEW s, NEW k, NEW R,
           Waiting(ts, vs, R, s, m, k), Len(vs) = k + 1,
           s \in 1 .. Len(ts), ts[s] = "LParen", Expr(ts, s + 1, Len(ts), vs[k + 1], 1), NEW l
    PROVE  Continuing(us, vs, l, Cons(Operators(m, s), R))
<1>1. /\ Len(us) \in Nat /\ Len(us) = Len(ts) + 1 /\ us[Len(us)] = "RParen" /\ Extends(us, ts)
      /\ Len(ts) \in Nat
  BY DEF Appended
<1>2. us[s] = "LParen" /\ s \in 1 .. Len(us) /\ Len(us) \in 1 .. Len(us) /\ Len(us) - 1 = Len(ts)
  BY <1>1 DEF Extends
<1>3. Waiting(us, vs, R, s, m, k)
  BY <1>1, WaitingKeeps
<1>4. PICK j : j = Len(us)
  OBVIOUS
<1>5. Expr(us, s + 1, j - 1, vs[k + 1], 1)
  <2>1. Expr(us, s + 1, Len(ts), vs[k + 1], 1)
    BY <1>1, ExprKeeps
  <2>2. QED
    BY <1>2, <1>4, <2>1
<1>6. Expr(us, s, j, vs[k + 1], m + 1) /\ OpsIn(us, s, j) = {}
  BY <1>1, <1>2, <1>4, <1>5, ExprParen
<1>7. QED
  BY <1>3, <1>4, <1>6 DEF Continuing

LEMMA OperatorConsumes ==
    ASSUME NEW ts, NEW us, NEW l, Appended(us, ts, l), NEW vs, NEW m, NEW s, NEW k, NEW R,
           Waiting(ts, vs, R, s, m, k), Len(vs) = k + 1,
           Expr(ts, s, Len(ts), vs[k + 1], m + 1),
           \A o \in OpsIn(ts, s, Len(ts)) : precedence(l) <= precedence(ts[o]),
           precedence(l) > m
    PROVE  Reading(us, vs, Cons(Expression(precedence(l)),
                                Cons(Binary(Len(ts) + 1), Cons(Operators(m, s), R))))
<1>1. PICK n, p : n = Len(ts) + 1 /\ p = precedence(l)
  OBVIOUS
<1>2. /\ Len(us) \in Nat /\ n = Len(us) /\ us[n] = l /\ Extends(us, ts) /\ Len(ts) \in Nat
      /\ n \in 1 .. Len(us) /\ n - 1 = Len(ts)
  BY <1>1 DEF Appended
<1>3. p \in Nat /\ k \in Nat /\ m \in Nat /\ m < p /\ p = precedence(us[n])
  BY <1>1, <1>2, LevelsUpTo4, WaitingTyped DEF Typed
<1>4. Waiting(us, vs, R, s, m, k)
  BY <1>2, WaitingKeeps
<1>5. Expr(ts, s, n - 1, vs[k + 1], p)
  <2>1. Whole(ts, s, Len(ts)) /\ vs[k + 1] = TreeOf(ts)[<<s, Len(ts)>>]
    BY DEF Expr
  <2>2. \A o \in OpsIn(ts, s, Len(ts)) : precedence(ts[o]) >= p
    <3>1. TAKE o \in OpsIn(ts, s, Len(ts))
    <3>2. precedence(ts[o]) \in Nat
      BY LevelsUpTo4
    <3>3. QED
      BY <1>1, <1>3, <3>2
  <2>3. Expr(ts, s, Len(ts), vs[k + 1], p)
    BY <2>1, <2>2 DEF Expr
  <2>4. QED
    BY <1>2, <2>3
<1>6. Expr(us, s, n - 1, vs[k + 1], p)
  BY <1>2, <1>5, ExprKeeps
<1>7. s \in 1 .. Len(us)
  BY <1>2, <1>6 DEF Expr, Whole
<1>8. Waiting(us, vs, Cons(Binary(n), Cons(Operators(m, s), R)), n + 1, p, k + 1)
  BY <1>2, <1>3, <1>4, <1>6, <1>7, WaitingBinary
<1>9. QED
  BY <1>1, <1>2, <1>8 DEF Reading

LEMMA OperatorsDone ==
    ASSUME NEW ts, Len(ts) \in Nat, NEW l, NEW vs, NEW m, NEW s, NEW k, NEW R,
           Waiting(ts, vs, R, s, m, k), Len(vs) = k + 1,
           Expr(ts, s, Len(ts), vs[k + 1], m + 1), ~(precedence(l) > m)
    PROVE  Parsing(ts, vs, l, R)
<1>1. R \in Seq(Items) /\ s \in Nat /\ m \in Nat /\ k \in Nat /\ precedence(l) <= m
  BY LevelsUpTo4, WaitingTyped DEF Typed
<1>2. CASE Idle(R) /\ m = 0 /\ k = 0
  BY <1>2 DEF Idle, AtLevel, Parsing
<1>3. CASE \E op, m2, s2, R2 : /\ InBinary(ts, vs, R, s, m, k, op, m2, s2, R2)
                               /\ Waiting(ts, vs, R2, s2, m2, k - 1)
  <2>1. PICK op, m2, s2, R2 : /\ InBinary(ts, vs, R, s, m, k, op, m2, s2, R2)
                              /\ Waiting(ts, vs, R2, s2, m2, k - 1)
    BY <1>3
  <2>2. /\ R = Cons(Binary(op), Cons(Operators(m2, s2), R2))
        /\ op \in 1 .. Len(ts) /\ s2 \in 1 .. Len(ts) /\ s = op + 1
        /\ m = precedence(ts[op]) /\ m2 < m /\ Expr(ts, s2, op - 1, vs[k], m)
    BY <2>1 DEF InBinary
  <2>3. PICK j : j = k - 1
    OBVIOUS
  <2>4. Len(vs) = j + 2 /\ j + 1 = k /\ j + 2 = k + 1
    BY <1>1, <2>3
  <2>5. Sides(ts, vs, l, op, m2, s2, j, m)
    BY <1>1, <2>2, <2>4 DEF Sides
  <2>6. Joining(ts, vs, l, R)
    BY <2>1, <2>2, <2>3, <2>5 DEF Joining
  <2>7. QED
    BY <2>6 DEF Parsing
<1>4. CASE \E m2, s2, R2 : InParen(ts, R, s, m, m2, s2, R2) /\ Waiting(ts, vs, R2, s2, m2, k)
  <2>1. PICK m2, s2, R2 : InParen(ts, R, s, m, m2, s2, R2) /\ Waiting(ts, vs, R2, s2, m2, k)
    BY <1>4
  <2>2. /\ R = Cons(Token("RParen"), Cons(Operators(m2, s2), R2))
        /\ s2 \in 1 .. Len(ts) /\ ts[s2] = "LParen" /\ s = s2 + 1 /\ m = 0 /\ m + 1 = 1
    BY <2>1 DEF InParen
  <2>3. Closing(ts, vs, R)
    BY <2>1, <2>2 DEF Closing
  <2>4. QED
    BY <2>3 DEF Parsing
<1>5. QED
  BY <1>2, <1>3, <1>4, WaitingIs

LEMMA BinaryDone ==
    ASSUME NEW ts, Len(ts) \in Nat, NEW l, NEW vs, IsSeq(vs), NEW op, NEW m, NEW s, NEW k, NEW p, NEW R,
           Waiting(ts, vs, R, s, m, k), Sides(ts, vs, l, op, m, s, k, p), NEW ws,
           ws = LastTwo(vs, [at |-> op, l |-> vs[Len(vs) - 1], r |-> vs[Len(vs)]])
    PROVE  IsSeq(ws) /\ Continuing(ts, ws, l, Cons(Operators(m, s), R))
<1>1. /\ Len(vs) = k + 2
      /\ op \in 1 .. Len(ts) /\ s \in 1 .. Len(ts)
      /\ p = precedence(ts[op]) /\ m < p /\ precedence(l) <= p
      /\ Expr(ts, s, op - 1, vs[k + 1], p)
      /\ Expr(ts, op + 1, Len(ts), vs[k + 2], p + 1)
  BY DEF Sides
<1>2. k \in Nat /\ m \in Nat /\ p \in Nat \ {0} /\ m + 1 \in Nat /\ m + 1 <= p
      /\ precedence(l) \in Nat
  <2>1. k \in Nat /\ m \in Nat
    BY WaitingTyped DEF Typed
  <2>2. precedence(l) \in Nat /\ precedence(ts[op]) \in Nat
    BY LevelsUpTo4
  <2>3. QED
    BY ONLY <1>1, <2>1, <2>2
<1>3. PICK v : v = [at |-> op, l |-> vs[k + 1], r |-> vs[k + 2]]
  OBVIOUS
<1>4. ws = LastTwo(vs, v)
  <2>1. Len(vs) - 1 = k + 1
    BY <1>1, <1>2
  <2>2. QED
    BY <1>1, <1>3, <2>1
<1>5. IsSeq(ws) /\ Len(ws) = k + 1 /\ ws[k + 1] = v /\ \A i \in 1 .. k : ws[i] = vs[i]
  <2>1. k \in Nat /\ Len(vs) = k + 2
    BY <1>1, <1>2
  <2>2. IsSeq(vs)
    OBVIOUS
  <2>3. Joined(ws, vs, k, v)
    BY ONLY <1>4, <2>1, <2>2, JoinedIs
  <2>4. QED
    BY ONLY <2>3 DEF Joined
<1>6. PICK j : j = Len(ts)
  OBVIOUS
<1>7. Expr(ts, s, j, v, p)
  <2>1. j \in 1 .. Len(ts)
    BY <1>1, <1>6
  <2>2. QED
    BY <1>1, <1>2, <1>3, <1>6, <2>1, ExprBinary
<1>8. Expr(ts, s, j, v, m + 1)
  BY <1>2, <1>7, ExprLower
<1>9. \A o \in OpsIn(ts, s, j) : precedence(l) <= precedence(ts[o])
  <2>1. TAKE o \in OpsIn(ts, s, j)
  <2>2. precedence(ts[o]) \in Nat /\ precedence(ts[o]) >= p
    BY <1>7, LevelsUpTo4 DEF Expr
  <2>3. QED
    <3>1. precedence(l) <= p /\ precedence(l) \in Nat /\ p \in Nat
      BY <1>1, <1>2
    <3>2. QED
      BY ONLY <2>2, <3>1
<1>10. Waiting(ts, ws, R, s, m, k)
  <2>1. Extends(ts, ts)
    BY DEF Extends
  <2>2. QED
    BY <1>5, <2>1, WaitingKeeps
<1>11. Continuing(ts, ws, l, Cons(Operators(m, s), R))
  BY <1>5, <1>6, <1>8, <1>9, <1>10 DEF Continuing
<1>12. QED
  BY <1>5, <1>11

(***************************************************************************)
(* What an item closes has been read, or is the token to be read next.     *)
(***************************************************************************)
OfWithin(ts, td) ==
    OfUpTo(td, Len(ts) + 1) /\ (Head(td).do # "token" => OfUpTo(td, Len(ts)))

LEMMA OfTail ==
    ASSUME NEW td \in Seq(Items), td # << >>, NEW n, OfUpTo(td, n)
    PROVE  OfUpTo(Tail(td), n)
<1>1. Head(td) \in Items /\ Tail(td) \in Seq(Items) /\ td = Cons(Head(td), Tail(td))
  BY ConsOf
<1>2. QED
  BY <1>1, OfCons

LEMMA OfConcat ==
    ASSUME NEW more \in Seq(Items), NEW R \in Seq(Items), NEW n,
           \A i \in DOMAIN more : more[i].do \notin Closers, OfUpTo(R, n)
    PROVE  OfUpTo(more \o R, n)
<1>1. PICK L : L = more \o R
  OBVIOUS
<1>2. /\ L \in Seq(Items) /\ Len(L) = Len(more) + Len(R)
      /\ \A i \in 1 .. Len(more) + Len(R) : L[i] = IF i <= Len(more) THEN more[i] ELSE R[i - Len(more)]
  BY <1>1, ConcatProperties
<1>3. /\ Len(more) \in Nat /\ Len(R) \in Nat /\ DOMAIN L = 1 .. Len(L)
      /\ DOMAIN more = 1 .. Len(more) /\ DOMAIN R = 1 .. Len(R)
  BY <1>2, LenProperties
<1>4. ASSUME NEW i \in DOMAIN L, L[i].do \in Closers
      PROVE  L[i].of \in 1 .. n
  <2>1. i \in 1 .. Len(more) + Len(R)
    BY <1>2, <1>3
  <2>2. CASE i <= Len(more)
    <3>1. i \in DOMAIN more /\ L[i] = more[i]
      BY <1>2, <1>3, <2>1, <2>2
    <3>2. QED
      BY <1>4, <3>1
  <2>3. CASE ~(i <= Len(more))
    <3>1. PICK k : k = i - Len(more)
      OBVIOUS
    <3>2. k \in DOMAIN R /\ L[i] = R[k]
      BY <1>2, <1>3, <2>1, <2>3, <3>1
    <3>3. QED
      BY <1>4, <3>2 DEF OfUpTo
  <2>4. QED
    BY <2>2, <2>3
<1>5. QED
  BY <1>1, <1>4 DEF OfUpTo

LEMMA WithinIs ==
    ASSUME NEW ts, Len(ts) \in Nat, NEW td, OfUpTo(td, Len(ts))
    PROVE  OfWithin(ts, td)
<1>1. Len(ts) + 1 \in Int /\ Len(ts) \in Int /\ Len(ts) <= Len(ts) + 1
  OBVIOUS
<1>2. OfUpTo(td, Len(ts) + 1)
  BY <1>1, OfMore
<1>3. QED
  BY <1>2 DEF OfWithin

\* A step that does the first and puts other items in front.
Harmless(more) == more \in Seq(Items) /\ \A i \in DOMAIN more : more[i].do \notin Closers

LEMMA WithinReplaced ==
    ASSUME NEW ts, Len(ts) \in Nat, NEW us, NEW td \in Seq(Items), td # << >>, OfWithin(ts, td),
           NEW more, Harmless(more),
           (us = ts /\ Head(td).do # "token") \/ Len(us) = Len(ts) + 1
    PROVE  OfWithin(us, more \o Tail(td))
<1>1. Len(us) \in Nat /\ OfUpTo(td, Len(us))
  BY DEF OfWithin
<1>2. Tail(td) \in Seq(Items) /\ OfUpTo(Tail(td), Len(us))
  BY <1>1, OfTail, ConsOf
<1>3. OfUpTo(more \o Tail(td), Len(us))
  BY <1>2, OfConcat DEF Harmless
<1>4. QED
  BY <1>1, <1>3, WithinIs

LEMMA WithinCalled ==
    ASSUME NEW ts, Len(ts) \in Nat, NEW us, NEW td \in Seq(Items), OfWithin(ts, td),
           NEW more, Harmless(more), Len(us) = Len(ts) + 1
    PROVE  OfWithin(us, more \o td)
<1>1. Len(us) \in Nat /\ OfUpTo(td, Len(us))
  BY DEF OfWithin
<1>2. OfUpTo(more \o td, Len(us))
  BY <1>1, OfConcat DEF Harmless
<1>3. QED
  BY <1>1, <1>2, WithinIs

LEMMA HarmlessItems ==
    /\ Harmless(<< >>)
    /\ \A a \in Items : a.do \notin Closers => Harmless(<<a>>)
    /\ \A a, b \in Items : a.do \notin Closers /\ b.do \notin Closers => Harmless(<<a, b>>)
    /\ \A a, b, c \in Items :
          a.do \notin Closers /\ b.do \notin Closers /\ c.do \notin Closers => Harmless(<<a, b, c>>)
BY DEF Harmless

(***************************************************************************)
(* What comes first says where the parser is.                              *)
(***************************************************************************)
LEMMA LevelHead ==
    ASSUME NEW td \in Seq(Items), Level(td)
    PROVE  /\ td # << >>
           /\ Head(td) \in Items /\ Tail(td) \in Seq(Items)
           /\ Head(td).do \in StatementDo \cup {"expression"}
           /\ Head(td).do # "program" => Level(Tail(td))
           /\ Head(td).do = "expression" => Head(td) = Expression(0) /\ Head(Tail(td)).do = "block"
<1>1. td # << >>
  BY DEF Level
<1>2. PICK a, R : a = Head(td) /\ R = Tail(td)
  OBVIOUS
<1>3. a \in Items /\ R \in Seq(Items) /\ td = Cons(a, R)
  BY <1>1, <1>2, ConsOf
<1>4. Level(Cons(a, R))
  BY <1>3
<1>5. /\ a.do \in StatementDo \cup {"expression"}
      /\ a.do # "program" => Level(R)
      /\ a.do = "expression" => a = Expression(0) /\ Head(R).do = "block"
  BY <1>3, <1>4, LevelTail
<1>6. QED
  BY <1>1, <1>2, <1>3, <1>5

Begins(td, kind, a, R) == td # << >> /\ Head(td) = a /\ a.do = kind /\ Tail(td) = R /\ R \in Seq(Items)

LEMMA BeginsIs ==
    ASSUME NEW td, NEW kind, NEW a \in Items, NEW R \in Seq(Items), td = Cons(a, R), a.do = kind
    PROVE  Begins(td, kind, a, R)
BY ConsIs DEF Begins

LEMMA WaitingOperators ==
    ASSUME NEW ts, NEW vs, NEW R, NEW s, NEW m, NEW k, Waiting(ts, vs, R, s, m, k)
    PROVE  /\ R \in Seq(Items) /\ s \in Nat /\ m \in Nat /\ k \in Nat /\ Pend(R) = k
           /\ Operators(m, s) \in Items
           /\ Cons(Operators(m, s), R) \in Seq(Items)
           /\ Pend(Cons(Operators(m, s), R)) = k
<1>1. R \in Seq(Items) /\ s \in Nat /\ m \in Nat /\ k \in Nat /\ Pend(R) = k
  BY WaitingTyped DEF Typed
<1>2. PICK a : a = Operators(m, s)
  OBVIOUS
<1>3. a \in Items /\ a.do = "operators"
  BY <1>1, <1>2, Kinds
<1>4. Cons(a, R) \in Seq(Items) /\ Pend(Cons(a, R)) = k
  BY <1>1, <1>3, ConsIs, PendCons
<1>5. QED
  BY <1>1, <1>2, <1>3, <1>4

LEMMA ReadingHead ==
    ASSUME NEW ts, NEW vs, NEW td, Reading(ts, vs, td)
    PROVE  td # << >> /\ Head(td).do = "expression" /\ Len(vs) = Pend(td)
<1>1. PICK m, k, R : /\ td = Cons(Expression(m), R)
                     /\ Waiting(ts, vs, R, Len(ts) + 1, m, k)
                     /\ Len(vs) = k
  BY DEF Reading
<1>2. R \in Seq(Items) /\ m \in Nat /\ Pend(R) = k
  BY <1>1, WaitingOperators
<1>3. PICK a : a = Expression(m)
  OBVIOUS
<1>4. a \in Items /\ a.do = "expression" /\ td = Cons(a, R)
  BY <1>1, <1>2, <1>3, Kinds
<1>5. Pend(td) = k
  BY <1>2, <1>4, PendCons
<1>6. Begins(td, "expression", a, R)
  BY <1>2, <1>4, BeginsIs
<1>7. QED
  BY <1>1, <1>5, <1>6 DEF Begins

LEMMA ContinuingHead ==
    ASSUME NEW ts, NEW vs, NEW l, NEW td, Continuing(ts, vs, l, td)
    PROVE  /\ td # << >> /\ Head(td).do = "operators" /\ Len(vs) = Pend(td) + 1
           /\ vs[Len(vs)] = TreeOf(ts)[<<Head(td).from, Len(ts)>>]
<1>1. PICK m, s, k, R : /\ td = Cons(Operators(m, s), R)
                        /\ Waiting(ts, vs, R, s, m, k)
                        /\ Len(vs) = k + 1
                        /\ Expr(ts, s, Len(ts), vs[k + 1], m + 1)
  BY DEF Continuing
<1>2. PICK a : a = Operators(m, s)
  OBVIOUS
<1>3. R \in Seq(Items) /\ m \in Nat /\ s \in Nat /\ a \in Items /\ td = Cons(a, R) /\ Pend(td) = k
  BY <1>1, <1>2, WaitingOperators
<1>4. a.do = "operators" /\ a.from = s
  BY <1>2, <1>3, Kinds
<1>5. Begins(td, "operators", a, R)
  BY <1>3, <1>4, BeginsIs
<1>6. QED
  BY <1>1, <1>3, <1>4, <1>5 DEF Begins, Expr

LEMMA CallingHead ==
    ASSUME NEW ts, NEW vs, NEW td, Calling(ts, vs, td)
    PROVE  td # << >> /\ Head(td).do = "call" /\ Len(vs) = Pend(td) + 1
<1>1. PICK m, s, k, R : /\ td = Cons([do |-> "call"], Cons(Operators(m, s), R))
                        /\ Waiting(ts, vs, R, s, m, k)
                        /\ Len(vs) = k + 1
  BY DEF Calling, Named
<1>2. PICK a, Q : a = [do |-> "call"] /\ Q = Cons(Operators(m, s), R)
  OBVIOUS
<1>3. Q \in Seq(Items) /\ Pend(Q) = k
  BY <1>1, <1>2, WaitingOperators
<1>4. a \in Items /\ a.do = "call" /\ td = Cons(a, Q)
  BY <1>1, <1>2, Kinds
<1>5. Pend(td) = k
  BY <1>3, <1>4, PendCons
<1>6. Begins(td, "call", a, Q)
  BY <1>3, <1>4, BeginsIs
<1>7. QED
  BY <1>1, <1>5, <1>6 DEF Begins

LEMMA JoiningHead ==
    ASSUME NEW ts, NEW vs, NEW l, NEW td, Joining(ts, vs, l, td)
    PROVE  td # << >> /\ Head(td).do = "binary" /\ Len(vs) = Pend(td) + 1
<1>1. PICK op, m, s, k, p, R : /\ td = Cons(Binary(op), Cons(Operators(m, s), R))
                               /\ Waiting(ts, vs, R, s, m, k)
                               /\ Len(vs) = k + 2 /\ op \in 1 .. Len(ts)
  BY DEF Joining, Sides
<1>2. PICK a, Q : a = Binary(op) /\ Q = Cons(Operators(m, s), R)
  OBVIOUS
<1>3. Q \in Seq(Items) /\ Pend(Q) = k /\ k \in Nat
  BY <1>1, <1>2, WaitingOperators
<1>4. a \in Items /\ a.do = "binary" /\ td = Cons(a, Q)
  <2>1. op \in Nat
    BY <1>1
  <2>2. QED
    BY <1>1, <1>2, <2>1, Kinds
<1>5. Pend(td) = k + 1
  BY <1>3, <1>4, PendCons
<1>6. Begins(td, "binary", a, Q)
  BY <1>3, <1>4, BeginsIs
<1>7. QED
  BY <1>1, <1>3, <1>5, <1>6 DEF Begins

LEMMA TokenHead ==
    ASSUME NEW ts, NEW vs, NEW td, CallOpens(ts, vs, td) \/ CallCloses(ts, vs, td) \/ Closing(ts, vs, td)
    PROVE  td # << >> /\ Head(td).do = "token"
<1>1. PICK m, s, k, R : /\ Waiting(ts, vs, R, s, m, k)
                        /\ \/ td = Cons(Token("LParen"), Cons(Token("RParen"), Cons(Operators(m, s), R)))
                           \/ td = Cons(Token("RParen"), Cons(Operators(m, s), R))
  BY DEF CallOpens, CallCloses, Closing, Named
<1>2. PICK Q, L : Q = Cons(Operators(m, s), R) /\ L = Cons(Token("RParen"), Q)
  OBVIOUS
<1>3. Q \in Seq(Items)
  BY <1>1, <1>2, WaitingOperators
<1>4. /\ Token("RParen") \in Items /\ Token("RParen").do = "token"
      /\ Token("LParen") \in Items /\ Token("LParen").do = "token"
  BY Kinds
<1>5. L \in Seq(Items)
  BY <1>2, <1>3, <1>4, ConsIs
<1>6. td = Cons(Token("LParen"), L) \/ td = Cons(Token("RParen"), Q)
  BY <1>1, <1>2
<1>7. PICK a \in Items, S \in Seq(Items) : td = Cons(a, S) /\ a.do = "token"
  BY <1>3, <1>4, <1>5, <1>6
<1>8. Begins(td, "token", a, S)
  BY <1>7, BeginsIs
<1>9. QED
  BY <1>8 DEF Begins

LEMMA Heads ==
    ASSUME NEW ts, NEW vs, NEW l, NEW td \in Seq(Items), Parsing(ts, vs, l, td)
    PROVE  /\ td # << >>
           /\ Head(td).do \in StatementDo \ {"token"} => AtLevel(vs, td)
           /\ Head(td).do = "expression" => AtLevel(vs, td) \/ Reading(ts, vs, td)
           /\ Head(td).do = "operators" => Continuing(ts, vs, l, td)
           /\ Head(td).do = "call" => Calling(ts, vs, td)
           /\ Head(td).do = "binary" => Joining(ts, vs, l, td)
           /\ Head(td).do = "token" => \/ AtLevel(vs, td) \/ CallOpens(ts, vs, td)
                                       \/ CallCloses(ts, vs, td) \/ Closing(ts, vs, td)
<1>1. AtLevel(vs, td) => td # << >> /\ Head(td).do \in StatementDo \cup {"expression"}
  BY LevelHead DEF AtLevel
<1>2. Reading(ts, vs, td) => td # << >> /\ Head(td).do = "expression"
  BY ReadingHead
<1>3. Continuing(ts, vs, l, td) => td # << >> /\ Head(td).do = "operators"
  BY ContinuingHead
<1>4. Calling(ts, vs, td) => td # << >> /\ Head(td).do = "call"
  BY CallingHead
<1>5. Joining(ts, vs, l, td) => td # << >> /\ Head(td).do = "binary"
  BY JoiningHead
<1>6. CallOpens(ts, vs, td) \/ CallCloses(ts, vs, td) \/ Closing(ts, vs, td)
        => td # << >> /\ Head(td).do = "token"
  BY TokenHead
<1>7. QED
  BY <1>1, <1>2, <1>3, <1>4, <1>5, <1>6 DEF Parsing, StatementDo

\* The expression of a statement.
LEMMA LevelReading ==
    ASSUME NEW ts, Len(ts) \in Nat, NEW vs, NEW td \in Seq(Items), AtLevel(vs, td),
           Head(td).do = "expression"
    PROVE  Reading(ts, vs, td)
<1>1. PICK R : R = Tail(td)
  OBVIOUS
<1>2. /\ R \in Seq(Items) /\ td # << >> /\ Level(R) /\ Head(td) = Expression(0)
      /\ Head(R).do = "block"
  BY <1>1, LevelHead DEF AtLevel
<1>3. td = Cons(Expression(0), R)
  BY <1>1, <1>2, ConsOf
<1>4. Waiting(ts, vs, R, Len(ts) + 1, 0, 0)
  BY <1>2, WaitingIdle DEF Idle
<1>5. Len(vs) = 0
  BY DEF AtLevel
<1>6. QED
  BY <1>3, <1>4, <1>5 DEF Reading

Parsed(ts, vs, l, td) == IsSeq(vs) /\ Parsing(ts, vs, l, td) /\ OfWithin(ts, td)

XInv == PInv /\ Parsed(tokens, values, la, todo)

LEMMA Facts ==
    ASSUME XInv
    PROVE  /\ todo \in Seq(Items) /\ todo # << >> /\ Head(todo) \in Items /\ Tail(todo) \in Seq(Items)
           /\ tokens \in Seq(Real) /\ Len(tokens) \in Nat /\ Here = Len(tokens) + 1
           /\ IsSeq(values) /\ Parsing(tokens, values, la, todo) /\ OfWithin(tokens, todo)
<1>1. todo \in Seq(Items) /\ tokens \in Seq(Real)
  BY DEF XInv, PInv
<1>2. IsSeq(values) /\ Parsing(tokens, values, la, todo) /\ OfWithin(tokens, todo)
  BY DEF XInv, Parsed
<1>3. todo # << >>
  BY <1>1, <1>2, Heads
<1>4. Head(todo) \in Items /\ Tail(todo) \in Seq(Items)
  BY <1>1, <1>3, ConsOf
<1>5. QED
  BY <1>1, <1>2, <1>3, <1>4, LenProperties DEF Here

LEMMA AdvanceIs ==
    ASSUME XInv, Advance, la # "EndOfFile"
    PROVE  Appended(tokens', tokens, la) /\ Len(tokens') = Len(tokens) + 1
<1>1. la \in Real
  BY DEF Real, XInv, PInv
<1>2. Appended(Append(tokens, la), tokens, la)
  BY <1>1, Facts, AppendedIs
<1>3. tokens' = Append(tokens, la)
  BY DEF Advance
<1>4. QED
  BY <1>2, <1>3 DEF Appended

\* Nothing but the status changes.
LEMMA StayParsed ==
    ASSUME XInv, UNCHANGED <<tokens, la, todo, values>>
    PROVE  Parsed(tokens', values', la', todo')
BY DEF XInv

\* An item is done and others are put in its place.
LEMMA WithinThen ==
    ASSUME XInv, NEW more, Harmless(more), Then(more),
           (Stay /\ Head(todo).do # "token") \/ (Advance /\ la # "EndOfFile")
    PROVE  OfWithin(tokens', todo')
<1>1. PICK us : us = tokens'
  OBVIOUS
<1>2. (us = tokens /\ Head(todo).do # "token") \/ Len(us) = Len(tokens) + 1
  BY <1>1, AdvanceIs DEF Stay
<1>3. OfWithin(us, more \o Tail(todo))
  BY <1>2, Facts, WithinReplaced
<1>4. QED
  BY <1>1, <1>3 DEF Then

LEMMA Popping ==
    ASSUME XInv, Then(<< >>)
    PROVE  todo' = Tail(todo)
BY Facts, ConcatEmptySeq DEF Then

\* A statement's item is done.
LEMMA LevelPopped ==
    ASSUME XInv, AtLevel(values, todo), Head(todo).do \in StatementDo \ {"program"}, Then(<< >>),
           (Stay /\ Head(todo).do # "token") \/ (Advance /\ la # "EndOfFile"),
           values' = << >> \/ (values' = values /\ Head(todo).do # "block")
    PROVE  Parsed(tokens', values', la', todo')
<1>1. Level(todo')
  BY Facts, Popping, LevelHead DEF AtLevel
<1>2. values' = << >> /\ IsSeq(<< >>)
  BY DEF AtLevel, IsSeq
<1>3. OfWithin(tokens', todo')
  BY HarmlessItems, WithinThen
<1>4. QED
  BY <1>1, <1>2, <1>3 DEF Parsed, Parsing, AtLevel

\* Statements and blocks are put in front.
LEMMA LevelPushed ==
    ASSUME XInv, NEW n, n = Len(tokens'), Len(tokens') \in Nat, Level(todo'), values' = << >>,
           OfUpTo(todo', n) \/ (OfUpTo(todo', n + 1) /\ Head(todo').do = "token")
    PROVE  Parsed(tokens', values', la', todo')
<1>1. IsSeq(<< >>)
  BY DEF IsSeq
<1>2. PICK ts, td : ts = tokens' /\ td = todo'
  OBVIOUS
<1>3. OfWithin(ts, td)
  <2>1. OfUpTo(td, Len(ts)) => OfWithin(ts, td)
    BY <1>2, WithinIs
  <2>2. OfUpTo(td, Len(ts) + 1) /\ Head(td).do = "token" => OfWithin(ts, td)
    BY DEF OfWithin
  <2>3. QED
    BY <1>2, <2>1, <2>2
<1>4. QED
  BY <1>1, <1>2, <1>3 DEF Parsed, Parsing, AtLevel

(***************************************************************************)
(* Tokens.                                                                 *)
(***************************************************************************)
LEMMA TokenTail ==
    ASSUME NEW t \in Real, NEW R \in Seq(Items), NEW td, td = Cons(Token(t), R)
    PROVE  Head(td).type = t /\ Tail(td) = R
<1>1. Token(t) \in Items /\ Token(t).type = t
  BY Kinds
<1>2. QED
  BY <1>1, ConsIs

LEMMA consumeParsed ==
    ASSUME XInv, consume
    PROVE  Parsed(tokens', values', la', todo')
<1>1. Head(todo).do = "token" /\ todo # << >>
  BY DEF consume, Doing
<1>2. CASE ~Is(Head(todo).type)
  BY <1>2, StayParsed DEF consume, Reject, Stay
<1>3. CASE Is(Head(todo).type)
  <2>1. Advance /\ Then(<< >>) /\ values' = values
    BY <1>3 DEF consume
  <2>2. la # "EndOfFile"
    BY <1>1, <1>3, HeadType DEF XInv, Is, Real
  <2>3. Appended(tokens', tokens, la)
    BY <2>1, <2>2, AdvanceIs
  <2>4. OfWithin(tokens', todo')
    BY <2>1, <2>2, HarmlessItems, WithinThen
  <2>5. todo' = Tail(todo)
    BY <2>1, Popping
  <2>6. IsSeq(values')
    BY <2>1, Facts
  <2>7. CASE AtLevel(values, todo)
    BY <1>1, <2>1, <2>2, <2>7, LevelPopped DEF StatementDo
  <2>8. CASE CallOpens(tokens, values, todo)
    <3>1. PICK m, s, k, R : /\ Named(tokens, values, m, s, k, R) /\ s = Len(tokens)
                            /\ todo = Cons(Token("LParen"), Cons(Token("RParen"), Cons(Operators(m, s), R)))
      BY <2>8 DEF CallOpens
    <3>2. PICK L : L = Cons(Token("RParen"), Cons(Operators(m, s), R))
      OBVIOUS
    <3>3. L \in Seq(Items)
      <4>1. Cons(Operators(m, s), R) \in Seq(Items)
        BY <3>1, WaitingOperators DEF Named
      <4>2. QED
        BY <3>2, <4>1, Kinds, ConsIs
    <3>4. Head(todo).type = "LParen" /\ Tail(todo) = L
      BY <3>1, <3>2, <3>3, Kinds, TokenTail
    <3>5. la = "LParen"
      BY <1>3, <3>4 DEF Is
    <3>6. CallCloses(tokens', values, L)
      BY <2>3, <3>1, <3>2, <3>5, CallConsumes
    <3>7. QED
      BY <2>1, <2>4, <2>5, <2>6, <3>4, <3>6 DEF Parsed, Parsing
  <2>9. CASE CallCloses(tokens, values, todo)
    <3>1. PICK m, s, k, R : /\ Named(tokens, values, m, s, k, R)
                            /\ s + 1 = Len(tokens) /\ tokens[s + 1] = "LParen"
                            /\ todo = Cons(Token("RParen"), Cons(Operators(m, s), R))
      BY <2>9 DEF CallCloses
    <3>2. PICK L : L = Cons(Operators(m, s), R)
      OBVIOUS
    <3>3. L \in Seq(Items)
      BY <3>1, <3>2, WaitingOperators DEF Named
    <3>4. Head(todo).type = "RParen" /\ Tail(todo) = L
      BY <3>1, <3>2, <3>3, Kinds, TokenTail
    <3>5. la = "RParen"
      BY <1>3, <3>4 DEF Is
    <3>6. Continuing(tokens', values, la', L)
      BY <2>3, <3>1, <3>2, <3>5, CallDone
    <3>7. QED
      BY <2>1, <2>4, <2>5, <2>6, <3>4, <3>6 DEF Parsed, Parsing
  <2>10. CASE Closing(tokens, values, todo)
    <3>1. PICK m, s, k, R : /\ todo = Cons(Token("RParen"), Cons(Operators(m, s), R))
                            /\ Waiting(tokens, values, R, s, m, k)
                            /\ Len(values) = k + 1
                            /\ s \in 1 .. Len(tokens) /\ tokens[s] = "LParen"
                            /\ Expr(tokens, s + 1, Len(tokens), values[k + 1], 1)
      BY <2>10 DEF Closing
    <3>2. PICK L : L = Cons(Operators(m, s), R)
      OBVIOUS
    <3>3. L \in Seq(Items)
      BY <3>1, <3>2, WaitingOperators
    <3>4. Head(todo).type = "RParen" /\ Tail(todo) = L
      BY <3>1, <3>2, <3>3, Kinds, TokenTail
    <3>5. la = "RParen"
      BY <1>3, <3>4 DEF Is
    <3>6. Continuing(tokens', values, la', L)
      BY <2>3, <3>1, <3>2, <3>5, ParenDone
    <3>7. QED
      BY <2>1, <2>4, <2>5, <2>6, <3>4, <3>6 DEF Parsed, Parsing
  <2>11. QED
    BY <1>1, <2>7, <2>8, <2>9, <2>10, Facts, Heads
<1>4. QED
  BY <1>2, <1>3

(***************************************************************************)
(* Statements.                                                             *)
(***************************************************************************)
LEMMA LevelFacts ==
    ASSUME XInv, Head(todo).do \in StatementDo \ {"token"}
    PROVE  /\ AtLevel(values, todo)
           /\ Sound(todo, Len(tokens))
           /\ Head(todo).do # "program" => Sound(Tail(todo), Len(tokens))
           /\ Head(todo).do # "block" => values = << >>
<1>1. AtLevel(values, todo)
  BY Facts, Heads
<1>2. todo \in Seq(Items) /\ todo # << >> /\ Level(todo) /\ OfUpTo(todo, Len(tokens))
  BY <1>1, Facts DEF AtLevel, OfWithin, StatementDo
<1>3. Tail(todo) \in Seq(Items) /\ OfUpTo(Tail(todo), Len(tokens))
  BY <1>2, OfTail, ConsOf
<1>4. Head(todo).do # "program" => Level(Tail(todo))
  BY <1>2, LevelHead
<1>5. QED
  BY <1>1, <1>2, <1>3, <1>4 DEF Sound, AtLevel

LEMMA parse_top_levelParsed ==
    ASSUME XInv, parse_top_level
    PROVE  Parsed(tokens', values', la', todo')
<1>1. Head(todo).do = "program" /\ Head(todo).do \in StatementDo \ {"token"}
  BY DEF parse_top_level, Doing, StatementDo
<1>2. Sound(todo, Len(tokens)) /\ values = << >>
  BY <1>1, LevelFacts
<1>3. CASE la # "Function"
  BY <1>3, StayParsed DEF parse_top_level, Reject, Stay
<1>4. CASE la = "Function"
  <2>1. PICK n : n = Len(tokens) + 1
    OBVIOUS
  <2>2. n \in Nat /\ n \in 1 .. n /\ Here = n /\ Len(tokens) \in Nat /\ Len(tokens) <= n
    BY <2>1, Facts
  <2>3. Advance /\ values' = values
        /\ todo' = <<Token("Identifier"), Token("LParen"), Token("RParen"),
                     Block({"End"}), End(Here)>> \o todo
    BY <1>4 DEF parse_top_level
  <2>4. Len(tokens') = n
    BY <1>4, <2>1, <2>3, AdvanceIs
  <2>5. {"Identifier", "LParen", "RParen"} \subseteq Real
    BY DEF Real, TokenTypes, Starters
  <2>6. PICK a, b, c, d, e : /\ a = Token("Identifier") /\ b = Token("LParen") /\ c = Token("RParen")
                             /\ d = Block({"End"}) /\ e = End(n)
    OBVIOUS
  <2>7. a \in Items /\ b \in Items /\ c \in Items /\ d \in Items /\ e \in Items
    <3>1. a \in Items /\ b \in Items /\ c \in Items
      BY <2>5, <2>6, ItemTypes
    <3>2. d \in Items /\ e \in Items
      BY <2>2, <2>6, ItemTypes
    <3>3. QED
      BY <3>1, <3>2
  <2>8. todo' = Cons(a, Cons(b, Cons(c, Cons(d, Cons(e, todo)))))
    <3>1. todo \in Seq(Items)
      BY Facts
    <3>2. PICK s, f : s = <<b, c, d, e>> /\ f = <<a, b, c, d, e>>
      OBVIOUS
    <3>3. /\ s \in Seq(Items) /\ f \in Seq(Items) /\ Len(f) = Len(s) + 1 /\ f[1] = a
          /\ \A i \in 1 .. Len(s) : f[i + 1] = s[i]
      BY ONLY <2>7, <3>2
    <3>4. f \o todo = Cons(a, s \o todo)
      <4>1. /\ a \in Items /\ s \in Seq(Items) /\ f \in Seq(Items) /\ todo \in Seq(Items)
            /\ Len(f) = Len(s) + 1 /\ f[1] = a /\ \A i \in 1 .. Len(s) : f[i + 1] = s[i]
        BY ONLY <2>7, <3>1, <3>3
      <4>2. QED
        BY ONLY <4>1, FrontMore
    <3>5. s \o todo = Cons(b, Cons(c, Cons(d, Cons(e, todo))))
      BY ONLY <2>7, <3>1, <3>2, Front4
    <3>6. todo' = f \o todo
      BY ONLY <2>2, <2>3, <2>6, <3>2
    <3>7. QED
      BY ONLY <3>4, <3>5, <3>6
  <2>9. Sound(todo, n)
    BY <1>2, <2>2, SoundMore
  <2>10. Sound(Cons(e, todo), n)
    BY <2>2, <2>6, <2>9, SoundCloser
  <2>11. Sound(Cons(d, Cons(e, todo)), n)
    BY <2>6, <2>10, SoundBlock
  <2>12. Sound(Cons(c, Cons(d, Cons(e, todo))), n)
    BY <2>5, <2>6, <2>11, SoundToken
  <2>13. Sound(Cons(b, Cons(c, Cons(d, Cons(e, todo)))), n)
    BY <2>5, <2>6, <2>12, SoundToken
  <2>14. Sound(todo', n)
    BY <2>5, <2>6, <2>8, <2>13, SoundToken
  <2>15. QED
    BY <1>2, <2>2, <2>3, <2>4, <2>14, LevelPushed DEF Sound
<1>5. QED
  BY <1>3, <1>4

LEMMA parse_block_statementParsed ==
    ASSUME XInv, parse_block_statement
    PROVE  Parsed(tokens', values', la', todo')
<1>1. Head(todo).do = "block" /\ Head(todo).do \in StatementDo \ {"token"}
  BY DEF parse_block_statement, Doing, StatementDo
<1>2. AtLevel(values, todo) /\ Sound(todo, Len(tokens))
  BY <1>1, LevelFacts
<1>3. CASE la \in Head(todo).until
  <2>1. Stay /\ Then(<< >>) /\ values' = << >>
    BY <1>3 DEF parse_block_statement
  <2>2. QED
    BY <1>1, <1>2, <2>1, LevelPopped
<1>4. CASE la \in Starters /\ la \notin Head(todo).until
  <2>1. Stay /\ todo' = Statement \o todo /\ values' = << >>
    BY <1>4 DEF parse_block_statement
  <2>2. Sound(Statement \o todo, Len(tokens) + 1) /\ Head(Statement \o todo).do = "token"
    BY <1>1, <1>2, <1>4, SoundStatement DEF XInv
  <2>3. Len(tokens') = Len(tokens) /\ Len(tokens') \in Nat
    BY <2>1, Facts DEF Stay
  <2>4. QED
    BY <2>1, <2>2, <2>3, LevelPushed DEF Sound
<1>5. CASE la \notin Head(todo).until \cup Starters
  BY <1>5, StayParsed DEF parse_block_statement, Reject, Stay
<1>6. QED
  BY <1>3, <1>4, <1>5

LEMMA EndParsed ==
    ASSUME XInv, consume_end \/ consume_end_of_if
    PROVE  Parsed(tokens', values', la', todo')
<1>1. Head(todo).do \in {"end", "endif"}
  BY DEF consume_end, consume_end_of_if, Doing
<1>2. AtLevel(values, todo) /\ Head(todo).do \in StatementDo \ {"program"}
      /\ Head(todo).do # "token" /\ Head(todo).do # "block"
  BY <1>1, LevelFacts DEF StatementDo
<1>3. ASSUME Then(<< >>), Stay \/ (la = "End" /\ Advance), values' = values
      PROVE  Parsed(tokens', values', la', todo')
  BY <1>2, <1>3, LevelPopped
<1>4. CASE consume_end
  BY <1>3, <1>4, StayParsed DEF consume_end, Reject, Stay
<1>5. CASE consume_end_of_if
  BY <1>3, <1>5 DEF consume_end_of_if
<1>6. QED
  BY <1>4, <1>5

LEMMA parse_if_elseParsed ==
    ASSUME XInv, parse_if_else
    PROVE  Parsed(tokens', values', la', todo')
<1>1. Head(todo).do = "iftail" /\ Head(todo).do \in StatementDo \ {"token"} /\ todo # << >>
  BY DEF parse_if_else, Doing, StatementDo
<1>2. /\ AtLevel(values, todo) /\ Sound(todo, Len(tokens)) /\ Sound(Tail(todo), Len(tokens))
      /\ values = << >>
  BY <1>1, LevelFacts
<1>3. Stay /\ values' = values
  BY DEF parse_if_else
<1>4. Len(tokens') = Len(tokens) /\ Len(tokens') \in Nat
  BY <1>3, Facts DEF Stay
<1>5. CASE la = "ElseIf"
  <2>1. Then(If(Head(todo).of))
    BY <1>5 DEF parse_if_else
  <2>2. Head(todo).of \in 1 .. Len(tokens)
    <3>1. OfUpTo(todo, Len(tokens)) /\ 1 \in DOMAIN todo /\ Head(todo) = todo[1]
      <4>1. Len(todo) \in Nat \ {0} /\ DOMAIN todo = 1 .. Len(todo)
        BY <1>1, Facts, EmptySeq, LenProperties
      <4>2. QED
        BY <1>1, <1>2, <4>1, Facts DEF Sound
    <3>2. QED
      BY <1>1, <3>1 DEF OfUpTo, Closers
  <2>3. Sound(If(Head(todo).of) \o Tail(todo), Len(tokens))
    BY <1>2, <1>5, <2>2, Facts, SoundIf DEF XInv
  <2>4. QED
    BY <1>2, <1>3, <1>4, <2>1, <2>3, LevelPushed DEF Sound, Then
<1>6. CASE la = "Else"
  <2>1. Then(<<Token("Else"), Block({"End"})>>)
    BY <1>6 DEF parse_if_else
  <2>2. "Else" \in Real
    BY DEF Real, TokenTypes
  <2>3. Token("Else") \in Items /\ Block({"End"}) \in Items /\ Tail(todo) \in Seq(Items)
    BY <2>2, ItemTypes, Facts
  <2>4. todo' = Cons(Token("Else"), Cons(Block({"End"}), Tail(todo)))
    BY <2>1, <2>3, Front2 DEF Then
  <2>5. Sound(Cons(Block({"End"}), Tail(todo)), Len(tokens))
    BY <1>2, SoundBlock
  <2>6. Sound(todo', Len(tokens))
    BY <2>2, <2>4, <2>5, SoundToken
  <2>7. QED
    BY <1>2, <1>3, <1>4, <2>6, LevelPushed DEF Sound
<1>7. CASE la \notin {"ElseIf", "Else"}
  <2>1. Then(<< >>)
    BY <1>7 DEF parse_if_else
  <2>2. QED
    BY <1>1, <1>2, <1>3, <2>1, LevelPopped DEF StatementDo
<1>8. QED
  BY <1>5, <1>6, <1>7

LEMMA TypeParsed ==
    ASSUME XInv, parse_annotation \/ parse_type_expression
    PROVE  Parsed(tokens', values', la', todo')
<1>1. Head(todo).do \in {"annotation", "type"}
  BY DEF parse_annotation, parse_type_expression, Doing
<1>2. /\ AtLevel(values, todo) /\ Head(todo).do \in StatementDo \ {"program"}
      /\ Head(todo).do # "token" /\ Head(todo).do # "block"
      /\ Sound(Tail(todo), Len(tokens)) /\ values = << >>
  BY <1>1, LevelFacts DEF StatementDo
<1>3. CASE Then(<< >>) /\ (Stay \/ (la # "EndOfFile" /\ Advance)) /\ values' = values
  BY <1>2, <1>3, LevelPopped
<1>4. CASE parse_annotation /\ la = "Colon"
  <2>1. Advance /\ Then(<<[do |-> "type"]>>) /\ values' = values /\ la # "EndOfFile"
    BY <1>4 DEF parse_annotation
  <2>2. PICK n : n = Len(tokens) + 1
    OBVIOUS
  <2>3. Len(tokens') = n /\ n \in Nat /\ Len(tokens) \in Nat /\ Len(tokens) <= n
    BY <2>1, <2>2, AdvanceIs, Facts
  <2>4. Sound(Tail(todo), n)
    BY <1>2, <2>3, SoundMore
  <2>5. Sound(Cons([do |-> "type"], Tail(todo)), n)
    BY <2>4, PlainItems, NotClosers, SoundPlain
  <2>6. todo' = Cons([do |-> "type"], Tail(todo))
    BY <2>1, Facts, ItemTypes, Front1 DEF Then
  <2>7. QED
    BY <1>2, <2>1, <2>3, <2>5, <2>6, LevelPushed DEF Sound
<1>5. CASE parse_annotation /\ la # "Colon"
  BY <1>3, <1>5 DEF parse_annotation
<1>6. CASE parse_type_expression
  BY <1>3, <1>6, StayParsed DEF parse_type_expression, Reject, Stay
<1>7. QED
  BY <1>4, <1>5, <1>6

(***************************************************************************)
(* Expressions.                                                            *)
(***************************************************************************)
LEMMA parse_primary_expressionParsed ==
    ASSUME XInv, parse_primary_expression
    PROVE  Parsed(tokens', values', la', todo')
<1>1. Head(todo).do = "expression"
  BY DEF parse_primary_expression, Doing
<1>2. CASE la \notin Literals \cup {"Identifier", "TypeName", "LParen"}
  BY <1>2, StayParsed DEF parse_primary_expression, Reject, Stay
<1>3. CASE la \in Literals \cup {"Identifier", "TypeName", "LParen"}
  <2>1. Reading(tokens, values, todo)
    BY <1>1, Facts, Heads, LevelReading
  <2>2. PICK m, k, R : /\ todo = Cons(Expression(m), R)
                       /\ Waiting(tokens, values, R, Len(tokens) + 1, m, k)
                       /\ Len(values) = k
    BY <2>1 DEF Reading
  <2>3. PICK n : n = Len(tokens) + 1
    OBVIOUS
  <2>4. n \in Nat /\ Here = n /\ Len(tokens) \in Nat /\ m \in Nat /\ k \in Nat /\ R \in Seq(Items)
        /\ Operators(m, n) \in Items
    BY <2>2, <2>3, Facts, WaitingOperators
  <2>5. Head(todo).min = m /\ Tail(todo) = R
    <3>1. Expression(m) \in Items /\ Expression(m).min = m
      BY <2>4, Kinds
    <3>2. QED
      BY <2>2, <2>4, <3>1, ConsIs
  <2>6. la # "EndOfFile" /\ Advance
    BY <1>3 DEF Literals, parse_primary_expression
  <2>7. Appended(tokens', tokens, la) /\ Len(tokens') = n
    BY <2>3, <2>6, AdvanceIs
  <2>8. PICK ws : ws = Append(values, [at |-> n])
    OBVIOUS
  <2>9. IsSeq(ws) /\ Pushed(ws, values, [at |-> n])
    BY <2>8, Facts, PushedIs
  <2>10. PICK b : b = Operators(m, n)
    OBVIOUS
  <2>11. b \in Items /\ b.do \notin Closers
    BY <2>4, <2>10, NotClosers
  <2>12. CASE la \in Literals
    <3>1. Then(<<b>>) /\ values' = ws
      <4>1. la # "LParen"
        BY <2>12 DEF Literals
      <4>2. QED
        BY <1>3, <2>4, <2>5, <2>8, <2>10, <2>12, <4>1, Zenon DEF parse_primary_expression
    <3>2. OfWithin(tokens', todo')
      BY <2>6, <2>11, <3>1, HarmlessItems, WithinThen
    <3>3. todo' = Cons(b, R)
      BY <2>4, <2>5, <2>11, <3>1, Front1 DEF Then
    <3>4. la \in NoOperator
      BY <2>12 DEF NoOperator
    <3>5. PICK us : us = tokens'
      OBVIOUS
    <3>6. Named(us, ws, m, Len(us), k, R) /\ Len(us) = n
      BY <2>2, <2>7, <2>9, <3>4, <3>5, NewLeaf
    <3>7. Continuing(us, ws, la', Cons(Operators(m, n), R))
      BY <2>4, <3>6, NamedContinues
    <3>8. QED
      BY <2>9, <2>10, <3>1, <3>2, <3>3, <3>5, <3>7 DEF Parsed, Parsing
  <2>13. CASE la \in {"Identifier", "TypeName"}
    <3>1. PICK c : c = [do |-> "call"]
      OBVIOUS
    <3>2. Then(<<c, b>>) /\ values' = ws
      <4>1. la \notin Literals /\ la # "LParen"
        BY <2>13 DEF Literals
      <4>2. QED
        BY <1>3, <2>4, <2>5, <2>8, <2>10, <3>1, <4>1, Zenon DEF parse_primary_expression
    <3>3. c \in Items /\ c.do \notin Closers
      BY <3>1, Kinds, NotClosers
    <3>4. OfWithin(tokens', todo')
      BY <2>6, <2>11, <3>2, <3>3, HarmlessItems, WithinThen
    <3>5. todo' = Cons(c, Cons(b, R))
      BY <2>4, <2>5, <2>11, <3>2, <3>3, Front2 DEF Then
    <3>6. la \in NoOperator
      BY <2>13 DEF NoOperator
    <3>7. PICK us : us = tokens'
      OBVIOUS
    <3>8. Named(us, ws, m, Len(us), k, R) /\ Len(us) = n
      BY <2>2, <2>7, <2>9, <3>6, <3>7, NewLeaf
    <3>9. Calling(us, ws, Cons(c, Cons(Operators(m, n), R)))
      BY <3>1, <3>8 DEF Calling
    <3>10. QED
      BY <2>9, <2>10, <3>2, <3>4, <3>5, <3>7, <3>9 DEF Parsed, Parsing
  <2>14. CASE la = "LParen"
    <3>1. PICK e, c : e = Expression(0) /\ c = Token("RParen")
      OBVIOUS
    <3>2. Then(<<e, c, b>>) /\ values' = values
      <4>1. la \notin Literals
        BY <2>14 DEF Literals
      <4>2. QED
        BY <1>3, <2>4, <2>5, <2>10, <2>14, <3>1, <4>1, Zenon DEF parse_primary_expression
    <3>3. e \in Items /\ e.do \notin Closers /\ c \in Items /\ c.do \notin Closers
      BY <3>1, Kinds, NotClosers
    <3>4. OfWithin(tokens', todo')
      <4>1. Harmless(<<e, c, b>>)
        BY <2>11, <3>3, HarmlessItems
      <4>2. QED
        BY <2>6, <3>2, <4>1, WithinThen
    <3>5. todo' = Cons(e, Cons(c, Cons(b, R)))
      <4>1. e \in Items /\ c \in Items /\ b \in Items /\ R \in Seq(Items)
        BY <2>4, <2>11, <3>3
      <4>2. todo' = <<e, c, b>> \o R
        BY <2>5, <3>2 DEF Then
      <4>3. QED
        BY ONLY <4>1, <4>2, Front3
    <3>6. PICK us : us = tokens'
      OBVIOUS
    <3>7. Reading(us, values, Cons(Expression(0), Cons(Token("RParen"), Cons(Operators(m, n), R))))
      BY <2>2, <2>3, <2>7, <2>14, <3>6, ReadParen
    <3>8. Reading(us, values, todo')
      BY <2>10, <3>1, <3>5, <3>7
    <3>9. QED
      BY <3>2, <3>4, <3>6, <3>8, Facts DEF Parsed, Parsing
  <2>15. QED
    BY <1>3, <2>12, <2>13, <2>14
<1>4. QED
  BY <1>2, <1>3

LEMMA parse_callParsed ==
    ASSUME XInv, parse_call
    PROVE  Parsed(tokens', values', la', todo')
<1>1. Head(todo).do = "call" /\ Stay /\ values' = values
  BY DEF parse_call, Doing
<1>2. Calling(tokens, values, todo)
  BY <1>1, Facts, Heads
<1>3. PICK m, s, k, R : /\ Named(tokens, values, m, s, k, R) /\ s = Len(tokens)
                        /\ todo = Cons([do |-> "call"], Cons(Operators(m, s), R))
  BY <1>2 DEF Calling
<1>4. PICK L : L = Cons(Operators(m, s), R)
  OBVIOUS
<1>5. L \in Seq(Items)
  BY <1>3, <1>4, WaitingOperators DEF Named
<1>6. Tail(todo) = L
  <2>1. PICK c : c = [do |-> "call"]
    OBVIOUS
  <2>2. c \in Items /\ todo = Cons(c, L)
    BY <1>3, <1>4, <2>1, Kinds
  <2>3. QED
    BY <1>5, <2>2, ConsIs
<1>7. PICK a, b : a = Token("LParen") /\ b = Token("RParen")
  OBVIOUS
<1>8. a \in Items /\ b \in Items /\ a.do \notin Closers /\ b.do \notin Closers
  BY <1>7, Kinds, NotClosers
<1>9. CASE la = "LParen"
  <2>1. Then(<<a, b>>)
    BY <1>7, <1>9 DEF parse_call
  <2>2. OfWithin(tokens', todo')
    BY <1>1, <1>8, <2>1, HarmlessItems, WithinThen
  <2>3. todo' = Cons(a, Cons(b, L))
    BY <1>5, <1>6, <1>8, <2>1, Front2 DEF Then
  <2>4. CallOpens(tokens, values, todo')
    BY <1>3, <1>4, <1>7, <2>3 DEF CallOpens
  <2>5. QED
    BY <1>1, <2>2, <2>4, Facts DEF Parsed, Parsing, Stay
<1>10. CASE la # "LParen"
  <2>1. Then(<< >>)
    BY <1>10 DEF parse_call
  <2>2. OfWithin(tokens', todo')
    BY <1>1, <2>1, HarmlessItems, WithinThen
  <2>3. todo' = L
    BY <1>6, <2>1, Popping
  <2>4. Continuing(tokens, values, la, L)
    BY <1>3, <1>4, Facts, NamedContinues
  <2>5. QED
    BY <1>1, <2>2, <2>3, <2>4, Facts DEF Parsed, Parsing, Stay
<1>11. QED
  BY <1>9, <1>10

LEMMA parse_operatorsParsed ==
    ASSUME XInv, parse_operators
    PROVE  Parsed(tokens', values', la', todo')
<1>1. Head(todo).do = "operators" /\ values' = values
  BY DEF parse_operators, Doing
<1>2. Continuing(tokens, values, la, todo)
  BY <1>1, Facts, Heads
<1>3. PICK m, s, k, R : /\ todo = Cons(Operators(m, s), R)
                        /\ Waiting(tokens, values, R, s, m, k)
                        /\ Len(values) = k + 1
                        /\ Expr(tokens, s, Len(tokens), values[k + 1], m + 1)
                        /\ \A o \in OpsIn(tokens, s, Len(tokens)) :
                               precedence(la) <= precedence(tokens[o])
  BY <1>2 DEF Continuing
<1>4. m \in Nat /\ s \in Nat /\ R \in Seq(Items) /\ Operators(m, s) \in Items
  BY <1>3, WaitingOperators
<1>5. Head(todo).min = m /\ Tail(todo) = R
  <2>1. Operators(m, s).min = m
    BY <1>4, Kinds
  <2>2. QED
    BY <1>3, <1>4, <2>1, ConsIs
<1>6. CASE precedence(la) > Head(todo).min
  <2>1. PICK p, n : p = precedence(la) /\ n = Len(tokens) + 1
    OBVIOUS
  <2>2. p \in Nat /\ p > m /\ p # 0 /\ n \in Nat /\ Here = n
    <3>1. p \in Nat
      BY <2>1, LevelsUpTo4
    <3>2. QED
      BY <1>4, <1>5, <1>6, <2>1, <3>1, Facts
  <2>3. la # "EndOfFile"
    BY <2>1, <2>2, Levels
  <2>4. Advance /\ todo' = <<Expression(p), Binary(n)>> \o todo
    BY <1>6, <2>1, <2>2 DEF parse_operators
  <2>5. Appended(tokens', tokens, la) /\ Len(tokens') = Len(tokens) + 1
    BY <2>3, <2>4, AdvanceIs
  <2>6. PICK a, b : a = Expression(p) /\ b = Binary(n)
    OBVIOUS
  <2>7. a \in Items /\ b \in Items /\ a.do \notin Closers /\ b.do \notin Closers
    BY <2>2, <2>6, Kinds, NotClosers
  <2>8. PICK us : us = tokens'
    OBVIOUS
  <2>9. OfWithin(us, todo')
    <3>1. Harmless(<<a, b>>)
      BY <2>7, HarmlessItems
    <3>2. OfWithin(us, <<a, b>> \o todo)
      BY <2>5, <2>8, <3>1, Facts, WithinCalled
    <3>3. QED
      BY <2>4, <2>6, <3>2
  <2>10. todo' = Cons(a, Cons(b, todo))
    BY <2>4, <2>6, <2>7, Facts, Front2
  <2>11. Reading(us, values, Cons(Expression(precedence(la)),
                                  Cons(Binary(Len(tokens) + 1), Cons(Operators(m, s), R))))
    BY <1>3, <1>5, <1>6, <2>5, <2>8, OperatorConsumes
  <2>12. Reading(us, values, todo')
    BY <1>3, <2>1, <2>6, <2>10, <2>11
  <2>13. QED
    BY <1>1, <2>8, <2>9, <2>12, Facts DEF Parsed, Parsing
<1>7. CASE ~(precedence(la) > Head(todo).min)
  <2>1. Stay /\ Then(<< >>)
    BY <1>7 DEF parse_operators
  <2>2. OfWithin(tokens', todo')
    BY <1>1, <2>1, HarmlessItems, WithinThen
  <2>3. todo' = R
    BY <1>5, <2>1, Popping
  <2>4. Parsing(tokens, values, la, R)
    BY <1>3, <1>5, <1>7, Facts, OperatorsDone
  <2>5. QED
    BY <1>1, <2>1, <2>2, <2>3, <2>4, Facts DEF Parsed, Stay
<1>8. QED
  BY <1>6, <1>7

LEMMA make_binaryParsed ==
    ASSUME XInv, make_binary
    PROVE  Parsed(tokens', values', la', todo')
<1>1. Head(todo).do = "binary" /\ Stay /\ Then(<< >>)
  BY DEF make_binary, Doing
<1>2. Joining(tokens, values, la, todo)
  BY <1>1, Facts, Heads
<1>3. PICK op, m, s, k, p, R : /\ todo = Cons(Binary(op), Cons(Operators(m, s), R))
                               /\ Waiting(tokens, values, R, s, m, k)
                               /\ Sides(tokens, values, la, op, m, s, k, p)
  BY <1>2 DEF Joining
<1>4. PICK L : L = Cons(Operators(m, s), R)
  OBVIOUS
<1>5. L \in Seq(Items)
  BY <1>3, <1>4, WaitingOperators
<1>6. Head(todo).op = op /\ Tail(todo) = L
  <2>1. op \in Nat
    BY <1>3, Facts DEF Sides
  <2>2. Binary(op) \in Items /\ Binary(op).op = op
    BY <2>1, Kinds
  <2>3. QED
    BY <1>3, <1>4, <1>5, <2>2, ConsIs
<1>7. PICK ws : ws = LastTwo(values, [at |-> op, l |-> values[Len(values) - 1],
                                     r |-> values[Len(values)]])
  OBVIOUS
<1>8. values' = ws
  BY <1>6, <1>7 DEF make_binary, LastTwo
<1>9. IsSeq(ws) /\ Continuing(tokens, ws, la, L)
  BY <1>3, <1>4, <1>7, Facts, BinaryDone
<1>10. todo' = L
  BY <1>1, <1>6, Popping
<1>11. OfWithin(tokens', todo')
  BY <1>1, HarmlessItems, WithinThen
<1>12. QED
  BY <1>1, <1>8, <1>9, <1>10, <1>11 DEF Parsed, Parsing, Stay

(***************************************************************************)
(* The invariant.                                                          *)
(***************************************************************************)
LEMMA InitXInv == Init => XInv
<1> SUFFICES ASSUME Init PROVE XInv
  OBVIOUS
<1>1. PInv
  BY InitPInv
<1>2. PICK a : a = [do |-> "program"]
  OBVIOUS
<1>3. todo = <<a>> /\ a.do = "program" /\ values = << >> /\ tokens = << >> /\ Len(tokens) = 0
  BY <1>2 DEF Init
<1>4. DOMAIN todo = {1} /\ todo[1] = a /\ Head(todo) = a /\ Len(todo) = 1 /\ todo # << >>
  BY <1>3
<1>5. Level(todo)
  <2>1. ASSUME NEW i \in DOMAIN todo
        PROVE  InOrder(todo, i)
    BY <1>3, <1>4 DEF InOrder, StatementDo
  <2>2. QED
    BY <1>4, <2>1 DEF Level
<1>6. OfUpTo(todo, 0)
  BY <1>3, <1>4 DEF OfUpTo, Closers
<1>7. IsSeq(values)
  BY <1>3 DEF IsSeq
<1>8. OfWithin(tokens, todo)
  BY <1>3, <1>6, WithinIs
<1>9. QED
  BY <1>1, <1>3, <1>5, <1>7, <1>8 DEF XInv, Parsed, Parsing, AtLevel

LEMMA NextXInv == XInv /\ [Next]_vars => XInv'
<1> SUFFICES ASSUME XInv, [Next]_vars PROVE XInv'
  OBVIOUS
<1>1. PInv'
  BY NextPInv DEF XInv
<1>2. ASSUME UNCHANGED vars
      PROVE  Parsed(tokens', values', la', todo')
  BY <1>2, StayParsed DEF vars
<1>3. ASSUME Parse
      PROVE  Parsed(tokens', values', la', todo')
  BY <1>3, consumeParsed, parse_top_levelParsed, parse_block_statementParsed, EndParsed,
     parse_if_elseParsed, TypeParsed, parse_primary_expressionParsed, parse_callParsed,
     parse_operatorsParsed, make_binaryParsed DEF Parse
<1>4. Parsed(tokens', values', la', todo')
  BY <1>2, <1>3 DEF Next, Stopped
<1>5. QED
  BY <1>1, <1>4 DEF XInv

(***************************************************************************)
(* What is recorded of the ends.                                           *)
(***************************************************************************)
Recorded(cs, n) == cs \subseteq [at : 1 .. n, of : 1 .. n]

TInv ==
    /\ XInv
    /\ Recorded(closes, Len(tokens))
    /\ status \in {"running", "accepted", "rejected"}

LEMMA RecordedMore ==
    ASSUME NEW cs, NEW n \in Int, NEW m \in Int, n <= m, Recorded(cs, n)
    PROVE  Recorded(cs, m)
<1>1. 1 .. n \subseteq 1 .. m
  OBVIOUS
<1>2. QED
  BY <1>1 DEF Recorded

\* A step that closes nothing.
LEMMA RecordedKept ==
    ASSUME XInv, Recorded(closes, Len(tokens)), closes' = closes,
           tokens' = tokens \/ Advance
    PROVE  Recorded(closes', Len(tokens'))
<1>1. PICK n : n = Len(tokens)
  OBVIOUS
<1>2. PICK m : m = Len(tokens')
  OBVIOUS
<1>3. n \in Nat /\ tokens \in Seq(Real)
  BY <1>1, Facts
<1>4. m = n \/ m = n + 1
  BY <1>1, <1>2, <1>3 DEF Advance
<1>5. m \in Int /\ n \in Int /\ n <= m
  BY <1>3, <1>4
<1>6. Recorded(closes, m)
  BY <1>1, <1>5, RecordedMore
<1>7. QED
  BY <1>2, <1>6

LEMMA EndRecorded ==
    ASSUME XInv, Recorded(closes, Len(tokens)), consume_end \/ consume_end_of_if
    PROVE  Recorded(closes', Len(tokens'))
<1>1. Head(todo).do \in {"end", "endif"}
  BY DEF consume_end, consume_end_of_if, Doing
<1>2. CASE Stay /\ closes' = closes
  BY <1>2, RecordedKept DEF Stay
<1>3. CASE /\ la = "End" /\ Advance
           /\ closes' = closes \cup {[at |-> Here, of |-> Head(todo).of]}
  <2>1. PICK n, o : n = Len(tokens) + 1 /\ o = Head(todo).of
    OBVIOUS
  <2>2. n \in Nat /\ Here = n /\ Len(tokens) \in Nat /\ n \in 1 .. n
    BY <2>1, Facts
  <2>3. Len(tokens') = n
    BY <1>3, <2>1, AdvanceIs
  <2>4. o \in 1 .. n
    <3>1. OfUpTo(todo, Len(tokens)) /\ 1 \in DOMAIN todo /\ Head(todo) = todo[1]
      <4>1. Len(todo) \in Nat \ {0} /\ DOMAIN todo = 1 .. Len(todo)
        BY Facts, EmptySeq, LenProperties
      <4>2. QED
        BY <1>1, <4>1, Facts DEF OfWithin
    <3>2. o \in 1 .. Len(tokens)
      BY <1>1, <2>1, <3>1 DEF OfUpTo, Closers
    <3>3. QED
      BY <2>1, <2>2, <3>2
  <2>5. Recorded(closes, n)
    <3>1. Len(tokens) \in Int /\ n \in Int /\ Len(tokens) <= n
      BY <2>1, <2>2
    <3>2. QED
      BY <3>1, RecordedMore
  <2>6. [at |-> n, of |-> o] \in [at : 1 .. n, of : 1 .. n]
    BY <2>2, <2>4
  <2>7. Recorded(closes', n)
    BY <1>3, <2>1, <2>2, <2>5, <2>6 DEF Recorded
  <2>8. QED
    BY <2>3, <2>7
<1>4. QED
  BY <1>2, <1>3 DEF consume_end, consume_end_of_if, Reject, Stay

LEMMA InitTInv == Init => TInv
<1> SUFFICES ASSUME Init PROVE TInv
  OBVIOUS
<1>1. XInv
  BY InitXInv
<1>2. QED
  BY <1>1 DEF TInv, Recorded, Init

LEMMA NextTInv == TInv /\ [Next]_vars => TInv'
<1> SUFFICES ASSUME TInv, [Next]_vars PROVE TInv'
  OBVIOUS
<1>1. XInv /\ Recorded(closes, Len(tokens)) /\ status \in {"running", "accepted", "rejected"}
  BY DEF TInv
<1>2. XInv'
  BY <1>1, NextXInv
<1>3. status' \in {"running", "accepted", "rejected"}
  BY <1>1 DEF Next, Parse, Stopped, vars, parse_top_level, parse_block_statement, parse_if_else,
     parse_annotation, parse_type_expression, parse_primary_expression, parse_call,
     parse_operators, make_binary, consume, consume_end, consume_end_of_if, Reject
<1>4. Recorded(closes', Len(tokens'))
  <2>1. CASE consume_end \/ consume_end_of_if
    BY <1>1, <2>1, EndRecorded
  <2>2. CASE ~(consume_end \/ consume_end_of_if)
    <3>1. closes' = closes /\ (tokens' = tokens \/ Advance)
      BY <2>2 DEF Next, Parse, Stopped, vars, parse_top_level, parse_block_statement,
         parse_if_else, parse_annotation, parse_type_expression, parse_primary_expression,
         parse_call, parse_operators, make_binary, consume, Reject, Stay
    <3>2. QED
      BY <1>1, <3>1, RecordedKept
  <2>3. QED
    BY <2>1, <2>2
<1>5. QED
  BY <1>2, <1>3, <1>4 DEF TInv

(***************************************************************************)
(* What follows from the places the parser can be in.                      *)
(***************************************************************************)
LEMMA Awaited ==
    ASSUME XInv
    PROVE  /\ Head(todo).do = "expression" => Len(values) = Pend(todo)
           /\ Head(todo).do \in {"operators", "binary", "call"} => Len(values) = Pend(todo) + 1
<1>1. todo \in Seq(Items) /\ Parsing(tokens, values, la, todo) /\ Len(tokens) \in Nat
  BY Facts
<1>2. CASE Head(todo).do = "expression"
  <2>1. Reading(tokens, values, todo)
    BY <1>1, <1>2, Heads, LevelReading
  <2>2. QED
    BY <1>2, <2>1, ReadingHead
<1>3. CASE Head(todo).do = "operators"
  <2>1. Continuing(tokens, values, la, todo)
    BY <1>1, <1>3, Heads
  <2>2. QED
    BY <1>3, <2>1, ContinuingHead
<1>4. CASE Head(todo).do = "call"
  BY <1>1, <1>4, Heads, CallingHead
<1>5. CASE Head(todo).do = "binary"
  BY <1>1, <1>5, Heads, JoiningHead
<1>6. QED
  BY <1>2, <1>3, <1>4, <1>5

LEMMA Typing == TInv => TypeOK
<1> SUFFICES ASSUME TInv PROVE TypeOK
  OBVIOUS
<1>1. XInv /\ Recorded(closes, Len(tokens)) /\ status \in {"running", "accepted", "rejected"}
  BY DEF TInv
<1>2. Pending = Pend(todo)
  BY DEF Pending, Pend, BinaryAt
<1>3. todo # << >> /\ lang \in Languages /\ la \in TokenTypes
  BY <1>1, Facts DEF XInv, PInv
<1>4. tokens \in Seq(TokenTypes)
  <2>1. Real \subseteq TokenTypes
    BY DEF Real
  <2>2. QED
    BY <1>1, <2>1, Facts, SeqMonotonic
<1>5. closes \in SUBSET [at : 1 .. Len(tokens), of : 1 .. Len(tokens)]
  BY <1>1 DEF Recorded
<1>6. QED
  BY <1>1, <1>2, <1>3, <1>4, <1>5, Awaited DEF TypeOK

LEMMA Exact == XInv => ExpressionsExact
<1> SUFFICES ASSUME XInv, Head(todo).do = "operators"
             PROVE  values[Len(values)] = Grouping(Head(todo).from, Len(tokens))
  BY DEF ExpressionsExact
<1>1. Continuing(tokens, values, la, todo)
  BY Facts, Heads
<1>2. values[Len(values)] = TreeOf(tokens)[<<Head(todo).from, Len(tokens)>>]
  BY <1>1, ContinuingHead
<1>3. QED
  BY <1>2, GroupingIs

-----------------------------------------------------------------------------
\* The parser never advances over EndOfFile, for token streams of any length and
\* any nesting: peek() is only ever asked for a token there is.
THEOREM StopsAtEnd == Spec => []NeverPastEnd
<1>1. PInv => NeverPastEnd
  BY DEF PInv, NeverPastEnd, Real
<1>2. QED
  BY <1>1, InitPInv, NextPInv, PTL DEF Spec

\* While parse_expression and its callees run, one value is kept for each
\* operator whose right side is not read, and one for what has just been read;
\* make_binary always finds its two sides.  An `end` is recorded where it stands,
\* for a construct that was opened before.
THEOREM TypeCorrect == Spec => []TypeOK
BY InitTInv, NextTInv, Typing, PTL DEF Spec

\* Whatever the tokens, the value parse_expression has when it looks for a further
\* operator is the tree of the tokens it has consumed: split at the last of the
\* loosest operators outside parentheses, and so for both sides.
THEOREM ExpressionsAreExact == Spec => []ExpressionsExact
BY InitXInv, NextXInv, Exact, PTL DEF Spec

-----------------------------------------------------------------------------

(***************************************************************************)
(* The text so far, with the word of a branch or a construct that is going *)
(* to be consumed next already in it.                                      *)
(***************************************************************************)
Structural == {"If", "Loop", "Else", "ElseIf"}

Told(ts, td) == IF Head(td).do = "token" /\ Head(td).type \in Structural
                THEN Append(ts, Head(td).type) ELSE ts

Depth(ts, o, q) == CountIn(ts, Openers, o, q) - CountIn(ts, {"End"}, o, q)

OpenAt(ts, p) == {o \in 1 .. p : /\ ts[o] \in Openers
                                 /\ \A q \in o .. p : Depth(ts, o, q) > 0}

MatchIn(ts, p) == IF OpenAt(ts, p - 1) = {} THEN 0 ELSE Innermost(OpenAt(ts, p - 1))

BranchesIn(ts, types, o, p) == {q \in o .. p : ts[q] \in types /\ Depth(ts, o, q) = 1}

\* The constructs that are open, and those of them with a branch of a kind.
Open(ts)         == OpenAt(ts, Len(ts))
Having(ts, word) == {o \in Open(ts) : BranchesIn(ts, {word}, o, Len(ts)) # {}}

\* The text ends with the `end` of an if with an elseif.
Chained(ts) == /\ Len(ts) # 0 /\ ts[Len(ts)] = "End"
               /\ MatchIn(ts, Len(ts)) # 0
               /\ BranchesIn(ts, {"ElseIf"}, MatchIn(ts, Len(ts)), Len(ts)) # {}

TakenIn(ts) == {p \in 1 .. Len(ts) : /\ ts[p] = "End"
                                     /\ p - 1 \in 1 .. Len(ts) /\ ts[p - 1] = "End"
                                     /\ MatchIn(ts, p - 1) # 0
                                     /\ BranchesIn(ts, {"ElseIf"}, MatchIn(ts, p - 1), p - 1) # {}}

(***************************************************************************)
(* The items that wait for an `end` or a branch, each with the number of   *)
(* items behind it.                                                        *)
(***************************************************************************)
FrameOf(L, i) == [d |-> Len(L) - i, do |-> L[i].do, of |-> L[i].of]
Frames(L)     == {FrameOf(L, i) : i \in {k \in DOMAIN L : L[k].do \in Closers}}

Twice(F, o)  == \E x, y \in F : /\ x # y /\ x.of = o /\ y.of = o
                                /\ x.do = "endif" /\ y.do = "endif"
Tailed(F, o) == \E x \in F : x.do = "iftail" /\ x.of = o

\* What waits was opened by a word of its kind.
Kind(ts, F) == \A x \in F : /\ x.of \in 1 .. Len(ts)
                            /\ x.do = "end" => ts[x.of] \in {"Function", "Loop"}
                            /\ x.do # "end" => ts[x.of] = "If"

\* Innermost first; what waits for one construct stands together.
Nested(F) == \A x, y \in F : x.d > y.d =>
                \/ x.of > y.of
                \/ /\ x.of = y.of /\ x.do # "end" /\ y.do = "endif"
                   /\ [d |-> x.d - 1, do |-> "endif", of |-> x.of] \in F

\* For every construct that is open something waits.
Held(ts, F) == \A o \in Open(ts) : \E x \in F : x.of = o

\* An elseif has left a second endif, an else has taken the iftail.
Branched(ts, F, a) ==
    \A o \in Open(ts) :
        /\ o \in Having(ts, "ElseIf") <=> Twice(F, o)
        /\ o \in Having(ts, "Else") => ~Tailed(F, o)
        /\ ts[o] = "If" /\ o \notin Having(ts, "Else") /\ ~Tailed(F, o) =>
               a.do = "endif" /\ a.of = o

\* Nothing else waits, but the further endifs of an if that is closed: they are
\* next, and find no `end`.
Spent(ts, F, a, l) ==
    /\ \A x \in F : x.of \notin Open(ts) =>
           /\ Chained(ts) /\ x.of = MatchIn(ts, Len(ts)) /\ x.do = "endif"
           /\ a.do = "endif" /\ a.of = x.of
    /\ Chained(ts) /\ l = "End" => a.do = "endif" /\ a.of = MatchIn(ts, Len(ts))

\* The block in front of an iftail or an endif has ended.
Ahead(ts, a, l) ==
    /\ a.do = "iftail" => l \in IF_TERMINATORS
    /\ a.do = "endif" /\ a.of \in Open(ts) => l = "End"

Waits(ts, F, a, l) ==
    /\ Kind(ts, F) /\ Nested(F) /\ Held(ts, F) /\ Branched(ts, F, a)
    /\ Spent(ts, F, a, l) /\ Ahead(ts, a, l)

(***************************************************************************)
(* What may follow what.                                                   *)
(***************************************************************************)
Fits(a, b) ==
    /\ a.do = "block"  => /\ b.do \in Closers
                          /\ a.until = IF b.do = "iftail" THEN IF_TERMINATORS ELSE {"End"}
    /\ a.do = "iftail" => b.do = "endif" /\ b.of = a.of
    /\ a.do = "endif"  => b.do = "block" \/ (b.do = "endif" /\ b.of = a.of)
    /\ a.do = "end"    => b.do \in {"block", "program"}
    /\ b.do \in Closers => a.do \in Closers \cup {"block"}
    /\ b.do = "token"  => b.type \notin Structural

Follows(L, i) ==
    /\ L[i].do = "program" <=> i = Len(L)
    /\ L[i].do = "token" => L[i].type \notin {"End", "Function"}
    /\ i < Len(L) => Fits(L[i], L[i + 1])

Joint(L) == L # << >> /\ \A i \in DOMAIN L : Follows(L, i)

Justly(ts, cs) == \A c \in cs : c.of = MatchIn(ts, c.at)

NIn(ts, cs, td, l) ==
    /\ Joint(td)
    /\ Justly(ts, cs) <=> TakenIn(ts) = {}
    /\ TakenIn(ts) = {} => Waits(Told(ts, td), Frames(td), Head(td), l)

NInv ==
    /\ NIn(tokens, closes, todo, la)
    /\ status = "accepted" => Head(todo).do = "program"

-----------------------------------------------------------------------------
(***************************************************************************)
(* Depths.                                                                 *)
(***************************************************************************)
LEMMA DepthType ==
    ASSUME NEW ts, NEW i \in Int, NEW j \in Int
    PROVE  Depth(ts, i, j) \in Int
<1>1. CountIn(ts, Openers, i, j) \in Nat /\ CountIn(ts, {"End"}, i, j) \in Nat
  BY CountFinite
<1>2. QED
  BY <1>1 DEF Depth

LEMMA DepthSplit ==
    ASSUME NEW ts, NEW i \in Int, NEW m \in Int, NEW j \in Int, i <= m + 1, m <= j
    PROVE  Depth(ts, i, j) = Depth(ts, i, m) + Depth(ts, m + 1, j)
<1>1. PICK k : k = m + 1
  OBVIOUS
<1>2. k \in Int
  BY <1>1
<1>3. ASSUME NEW types
      PROVE  /\ CountIn(ts, types, i, j) = CountIn(ts, types, i, m) + CountIn(ts, types, k, j)
             /\ CountIn(ts, types, i, j) \in Nat /\ CountIn(ts, types, i, m) \in Nat
             /\ CountIn(ts, types, k, j) \in Nat
  <2>1. CountIn(ts, types, i, j) = CountIn(ts, types, i, m) + CountIn(ts, types, m + 1, j)
    BY CountSplit
  <2>2. CountIn(ts, types, i, j) \in Nat /\ CountIn(ts, types, i, m) \in Nat
        /\ CountIn(ts, types, k, j) \in Nat
    BY <1>2, CountFinite
  <2>3. QED
    BY <1>1, <2>1, <2>2
<1>4. QED
  BY <1>1, <1>3 DEF Depth

LEMMA DepthOne ==
    ASSUME NEW ts, NEW i \in Int
    PROVE  Depth(ts, i, i) = IF ts[i] \in Openers THEN 1 ELSE IF ts[i] = "End" THEN -1 ELSE 0
<1>1. "End" \notin Openers
  BY DEF Openers
<1>2. /\ CountIn(ts, Openers, i, i) = IF ts[i] \in Openers THEN 1 ELSE 0
      /\ CountIn(ts, {"End"}, i, i) = IF ts[i] \in {"End"} THEN 1 ELSE 0
  BY CountOne
<1>3. QED
  BY <1>1, <1>2 DEF Depth

\* One token more.
LEMMA DepthNext ==
    ASSUME NEW ts, NEW i \in Int, NEW n \in Int, i <= n + 1
    PROVE  Depth(ts, i, n + 1) = Depth(ts, i, n) +
               IF ts[n + 1] \in Openers THEN 1 ELSE IF ts[n + 1] = "End" THEN -1 ELSE 0
<1>1. PICK m : m = n + 1
  OBVIOUS
<1>2. m \in Int /\ n \in Int /\ n <= m
  BY <1>1
<1>3. Depth(ts, i, m) = Depth(ts, i, n) + Depth(ts, m, m)
  BY <1>1, <1>2, DepthSplit
<1>4. QED
  BY <1>1, <1>2, <1>3, DepthOne

LEMMA DepthSame ==
    ASSUME NEW us, NEW ts, Extends(us, ts), NEW i \in Int, 1 <= i, NEW j \in Int, j <= Len(ts)
    PROVE  Depth(us, i, j) = Depth(ts, i, j)
<1>1. \A p \in i .. j : us[p] = ts[p]
  BY DEF Extends
<1>2. \A types : CountIn(us, types, i, j) = CountIn(ts, types, i, j)
  BY <1>1, CountSame
<1>3. QED
  BY <1>2 DEF Depth

(***************************************************************************)
(* What is said of a position does not change when the text goes on.       *)
(***************************************************************************)
LEMMA OpenSame ==
    ASSUME NEW us, NEW ts, Extends(us, ts), NEW p \in Int, p <= Len(ts)
    PROVE  OpenAt(us, p) = OpenAt(ts, p)
<1>1. ASSUME NEW o \in 1 .. p
      PROVE  us[o] = ts[o] /\ \A q \in o .. p : Depth(us, o, q) = Depth(ts, o, q)
  <2>1. us[o] = ts[o]
    BY DEF Extends
  <2>2. ASSUME NEW q \in o .. p
        PROVE  Depth(us, o, q) = Depth(ts, o, q)
    <3>1. o \in Int /\ 1 <= o /\ q \in Int /\ q <= Len(ts)
      BY DEF Extends
    <3>2. QED
      BY <3>1, DepthSame
  <2>3. QED
    BY <2>1, <2>2
<1>2. QED
  BY <1>1 DEF OpenAt

LEMMA MatchSame ==
    ASSUME NEW us, NEW ts, Extends(us, ts), NEW p \in Int, p <= Len(ts) + 1
    PROVE  MatchIn(us, p) = MatchIn(ts, p)
<1>1. p - 1 \in Int /\ p - 1 <= Len(ts)
  BY DEF Extends
<1>2. OpenAt(us, p - 1) = OpenAt(ts, p - 1)
  BY <1>1, OpenSame
<1>3. QED
  BY <1>2 DEF MatchIn

LEMMA BranchesSame ==
    ASSUME NEW us, NEW ts, Extends(us, ts), NEW o \in Int, 1 <= o, NEW p \in Int, p <= Len(ts),
           NEW types
    PROVE  BranchesIn(us, types, o, p) = BranchesIn(ts, types, o, p)
<1>1. ASSUME NEW q \in o .. p
      PROVE  us[q] = ts[q] /\ Depth(us, o, q) = Depth(ts, o, q)
  <2>1. q \in Int /\ q <= Len(ts) /\ us[q] = ts[q]
    BY DEF Extends
  <2>2. QED
    BY <2>1, DepthSame
<1>2. QED
  BY <1>1 DEF BranchesIn

(***************************************************************************)
(* The innermost of a set of positions.                                    *)
(***************************************************************************)
LEMMA Greatest ==
    ASSUME NEW n \in Nat, NEW O, O \subseteq 0 .. n, O # {}
    PROVE  \E o \in O : \A q \in O : q <= o
<1>1. PICK T : T = {n - o : o \in O}
  OBVIOUS
<1>2. T \subseteq Nat /\ T # {}
  <2>1. \A o \in O : o \in 0 .. n
    OBVIOUS
  <2>2. \A o \in 0 .. n : n - o \in Nat
    OBVIOUS
  <2>3. QED
    BY <1>1, <2>1, <2>2
<1>3. PICK x \in T : \A y \in T : x <= y
  BY <1>2, LeastNatural
<1>4. PICK o \in O : x = n - o
  BY <1>1
<1>5. ASSUME NEW q \in O
      PROVE  q <= o
  <2>1. x <= n - q
    BY <1>1, <1>3
  <2>2. o \in 0 .. n /\ q \in 0 .. n
    OBVIOUS
  <2>3. QED
    BY <1>4, <2>1, <2>2
<1>6. QED
  BY <1>5

LEMMA InnermostIs ==
    ASSUME NEW n \in Nat, NEW O, O \subseteq 1 .. n, O # {}
    PROVE  /\ Innermost(O) \in O /\ \A q \in O : q <= Innermost(O)
           /\ \A o \in O : (\A q \in O : q <= o) => o = Innermost(O)
<1>1. \E o \in O : \A q \in O : q <= o
  <2>1. O \subseteq 0 .. n
    OBVIOUS
  <2>2. QED
    BY <2>1, Greatest
<1>2. Innermost(O) \in O /\ \A q \in O : q <= Innermost(O)
  BY <1>1 DEF Innermost
<1>3. ASSUME NEW o \in O, \A q \in O : q <= o
      PROVE  o = Innermost(O)
  <2>1. PICK m : m = Innermost(O)
    OBVIOUS
  <2>2. o <= m /\ m <= o /\ m \in O
    BY <1>2, <1>3, <2>1
  <2>3. o \in 1 .. n /\ m \in 1 .. n
    BY <2>2
  <2>4. QED
    BY <2>1, <2>2, <2>3
<1>4. QED
  BY <1>2, <1>3

LEMMA OpenType ==
    ASSUME NEW ts, NEW p, NEW o \in OpenAt(ts, p)
    PROVE  o \in 1 .. p /\ ts[o] \in Openers /\ \A q \in o .. p : Depth(ts, o, q) > 0
BY DEF OpenAt

\* Between an open construct and the end of the text only the innermost is open
\* once.
LEMMA InnermostDepth ==
    ASSUME NEW ts, NEW n \in Nat, NEW o \in OpenAt(ts, n)
    PROVE  Depth(ts, o, n) = 1 <=> o = Innermost(OpenAt(ts, n))
<1>1. o \in 1 .. n /\ o \in Int /\ ts[o] \in Openers /\ \A q \in o .. n : Depth(ts, o, q) > 0
  BY OpenType
<1>2. PICK O : O = OpenAt(ts, n)
  OBVIOUS
<1>3. O \subseteq 1 .. n /\ O # {}
  BY <1>2 DEF OpenAt
<1>4. /\ Innermost(O) \in O /\ \A q \in O : q <= Innermost(O)
      /\ \A m \in O : (\A q \in O : q <= m) => m = Innermost(O)
  BY <1>3, InnermostIs
<1>5. ASSUME Depth(ts, o, n) = 1
      PROVE  o = Innermost(O)
  <2>1. ASSUME NEW m \in O, m > o
        PROVE  FALSE
    <3>1. m \in 1 .. n /\ m \in Int /\ Depth(ts, m, n) > 0
      BY <1>2, OpenType
    <3>2. PICK k : k = m - 1
      OBVIOUS
    <3>3. k \in Int /\ k \in o .. n /\ o <= k + 1 /\ k <= n /\ k + 1 = m
      BY <1>1, <2>1, <3>1, <3>2
    <3>4. Depth(ts, o, n) = Depth(ts, o, k) + Depth(ts, k + 1, n)
      BY <1>1, <3>3, DepthSplit
    <3>5. Depth(ts, o, k) > 0 /\ Depth(ts, o, k) \in Int /\ Depth(ts, m, n) \in Int
      BY <1>1, <3>1, <3>3, DepthType
    <3>6. QED
      BY <1>5, <3>1, <3>3, <3>4, <3>5
  <2>2. \A q \in O : q <= o
    BY <1>1, <1>3, <2>1
  <2>3. QED
    BY <1>2, <1>4, <2>2
<1>6. ASSUME o = Innermost(O), Depth(ts, o, n) # 1
      PROVE  FALSE
  <2>1. PICK Q : Q = {q \in o .. n : Depth(ts, o, q) = 1}
    OBVIOUS
  <2>2. o \in Q
    <3>1. Depth(ts, o, o) = 1
      BY <1>1, DepthOne
    <3>2. QED
      BY <1>1, <2>1, <3>1
  <2>3. Q \subseteq 0 .. n /\ Q # {}
    BY <1>1, <2>1, <2>2
  <2>4. PICK k \in Q : \A q \in Q : q <= k
    BY <2>3, Greatest
  <2>5. k \in o .. n /\ k \in Int /\ Depth(ts, o, k) = 1 /\ k # n
    BY <1>1, <1>6, <2>1
  <2>6. PICK m : m = k + 1
    OBVIOUS
  <2>7. m \in Int /\ m \in 1 .. n /\ o <= m /\ m > o
    BY <1>1, <2>5, <2>6
  <2>8. ASSUME NEW r \in m .. n
        PROVE  Depth(ts, o, r) > 1 /\ Depth(ts, m, r) > 0
    <3>1. r \in o .. n /\ r \in Int /\ r > k /\ k <= r
      BY <1>1, <2>5, <2>6, <2>7
    <3>2. Depth(ts, o, r) > 0 /\ Depth(ts, o, r) \in Int /\ Depth(ts, m, r) \in Int
      BY <1>1, <2>7, <3>1, DepthType
    <3>3. Depth(ts, o, r) # 1
      BY <2>1, <2>4, <2>5, <3>1
    <3>4. Depth(ts, o, r) = Depth(ts, o, k) + Depth(ts, k + 1, r)
      BY <1>1, <2>5, <2>6, <2>7, <3>1, DepthSplit
    <3>5. QED
      BY <2>5, <2>6, <3>2, <3>3, <3>4
  <2>9. ts[m] \in Openers
    <3>1. Depth(ts, o, k + 1) = Depth(ts, o, k) +
            IF ts[k + 1] \in Openers THEN 1 ELSE IF ts[k + 1] = "End" THEN -1 ELSE 0
      BY <1>1, <2>5, <2>6, <2>7, DepthNext
    <3>2. Depth(ts, o, m) > 1
      BY <2>7, <2>8
    <3>3. QED
      BY <2>5, <2>6, <3>1, <3>2
  <2>10. m \in O
    BY <1>2, <2>7, <2>8, <2>9 DEF OpenAt
  <2>11. QED
    BY <1>1, <1>4, <1>6, <2>7, <2>10
<1>7. QED
  BY <1>2, <1>5, <1>6

(***************************************************************************)
(* One token more.                                                         *)
(***************************************************************************)
LEMMA AppendedDepth ==
    ASSUME NEW us, NEW ts, NEW t, Appended(us, ts, t), NEW o \in 1 .. Len(ts)
    PROVE  Depth(us, o, Len(us)) = Depth(ts, o, Len(ts)) +
               IF t \in Openers THEN 1 ELSE IF t = "End" THEN -1 ELSE 0
<1>1. PICK n : n = Len(ts)
  OBVIOUS
<1>2. /\ n \in Nat /\ n \in Int /\ Len(us) = n + 1 /\ us[n + 1] = t /\ Extends(us, ts)
      /\ o \in Int /\ 1 <= o /\ o <= n + 1 /\ n <= Len(ts)
  BY <1>1 DEF Appended
<1>3. Depth(us, o, n + 1) = Depth(us, o, n) +
          IF us[n + 1] \in Openers THEN 1 ELSE IF us[n + 1] = "End" THEN -1 ELSE 0
  BY <1>2, DepthNext
<1>4. Depth(us, o, n) = Depth(ts, o, n)
  BY <1>2, DepthSame
<1>5. QED
  BY <1>1, <1>2, <1>3, <1>4

\* What was open and still is.
LEMMA OpenStill ==
    ASSUME NEW us, NEW ts, NEW t, Appended(us, ts, t), NEW o \in 1 .. Len(ts)
    PROVE  o \in Open(us) <=> o \in Open(ts) /\ Depth(us, o, Len(us)) > 0
<1>1. PICK n, m : n = Len(ts) /\ m = n + 1
  OBVIOUS
<1>2. /\ n \in Nat /\ m \in Nat /\ Len(us) = m /\ Extends(us, ts) /\ o \in 1 .. m /\ o \in 1 .. n
      /\ us[o] = ts[o]
  BY <1>1 DEF Appended, Extends
<1>3. \A q \in o .. n : Depth(us, o, q) = Depth(ts, o, q)
  <2>1. ASSUME NEW q \in o .. n
        PROVE  Depth(us, o, q) = Depth(ts, o, q)
    <3>1. o \in Int /\ 1 <= o /\ q \in Int /\ q <= Len(ts)
      BY <1>1, <1>2
    <3>2. QED
      BY <1>2, <3>1, DepthSame
  <2>2. QED
    BY <2>1
<1>4. \A q : q \in o .. m <=> q \in o .. n \/ q = m
  BY <1>1, <1>2
<1>5. o \in OpenAt(us, m) <=> o \in OpenAt(ts, n) /\ Depth(us, o, m) > 0
  BY <1>2, <1>3, <1>4 DEF OpenAt
<1>6. QED
  BY <1>1, <1>2, <1>5 DEF Open

LEMMA OpenNew ==
    ASSUME NEW us, NEW ts, NEW t, Appended(us, ts, t)
    PROVE  /\ Len(us) \in Open(us) <=> t \in Openers
           /\ \A o \in Open(us) : o \in 1 .. Len(ts) \/ o = Len(us)
           /\ Open(ts) \subseteq 1 .. Len(ts)
           /\ Len(us) \notin Open(ts)
<1>1. PICK n, m : n = Len(ts) /\ m = n + 1
  OBVIOUS
<1>2. n \in Nat /\ m \in Nat /\ Len(us) = m /\ us[m] = t /\ m \in Int
  BY <1>1 DEF Appended
<1>3. m \in 1 .. m /\ \A q \in m .. m : q = m
  BY <1>1, <1>2
<1>4. Depth(us, m, m) = IF us[m] \in Openers THEN 1 ELSE IF us[m] = "End" THEN -1 ELSE 0
  BY <1>2, DepthOne
<1>5. m \in OpenAt(us, m) <=> t \in Openers
  BY <1>2, <1>3, <1>4 DEF OpenAt
<1>6. \A o \in OpenAt(us, m) : o \in 1 .. n \/ o = m
  BY <1>1, <1>2 DEF OpenAt
<1>7. OpenAt(ts, n) \subseteq 1 .. n /\ m \notin 1 .. n
  BY <1>1, <1>2 DEF OpenAt
<1>8. QED
  BY <1>1, <1>2, <1>5, <1>6, <1>7 DEF Open

\* A word that opens something.
LEMMA OpenOpener ==
    ASSUME NEW us, NEW ts, NEW t, Appended(us, ts, t), t \in Openers
    PROVE  Open(us) = Open(ts) \cup {Len(us)}
<1>1. ASSUME NEW o \in 1 .. Len(ts)
      PROVE  o \in Open(us) <=> o \in Open(ts)
  <2>1. Len(ts) \in Nat /\ Len(us) \in Nat /\ o \in Int
    BY DEF Appended
  <2>2. Depth(us, o, Len(us)) = Depth(ts, o, Len(ts)) + 1
    BY AppendedDepth
  <2>3. Depth(ts, o, Len(ts)) \in Int
    BY <2>1, DepthType
  <2>4. o \in Open(ts) => Depth(ts, o, Len(ts)) > 0
    <3>1. ASSUME o \in OpenAt(ts, Len(ts))
          PROVE  Depth(ts, o, Len(ts)) > 0
      BY <2>1, <3>1, OpenType
    <3>2. QED
      BY <3>1 DEF Open
  <2>5. o \in Open(ts) => Depth(us, o, Len(us)) > 0
    BY <2>2, <2>3, <2>4
  <2>6. QED
    BY <2>5, OpenStill
<1>2. /\ Len(us) \in Open(us) /\ Open(ts) \subseteq 1 .. Len(ts)
      /\ \A o \in Open(us) : o \in 1 .. Len(ts) \/ o = Len(us)
  BY OpenNew
<1>3. QED
  BY ONLY <1>1, <1>2

\* A word that neither opens nor closes.
LEMMA OpenPlain ==
    ASSUME NEW us, NEW ts, NEW t, Appended(us, ts, t), t \notin Openers, t # "End"
    PROVE  Open(us) = Open(ts)
<1>1. ASSUME NEW o \in 1 .. Len(ts)
      PROVE  o \in Open(us) <=> o \in Open(ts)
  <2>1. Len(ts) \in Nat /\ Len(us) \in Nat /\ o \in Int
    BY DEF Appended
  <2>2. Depth(us, o, Len(us)) = Depth(ts, o, Len(ts)) + 0
    BY AppendedDepth
  <2>3. Depth(ts, o, Len(ts)) \in Int
    BY <2>1, DepthType
  <2>4. ASSUME o \in Open(ts)
        PROVE  Depth(ts, o, Len(ts)) > 0
    BY <2>1, <2>4, OpenType DEF Open
  <2>5. o \in Open(ts) => Depth(us, o, Len(us)) > 0
    BY <2>2, <2>3, <2>4
  <2>6. QED
    BY <2>5, OpenStill
<1>2. /\ Len(us) \notin Open(us) /\ Open(ts) \subseteq 1 .. Len(ts)
      /\ \A o \in Open(us) : o \in 1 .. Len(ts) \/ o = Len(us)
  BY OpenNew
<1>3. QED
  BY ONLY <1>1, <1>2

\* An `end` closes the innermost.
LEMMA OpenEnd ==
    ASSUME NEW us, NEW ts, Appended(us, ts, "End")
    PROVE  Open(us) = Open(ts) \ {Innermost(Open(ts))}
<1>1. "End" \notin Openers
  BY DEF Openers
<1>2. ASSUME NEW o \in 1 .. Len(ts)
      PROVE  o \in Open(us) <=> o \in Open(ts) \ {Innermost(Open(ts))}
  <2>1. Len(ts) \in Nat /\ Len(us) \in Nat /\ o \in Int
    BY DEF Appended
  <2>2. Depth(us, o, Len(us)) = Depth(ts, o, Len(ts)) + (-1)
    BY <1>1, AppendedDepth
  <2>3. Depth(ts, o, Len(ts)) \in Int
    BY <2>1, DepthType
  <2>4. ASSUME o \in Open(ts)
        PROVE  /\ Depth(ts, o, Len(ts)) > 0
               /\ Depth(ts, o, Len(ts)) = 1 <=> o = Innermost(Open(ts))
    BY <2>1, <2>4, OpenType, InnermostDepth DEF Open
  <2>5. o \in Open(ts) => (Depth(us, o, Len(us)) > 0 <=> o # Innermost(Open(ts)))
    BY <2>2, <2>3, <2>4
  <2>6. QED
    BY <2>5, OpenStill
<1>3. QED
  BY <1>1, <1>2, OpenNew

(***************************************************************************)
(* Branches, and one token more.                                           *)
(***************************************************************************)
LEMMA HavingOther ==
    ASSUME NEW us, NEW ts, NEW t, Appended(us, ts, t), NEW S, t \notin S, NEW o \in 1 .. Len(ts)
    PROVE  BranchesIn(us, S, o, Len(us)) = BranchesIn(ts, S, o, Len(ts))
<1>1. PICK n, m : n = Len(ts) /\ m = n + 1
  OBVIOUS
<1>2. /\ n \in Nat /\ Len(us) = m /\ us[m] = t /\ Extends(us, ts) /\ o \in Int /\ 1 <= o
      /\ n \in Int /\ n <= Len(ts)
  BY <1>1 DEF Appended
<1>3. \A q : q \in o .. m <=> q \in o .. n \/ q = m
  BY <1>1, <1>2
<1>4. BranchesIn(us, S, o, m) = BranchesIn(us, S, o, n)
  BY <1>2, <1>3 DEF BranchesIn
<1>5. BranchesIn(us, S, o, n) = BranchesIn(ts, S, o, n)
  BY <1>2, BranchesSame
<1>6. QED
  BY <1>1, <1>2, <1>4, <1>5

LEMMA HavingKept ==
    ASSUME NEW us, NEW ts, NEW t, Appended(us, ts, t), NEW word, t # word, Open(us) = Open(ts)
    PROVE  Having(us, word) = Having(ts, word)
<1>1. ASSUME NEW o \in Open(ts)
      PROVE  BranchesIn(us, {word}, o, Len(us)) = BranchesIn(ts, {word}, o, Len(ts))
  <2>1. o \in 1 .. Len(ts)
    BY OpenNew
  <2>2. PICK S : S = {word}
    OBVIOUS
  <2>3. t \notin S
    BY <2>2
  <2>4. BranchesIn(us, S, o, Len(us)) = BranchesIn(ts, S, o, Len(ts))
    BY <2>1, <2>3, HavingOther
  <2>5. QED
    BY <2>2, <2>4
<1>2. QED
  BY <1>1 DEF Having

LEMMA HavingThis ==
    ASSUME NEW us, NEW ts, NEW t, Appended(us, ts, t), t \notin Openers, t # "End", NEW o \in Open(ts)
    PROVE  BranchesIn(us, {t}, o, Len(us)) # {} <=>
               BranchesIn(ts, {t}, o, Len(ts)) # {} \/ o = Innermost(Open(ts))
<1>1. PICK n, m : n = Len(ts) /\ m = n + 1
  OBVIOUS
<1>2. o \in OpenAt(ts, n) /\ o \in 1 .. n
  BY <1>1, OpenType DEF Open
<1>3. /\ n \in Nat /\ Len(us) = m /\ us[m] = t /\ Extends(us, ts) /\ o \in Int /\ 1 <= o
      /\ n \in Int /\ n <= Len(ts)
  BY <1>1, <1>2 DEF Appended
<1>4. \A q : q \in o .. m <=> q \in o .. n \/ q = m
  BY <1>1, <1>2, <1>3
<1>5. BranchesIn(us, {t}, o, m) = BranchesIn(us, {t}, o, n) \cup
          IF Depth(us, o, m) = 1 THEN {m} ELSE {}
  BY <1>3, <1>4 DEF BranchesIn
<1>6. BranchesIn(us, {t}, o, n) = BranchesIn(ts, {t}, o, n)
  BY <1>3, BranchesSame
<1>7. Depth(us, o, m) = Depth(ts, o, n)
  <2>1. Depth(us, o, Len(us)) = Depth(ts, o, Len(ts)) + 0
    BY <1>1, <1>2, AppendedDepth
  <2>2. Depth(ts, o, n) \in Int
    BY <1>3, DepthType
  <2>3. QED
    BY <1>1, <1>3, <2>1, <2>2
<1>8. Depth(ts, o, n) = 1 <=> o = Innermost(OpenAt(ts, n))
  BY <1>2, <1>3, InnermostDepth
<1>9. QED
  BY <1>1, <1>3, <1>5, <1>6, <1>7, <1>8 DEF Open

\* What has just been opened has no branch.
LEMMA HavingNone ==
    ASSUME NEW us, NEW ts, NEW t, Appended(us, ts, t), NEW word, t # word
    PROVE  BranchesIn(us, {word}, Len(us), Len(us)) = {}
<1>1. PICK m : m = Len(us)
  OBVIOUS
<1>2. us[m] = t /\ \A q \in m .. m : q = m
  BY <1>1 DEF Appended
<1>3. QED
  BY <1>1, <1>2 DEF BranchesIn

(***************************************************************************)
(* The text, by its open constructs and their branches.                    *)
(***************************************************************************)
Words == {"Else", "ElseIf"}

LEMMA TextPlain ==
    ASSUME NEW us, NEW ts, NEW t, Appended(us, ts, t), t \notin Openers \cup {"End"} \cup Words
    PROVE  /\ Open(us) = Open(ts)
           /\ \A w \in Words : Having(us, w) = Having(ts, w)
           /\ ~Chained(us)
<1>1. Open(us) = Open(ts)
  BY OpenPlain
<1>2. ASSUME NEW w \in Words
      PROVE  Having(us, w) = Having(ts, w)
  <2>1. t # w
    OBVIOUS
  <2>2. QED
    BY <1>1, <2>1, HavingKept
<1>3. ~Chained(us)
  BY DEF Chained, Appended
<1>4. QED
  BY <1>1, <1>2, <1>3

LEMMA TextOpener ==
    ASSUME NEW us, NEW ts, NEW t, Appended(us, ts, t), t \in Openers
    PROVE  /\ Open(us) = Open(ts) \cup {Len(us)}
           /\ \A w \in Words : Having(us, w) = Having(ts, w)
           /\ ~Chained(us)
<1>1. Open(us) = Open(ts) \cup {Len(us)} /\ Len(us) \notin Open(ts)
  BY OpenOpener, OpenNew
<1>2. t \notin Words /\ t # "End"
  BY DEF Openers, Words
<1>3. ASSUME NEW w \in Words
      PROVE  Having(us, w) = Having(ts, w)
  <2>1. t # w /\ t \notin {w} /\ Open(ts) \subseteq 1 .. Len(ts)
    BY <1>2, OpenNew
  <2>2. ASSUME NEW o \in Open(ts)
        PROVE  BranchesIn(us, {w}, o, Len(us)) = BranchesIn(ts, {w}, o, Len(ts))
    <3>1. o \in 1 .. Len(ts)
      BY <2>1
    <3>2. PICK S : S = {w}
      OBVIOUS
    <3>3. t \notin S
      BY <2>1, <3>2
    <3>4. BranchesIn(us, S, o, Len(us)) = BranchesIn(ts, S, o, Len(ts))
      BY <3>1, <3>3, HavingOther
    <3>5. QED
      BY ONLY <3>2, <3>4
  <2>3. BranchesIn(us, {w}, Len(us), Len(us)) = {}
    BY <2>1, HavingNone
  <2>4. QED
    BY <1>1, <2>2, <2>3 DEF Having
<1>4. ~Chained(us)
  BY <1>2 DEF Chained, Appended
<1>5. QED
  BY <1>1, <1>3, <1>4

LEMMA TextBranch ==
    ASSUME NEW us, NEW ts, NEW t \in Words, Appended(us, ts, t), Open(ts) # {}
    PROVE  /\ Open(us) = Open(ts)
           /\ Having(us, t) = Having(ts, t) \cup {Innermost(Open(ts))}
           /\ \A w \in Words \ {t} : Having(us, w) = Having(ts, w)
           /\ ~Chained(us)
<1>1. t \notin Openers /\ t # "End"
  BY DEF Words, Openers
<1>2. Open(us) = Open(ts)
  BY <1>1, OpenPlain
<1>3. Innermost(Open(ts)) \in Open(ts)
  <2>1. Len(ts) \in Nat /\ Open(ts) \subseteq 1 .. Len(ts)
    BY OpenNew DEF Appended
  <2>2. QED
    BY <2>1, InnermostIs
<1>4. \A o \in Open(ts) : BranchesIn(us, {t}, o, Len(us)) # {} <=>
                              BranchesIn(ts, {t}, o, Len(ts)) # {} \/ o = Innermost(Open(ts))
  BY <1>1, HavingThis
<1>5. Having(us, t) = Having(ts, t) \cup {Innermost(Open(ts))}
  BY <1>2, <1>3, <1>4 DEF Having
<1>6. ASSUME NEW w \in Words \ {t}
      PROVE  Having(us, w) = Having(ts, w)
  BY <1>2, HavingKept
<1>7. ~Chained(us)
  BY <1>1 DEF Chained, Appended
<1>8. QED
  BY <1>2, <1>5, <1>6, <1>7

LEMMA TextEnd ==
    ASSUME NEW us, NEW ts, Appended(us, ts, "End")
    PROVE  /\ Open(us) = Open(ts) \ {Innermost(Open(ts))}
           /\ \A w \in Words : Having(us, w) = Having(ts, w) \cap Open(us)
           /\ MatchIn(us, Len(us)) = IF Open(ts) = {} THEN 0 ELSE Innermost(Open(ts))
           /\ Chained(us) <=> Open(ts) # {} /\ Innermost(Open(ts)) \in Having(ts, "ElseIf")
<1>1. Open(us) = Open(ts) \ {Innermost(Open(ts))}
  BY OpenEnd
<1>2. ASSUME NEW w \in Words
      PROVE  Having(us, w) = Having(ts, w) \cap Open(us)
  <2>1. w # "End" /\ "End" \notin {w} /\ Open(ts) \subseteq 1 .. Len(ts)
    BY OpenNew DEF Words
  <2>2. ASSUME NEW o \in Open(ts)
        PROVE  BranchesIn(us, {w}, o, Len(us)) = BranchesIn(ts, {w}, o, Len(ts))
    <3>1. o \in 1 .. Len(ts)
      BY <2>1
    <3>2. PICK S : S = {w}
      OBVIOUS
    <3>3. BranchesIn(us, S, o, Len(us)) = BranchesIn(ts, S, o, Len(ts))
      BY <2>1, <3>1, <3>2, HavingOther
    <3>4. QED
      BY <3>2, <3>3
  <2>3. QED
    BY <1>1, <2>2 DEF Having
<1>3. PICK n, m : n = Len(ts) /\ m = n + 1
  OBVIOUS
<1>4. n \in Nat /\ Len(us) = m /\ m # 0 /\ us[m] = "End" /\ Extends(us, ts) /\ m - 1 = n
  BY <1>3 DEF Appended
<1>5. OpenAt(us, m - 1) = Open(ts)
  <2>1. OpenAt(us, n) = OpenAt(ts, n)
    BY <1>3, <1>4, OpenSame
  <2>2. QED
    BY <1>3, <1>4, <2>1 DEF Open
<1>6. MatchIn(us, m) = IF Open(ts) = {} THEN 0 ELSE Innermost(Open(ts))
  BY <1>5 DEF MatchIn
<1>7. Chained(us) <=> Open(ts) # {} /\ Innermost(Open(ts)) \in Having(ts, "ElseIf")
  <2>1. CASE Open(ts) = {}
    BY <1>4, <1>6, <2>1 DEF Chained
  <2>2. CASE Open(ts) # {}
    <3>1. PICK o : o = Innermost(Open(ts))
      OBVIOUS
    <3>2. o \in Open(ts) /\ Open(ts) \subseteq 1 .. n /\ o \in 1 .. n /\ o # 0
      <4>1. Open(ts) \subseteq 1 .. n
        BY <1>3, OpenNew
      <4>2. o \in Open(ts)
        BY <1>4, <2>2, <3>1, <4>1, InnermostIs
      <4>3. QED
        BY <4>1, <4>2
    <3>3. BranchesIn(us, {"ElseIf"}, o, m) = BranchesIn(ts, {"ElseIf"}, o, n)
      <4>1. o \in 1 .. Len(ts) /\ "End" \notin {"ElseIf"}
        BY <1>3, <3>2
      <4>2. BranchesIn(us, {"ElseIf"}, o, Len(us)) = BranchesIn(ts, {"ElseIf"}, o, Len(ts))
        BY <4>1, HavingOther
      <4>3. QED
        BY <1>3, <1>4, <4>2
    <3>4. QED
      BY <1>3, <1>4, <1>6, <2>2, <3>1, <3>2, <3>3 DEF Chained, Having
  <2>3. QED
    BY <2>1, <2>2
<1>8. QED
  BY <1>1, <1>2, <1>3, <1>4, <1>6, <1>7

\* Which ends are taken.
LEMMA TakenNext ==
    ASSUME NEW us, NEW ts, NEW t, Appended(us, ts, t)
    PROVE  TakenIn(us) = TakenIn(ts) \cup IF t = "End" /\ Chained(ts) THEN {Len(us)} ELSE {}
<1>1. PICK n, m : n = Len(ts) /\ m = n + 1
  OBVIOUS
<1>2. n \in Nat /\ m \in Nat /\ Len(us) = m /\ us[m] = t /\ Extends(us, ts) /\ m - 1 = n
      /\ m \notin 1 .. n /\ m \in 1 .. m
  BY <1>1 DEF Appended
<1>3. ASSUME NEW p \in 1 .. n
      PROVE  /\ us[p] = ts[p]
             /\ MatchIn(us, p) = MatchIn(ts, p)
             /\ MatchIn(us, p) # 0 =>
                    BranchesIn(us, {"ElseIf"}, MatchIn(us, p), p)
                        = BranchesIn(ts, {"ElseIf"}, MatchIn(us, p), p)
  <2>1. p \in Int /\ p <= Len(ts) /\ p <= Len(ts) + 1 /\ p - 1 \in Nat
    BY <1>1, <1>2
  <2>2. us[p] = ts[p]
    BY <1>1, <1>2 DEF Extends
  <2>3. MatchIn(us, p) = MatchIn(ts, p)
    BY <1>2, <2>1, MatchSame
  <2>4. ASSUME MatchIn(us, p) # 0
        PROVE  BranchesIn(us, {"ElseIf"}, MatchIn(us, p), p)
                   = BranchesIn(ts, {"ElseIf"}, MatchIn(us, p), p)
    <3>1. PICK k, o : k = p - 1 /\ o = MatchIn(us, p)
      OBVIOUS
    <3>2. OpenAt(us, k) # {} /\ o = Innermost(OpenAt(us, k)) /\ k \in Nat
      BY <2>1, <2>4, <3>1 DEF MatchIn
    <3>3. OpenAt(us, k) \subseteq 1 .. k
      BY DEF OpenAt
    <3>4. o \in 1 .. k
      BY <3>2, <3>3, InnermostIs
    <3>5. o \in Int /\ 1 <= o
      BY <3>2, <3>4
    <3>6. BranchesIn(us, {"ElseIf"}, o, p) = BranchesIn(ts, {"ElseIf"}, o, p)
      BY <1>2, <2>1, <3>5, BranchesSame
    <3>7. QED
      BY <3>1, <3>6
  <2>5. QED
    BY <2>2, <2>3, <2>4
<1>4. \A p : p \in 1 .. m <=> p \in 1 .. n \/ p = m
  BY <1>1, <1>2
<1>5. \A p \in 1 .. n : p - 1 \in 1 .. m <=> p - 1 \in 1 .. n
  BY <1>1, <1>2
<1>6. \A p \in 1 .. n : p \in TakenIn(us) <=> p \in TakenIn(ts)
  BY <1>1, <1>2, <1>3, <1>4, <1>5 DEF TakenIn
<1>7. m \in TakenIn(us) <=> t = "End" /\ Chained(ts)
  <2>1. n \in 1 .. m <=> n \in 1 .. n
    BY <1>1, <1>2
  <2>2. n # 0 <=> n \in 1 .. n
    BY <1>2
  <2>3. QED
    BY <1>1, <1>2, <1>3, <2>1, <2>2 DEF TakenIn, Chained
<1>8. QED
  BY <1>1, <1>2, <1>4, <1>6, <1>7 DEF TakenIn

(***************************************************************************)
(* Items of a list that wait, by the first.                                *)
(***************************************************************************)
LEMMA FramesAre ==
    ASSUME NEW L \in Seq(Items)
    PROVE  /\ Len(L) \in Nat /\ DOMAIN L = 1 .. Len(L)
           /\ \A x : x \in Frames(L) <=> \E i \in 1 .. Len(L) : L[i].do \in Closers /\ x = FrameOf(L, i)
<1>1. Len(L) \in Nat /\ DOMAIN L = 1 .. Len(L)
  BY LenProperties
<1>2. QED
  BY <1>1 DEF Frames

LEMMA FrameIs ==
    ASSUME NEW L, NEW i
    PROVE  /\ FrameOf(L, i).d = Len(L) - i
           /\ FrameOf(L, i).do = L[i].do /\ FrameOf(L, i).of = L[i].of
           /\ FrameOf(L, i) = [d |-> Len(L) - i, do |-> L[i].do, of |-> L[i].of]
BY DEF FrameOf

LEMMA FramesCons ==
    ASSUME NEW a \in Items, NEW R \in Seq(Items)
    PROVE  Frames(Cons(a, R)) = Frames(R) \cup
               IF a.do \in Closers THEN {[d |-> Len(R), do |-> a.do, of |-> a.of]} ELSE {}
<1>1. PICK L, n : L = Cons(a, R) /\ n = Len(R)
  OBVIOUS
<1>2. /\ L \in Seq(Items) /\ Len(L) = n + 1 /\ L[1] = a /\ \A i \in 1 .. n : L[i + 1] = R[i]
  <2>1. /\ Cons(a, R) \in Seq(Items) /\ Len(Cons(a, R)) = Len(R) + 1 /\ Cons(a, R)[1] = a
        /\ \A i \in 1 .. Len(R) : Cons(a, R)[i + 1] = R[i]
    BY ConsIs
  <2>2. QED
    BY ONLY <1>1, <2>1
<1>3. n \in Nat
  BY <1>1, LenProperties
<1>4. FrameOf(L, 1) = [d |-> n, do |-> a.do, of |-> a.of]
  <2>1. (n + 1) - 1 = n
    BY <1>3
  <2>2. QED
    BY <1>2, <2>1 DEF FrameOf
<1>5. ASSUME NEW i \in 1 .. n
      PROVE  FrameOf(L, i + 1) = FrameOf(R, i) /\ L[i + 1].do = R[i].do
  <2>1. (n + 1) - (i + 1) = n - i
    BY <1>3
  <2>2. L[i + 1] = R[i]
    BY <1>2
  <2>3. QED
    BY <1>1, <1>2, <2>1, <2>2 DEF FrameOf
<1>6. ASSUME NEW x
      PROVE  x \in Frames(L) <=> x \in Frames(R) \/ (a.do \in Closers /\ x = FrameOf(L, 1))
  <2>1. x \in Frames(L) <=> \E i \in 1 .. n + 1 : L[i].do \in Closers /\ x = FrameOf(L, i)
    BY <1>2, FramesAre
  <2>2. x \in Frames(R) <=> \E i \in 1 .. n : R[i].do \in Closers /\ x = FrameOf(R, i)
    BY <1>1, FramesAre
  <2>3. ASSUME x \in Frames(R)
        PROVE  x \in Frames(L)
    <3>1. PICK i \in 1 .. n : R[i].do \in Closers /\ x = FrameOf(R, i)
      BY <2>2, <2>3
    <3>2. i + 1 \in 1 .. n + 1
      BY <1>3
    <3>3. QED
      BY <1>5, <2>1, <3>1, <3>2
  <2>4. ASSUME a.do \in Closers, x = FrameOf(L, 1)
        PROVE  x \in Frames(L)
    <3>1. 1 \in 1 .. n + 1
      BY <1>3
    <3>2. QED
      BY <1>2, <2>1, <2>4, <3>1
  <2>5. ASSUME x \in Frames(L)
        PROVE  x \in Frames(R) \/ (a.do \in Closers /\ x = FrameOf(L, 1))
    <3>1. PICK i \in 1 .. n + 1 : L[i].do \in Closers /\ x = FrameOf(L, i)
      BY <2>1, <2>5
    <3>2. CASE i = 1
      BY <1>2, <3>1, <3>2
    <3>3. CASE i # 1
      <4>1. PICK k : k = i - 1
        OBVIOUS
      <4>2. k \in 1 .. n /\ k + 1 = i
        BY <1>3, <3>3, <4>1
      <4>3. QED
        BY <1>5, <2>2, <3>1, <4>2
    <3>4. QED
      BY <3>2, <3>3
  <2>6. QED
    BY <2>3, <2>4, <2>5
<1>7. QED
  BY <1>1, <1>4, <1>6

LEMMA FramesIn ==
    ASSUME NEW L \in Seq(Items), NEW x \in Frames(L)
    PROVE  /\ x.d \in Nat /\ x.d < Len(L) /\ x.do \in Closers
           /\ x = [d |-> x.d, do |-> x.do, of |-> x.of]
           /\ x.d = Len(L) - 1 => /\ Head(L).do = x.do /\ Head(L).of = x.of
                                  /\ Head(L).do \in Closers
<1>1. Len(L) \in Nat
  BY FramesAre
<1>2. PICK i \in 1 .. Len(L) : L[i].do \in Closers /\ x = FrameOf(L, i)
  BY FramesAre
<1>3. x.d = Len(L) - i /\ x.do = L[i].do /\ x.of = L[i].of
      /\ x = [d |-> x.d, do |-> x.do, of |-> x.of]
  BY <1>2 DEF FrameOf
<1>4. x.d \in Nat /\ x.d < Len(L)
  BY <1>1, <1>3
<1>5. ASSUME x.d = Len(L) - 1
      PROVE  Head(L) = L[i]
  <2>1. i = 1 /\ L # << >>
    BY <1>1, <1>3, <1>5
  <2>2. QED
    BY <2>1
<1>6. QED
  BY <1>2, <1>3, <1>4, <1>5

LEMMA FramesOne ==
    ASSUME NEW L \in Seq(Items), NEW x \in Frames(L), NEW y \in Frames(L), x.d = y.d
    PROVE  x = y
<1>1. Len(L) \in Nat
  BY FramesAre
<1>2. PICK i \in 1 .. Len(L) : x = FrameOf(L, i)
  BY FramesAre
<1>3. PICK j \in 1 .. Len(L) : y = FrameOf(L, j)
  BY FramesAre
<1>4. Len(L) - i = Len(L) - j
  <2>1. x.d = Len(L) - i
    BY <1>2, FrameIs
  <2>2. y.d = Len(L) - j
    BY <1>3, FrameIs
  <2>3. QED
    BY <2>1, <2>2
<1>5. i = j
  BY <1>1, <1>4
<1>6. QED
  BY <1>2, <1>3, <1>5

\* A list by its first item: the frames behind it, and what holds of its own.
LEMMA FramesFirst ==
    ASSUME NEW a \in Items, NEW R \in Seq(Items)
    PROVE  /\ \A x \in Frames(R) : x.d \in Nat /\ x.d < Len(R)
           /\ a.do \notin Closers => Frames(Cons(a, R)) = Frames(R)
           /\ a.do \in Closers =>
                \E h : /\ h = [d |-> Len(R), do |-> a.do, of |-> a.of]
                       /\ h.d = Len(R) /\ h.do = a.do /\ h.of = a.of
                       /\ h \notin Frames(R)
                       /\ Frames(Cons(a, R)) = Frames(R) \cup {h}
<1>1. \A x \in Frames(R) : x.d \in Nat /\ x.d < Len(R)
  BY FramesIn
<1>2. a.do \notin Closers => Frames(Cons(a, R)) = Frames(R)
  BY FramesCons
<1>3. ASSUME a.do \in Closers
      PROVE  \E h : /\ h = [d |-> Len(R), do |-> a.do, of |-> a.of]
                    /\ h.d = Len(R) /\ h.do = a.do /\ h.of = a.of
                    /\ h \notin Frames(R)
                    /\ Frames(Cons(a, R)) = Frames(R) \cup {h}
  <2>1. PICK h : h = [d |-> Len(R), do |-> a.do, of |-> a.of]
    OBVIOUS
  <2>2. h.d = Len(R) /\ h.do = a.do /\ h.of = a.of
    BY <2>1
  <2>3. Len(R) \in Nat
    BY LenProperties
  <2>4. h \notin Frames(R)
    BY <1>1, <2>2, <2>3
  <2>5. Frames(Cons(a, R)) = Frames(R) \cup {h}
    BY <1>3, <2>1, FramesCons
  <2>6. QED
    BY <2>1, <2>2, <2>4, <2>5
<1>4. QED
  BY <1>1, <1>2, <1>3

(***************************************************************************)
(* What follows what, by the first.                                        *)
(***************************************************************************)
Stands(a) == a.do = "token" => a.type \notin {"End", "Function"}

LEMMA JointCons ==
    ASSUME NEW a \in Items, NEW R \in Seq(Items), Joint(R), a.do # "program", Stands(a),
           Fits(a, Head(R))
    PROVE  Cons(a, R) \in Seq(Items) /\ Joint(Cons(a, R)) /\ Head(Cons(a, R)) = a
<1>1. PICK L, n : L = Cons(a, R) /\ n = Len(R)
  OBVIOUS
<1>2. /\ L \in Seq(Items) /\ L # << >> /\ Len(L) = n + 1 /\ L[1] = a /\ Head(L) = a
      /\ \A i \in 1 .. n : L[i + 1] = R[i]
  <2>1. /\ Cons(a, R) \in Seq(Items) /\ Cons(a, R) # << >> /\ Len(Cons(a, R)) = Len(R) + 1
        /\ Cons(a, R)[1] = a /\ Head(Cons(a, R)) = a
        /\ \A i \in 1 .. Len(R) : Cons(a, R)[i + 1] = R[i]
    BY ConsIs
  <2>2. QED
    BY ONLY <1>1, <2>1
<1>3. n \in Nat /\ n # 0 /\ DOMAIN R = 1 .. n /\ Head(R) = R[1] /\ DOMAIN L = 1 .. n + 1
  <2>1. R # << >>
    BY DEF Joint
  <2>2. n \in Nat /\ DOMAIN R = 1 .. n /\ DOMAIN L = 1 .. n + 1
    BY <1>1, <1>2, LenProperties
  <2>3. QED
    BY <1>1, <2>1, <2>2, EmptySeq
<1>4. Follows(L, 1)
  <2>1. L[2] = R[1]
    <3>1. 1 \in 1 .. n /\ 1 + 1 = 2
      BY <1>3
    <3>2. QED
      BY <1>2, <3>1
  <2>2. 1 # n + 1
    BY <1>3
  <2>3. QED
    BY <1>2, <1>3, <2>1, <2>2 DEF Follows, Stands
<1>5. ASSUME NEW i \in 1 .. n
      PROVE  Follows(L, i + 1)
  <2>1. Follows(R, i)
    BY <1>3 DEF Joint
  <2>2. L[i + 1] = R[i]
    BY <1>2
  <2>3. i + 1 = n + 1 <=> i = n
    BY <1>3
  <2>4. ASSUME i + 1 < n + 1
        PROVE  i < n /\ L[(i + 1) + 1] = R[i + 1]
    <3>1. i < n /\ i + 1 \in 1 .. n
      BY <1>3, <2>4
    <3>2. QED
      BY <1>2, <3>1
  <2>5. QED
    BY <1>1, <1>2, <2>1, <2>2, <2>3, <2>4 DEF Follows
<1>6. ASSUME NEW k \in DOMAIN L
      PROVE  Follows(L, k)
  <2>1. k \in 1 .. n + 1
    BY <1>3
  <2>2. k = 1 \/ (k - 1 \in 1 .. n /\ (k - 1) + 1 = k)
    BY <1>3, <2>1
  <2>3. CASE k = 1
    BY <1>4, <2>3
  <2>4. CASE k - 1 \in 1 .. n /\ (k - 1) + 1 = k
    <3>1. PICK i : i = k - 1
      OBVIOUS
    <3>2. i \in 1 .. n /\ i + 1 = k
      BY <2>4, <3>1
    <3>3. Follows(L, i + 1)
      BY <1>5, <3>2
    <3>4. QED
      BY <3>2, <3>3
  <2>5. QED
    BY <2>2, <2>3, <2>4
<1>7. QED
  BY <1>1, <1>2, <1>6 DEF Joint

LEMMA JointTail ==
    ASSUME NEW L \in Seq(Items), Joint(L)
    PROVE  /\ L # << >> /\ Head(L) \in Items /\ Tail(L) \in Seq(Items) /\ L = Cons(Head(L), Tail(L))
           /\ Stands(Head(L))
           /\ Head(L).do # "program" => Joint(Tail(L)) /\ Fits(Head(L), Head(Tail(L)))
           /\ Head(L).do = "program" => Frames(L) = {}
<1>1. PICK n, a, R : n = Len(L) /\ a = Head(L) /\ R = Tail(L)
  OBVIOUS
<1>2. L # << >>
  BY DEF Joint
<1>3. a \in Items /\ R \in Seq(Items) /\ L = Cons(a, R)
  BY <1>1, <1>2, ConsOf
<1>4. /\ n = Len(R) + 1 /\ L[1] = a /\ \A i \in 1 .. Len(R) : L[i + 1] = R[i]
  <2>1. /\ Len(Cons(a, R)) = Len(R) + 1 /\ Cons(a, R)[1] = a
        /\ \A i \in 1 .. Len(R) : Cons(a, R)[i + 1] = R[i]
    BY <1>3, ConsIs
  <2>2. QED
    BY ONLY <1>1, <1>3, <2>1
<1>5. Len(R) \in Nat /\ DOMAIN L = 1 .. n /\ n \in Nat /\ 1 \in DOMAIN L /\ DOMAIN R = 1 .. Len(R)
  <2>1. Len(R) \in Nat /\ DOMAIN L = 1 .. n /\ DOMAIN R = 1 .. Len(R)
    BY <1>1, <1>3, LenProperties
  <2>2. QED
    BY <1>4, <2>1
<1>6. Follows(L, 1)
  BY <1>5 DEF Joint
<1>7. Stands(a)
  BY <1>4, <1>6 DEF Follows, Stands
<1>8. ASSUME a.do # "program"
      PROVE  Joint(R) /\ Fits(a, Head(R))
  <2>1. n # 1
    BY <1>1, <1>4, <1>6, <1>8 DEF Follows
  <2>2. Len(R) # 0 /\ 1 < n /\ 1 \in 1 .. Len(R) /\ 1 + 1 = 2
    BY <1>4, <1>5, <2>1
  <2>3. R # << >>
    BY <2>2
  <2>4. Head(R) = R[1]
    BY <1>3, <2>3
  <2>5. Fits(a, Head(R))
    BY <1>1, <1>4, <1>6, <2>2, <2>4 DEF Follows
  <2>6. ASSUME NEW i \in DOMAIN R
        PROVE  Follows(R, i)
    <3>1. i \in 1 .. Len(R) /\ i + 1 \in 1 .. n
      BY <1>4, <1>5
    <3>2. Follows(L, i + 1) /\ L[i + 1] = R[i]
      BY <1>4, <1>5, <3>1 DEF Joint
    <3>3. i + 1 = n <=> i = Len(R)
      BY <1>4, <1>5, <3>1
    <3>4. ASSUME i < Len(R)
          PROVE  i + 1 < n /\ L[(i + 1) + 1] = R[i + 1]
      <4>1. i + 1 < n /\ i + 1 \in 1 .. Len(R)
        BY <1>4, <1>5, <3>1, <3>4
      <4>2. QED
        BY <1>4, <4>1
    <3>5. QED
      BY <1>1, <3>2, <3>3, <3>4 DEF Follows
  <2>7. QED
    BY <2>3, <2>5, <2>6 DEF Joint
<1>9. ASSUME a.do = "program"
      PROVE  Frames(L) = {}
  <2>1. n = 1
    BY <1>1, <1>4, <1>6, <1>9 DEF Follows
  <2>2. \A i \in 1 .. n : L[i].do \notin Closers
    BY <1>4, <1>9, <2>1 DEF Closers
  <2>3. QED
    BY <1>1, <2>2, FramesAre
<1>10. QED
  BY <1>1, <1>2, <1>3, <1>7, <1>8, <1>9

-----------------------------------------------------------------------------
(***************************************************************************)
(* Frames more or less.                                                    *)
(***************************************************************************)
LEMMA TwiceSame ==
    ASSUME NEW G, NEW h, NEW o, h.do # "endif" \/ h.of # o
    PROVE  Twice(G \cup {h}, o) <=> Twice(G, o)
BY DEF Twice

LEMMA TailedSame ==
    ASSUME NEW G, NEW h, NEW o, h.do # "iftail" \/ h.of # o
    PROVE  Tailed(G \cup {h}, o) <=> Tailed(G, o)
BY DEF Tailed

LEMMA KindSame ==
    ASSUME NEW us, NEW ts, Extends(us, ts), NEW F, Kind(ts, F)
    PROVE  Kind(us, F)
<1>1. ASSUME NEW x \in F
      PROVE  x.of \in 1 .. Len(us) /\ us[x.of] = ts[x.of]
  <2>1. x.of \in 1 .. Len(ts)
    BY DEF Kind
  <2>2. QED
    BY <2>1 DEF Extends
<1>2. QED
  BY <1>1 DEF Kind

\* What waits first waits for the innermost that is open.
LEMMA TopInnermost ==
    ASSUME NEW ts, Len(ts) \in Nat, NEW G, NEW h, Kind(ts, G \cup {h}), Nested(G \cup {h}),
           Held(ts, G \cup {h}), \A x \in G : x.d < h.d
    PROVE  /\ \A x \in G : x.of = h.of \/ x.of < h.of
           /\ h.of \in Open(ts) => h.of = Innermost(Open(ts))
<1>1. \A x \in G : x.of \in Int /\ h.of \in Int
  BY DEF Kind
<1>2. \A x \in G : x.of = h.of \/ x.of < h.of
  BY <1>1 DEF Nested
<1>3. ASSUME h.of \in Open(ts)
      PROVE  h.of = Innermost(Open(ts))
  <2>1. Open(ts) \subseteq 1 .. Len(ts)
    BY DEF Open, OpenAt
  <2>2. ASSUME NEW o \in Open(ts)
        PROVE  o <= h.of
    <3>1. PICK x \in G \cup {h} : x.of = o
      BY DEF Held
    <3>2. o \in Int /\ h.of \in Int
      BY <1>3, <2>1
    <3>3. QED
      BY <1>2, <3>1, <3>2
  <2>3. QED
    BY <1>3, <2>1, <2>2, InnermostIs
<1>4. QED
  BY <1>2, <1>3

\* Before an item that waits for nothing, everything that waits is open.
LEMMA AllOpen ==
    ASSUME NEW ts, NEW F, NEW a, NEW l, Waits(ts, F, a, l), a.do # "endif"
    PROVE  /\ \A x \in F : x.of \in Open(ts)
           /\ Chained(ts) => l # "End"
           /\ \A o \in Open(ts) : ts[o] = "If" /\ o \notin Having(ts, "Else") => Tailed(F, o)
BY DEF Waits, Spent, Branched

(***************************************************************************)
(* Steps that neither open nor close nor branch.                           *)
(***************************************************************************)
LEMMA WaitsQuiet ==
    ASSUME NEW ts, NEW F, NEW a, NEW l, Waits(ts, F, a, l), a.do \notin Closers,
           NEW us, NEW t, NEW b, NEW m, b.do \notin Closers,
           \/ us = ts /\ (m = l \/ ~Chained(ts))
           \/ Appended(us, ts, t) /\ t \notin Openers \cup {"End"} \cup Words
    PROVE  Waits(us, F, b, m)
<1>1. a.do \notin {"endif", "iftail"} /\ b.do \notin {"endif", "iftail"}
  BY DEF Closers
<1>2. /\ \A x \in F : x.of \in Open(ts)
      /\ Chained(ts) => l # "End"
      /\ \A o \in Open(ts) : ts[o] = "If" /\ o \notin Having(ts, "Else") => Tailed(F, o)
  BY <1>1, AllOpen
<1>3. CASE us = ts /\ (m = l \/ ~Chained(ts))
  <2>1. Spent(us, F, b, m) /\ Ahead(us, b, m) /\ Branched(us, F, b)
    BY <1>1, <1>2, <1>3 DEF Spent, Ahead, Branched, Waits
  <2>2. QED
    BY <1>3, <2>1 DEF Waits
<1>4. CASE Appended(us, ts, t) /\ t \notin Openers \cup {"End"} \cup Words
  <2>1. /\ Open(us) = Open(ts) /\ ~Chained(us)
        /\ Having(us, "Else") = Having(ts, "Else") /\ Having(us, "ElseIf") = Having(ts, "ElseIf")
    BY <1>4, TextPlain DEF Words
  <2>2. Extends(us, ts) /\ \A o \in Open(ts) : us[o] = ts[o]
    BY <1>4, OpenNew DEF Appended, Extends
  <2>3. Kind(us, F)
    BY <2>2, KindSame DEF Waits
  <2>4. Spent(us, F, b, m) /\ Ahead(us, b, m)
    BY <1>1, <1>2, <2>1 DEF Spent, Ahead
  <2>5. Branched(us, F, b)
    BY <1>2, <2>1, <2>2 DEF Branched, Waits
  <2>6. QED
    BY <2>1, <2>3, <2>4, <2>5 DEF Waits, Held
<1>5. QED
  BY <1>3, <1>4

\* A block ends in front of the item that waits.
LEMMA WaitsBlock ==
    ASSUME NEW ts, NEW F, NEW a, NEW l, Waits(ts, F, a, l), a.do \notin Closers,
           NEW b, b.do = "iftail" => l \in IF_TERMINATORS, b.do = "endif" => l = "End"
    PROVE  Waits(ts, F, b, l)
<1>1. a.do # "endif"
  BY DEF Closers
<1>2. /\ \A x \in F : x.of \in Open(ts)
      /\ Chained(ts) => l # "End"
      /\ \A o \in Open(ts) : ts[o] = "If" /\ o \notin Having(ts, "Else") => Tailed(F, o)
  BY <1>1, AllOpen
<1>3. Spent(ts, F, b, l) /\ Ahead(ts, b, l) /\ Branched(ts, F, b)
  BY <1>2 DEF Spent, Ahead, Branched, Waits
<1>4. QED
  BY <1>3 DEF Waits

(***************************************************************************)
(* Something is opened.                                                    *)
(***************************************************************************)
LEMMA WaitsOpen ==
    ASSUME NEW ts, NEW F, NEW a, NEW l, Waits(ts, F, a, l), a.do \notin Closers,
           NEW us, NEW t \in {"Function", "Loop"}, Appended(us, ts, t),
           NEW h, h.do = "end", h.of = Len(us), \A x \in F : x.d < h.d /\ x.d \in Nat,
           h.d \in Nat,
           NEW b, NEW m, b.do \notin Closers
    PROVE  Waits(us, F \cup {h}, b, m)
<1>1. a.do \notin {"endif", "iftail"} /\ b.do \notin {"endif", "iftail"}
  BY DEF Closers
<1>2. /\ \A x \in F : x.of \in Open(ts)
      /\ \A o \in Open(ts) : ts[o] = "If" /\ o \notin Having(ts, "Else") => Tailed(F, o)
  BY <1>1, AllOpen
<1>3. /\ Open(us) = Open(ts) \cup {Len(us)} /\ ~Chained(us)
      /\ Having(us, "Else") = Having(ts, "Else") /\ Having(us, "ElseIf") = Having(ts, "ElseIf")
  <2>1. t \in Openers
    BY DEF Openers
  <2>2. QED
    BY <2>1, TextOpener DEF Words
<1>4. PICK n : n = Len(us)
  OBVIOUS
<1>5. /\ Extends(us, ts) /\ n \in Nat /\ n \in 1 .. n /\ us[n] = t /\ n = Len(ts) + 1
      /\ Len(ts) \in Nat /\ n \notin 1 .. Len(ts)
  BY <1>4 DEF Appended, Extends
<1>6. \A o \in Open(ts) : us[o] = ts[o] /\ o # n
  BY <1>4, <1>5, OpenNew DEF Extends
<1>7. \A x \in F : x.of \in 1 .. Len(ts) /\ x.of < n /\ x.of # n
  BY <1>5 DEF Waits, Kind
<1>8. Kind(us, F \cup {h})
  <2>1. Kind(us, F)
    BY <1>5, KindSame DEF Waits
  <2>2. QED
    BY <1>4, <1>5, <2>1 DEF Kind
<1>9. Nested(F \cup {h})
  <2>1. ASSUME NEW x \in F \cup {h}, NEW y \in F \cup {h}, x.d > y.d
        PROVE  \/ x.of > y.of
               \/ /\ x.of = y.of /\ x.do # "end" /\ y.do = "endif"
                  /\ [d |-> x.d - 1, do |-> "endif", of |-> x.of] \in F \cup {h}
    <3>1. CASE x \in F /\ y \in F
      BY <2>1, <3>1 DEF Nested, Waits
    <3>2. CASE x = h /\ y \in F
      BY <1>4, <1>5, <1>7, <3>2
    <3>3. CASE y = h
      BY <2>1, <3>3
    <3>4. QED
      BY <3>1, <3>2, <3>3
  <2>2. QED
    BY <2>1 DEF Nested
<1>10. Held(us, F \cup {h})
  BY <1>3 DEF Held, Waits
<1>11. Branched(us, F \cup {h}, b)
  <2>1. \A o : (Twice(F \cup {h}, o) <=> Twice(F, o)) /\ (Tailed(F \cup {h}, o) <=> Tailed(F, o))
    BY TwiceSame, TailedSame
  <2>2. ~Twice(F, n) /\ ~Tailed(F, n)
    BY <1>7 DEF Twice, Tailed
  <2>3. n \notin Having(ts, "Else") /\ n \notin Having(ts, "ElseIf")
    BY <1>6 DEF Having
  <2>4. us[n] # "If"
    BY <1>5
  <2>5. ASSUME NEW o \in Open(ts)
        PROVE  /\ o \in Having(us, "ElseIf") <=> Twice(F \cup {h}, o)
               /\ o \in Having(us, "Else") => ~Tailed(F \cup {h}, o)
               /\ us[o] = "If" /\ o \notin Having(us, "Else") => Tailed(F \cup {h}, o)
    BY <1>2, <1>3, <1>6, <2>1 DEF Branched, Waits
  <2>6. QED
    BY <1>3, <1>4, <2>1, <2>2, <2>3, <2>4, <2>5 DEF Branched
<1>12. Spent(us, F \cup {h}, b, m) /\ Ahead(us, b, m)
  BY <1>1, <1>2, <1>3 DEF Spent, Ahead
<1>13. QED
  BY <1>8, <1>9, <1>10, <1>11, <1>12 DEF Waits

LEMMA WaitsIf ==
    ASSUME NEW ts, NEW F, NEW a, NEW l, Waits(ts, F, a, l), a.do \notin Closers,
           NEW us, Appended(us, ts, "If"),
           NEW d \in Nat, \A x \in F : x.d < d /\ x.d \in Nat,
           NEW e, e = [d |-> d, do |-> "endif", of |-> Len(us)],
           NEW h, h = [d |-> d + 1, do |-> "iftail", of |-> Len(us)],
           NEW b, NEW m, b.do \notin Closers
    PROVE  Waits(us, (F \cup {e}) \cup {h}, b, m)
<1>1. a.do \notin {"endif", "iftail"} /\ b.do \notin {"endif", "iftail"}
  BY DEF Closers
<1>2. /\ \A x \in F : x.of \in Open(ts)
      /\ \A o \in Open(ts) : ts[o] = "If" /\ o \notin Having(ts, "Else") => Tailed(F, o)
  BY <1>1, AllOpen
<1>3. /\ Open(us) = Open(ts) \cup {Len(us)} /\ ~Chained(us)
      /\ Having(us, "Else") = Having(ts, "Else") /\ Having(us, "ElseIf") = Having(ts, "ElseIf")
  <2>1. "If" \in Openers
    BY DEF Openers
  <2>2. QED
    BY <2>1, TextOpener DEF Words
<1>4. PICK n : n = Len(us)
  OBVIOUS
<1>5. /\ Extends(us, ts) /\ n \in Nat /\ n \in 1 .. n /\ us[n] = "If" /\ n = Len(ts) + 1
      /\ Len(ts) \in Nat /\ n \notin 1 .. Len(ts)
  BY <1>4 DEF Appended, Extends
<1>6. \A o \in Open(ts) : us[o] = ts[o] /\ o # n
  BY <1>4, <1>5, OpenNew DEF Extends
<1>7. \A x \in F : x.of \in 1 .. Len(ts) /\ x.of < n /\ x.of # n
  BY <1>5 DEF Waits, Kind
<1>8. /\ e.d = d /\ e.do = "endif" /\ e.of = n /\ h.d = d + 1 /\ h.do = "iftail" /\ h.of = n
      /\ e = [d |-> h.d - 1, do |-> "endif", of |-> h.of]
  BY <1>4
<1>9. PICK G : G = (F \cup {e}) \cup {h}
  OBVIOUS
<1>10. Kind(us, G)
  <2>1. Kind(us, F)
    BY <1>5, KindSame DEF Waits
  <2>2. QED
    BY <1>4, <1>5, <1>8, <1>9, <2>1 DEF Kind
<1>11. Nested(G)
  <2>1. ASSUME NEW x \in G, NEW y \in G, x.d > y.d
        PROVE  \/ x.of > y.of
               \/ /\ x.of = y.of /\ x.do # "end" /\ y.do = "endif"
                  /\ [d |-> x.d - 1, do |-> "endif", of |-> x.of] \in G
    <3>1. CASE x \in F /\ y \in F
      BY <1>9, <2>1, <3>1 DEF Nested, Waits
    <3>2. CASE x \in {e, h} /\ y \in F
      BY <1>5, <1>7, <1>8, <3>2
    <3>3. CASE x = h /\ y = e
      BY <1>8, <1>9, <3>3
    <3>4. CASE x = e /\ y = h
      BY <1>8, <2>1, <3>4
    <3>5. CASE x \in F /\ y \in {e, h}
      BY <1>8, <2>1, <3>5
    <3>6. CASE x = y
      <4>1. x.d \in Nat
        BY <1>8, <1>9
      <4>2. QED
        BY <2>1, <3>6, <4>1
    <3>7. QED
      BY <1>9, <3>1, <3>2, <3>3, <3>4, <3>5, <3>6
  <2>2. QED
    BY <2>1 DEF Nested
<1>12. Held(us, G)
  BY <1>3, <1>4, <1>8, <1>9 DEF Held, Waits
<1>13. Branched(us, G, b)
  <2>1. ASSUME NEW o, o # n
        PROVE  (Twice(G, o) <=> Twice(F, o)) /\ (Tailed(G, o) <=> Tailed(F, o))
    <3>1. PICK H : H = F \cup {e}
      OBVIOUS
    <3>2. e.of # o /\ h.of # o
      BY <1>8, <2>1
    <3>3. (Twice(H, o) <=> Twice(F, o)) /\ (Tailed(H, o) <=> Tailed(F, o))
      BY <3>1, <3>2, TwiceSame, TailedSame
    <3>4. (Twice(H \cup {h}, o) <=> Twice(H, o)) /\ (Tailed(H \cup {h}, o) <=> Tailed(H, o))
      BY <3>2, TwiceSame, TailedSame
    <3>5. G = H \cup {h}
      BY <1>9, <3>1
    <3>6. QED
      BY ONLY <3>3, <3>4, <3>5
  <2>2. ~Twice(G, n) /\ Tailed(G, n)
    <3>1. Tailed(G, n)
      BY <1>8, <1>9 DEF Tailed
    <3>2. \A x \in G : x.of = n /\ x.do = "endif" => x = e
      BY <1>7, <1>8, <1>9
    <3>3. QED
      BY <3>1, <3>2 DEF Twice
  <2>3. n \notin Having(ts, "Else") /\ n \notin Having(ts, "ElseIf")
    BY <1>6 DEF Having
  <2>4. ASSUME NEW o \in Open(ts)
        PROVE  /\ o \in Having(us, "ElseIf") <=> Twice(G, o)
               /\ o \in Having(us, "Else") => ~Tailed(G, o)
               /\ us[o] = "If" /\ o \notin Having(us, "Else") => Tailed(G, o)
    <3>1. us[o] = ts[o] /\ (Twice(G, o) <=> Twice(F, o)) /\ (Tailed(G, o) <=> Tailed(F, o))
      BY <1>6, <2>1
    <3>2. QED
      BY <1>2, <1>3, <3>1 DEF Branched, Waits
  <2>5. QED
    BY <1>3, <1>4, <2>2, <2>3, <2>4 DEF Branched
<1>14. Spent(us, G, b, m) /\ Ahead(us, b, m)
  BY <1>1, <1>2, <1>3, <1>4, <1>8, <1>9 DEF Spent, Ahead
<1>15. QED
  BY <1>9, <1>10, <1>11, <1>12, <1>13, <1>14 DEF Waits

(***************************************************************************)
(* A branch of the innermost if.                                           *)
(***************************************************************************)
LEMMA WaitsElseIf ==
    ASSUME NEW ts, NEW G, NEW h, NEW a, NEW l, Waits(ts, G \cup {h}, a, l),
           a.do = "iftail", h.do = "iftail", \A x \in G : x.d < h.d /\ x.d \in Nat, h.d \in Nat,
           NEW e \in G, e.d = h.d - 1, e.do = "endif", e.of = h.of,
           NEW us, Appended(us, ts, "ElseIf"),
           NEW f, f = [d |-> h.d, do |-> "endif", of |-> h.of],
           NEW g, g = [d |-> h.d + 1, do |-> "iftail", of |-> h.of],
           NEW b, NEW m, b.do \notin Closers
    PROVE  Waits(us, (G \cup {f}) \cup {g}, b, m)
<1>1. a.do # "endif" /\ b.do \notin {"endif", "iftail"}
  BY DEF Closers
<1>2. PICK F, H : F = G \cup {h} /\ H = (G \cup {f}) \cup {g}
  OBVIOUS
<1>3. Waits(ts, F, a, l)
  BY <1>2
<1>4. /\ \A x \in F : x.of \in Open(ts)
      /\ \A o \in Open(ts) : ts[o] = "If" /\ o \notin Having(ts, "Else") => Tailed(F, o)
  BY <1>1, <1>3, AllOpen
<1>5. PICK o0 : o0 = h.of
  OBVIOUS
<1>6. o0 \in Open(ts) /\ Open(ts) # {} /\ Len(ts) \in Nat
  BY <1>2, <1>4, <1>5 DEF Appended
<1>7. o0 = Innermost(Open(ts)) /\ \A x \in G : x.of = o0 \/ x.of < o0
  BY <1>2, <1>3, <1>5, <1>6, TopInnermost DEF Waits
<1>8. /\ Open(us) = Open(ts) /\ ~Chained(us)
      /\ Having(us, "ElseIf") = Having(ts, "ElseIf") \cup {o0}
      /\ Having(us, "Else") = Having(ts, "Else")
  BY <1>6, <1>7, TextBranch DEF Words
<1>9. Extends(us, ts) /\ \A o \in Open(ts) : us[o] = ts[o]
  BY OpenNew DEF Appended, Extends
<1>10. /\ f.d = h.d /\ f.do = "endif" /\ f.of = o0
       /\ g.d = h.d + 1 /\ g.do = "iftail" /\ g.of = o0
       /\ f = [d |-> g.d - 1, do |-> "endif", of |-> o0]
  BY <1>5
<1>11. Kind(us, H)
  <2>1. Kind(us, F)
    BY <1>3, <1>9, KindSame DEF Waits
  <2>2. \A x \in H : (x.do # "end" /\ x.of = o0) \/ x \in F
    BY <1>2, <1>10
  <2>3. o0 \in 1 .. Len(us) /\ us[o0] = "If"
    BY <1>2, <1>5, <2>1 DEF Kind
  <2>4. QED
    BY <2>1, <2>2, <2>3 DEF Kind
<1>12. Nested(H)
  <2>1. Nested(F)
    BY <1>3 DEF Waits
  <2>2. ASSUME NEW y \in G
        PROVE  o0 > y.of \/ (o0 = y.of /\ y.do = "endif" /\ [d |-> h.d - 1, do |-> "endif", of |-> o0] \in G)
    <3>1. h.d > y.d
      OBVIOUS
    <3>2. \/ o0 > y.of
          \/ o0 = y.of /\ y.do = "endif" /\ [d |-> h.d - 1, do |-> "endif", of |-> o0] \in F
      BY <1>2, <1>5, <2>1, <3>1 DEF Nested
    <3>3. [d |-> h.d - 1, do |-> "endif", of |-> o0] # h
      OBVIOUS
    <3>4. QED
      BY <1>2, <3>2, <3>3
  <2>3. ASSUME NEW x \in H, NEW y \in H, x.d > y.d
        PROVE  \/ x.of > y.of
               \/ /\ x.of = y.of /\ x.do # "end" /\ y.do = "endif"
                  /\ [d |-> x.d - 1, do |-> "endif", of |-> x.of] \in H
    <3>1. CASE x \in G /\ y \in G
      <4>1. \/ x.of > y.of
            \/ /\ x.of = y.of /\ x.do # "end" /\ y.do = "endif"
               /\ [d |-> x.d - 1, do |-> "endif", of |-> x.of] \in F
        BY <1>2, <2>1, <2>3, <3>1 DEF Nested
      <4>2. [d |-> x.d - 1, do |-> "endif", of |-> x.of] # h
        OBVIOUS
      <4>3. QED
        BY <1>2, <4>1, <4>2
    <3>2. CASE x = f /\ y \in G
      BY <1>2, <1>10, <2>2, <3>2
    <3>3. CASE x = g /\ y \in G
      BY <1>2, <1>10, <2>2, <3>3
    <3>4. CASE x = g /\ y = f
      BY <1>2, <1>10, <3>4
    <3>5. CASE x = f /\ y = g
      BY <1>10, <2>3, <3>5
    <3>6. CASE x \in G /\ y \in {f, g}
      BY <1>10, <2>3, <3>6
    <3>7. CASE x = y
      <4>1. x.d \in Nat
        BY <1>2, <1>10
      <4>2. QED
        BY <2>3, <3>7, <4>1
    <3>8. QED
      BY <1>2, <3>1, <3>2, <3>3, <3>4, <3>5, <3>6, <3>7
  <2>4. QED
    BY <2>3 DEF Nested
<1>13. Held(us, H)
  <2>1. ASSUME NEW o \in Open(ts)
        PROVE  \E x \in H : x.of = o
    <3>1. PICK x \in F : x.of = o
      BY <1>3 DEF Waits, Held
    <3>2. CASE x = h
      BY <1>2, <1>5, <1>10, <3>1, <3>2
    <3>3. CASE x # h
      BY <1>2, <3>1, <3>3
    <3>4. QED
      BY <3>2, <3>3
  <2>2. QED
    BY <1>8, <2>1 DEF Held
<1>14. Branched(us, H, b)
  <2>1. ASSUME NEW o, o # o0
        PROVE  (Twice(H, o) <=> Twice(F, o)) /\ (Tailed(H, o) <=> Tailed(F, o))
    <3>1. h.of # o /\ f.of # o /\ g.of # o
      BY <1>5, <1>10, <2>1
    <3>2. (Twice(F, o) <=> Twice(G, o)) /\ (Tailed(F, o) <=> Tailed(G, o))
      BY <1>2, <3>1, TwiceSame, TailedSame
    <3>3. PICK K : K = G \cup {f}
      OBVIOUS
    <3>4. (Twice(K, o) <=> Twice(G, o)) /\ (Tailed(K, o) <=> Tailed(G, o))
      BY <3>1, <3>3, TwiceSame, TailedSame
    <3>5. (Twice(K \cup {g}, o) <=> Twice(K, o)) /\ (Tailed(K \cup {g}, o) <=> Tailed(K, o))
      BY <3>1, TwiceSame, TailedSame
    <3>6. QED
      BY <1>2, <3>2, <3>3, <3>4, <3>5
  <2>2. Twice(H, o0)
    <3>1. e # f /\ e \in H /\ f \in H
      BY <1>2, <1>10
    <3>2. QED
      BY <1>5, <1>10, <3>1 DEF Twice
  <2>3. Tailed(H, o0) /\ Tailed(F, o0)
    BY <1>2, <1>5, <1>10 DEF Tailed
  <2>4. ASSUME NEW o \in Open(ts)
        PROVE  /\ o \in Having(us, "ElseIf") <=> Twice(H, o)
               /\ o \in Having(us, "Else") => ~Tailed(H, o)
               /\ us[o] = "If" /\ o \notin Having(us, "Else") => Tailed(H, o)
    <3>1. /\ o \in Having(ts, "ElseIf") <=> Twice(F, o)
          /\ o \in Having(ts, "Else") => ~Tailed(F, o)
          /\ us[o] = ts[o]
      BY <1>3, <1>9 DEF Branched, Waits
    <3>2. CASE o = o0
      BY <1>8, <2>2, <2>3, <3>1, <3>2
    <3>3. CASE o # o0
      BY <1>4, <1>8, <2>1, <3>1, <3>3
    <3>4. QED
      BY <3>2, <3>3
  <2>5. QED
    BY <1>8, <2>4 DEF Branched
<1>15. Spent(us, H, b, m) /\ Ahead(us, b, m)
  BY <1>1, <1>2, <1>4, <1>6, <1>8, <1>10 DEF Spent, Ahead
<1>16. QED
  BY <1>2, <1>11, <1>12, <1>13, <1>14, <1>15 DEF Waits

\* What is left when the first is done.
LEMMA FewerFrames ==
    ASSUME NEW ts, NEW G, NEW h, Kind(ts, G \cup {h}), Nested(G \cup {h}), \A x \in G : x.d < h.d,
           \A x \in G : x.d \in Int
    PROVE  Kind(ts, G) /\ Nested(G)
<1>1. Kind(ts, G)
  BY DEF Kind
<1>2. ASSUME NEW x \in G, NEW y \in G, x.d > y.d
      PROVE  \/ x.of > y.of
             \/ /\ x.of = y.of /\ x.do # "end" /\ y.do = "endif"
                /\ [d |-> x.d - 1, do |-> "endif", of |-> x.of] \in G
  <2>1. \/ x.of > y.of
        \/ /\ x.of = y.of /\ x.do # "end" /\ y.do = "endif"
           /\ [d |-> x.d - 1, do |-> "endif", of |-> x.of] \in G \cup {h}
    BY <1>2 DEF Nested
  <2>2. [d |-> x.d - 1, do |-> "endif", of |-> x.of] # h
    <3>1. x.d \in Int /\ x.d < h.d
      OBVIOUS
    <3>2. x.d - 1 # h.d
      BY <1>2, <3>1
    <3>3. QED
      BY <3>2
  <2>3. QED
    BY <2>1, <2>2
<1>3. QED
  BY <1>1, <1>2 DEF Nested

LEMMA WaitsElse ==
    ASSUME NEW ts, NEW G, NEW h, NEW a, NEW l, Waits(ts, G \cup {h}, a, l),
           a.do = "iftail", h.do = "iftail", \A x \in G : x.d < h.d /\ x.d \in Nat, h.d \in Nat,
           NEW e \in G, e.d = h.d - 1, e.do = "endif", e.of = h.of,
           NEW us, Appended(us, ts, "Else"),
           NEW b, NEW m, b.do \notin Closers
    PROVE  Waits(us, G, b, m)
<1>1. a.do # "endif" /\ b.do \notin {"endif", "iftail"}
  BY DEF Closers
<1>2. PICK F : F = G \cup {h}
  OBVIOUS
<1>3. Waits(ts, F, a, l)
  BY <1>2
<1>4. /\ \A x \in F : x.of \in Open(ts)
      /\ \A o \in Open(ts) : ts[o] = "If" /\ o \notin Having(ts, "Else") => Tailed(F, o)
  BY <1>1, <1>3, AllOpen
<1>5. PICK o0 : o0 = h.of
  OBVIOUS
<1>6. o0 \in Open(ts) /\ Open(ts) # {} /\ Len(ts) \in Nat
  BY <1>2, <1>4, <1>5 DEF Appended
<1>7. o0 = Innermost(Open(ts))
  BY <1>2, <1>3, <1>5, <1>6, TopInnermost DEF Waits
<1>8. /\ Open(us) = Open(ts) /\ ~Chained(us)
      /\ Having(us, "Else") = Having(ts, "Else") \cup {o0}
      /\ Having(us, "ElseIf") = Having(ts, "ElseIf")
  BY <1>6, <1>7, TextBranch DEF Words
<1>9. Extends(us, ts) /\ \A o \in Open(ts) : us[o] = ts[o]
  BY OpenNew DEF Appended, Extends
<1>10. Kind(us, G) /\ Nested(G)
  <2>1. Kind(us, F)
    BY <1>3, <1>9, KindSame DEF Waits
  <2>2. QED
    BY <1>2, <1>3, <2>1, FewerFrames DEF Waits
<1>11. Held(us, G)
  <2>1. ASSUME NEW o \in Open(ts)
        PROVE  \E x \in G : x.of = o
    <3>1. PICK x \in F : x.of = o
      BY <1>3 DEF Waits, Held
    <3>2. CASE x = h
      BY <3>1, <3>2
    <3>3. CASE x # h
      BY <1>2, <3>1, <3>3
    <3>4. QED
      BY <3>2, <3>3
  <2>2. QED
    BY <1>8, <2>1 DEF Held
<1>12. Branched(us, G, b)
  <2>1. ASSUME NEW o
        PROVE  (Twice(G, o) <=> Twice(F, o)) /\ (o # o0 => (Tailed(G, o) <=> Tailed(F, o)))
    BY <1>2, <1>5, TwiceSame, TailedSame
  <2>2. ~Tailed(G, o0)
    <3>1. ASSUME NEW x \in G, x.do = "iftail", x.of = o0
          PROVE  FALSE
      <4>1. h.d > x.d /\ h \in F /\ x \in F
        BY <1>2
      <4>2. h.of > x.of \/ x.do = "endif"
        BY <1>3, <4>1 DEF Waits, Nested
      <4>3. o0 \in Int
        BY <1>6 DEF Open, OpenAt
      <4>4. QED
        BY <1>5, <3>1, <4>2, <4>3
    <3>2. QED
      BY <3>1 DEF Tailed
  <2>3. ASSUME NEW o \in Open(ts)
        PROVE  /\ o \in Having(us, "ElseIf") <=> Twice(G, o)
               /\ o \in Having(us, "Else") => ~Tailed(G, o)
               /\ us[o] = "If" /\ o \notin Having(us, "Else") => Tailed(G, o)
    <3>1. /\ o \in Having(ts, "ElseIf") <=> Twice(F, o)
          /\ o \in Having(ts, "Else") => ~Tailed(F, o)
          /\ us[o] = ts[o]
      BY <1>3, <1>9 DEF Branched, Waits
    <3>2. CASE o = o0
      BY <1>8, <2>1, <2>2, <3>1, <3>2
    <3>3. CASE o # o0
      BY <1>4, <1>8, <2>1, <3>1, <3>3
    <3>4. QED
      BY <3>2, <3>3
  <2>4. QED
    BY <1>8, <2>3 DEF Branched
<1>13. Spent(us, G, b, m) /\ Ahead(us, b, m)
  BY <1>1, <1>2, <1>4, <1>8 DEF Spent, Ahead
<1>14. QED
  BY <1>10, <1>11, <1>12, <1>13 DEF Waits

\* An if without a further branch.
LEMMA WaitsNoBranch ==
    ASSUME NEW ts, Len(ts) \in Nat, NEW G, NEW h, NEW a, NEW l, Waits(ts, G \cup {h}, a, l),
           a.do = "iftail", h.do = "iftail", \A x \in G : x.d < h.d /\ x.d \in Nat, h.d \in Nat,
           NEW e \in G, e.d = h.d - 1, e.do = "endif", e.of = h.of,
           l = "End", NEW b, b.do = "endif", b.of = h.of
    PROVE  Waits(ts, G, b, l)
<1>1. a.do # "endif"
  OBVIOUS
<1>2. PICK F : F = G \cup {h}
  OBVIOUS
<1>3. Waits(ts, F, a, l)
  BY <1>2
<1>4. /\ \A x \in F : x.of \in Open(ts)
      /\ \A o \in Open(ts) : ts[o] = "If" /\ o \notin Having(ts, "Else") => Tailed(F, o)
      /\ ~Chained(ts)
  BY <1>1, <1>3, AllOpen
<1>5. Kind(ts, G) /\ Nested(G)
  <2>1. Kind(ts, G \cup {h}) /\ Nested(G \cup {h})
    BY DEF Waits
  <2>2. \A x \in G : x.d < h.d /\ x.d \in Int
    OBVIOUS
  <2>3. QED
    BY <2>1, <2>2, FewerFrames
<1>6. Held(ts, G)
  <2>1. ASSUME NEW o \in Open(ts)
        PROVE  \E x \in G : x.of = o
    <3>1. PICK x \in F : x.of = o
      BY <1>3 DEF Waits, Held
    <3>2. CASE x = h
      BY <3>1, <3>2
    <3>3. CASE x # h
      BY <1>2, <3>1, <3>3
    <3>4. QED
      BY <3>2, <3>3
  <2>2. QED
    BY <2>1 DEF Held
<1>7. Branched(ts, G, b)
  <2>1. ASSUME NEW o \in Open(ts)
        PROVE  /\ o \in Having(ts, "ElseIf") <=> Twice(G, o)
               /\ o \in Having(ts, "Else") => ~Tailed(G, o)
               /\ ts[o] = "If" /\ o \notin Having(ts, "Else") /\ ~Tailed(G, o) => b.of = o
    <3>1. /\ o \in Having(ts, "ElseIf") <=> Twice(F, o)
          /\ o \in Having(ts, "Else") => ~Tailed(F, o)
      BY <1>3 DEF Branched, Waits
    <3>2. (Twice(G, o) <=> Twice(F, o)) /\ (o # h.of => (Tailed(G, o) <=> Tailed(F, o)))
      BY <1>2, TwiceSame, TailedSame
    <3>3. Tailed(G, o) => Tailed(F, o)
      BY <1>2 DEF Tailed
    <3>4. QED
      BY <1>4, <3>1, <3>2, <3>3
  <2>2. QED
    BY <2>1 DEF Branched
<1>8. Spent(ts, G, b, l) /\ Ahead(ts, b, l)
  BY <1>2, <1>4 DEF Spent, Ahead
<1>9. QED
  BY <1>5, <1>6, <1>7, <1>8 DEF Waits

(***************************************************************************)
(* An `end`.                                                               *)
(***************************************************************************)
\* What has been closed is not open.
LEMMA MatchClosed ==
    ASSUME NEW ts, Len(ts) \in Nat, Chained(ts)
    PROVE  MatchIn(ts, Len(ts)) \notin Open(ts)
<1>1. PICK m, n, o : m = Len(ts) /\ n = m - 1 /\ o = MatchIn(ts, m)
  OBVIOUS
<1>2. m # 0 /\ ts[m] = "End" /\ o # 0 /\ m \in Nat /\ n \in Nat /\ n \in Int /\ m = n + 1
  BY <1>1 DEF Chained
<1>3. OpenAt(ts, n) # {} /\ o = Innermost(OpenAt(ts, n))
  BY <1>1, <1>2 DEF MatchIn
<1>4. OpenAt(ts, n) \subseteq 1 .. n
  BY DEF OpenAt
<1>5. o \in OpenAt(ts, n)
  BY <1>2, <1>3, <1>4, InnermostIs
<1>6. Depth(ts, o, n) = 1
  BY <1>2, <1>3, <1>5, InnermostDepth
<1>7. o \in Int /\ o <= n + 1 /\ o \in 1 .. n
  BY <1>2, <1>4, <1>5
<1>8. "End" \notin Openers
  BY DEF Openers
<1>9. Depth(ts, o, n + 1) = Depth(ts, o, n) +
          IF ts[n + 1] \in Openers THEN 1 ELSE IF ts[n + 1] = "End" THEN -1 ELSE 0
  BY <1>2, <1>7, DepthNext
<1>10. Depth(ts, o, m) = 0
  BY <1>2, <1>6, <1>8, <1>9
<1>11. m \in o .. m
  BY <1>2, <1>7
<1>12. o \notin OpenAt(ts, m)
  BY <1>10, <1>11 DEF OpenAt
<1>13. QED
  BY <1>1, <1>12 DEF Open

\* The further endifs of one if stand behind each other.
LEMMA NextEndif ==
    ASSUME NEW G, NEW h, Nested(G \cup {h}), NEW x \in G, x.d < h.d, x.of = h.of,
           x.d \in Int, h.d \in Int, h.of \in Int
    PROVE  /\ h.do # "end" /\ x.do = "endif"
           /\ \E e \in G : e.d = h.d - 1 /\ e.do = "endif" /\ e.of = h.of
<1>1. PICK e : e = [d |-> h.d - 1, do |-> "endif", of |-> h.of]
  OBVIOUS
<1>2. e.d = h.d - 1 /\ e.do = "endif" /\ e.of = h.of
  BY <1>1
<1>3. h.d > x.d /\ ~(h.of > x.of)
  OBVIOUS
<1>4. h.do # "end" /\ x.do = "endif" /\ e \in G \cup {h}
  BY <1>1, <1>3 DEF Nested
<1>5. e # h
  BY <1>2
<1>6. QED
  BY <1>2, <1>4, <1>5

\* The frame h of the item a that takes an `end`; G are those behind it, and b is
\* the next item.
EndTop(G, h, a, b) ==
    /\ a.do \in {"end", "endif"} /\ h.do = a.do /\ h.of = a.of /\ h.d \in Nat
    /\ \A x \in G : x.d < h.d /\ x.d \in Nat
    /\ b.do # "iftail"
    /\ b.do = "endif" => a.do = "endif" /\ b.of = h.of
    /\ \A e \in G : e.d = h.d - 1 => b.do = e.do /\ b.of = e.of

LEMMA WaitsEnd ==
    ASSUME NEW ts, NEW G, NEW h, NEW a, Waits(ts, G \cup {h}, a, "End"), h.of \in Open(ts),
           NEW us, Appended(us, ts, "End"),
           NEW b, NEW m, EndTop(G, h, a, b)
    PROVE  /\ Waits(us, G, b, m)
           /\ ~Chained(ts)
           /\ Open(ts) # {} /\ h.of = Innermost(Open(ts))
<1> USE DEF EndTop
<1>1. PICK F, o0 : F = G \cup {h} /\ o0 = h.of
  OBVIOUS
<1>2. Waits(ts, F, a, "End")
  BY <1>1
<1>3. Len(ts) \in Nat /\ Extends(us, ts)
  BY DEF Appended
<1>4. o0 = Innermost(Open(ts)) /\ o0 \in Open(ts)
  BY <1>1, <1>2, <1>3, TopInnermost DEF Waits
<1>5. o0 \in Int /\ h.of \in Int
  BY <1>1, <1>4, OpenNew
<1>6. ~Chained(ts)
  <2>1. Chained(ts) => a.of = MatchIn(ts, Len(ts))
    BY <1>2 DEF Waits, Spent
  <2>2. QED
    BY <1>3, <2>1, MatchClosed
<1>7. /\ Open(us) = Open(ts) \ {o0}
      /\ Having(us, "Else") = Having(ts, "Else") \cap Open(us)
      /\ Having(us, "ElseIf") = Having(ts, "ElseIf") \cap Open(us)
      /\ MatchIn(us, Len(us)) = o0
      /\ Chained(us) <=> o0 \in Having(ts, "ElseIf")
  BY <1>4, TextEnd DEF Words
<1>8. Kind(us, G) /\ Nested(G)
  <2>1. Kind(us, F)
    BY <1>2, <1>3, KindSame DEF Waits
  <2>2. QED
    BY <1>1, <1>2, <2>1, FewerFrames DEF Waits
<1>9. Held(us, G)
  <2>1. ASSUME NEW o \in Open(us)
        PROVE  \E x \in G : x.of = o
    <3>1. PICK x \in F : x.of = o
      BY <1>2, <1>7 DEF Waits, Held
    <3>2. QED
      BY <1>1, <1>7, <3>1
  <2>2. QED
    BY <2>1 DEF Held
<1>10. Branched(us, G, b)
  <2>1. ASSUME NEW o \in Open(us)
        PROVE  /\ o \in Having(us, "ElseIf") <=> Twice(G, o)
               /\ o \in Having(us, "Else") => ~Tailed(G, o)
               /\ us[o] = "If" /\ o \notin Having(us, "Else") => Tailed(G, o)
    <3>1. o \in Open(ts) /\ h.of # o /\ a.of # o
      BY <1>1, <1>7
    <3>2. us[o] = ts[o]
      BY <1>3, <3>1, OpenNew DEF Extends
    <3>3. (Twice(F, o) <=> Twice(G, o)) /\ (Tailed(F, o) <=> Tailed(G, o))
      BY <1>1, <3>1, TwiceSame, TailedSame
    <3>4. /\ o \in Having(ts, "ElseIf") <=> Twice(F, o)
          /\ o \in Having(ts, "Else") => ~Tailed(F, o)
          /\ ts[o] = "If" /\ o \notin Having(ts, "Else") => Tailed(F, o)
      BY <1>2, <3>1 DEF Waits, Branched
    <3>5. QED
      BY <1>7, <3>2, <3>3, <3>4
  <2>2. QED
    BY <2>1 DEF Branched
<1>11. ASSUME NEW x \in G, x.of = o0
       PROVE  x.do = "endif" /\ a.do = "endif" /\ b.do = "endif" /\ b.of = o0
  <2>1. x.d < h.d /\ x.d \in Int /\ h.d \in Int /\ x.of = h.of
    BY <1>1, <1>11
  <2>2. /\ h.do # "end" /\ x.do = "endif"
        /\ \E e \in G : e.d = h.d - 1 /\ e.do = "endif" /\ e.of = h.of
    BY <1>1, <1>2, <1>5, <2>1, NextEndif DEF Waits
  <2>3. QED
    BY <1>1, <2>2
<1>12. ASSUME NEW x \in G, x.of \notin Open(us)
       PROVE  /\ Chained(us) /\ x.of = MatchIn(us, Len(us)) /\ x.do = "endif"
              /\ b.do = "endif" /\ b.of = x.of
  <2>1. x.of \in Open(ts)
    BY <1>1, <1>2, <1>6 DEF Waits, Spent
  <2>2. x.of = o0
    BY <1>7, <1>12, <2>1
  <2>3. x.do = "endif" /\ a.do = "endif" /\ b.do = "endif" /\ b.of = o0
    BY <1>11, <2>2
  <2>4. Twice(F, o0)
    <3>1. x # h /\ x \in F /\ h \in F
      BY <1>1
    <3>2. QED
      BY <1>1, <2>2, <2>3, <3>1 DEF Twice
  <2>5. o0 \in Having(ts, "ElseIf")
    BY <1>2, <1>4, <2>4 DEF Waits, Branched
  <2>6. QED
    BY <1>7, <2>2, <2>3, <2>5
<1>13. ASSUME Chained(us)
       PROVE  b.do = "endif" /\ b.of = MatchIn(us, Len(us))
  <2>1. Twice(F, o0)
    BY <1>2, <1>4, <1>7, <1>13 DEF Waits, Branched
  <2>2. PICK x \in F : x # h /\ x.of = o0
    BY <2>1 DEF Twice
  <2>3. QED
    BY <1>1, <1>7, <1>11, <2>2
<1>14. Ahead(us, b, m)
  BY <1>1, <1>7 DEF Ahead
<1>15. Spent(us, G, b, m)
  BY <1>12, <1>13 DEF Spent
<1>16. QED
  BY <1>1, <1>4, <1>6, <1>8, <1>9, <1>10, <1>14, <1>15 DEF Waits

\* An endif of an if that is closed, and no `end` comes.
LEMMA WaitsSpent ==
    ASSUME NEW ts, Len(ts) \in Nat, NEW G, NEW h, NEW a, NEW l, Waits(ts, G \cup {h}, a, l),
           a.do = "endif", h.of \notin Open(ts), l # "End",
           NEW b, EndTop(G, h, a, b)
    PROVE  Waits(ts, G, b, l)
<1> USE DEF EndTop
<1>1. PICK F : F = G \cup {h}
  OBVIOUS
<1>2. Waits(ts, F, a, l)
  BY <1>1
<1>3. Kind(ts, G) /\ Nested(G)
  <2>1. Kind(ts, G \cup {h}) /\ Nested(G \cup {h})
    BY DEF Waits
  <2>2. (\A x \in G : x.d < h.d) /\ \A x \in G : x.d \in Int
    OBVIOUS
  <2>3. QED
    BY <2>1, <2>2, FewerFrames
<1>4. Held(ts, G)
  BY <1>1, <1>2 DEF Waits, Held
<1>5. Branched(ts, G, b)
  <2>1. ASSUME NEW o \in Open(ts)
        PROVE  /\ o \in Having(ts, "ElseIf") <=> Twice(G, o)
               /\ o \in Having(ts, "Else") => ~Tailed(G, o)
               /\ ts[o] = "If" /\ o \notin Having(ts, "Else") => Tailed(G, o)
    <3>1. h.of # o
      OBVIOUS
    <3>2. (Twice(F, o) <=> Twice(G, o)) /\ (Tailed(F, o) <=> Tailed(G, o))
      BY <1>1, <3>1, TwiceSame, TailedSame
    <3>3. QED
      BY <1>2, <3>1, <3>2 DEF Waits, Branched
  <2>2. QED
    BY <2>1 DEF Branched
<1>6. ASSUME NEW x \in G, x.of \notin Open(ts)
      PROVE  /\ Chained(ts) /\ x.of = MatchIn(ts, Len(ts)) /\ x.do = "endif"
             /\ b.do = "endif" /\ b.of = x.of
  <2>1. Chained(ts) /\ x.of = MatchIn(ts, Len(ts)) /\ x.do = "endif" /\ x.of = h.of
    BY <1>1, <1>2, <1>6 DEF Waits, Spent
  <2>2. h.of \in Int /\ x.d < h.d /\ x.d \in Int /\ h.d \in Int
    BY <1>1, <1>2 DEF Waits, Kind
  <2>3. \E e \in G : e.d = h.d - 1 /\ e.do = "endif" /\ e.of = h.of
    BY <1>1, <1>2, <2>1, <2>2, NextEndif DEF Waits
  <2>4. QED
    BY <2>1, <2>3
<1>7. Spent(ts, G, b, l) /\ Ahead(ts, b, l)
  BY <1>6 DEF Spent, Ahead
<1>8. QED
  BY <1>3, <1>4, <1>5, <1>7 DEF Waits

(***************************************************************************)
(* What the ends that are consumed say.                                    *)
(***************************************************************************)
LEMMA JustlySame ==
    ASSUME NEW us, NEW ts, Extends(us, ts), NEW cs, Recorded(cs, Len(ts))
    PROVE  Justly(us, cs) <=> Justly(ts, cs)
<1>1. ASSUME NEW c \in cs
      PROVE  MatchIn(us, c.at) = MatchIn(ts, c.at)
  <2>1. c.at \in 1 .. Len(ts) /\ Len(ts) \in Nat
    BY DEF Recorded, Extends
  <2>2. c.at \in Int /\ c.at <= Len(ts) + 1
    BY <2>1
  <2>3. QED
    BY <2>2, MatchSame
<1>2. QED
  BY <1>1 DEF Justly

\* A token that is no `end`.
LEMMA JudgedOther ==
    ASSUME NEW us, NEW ts, NEW t, Appended(us, ts, t), t # "End", NEW cs, Recorded(cs, Len(ts))
    PROVE  /\ TakenIn(us) = TakenIn(ts)
           /\ Justly(us, cs) <=> Justly(ts, cs)
<1>1. TakenIn(us) = TakenIn(ts)
  BY TakenNext
<1>2. Justly(us, cs) <=> Justly(ts, cs)
  BY JustlySame DEF Appended
<1>3. QED
  BY <1>1, <1>2

\* An `end`, consumed for the construct at o.
LEMMA JudgedEnd ==
    ASSUME NEW us, NEW ts, Appended(us, ts, "End"), NEW cs, Recorded(cs, Len(ts)),
           Justly(ts, cs) <=> TakenIn(ts) = {}, NEW o,
           TakenIn(ts) = {} => (o = MatchIn(us, Len(us)) <=> ~Chained(ts))
    PROVE  Justly(us, cs \cup {[at |-> Len(us), of |-> o]}) <=> TakenIn(us) = {}
<1>1. Justly(us, cs) <=> Justly(ts, cs)
  BY JustlySame DEF Appended
<1>2. TakenIn(us) = TakenIn(ts) \cup IF Chained(ts) THEN {Len(us)} ELSE {}
  BY TakenNext
<1>3. PICK c : c = [at |-> Len(us), of |-> o]
  OBVIOUS
<1>4. c.at = Len(us) /\ c.of = o
  BY <1>3
<1>5. Justly(us, cs \cup {c}) <=> Justly(us, cs) /\ o = MatchIn(us, Len(us))
  BY <1>4 DEF Justly
<1>6. CASE TakenIn(ts) = {}
  BY <1>1, <1>2, <1>3, <1>5, <1>6
<1>7. CASE TakenIn(ts) # {}
  BY <1>1, <1>2, <1>3, <1>5, <1>7
<1>8. QED
  BY <1>6, <1>7

(***************************************************************************)
(* Items that neither wait nor open.                                       *)
(***************************************************************************)
Bare(a) == /\ a \in Items
           /\ a.do \in {"token", "expression", "operators", "binary", "annotation", "type", "call"}
           /\ a.do = "token" => a.type \notin Structural \cup {"End", "Function"}

\* What such an item may stand before.
Ready(L) == /\ L \in Seq(Items) /\ Joint(L) /\ Head(L).do \notin Closers
            /\ Head(L).do = "token" => Head(L).type \notin Structural

Onto(L, R) == Ready(L) /\ Frames(L) = Frames(R)

LEMMA BareItems ==
    /\ \A t \in Real : t \notin Structural \cup {"End", "Function"} => Bare(Token(t))
    /\ \A n \in Nat : Bare(Expression(n)) /\ Bare(Binary(n))
    /\ \A n, p \in Nat : Bare(Operators(n, p))
    /\ \A k \in {"annotation", "type", "call"} : Bare([do |-> k])
<1>1. ASSUME NEW t \in Real, t \notin Structural \cup {"End", "Function"}
      PROVE  Bare(Token(t))
  <2>1. Token(t) \in Items /\ Token(t).do = "token" /\ Token(t).type = t
    BY Kinds
  <2>2. QED
    BY <1>1, <2>1 DEF Bare
<1>2. ASSUME NEW n \in Nat
      PROVE  Bare(Expression(n)) /\ Bare(Binary(n))
  <2>1. /\ Expression(n) \in Items /\ Expression(n).do = "expression"
        /\ Binary(n) \in Items /\ Binary(n).do = "binary"
    BY Kinds
  <2>2. QED
    BY <2>1 DEF Bare
<1>3. ASSUME NEW n \in Nat, NEW p \in Nat
      PROVE  Bare(Operators(n, p))
  <2>1. Operators(n, p) \in Items /\ Operators(n, p).do = "operators"
    BY Kinds
  <2>2. QED
    BY <2>1 DEF Bare
<1>4. ASSUME NEW k \in {"annotation", "type", "call"}
      PROVE  Bare([do |-> k])
  BY ItemTypes DEF Bare
<1>5. QED
  BY <1>1, <1>2, <1>3, <1>4

LEMMA BareCons ==
    ASSUME NEW a, Bare(a), NEW L, NEW R, Onto(L, R)
    PROVE  Onto(Cons(a, L), R)
<1>1. /\ a \in Items /\ a.do \notin {"program", "block"} /\ Stands(a) /\ a.do \notin Closers
      /\ a.do = "token" => a.type \notin Structural
  <2>1. /\ a.do \in {"token", "expression", "operators", "binary", "annotation", "type", "call"}
        /\ a.do = "token" => a.type \notin Structural /\ a.type \notin {"End", "Function"}
    BY DEF Bare
  <2>2. a.do \notin {"program", "block"} /\ a.do \notin Closers
    BY <2>1 DEF Closers
  <2>3. QED
    BY <2>1, <2>2 DEF Bare, Stands
<1>2. L \in Seq(Items) /\ Joint(L) /\ Frames(L) = Frames(R)
  BY DEF Onto, Ready
<1>3. Fits(a, Head(L))
  <2>1. Head(L).do \notin Closers /\ (Head(L).do = "token" => Head(L).type \notin Structural)
    BY DEF Onto, Ready
  <2>2. a.do # "block" /\ a.do # "iftail" /\ a.do # "endif" /\ a.do # "end"
    BY <1>1 DEF Closers
  <2>3. QED
    BY <2>1, <2>2 DEF Fits
<1>4. Cons(a, L) \in Seq(Items) /\ Joint(Cons(a, L)) /\ Head(Cons(a, L)) = a
  BY <1>1, <1>2, <1>3, JointCons
<1>5. Frames(Cons(a, L)) = Frames(L)
  BY <1>1, <1>2, FramesCons
<1>6. QED
  BY <1>1, <1>2, <1>4, <1>5 DEF Onto, Ready

\* Behind an item that is no closer and no block is such a list.
LEMMA BareTail ==
    ASSUME NEW L \in Seq(Items), Joint(L), Head(L).do \notin Closers \cup {"program", "block"}
    PROVE  /\ Onto(Tail(L), L)
           /\ Tail(L) \in Seq(Items)
<1>1. PICK a, R : a = Head(L) /\ R = Tail(L)
  OBVIOUS
<1>2. a \in Items /\ R \in Seq(Items) /\ L = Cons(a, R) /\ Joint(R) /\ Fits(a, Head(R))
  BY <1>1, JointTail
<1>3. Frames(L) = Frames(R)
  BY <1>1, <1>2, FramesCons
<1>4. Ready(R)
  BY <1>1, <1>2 DEF Ready, Fits
<1>5. QED
  BY <1>1, <1>2, <1>3, <1>4 DEF Onto

\* The word itself is in the text already.
LEMMA ToldIs ==
    ASSUME NEW ts, NEW td
    PROVE  /\ ~(Head(td).do = "token" /\ Head(td).type \in Structural) => Told(ts, td) = ts
           /\ Head(td).do = "token" /\ Head(td).type \in Structural
                  => Told(ts, td) = Append(ts, Head(td).type)
BY DEF Told

\* A step from such an item to such a list.
LEMMA BareStep ==
    ASSUME NEW ts, NEW cs, NEW td \in Seq(Items), NEW l, NIn(ts, cs, td, l), Recorded(cs, Len(ts)),
           Head(td).do \notin Closers \cup {"program", "block"},
           NEW us, NEW td2, NEW m, Onto(td2, td),
           \/ /\ us = ts /\ m = l
              /\ ~(Head(td).do = "token" /\ Head(td).type \in Structural)
           \/ /\ Appended(us, ts, l) /\ l \notin Openers \cup {"End"} \cup Words
              /\ ~(Head(td).do = "token" /\ Head(td).type \in Structural)
           \/ /\ Appended(us, ts, l) /\ us = Append(ts, l)
              /\ Head(td).do = "token" /\ Head(td).type \in Structural /\ Head(td).type = l
    PROVE  NIn(us, cs, td2, m)
<1>1. Joint(td2) /\ Frames(td2) = Frames(td) /\ Head(td2).do \notin Closers /\ Told(us, td2) = us
  BY ToldIs DEF Onto, Ready
<1>2. Head(td).do \notin Closers
  OBVIOUS
<1>3. CASE us = ts /\ m = l /\ ~(Head(td).do = "token" /\ Head(td).type \in Structural)
  <2>1. Told(ts, td) = ts
    BY <1>3, ToldIs
  <2>2. TakenIn(ts) = {} => Waits(ts, Frames(td), Head(td2), m)
    BY <1>1, <1>2, <1>3, <2>1, WaitsQuiet DEF NIn
  <2>3. QED
    BY <1>1, <1>3, <2>2 DEF NIn
<1>4. CASE /\ Appended(us, ts, l) /\ l \notin Openers \cup {"End"} \cup Words
           /\ ~(Head(td).do = "token" /\ Head(td).type \in Structural)
  <2>1. Told(ts, td) = ts
    BY <1>4, ToldIs
  <2>2. TakenIn(us) = TakenIn(ts) /\ (Justly(us, cs) <=> Justly(ts, cs))
    <3>1. l # "End"
      BY <1>4
    <3>2. QED
      BY <1>4, <3>1, JudgedOther
  <2>3. TakenIn(ts) = {} => Waits(us, Frames(td), Head(td2), m)
    BY <1>1, <1>2, <1>4, <2>1, WaitsQuiet DEF NIn
  <2>4. QED
    BY <1>1, <2>2, <2>3 DEF NIn
<1>5. CASE /\ Appended(us, ts, l) /\ us = Append(ts, l)
           /\ Head(td).do = "token" /\ Head(td).type \in Structural /\ Head(td).type = l
  <2>1. Told(ts, td) = us
    BY <1>5, ToldIs
  <2>2. l # "End"
    BY <1>5 DEF Structural
  <2>3. TakenIn(us) = TakenIn(ts) /\ (Justly(us, cs) <=> Justly(ts, cs))
    BY <1>5, <2>2, JudgedOther
  <2>4. ~Chained(us)
    BY <1>5, <2>2 DEF Chained, Appended
  <2>5. TakenIn(ts) = {} => Waits(us, Frames(td), Head(td2), m)
    <3>1. ASSUME TakenIn(ts) = {}
          PROVE  Waits(us, Frames(td), Head(td2), m)
      <4>1. Waits(us, Frames(td), Head(td), l)
        BY <2>1, <3>1 DEF NIn
      <4>2. QED
        BY <1>1, <1>2, <2>4, <4>1, WaitsQuiet
    <3>2. QED
      BY <3>1
  <2>6. QED
    BY <1>1, <2>3, <2>5 DEF NIn
<1>6. QED
  BY <1>3, <1>4, <1>5

(***************************************************************************)
(* The functions: the parts of a statement that open and close nothing.    *)
(***************************************************************************)
QInv == TInv /\ NIn(tokens, closes, todo, la)

LEMMA QFacts ==
    ASSUME QInv
    PROVE  /\ XInv /\ todo \in Seq(Items) /\ todo # << >> /\ Joint(todo)
           /\ Head(todo) \in Items /\ Tail(todo) \in Seq(Items) /\ todo = Cons(Head(todo), Tail(todo))
           /\ Len(tokens) \in Nat /\ Here = Len(tokens) + 1
           /\ NIn(tokens, closes, todo, la) /\ Recorded(closes, Len(tokens))
<1>1. XInv /\ NIn(tokens, closes, todo, la) /\ Recorded(closes, Len(tokens)) /\ Joint(todo)
  BY DEF QInv, TInv, NIn
<1>2. QED
  BY <1>1, Facts, ConsOf

\* What the operators are not.
LEMMA LevelWords ==
    ASSUME NEW t, precedence(t) > 0
    PROVE  t \notin Openers \cup {"End", "EndOfFile"} \cup Words
BY DEF precedence, Comparisons, Orderings, Openers, Words

LEMMA consumeNested ==
    ASSUME QInv, consume
    PROVE  NIn(tokens', closes', todo', la')
<1>1. Head(todo).do = "token" /\ Head(todo).do \notin Closers \cup {"program", "block"}
  BY DEF consume, Doing, Closers
<1>2. CASE ~Is(Head(todo).type)
  BY <1>2, QFacts DEF consume, Reject, Stay
<1>3. CASE Is(Head(todo).type)
  <2>1. Advance /\ Then(<< >>) /\ closes' = closes
    BY <1>3 DEF consume
  <2>2. PICK t : t = Head(todo).type
    OBVIOUS
  <2>3. t \in Real /\ t \notin {"End", "Function"}
    <3>1. t \in Real
      BY <1>1, <2>2, QFacts, HeadType DEF XInv
    <3>2. Stands(Head(todo))
      BY QFacts, JointTail
    <3>3. QED
      BY <1>1, <2>2, <3>1, <3>2 DEF Stands
  <2>4. la = t \/ (t = "Identifier" /\ la = "TypeName")
    BY <1>3, <2>2 DEF Is
  <2>5. la # "EndOfFile" /\ la \notin {"End", "Function"}
    BY <2>3, <2>4 DEF Real
  <2>6. Appended(tokens', tokens, la) /\ tokens' = Append(tokens, la)
    BY <2>1, <2>5, QFacts, AdvanceIs DEF Advance
  <2>7. todo' = Tail(todo)
    BY <2>1, QFacts, Popping
  <2>8. Onto(todo', todo)
    BY <1>1, <2>7, QFacts, BareTail
  <2>9. CASE t \in Structural
    <3>1. la = t
      BY <2>4, <2>9 DEF Structural
    <3>2. QED
      BY <1>1, <2>1, <2>2, <2>6, <2>8, <2>9, <3>1, QFacts, BareStep
  <2>10. CASE t \notin Structural
    <3>1. la \notin Openers \cup {"End"} \cup Words
      BY <2>4, <2>5, <2>10 DEF Structural, Openers, Words
    <3>2. QED
      BY <1>1, <2>1, <2>2, <2>6, <2>8, <2>10, <3>1, QFacts, BareStep
  <2>11. QED
    BY <2>9, <2>10
<1>4. QED
  BY <1>2, <1>3

\* A step of an item that is no token.
LEMMA QuietStep ==
    ASSUME QInv, Head(todo).do \in {"expression", "operators", "binary", "annotation", "type", "call"},
           closes' = closes, Onto(todo', todo),
           Stay \/ (Advance /\ la \notin Openers \cup {"End", "EndOfFile"} \cup Words)
    PROVE  NIn(tokens', closes', todo', la')
<1>1. Head(todo).do \notin Closers \cup {"program", "block"} /\ Head(todo).do # "token"
  BY DEF Closers
<1>2. \/ tokens' = tokens /\ la' = la
      \/ Appended(tokens', tokens, la) /\ la \notin Openers \cup {"End"} \cup Words
  BY QFacts, AdvanceIs DEF Stay
<1>3. NIn(tokens', closes, todo', la')
  BY <1>1, <1>2, QFacts, BareStep
<1>4. QED
  BY <1>3

\* The items behind such an item, with others in front.
LEMMA InFront ==
    ASSUME NEW R \in Seq(Items), NEW T, Onto(R, T)
    PROVE  /\ Onto(<< >> \o R, T)
           /\ \A a : Bare(a) => Onto(<<a>> \o R, T)
           /\ \A a, b : Bare(a) /\ Bare(b) => Onto(<<a, b>> \o R, T)
           /\ \A a, b, c : Bare(a) /\ Bare(b) /\ Bare(c) => Onto(<<a, b, c>> \o R, T)
           /\ \A a, b, c, d : Bare(a) /\ Bare(b) /\ Bare(c) /\ Bare(d) => Onto(<<a, b, c, d>> \o R, T)
<1>1. Onto(<< >> \o R, T)
  BY ConcatEmptySeq
<1>2. \A x : Bare(x) => x \in Items
  BY DEF Bare
<1>3. ASSUME NEW a, Bare(a)
      PROVE  Onto(<<a>> \o R, T)
  BY <1>2, <1>3, BareCons, Front1
<1>4. ASSUME NEW a, NEW b, Bare(a), Bare(b)
      PROVE  Onto(<<a, b>> \o R, T)
  <2>1. <<a, b>> \o R = Cons(a, Cons(b, R))
    BY <1>2, <1>4, Front2
  <2>2. Onto(Cons(b, R), T)
    BY <1>4, BareCons
  <2>3. QED
    BY <1>4, <2>1, <2>2, BareCons
<1>5. ASSUME NEW a, NEW b, NEW c, Bare(a), Bare(b), Bare(c)
      PROVE  Onto(<<a, b, c>> \o R, T)
  <2>1. <<a, b, c>> \o R = Cons(a, Cons(b, Cons(c, R)))
    BY <1>2, <1>5, Front3
  <2>2. Onto(Cons(c, R), T)
    BY <1>5, BareCons
  <2>3. Onto(Cons(b, Cons(c, R)), T)
    BY <1>5, <2>2, BareCons
  <2>4. QED
    BY <1>5, <2>1, <2>3, BareCons
<1>6. ASSUME NEW a, NEW b, NEW c, NEW d, Bare(a), Bare(b), Bare(c), Bare(d)
      PROVE  Onto(<<a, b, c, d>> \o R, T)
  <2>1. <<a, b, c, d>> \o R = Cons(a, Cons(b, Cons(c, Cons(d, R))))
    BY <1>2, <1>6, Front4
  <2>2. Onto(Cons(d, R), T)
    BY <1>6, BareCons
  <2>3. Onto(Cons(c, Cons(d, R)), T)
    BY <1>6, <2>2, BareCons
  <2>4. Onto(Cons(b, Cons(c, Cons(d, R))), T)
    BY <1>6, <2>3, BareCons
  <2>5. QED
    BY <1>6, <2>1, <2>4, BareCons
<1>7. QED
  BY <1>1, <1>3, <1>4, <1>5, <1>6

LEMMA ParenWords ==
    /\ Bare(Token("LParen")) /\ Bare(Token("RParen"))
    /\ \A t \in {"Colon", "TypeName", "LParen", "Identifier"} \cup Literals :
           t \notin Openers \cup {"End", "EndOfFile"} \cup Words
<1>1. "LParen" \in Real /\ "RParen" \in Real
  BY Kinds
<1>2. "LParen" \notin Structural \cup {"End", "Function"}
      /\ "RParen" \notin Structural \cup {"End", "Function"}
  BY DEF Structural
<1>3. \A t \in {"Colon", "TypeName", "LParen", "Identifier"} \cup Literals :
          t \notin Openers \cup {"End", "EndOfFile"} \cup Words
  BY DEF Literals, Openers, Words
<1>4. QED
  BY <1>1, <1>2, <1>3, BareItems

LEMMA QuietBehind ==
    ASSUME QInv, Head(todo).do \in {"expression", "operators", "binary", "annotation", "type", "call"}
    PROVE  /\ Onto(Tail(todo), todo) /\ Tail(todo) \in Seq(Items)
           /\ Head(todo).do \in {"expression", "operators"} => Head(todo).min \in Nat
           /\ Onto(todo, todo)
<1>1. Head(todo).do \notin Closers \cup {"program", "block"} /\ Head(todo).do # "token"
  BY DEF Closers
<1>2. Onto(Tail(todo), todo)
  BY <1>1, QFacts, BareTail
<1>3. Head(todo).do \in {"expression", "operators"} => Head(todo).min \in Nat
  BY QFacts, HeadType DEF XInv
<1>4. Onto(todo, todo)
  BY <1>1, QFacts DEF Onto, Ready
<1>5. QED
  BY <1>2, <1>3, <1>4, QFacts

LEMMA QuietNested ==
    ASSUME QInv, \/ parse_annotation \/ parse_type_expression \/ parse_primary_expression
                 \/ parse_call \/ parse_operators \/ make_binary
    PROVE  NIn(tokens', closes', todo', la')
<1>1. Head(todo).do \in {"expression", "operators", "binary", "annotation", "type", "call"}
  BY DEF parse_annotation, parse_type_expression, parse_primary_expression, parse_call,
     parse_operators, make_binary, Doing
<1>2. PICK R : R = Tail(todo)
  OBVIOUS
<1>3. /\ R \in Seq(Items) /\ Onto(R, todo) /\ Onto(todo, todo) /\ todo \in Seq(Items)
      /\ Head(todo).do \in {"expression", "operators"} => Head(todo).min \in Nat
      /\ Here \in Nat /\ la \in TokenTypes
  <2>1. la \in TokenTypes
    BY QFacts DEF XInv, PInv
  <2>2. QED
    BY <1>1, <1>2, <2>1, QuietBehind, QFacts
<1>4. CASE Reject /\ UNCHANGED lang
  BY <1>4, QFacts DEF Reject, Stay
<1>5. CASE parse_annotation
  <2>1. Bare([do |-> "type"])
    BY BareItems
  <2>2. closes' = closes /\ Onto(todo', todo)
    BY <1>2, <1>3, <1>5, <2>1, InFront DEF parse_annotation, Then
  <2>3. Stay \/ (Advance /\ la \notin Openers \cup {"End", "EndOfFile"} \cup Words)
    BY <1>5, ParenWords DEF parse_annotation
  <2>4. QED
    BY <1>1, <2>2, <2>3, QuietStep
<1>6. CASE parse_type_expression
  <2>1. CASE la = "TypeName"
    <3>1. closes' = closes /\ Onto(todo', todo) /\ Advance
      BY <1>2, <1>3, <1>6, <2>1, InFront DEF parse_type_expression, Then
    <3>2. QED
      BY <1>1, <2>1, <3>1, ParenWords, QuietStep
  <2>2. QED
    BY <1>4, <1>6, <2>1 DEF parse_type_expression
<1>7. CASE parse_primary_expression
  <2>1. PICK rest : rest = Operators(Head(todo).min, Here)
    OBVIOUS
  <2>2. Head(todo).do = "expression"
    BY <1>7 DEF parse_primary_expression, Doing
  <2>3. Bare(rest) /\ Bare(Expression(0)) /\ Bare([do |-> "call"]) /\ Bare(Token("RParen"))
    BY <1>3, <2>1, <2>2, BareItems, ParenWords
  <2>4. CASE la \in Literals \cup {"Identifier", "TypeName", "LParen"}
    <3>1. /\ Advance /\ closes' = closes
          /\ \/ Then(<<rest>>) \/ Then(<<Expression(0), Token("RParen"), rest>>)
             \/ Then(<<[do |-> "call"], rest>>)
      BY <1>7, <2>1, <2>4 DEF parse_primary_expression
    <3>2. Onto(todo', todo)
      BY <1>2, <1>3, <2>3, <3>1, InFront DEF Then
    <3>3. la \notin Openers \cup {"End", "EndOfFile"} \cup Words
      BY <2>4, ParenWords
    <3>4. QED
      BY <1>1, <3>1, <3>2, <3>3, QuietStep
  <2>5. QED
    BY <1>4, <1>7, <2>4 DEF parse_primary_expression
<1>8. CASE parse_call
  <2>1. /\ Stay /\ closes' = closes
        /\ Then(<<Token("LParen"), Token("RParen")>>) \/ Then(<< >>)
    BY <1>8 DEF parse_call
  <2>2. Onto(todo', todo)
    BY <1>2, <1>3, <2>1, InFront, ParenWords DEF Then
  <2>3. QED
    BY <1>1, <2>1, <2>2, QuietStep
<1>9. CASE parse_operators
  <2>1. Head(todo).do = "operators"
    BY <1>9 DEF parse_operators, Doing
  <2>2. precedence(la) \in Nat /\ Head(todo).min \in Nat
    BY <1>3, <2>1, Levels
  <2>3. CASE precedence(la) > Head(todo).min
    <3>1. /\ Advance /\ closes' = closes
          /\ todo' = <<Expression(precedence(la)), Binary(Here)>> \o todo
      BY <1>9, <2>3 DEF parse_operators
    <3>2. Bare(Expression(precedence(la))) /\ Bare(Binary(Here))
      BY <1>3, <2>2, BareItems
    <3>3. Onto(todo', todo)
      BY <1>3, <3>1, <3>2, InFront
    <3>4. precedence(la) > 0
      BY <2>2, <2>3
    <3>5. QED
      BY <1>1, <3>1, <3>3, <3>4, LevelWords, QuietStep
  <2>4. CASE ~(precedence(la) > Head(todo).min)
    <3>1. Stay /\ closes' = closes /\ Then(<< >>)
      BY <1>9, <2>4 DEF parse_operators
    <3>2. Onto(todo', todo)
      BY <1>2, <1>3, <3>1, InFront DEF Then
    <3>3. QED
      BY <1>1, <3>1, <3>2, QuietStep
  <2>5. QED
    BY <2>3, <2>4
<1>10. CASE make_binary
  <2>1. Stay /\ closes' = closes /\ Then(<< >>)
    BY <1>10 DEF make_binary
  <2>2. Onto(todo', todo)
    BY <1>2, <1>3, <2>1, InFront DEF Then
  <2>3. QED
    BY <1>1, <2>1, <2>2, QuietStep
<1>11. QED
  BY <1>5, <1>6, <1>7, <1>8, <1>9, <1>10

(***************************************************************************)
(* The functions: blocks.                                                  *)
(***************************************************************************)
LEMMA ItemsAre ==
    /\ \A t : Token(t).do = "token" /\ Token(t).type = t
    /\ \A u : Block(u).do = "block" /\ Block(u).until = u
    /\ \A n : End(n).do = "end" /\ End(n).of = n
    /\ \A n : Expression(n).do = "expression"
BY DEF Token, Block, End, Expression

\* A block in front of the item that waits behind it.
LEMMA BlockCons ==
    ASSUME NEW u \in {{"End"}, IF_TERMINATORS}, NEW R \in Seq(Items), Joint(R), Head(R).do \in Closers,
           u = IF Head(R).do = "iftail" THEN IF_TERMINATORS ELSE {"End"}
    PROVE  Onto(Cons(Block(u), R), R)
<1>1. PICK a : a = Block(u)
  OBVIOUS
<1>2. a \in Items /\ a.do = "block" /\ a.until = u
  BY <1>1, ItemTypes, ItemsAre
<1>3. Stands(a) /\ Fits(a, Head(R)) /\ a.do \notin Closers
  BY <1>2 DEF Stands, Fits, Closers
<1>4. Cons(a, R) \in Seq(Items) /\ Joint(Cons(a, R)) /\ Head(Cons(a, R)) = a
  BY <1>2, <1>3, JointCons
<1>5. Frames(Cons(a, R)) = Frames(R)
  BY <1>2, <1>3, FramesCons
<1>6. QED
  BY <1>1, <1>2, <1>3, <1>4, <1>5 DEF Onto, Ready

\* The word of a branch or a construct, in front of what is behind it.
LEMMA WordCons ==
    ASSUME NEW t \in Structural, NEW L, NEW R, Onto(L, R)
    PROVE  LET M == Cons(Token(t), L)
           IN  /\ M \in Seq(Items) /\ Joint(M) /\ Frames(M) = Frames(R)
               /\ Head(M).do = "token" /\ Head(M).type = t
<1>1. PICK a : a = Token(t)
  OBVIOUS
<1>2. t \in Real /\ t \notin {"End", "Function"}
  BY DEF Structural, Real, TokenTypes, Starters
<1>3. a \in Items /\ a.do = "token" /\ a.type = t
  BY <1>1, <1>2, ItemTypes, ItemsAre
<1>4. Stands(a) /\ a.do \notin Closers /\ Fits(a, Head(L))
  BY <1>2, <1>3 DEF Stands, Closers, Fits, Onto, Ready
<1>5. Cons(a, L) \in Seq(Items) /\ Joint(Cons(a, L)) /\ Head(Cons(a, L)) = a
  BY <1>3, <1>4, JointCons DEF Onto, Ready
<1>6. Frames(Cons(a, L)) = Frames(L)
  BY <1>3, <1>4, FramesCons DEF Onto, Ready
<1>7. QED
  BY <1>1, <1>3, <1>5, <1>6 DEF Onto

\* What an if puts in front, by the words.
LEMMA IfCons ==
    ASSUME PInv, la \in {"If", "ElseIf"}, NEW p \in Nat, NEW R \in Seq(Items)
    PROVE  If(p) \o R = Cons(Token(la), Cons(Expression(0), Cons(Block(IF_TERMINATORS),
                            Cons([do |-> "iftail", of |-> p], Cons([do |-> "endif", of |-> p], R)))))
<1>1. la \in Real
  BY DEF Real, PInv
<1>2. PICK a, b, t, e, u : /\ a = [do |-> "iftail", of |-> p] /\ b = [do |-> "endif", of |-> p]
                           /\ t = Token(la) /\ e = Expression(0) /\ u = Block(IF_TERMINATORS)
  OBVIOUS
<1>3. a \in Items /\ b \in Items /\ t \in Items /\ e \in Items /\ u \in Items
  BY <1>1, <1>2, ItemTypes
<1>4. PICK s, f : s = <<e, u, a, b>> /\ f = <<t, e, u, a, b>>
  OBVIOUS
<1>5. /\ s \in Seq(Items) /\ f \in Seq(Items) /\ Len(f) = Len(s) + 1 /\ f[1] = t
      /\ \A i \in 1 .. Len(s) : f[i + 1] = s[i]
  BY ONLY <1>3, <1>4
<1>6. R \in Seq(Items)
  OBVIOUS
<1>7. f \o R = Cons(t, s \o R)
  BY ONLY <1>3, <1>5, <1>6, FrontMore
<1>8. s \o R = Cons(e, Cons(u, Cons(a, Cons(b, R))))
  BY ONLY <1>3, <1>4, <1>6, Front4
<1>9. If(p) = f
  BY <1>2, <1>4 DEF If
<1>10. QED
  BY ONLY <1>2, <1>7, <1>8, <1>9

\* What may stand behind the end of the if at p.
AfterIf(R, p) == /\ R \in Seq(Items) /\ Joint(R)
                 /\ Head(R).do = "block" \/ (Head(R).do = "endif" /\ Head(R).of = p)

Endif(R, p)  == [d |-> Len(R), do |-> "endif", of |-> p]
Iftail(R, p) == [d |-> Len(R) + 1, do |-> "iftail", of |-> p]

LEMMA IfOnto ==
    ASSUME PInv, la \in {"If", "ElseIf"}, NEW p \in Nat, NEW R, AfterIf(R, p), NEW L, L = If(p) \o R
    PROVE  /\ L \in Seq(Items) /\ Joint(L) /\ Head(L).do = "token" /\ Head(L).type = la
           /\ Frames(L) = (Frames(R) \cup {Endif(R, p)}) \cup {Iftail(R, p)}
<1> USE DEF AfterIf
<1>1. PICK b, a : b = [do |-> "endif", of |-> p] /\ a = [do |-> "iftail", of |-> p]
  OBVIOUS
<1>2. /\ a \in Items /\ b \in Items /\ b.do = "endif" /\ b.of = p /\ a.do = "iftail" /\ a.of = p
      /\ Len(R) \in Nat
  BY <1>1, ItemTypes, LenProperties
<1>3. PICK B : B = Cons(b, R)
  OBVIOUS
<1>4. /\ B \in Seq(Items) /\ Joint(B) /\ Head(B) = b /\ Len(B) = Len(R) + 1
      /\ Frames(B) = Frames(R) \cup {[d |-> Len(R), do |-> "endif", of |-> p]}
  <2>1. Stands(b) /\ Fits(b, Head(R)) /\ b.do \in Closers
    BY <1>2 DEF Stands, Fits, Closers
  <2>2. B \in Seq(Items) /\ Joint(B) /\ Head(B) = b
    BY <1>2, <1>3, <2>1, JointCons
  <2>3. Frames(B) = Frames(R) \cup {[d |-> Len(R), do |-> b.do, of |-> b.of]}
    BY <1>2, <1>3, <2>1, FramesCons
  <2>4. Len(B) = Len(R) + 1
    BY <1>2, <1>3, ConsIs
  <2>5. QED
    BY <1>2, <2>2, <2>3, <2>4
<1>5. PICK A : A = Cons(a, B)
  OBVIOUS
<1>6. /\ A \in Seq(Items) /\ Joint(A) /\ Head(A) = a
      /\ Frames(A) = Frames(B) \cup {[d |-> Len(R) + 1, do |-> "iftail", of |-> p]}
  <2>1. Stands(a) /\ Fits(a, Head(B)) /\ a.do \in Closers
    BY <1>2, <1>4 DEF Stands, Fits, Closers
  <2>2. A \in Seq(Items) /\ Joint(A) /\ Head(A) = a
    BY <1>2, <1>4, <1>5, <2>1, JointCons
  <2>3. Frames(A) = Frames(B) \cup {[d |-> Len(B), do |-> a.do, of |-> a.of]}
    BY <1>2, <1>4, <1>5, <2>1, FramesCons
  <2>4. QED
    BY <1>2, <1>4, <2>2, <2>3
<1>7. Onto(Cons(Block(IF_TERMINATORS), A), A)
  BY <1>2, <1>6, BlockCons DEF Closers
<1>8. Bare(Expression(0))
  BY BareItems
<1>9. Onto(Cons(Expression(0), Cons(Block(IF_TERMINATORS), A)), A)
  BY <1>7, <1>8, BareCons
<1>10. la \in Structural
  BY DEF Structural
<1>11. L = Cons(Token(la), Cons(Expression(0), Cons(Block(IF_TERMINATORS), A)))
  BY <1>1, <1>3, <1>5, IfCons
<1>12. L \in Seq(Items) /\ Joint(L) /\ Frames(L) = Frames(A) /\ Head(L).do = "token" /\ Head(L).type = la
  BY <1>9, <1>10, <1>11, WordCons
<1>13. QED
  BY <1>4, <1>6, <1>12 DEF Endif, Iftail

\* A word that is going to be consumed.
LEMMA WordStep ==
    ASSUME QInv, UNCHANGED <<tokens, la, closes>>, Joint(todo'), Head(todo').do = "token",
           Head(todo').type = la, la \in Structural,
           TakenIn(tokens) = {} => Waits(Append(tokens, la), Frames(todo'), Head(todo'), la)
    PROVE  NIn(tokens', closes', todo', la')
<1>1. PICK td : td = todo'
  OBVIOUS
<1>2. Told(tokens, td) = Append(tokens, la)
  BY <1>1, ToldIs
<1>3. NIn(tokens, closes, td, la)
  BY <1>1, <1>2, QFacts DEF NIn
<1>4. QED
  BY <1>1, <1>3

LEMMA FrameDepths ==
    ASSUME NEW R \in Seq(Items)
    PROVE  /\ \A x \in Frames(R) : x.d < Len(R) /\ x.d \in Nat
           /\ Len(R) \in Nat
BY FramesIn, LenProperties

\* A statement that opens nothing.
LEMMA StatementOnto ==
    ASSUME PInv, la \in Starters \ {"If", "Loop"}, NEW R \in Seq(Items), Joint(R), Head(R).do = "block"
    PROVE  Onto(Statement \o R, R)
<1> DEFINE ts == {"Identifier", "Assignment", "Set", "Show", "Return", "Break", "Cycle"}
<1>1. \A t \in ts : Bare(Token(t))
  <2>1. ts \subseteq Real
    BY DEF Real, TokenTypes, Starters
  <2>2. \A t \in ts : t \notin Structural \cup {"End", "Function"}
    BY DEF Structural
  <2>3. QED
    BY <2>1, <2>2, BareItems
<1>2. Bare(Expression(0)) /\ Bare([do |-> "annotation"])
  BY BareItems
<1>3. Onto(R, R)
  BY DEF Onto, Ready, Closers
<1>4. Onto(Declaration \o R, R)
  BY <1>1, <1>2, <1>3, InFront DEF Declaration
<1>5. Onto(Assignment \o R, R)
  BY <1>1, <1>2, <1>3, InFront DEF Assignment
<1>6. la \in {"Show", "Return"} => Onto(WithValue \o R, R)
  BY <1>1, <1>2, <1>3, InFront DEF WithValue
<1>7. la \in {"Break", "Cycle"} => Onto(Jump \o R, R)
  BY <1>1, <1>3, InFront DEF Jump
<1>8. QED
  BY <1>4, <1>5, <1>6, <1>7, Zenon DEF Statement, Starters, Is

LEMMA parse_block_statementNested ==
    ASSUME QInv, parse_block_statement
    PROVE  NIn(tokens', closes', todo', la')
<1>1. Head(todo).do = "block" /\ Head(todo).do \notin Closers /\ Head(todo).do # "program"
  BY DEF parse_block_statement, Doing, Closers
<1>2. PICK R, F : R = Tail(todo) /\ F = Frames(todo)
  OBVIOUS
<1>3. /\ R \in Seq(Items) /\ Joint(R) /\ Fits(Head(todo), Head(R)) /\ Frames(R) = F
      /\ todo = Cons(Head(todo), R)
  <2>1. R \in Seq(Items) /\ Joint(R) /\ Fits(Head(todo), Head(R)) /\ todo = Cons(Head(todo), R)
    BY <1>1, <1>2, QFacts, JointTail
  <2>2. Frames(Cons(Head(todo), R)) = Frames(R)
    BY <1>1, <2>1, QFacts, FramesCons
  <2>3. QED
    BY <1>2, <2>1, <2>2
<1>4. Told(tokens, todo) = tokens
  BY <1>1, ToldIs
<1>5. TakenIn(tokens) = {} => Waits(tokens, F, Head(todo), la)
  BY <1>2, <1>4, QFacts DEF NIn
<1>6. CASE Reject /\ UNCHANGED lang
  BY <1>6, QFacts DEF Reject, Stay
<1>7. CASE la \in Head(todo).until
  <2>1. Then(<< >>) /\ UNCHANGED <<tokens, la, closes>>
    BY <1>7 DEF parse_block_statement, Stay
  <2>2. todo' = R
    BY <1>2, <2>1, QFacts, Popping
  <2>3. /\ Head(R).do \in Closers
        /\ Head(todo).until = IF Head(R).do = "iftail" THEN IF_TERMINATORS ELSE {"End"}
    BY <1>1, <1>3 DEF Fits
  <2>4. /\ Head(R).do = "iftail" => la \in IF_TERMINATORS
        /\ Head(R).do = "endif" => la = "End"
    BY <1>7, <2>3
  <2>5. Told(tokens, R) = tokens
    BY <2>3, ToldIs DEF Closers
  <2>6. TakenIn(tokens) = {} => Waits(tokens, F, Head(R), la)
    BY <1>1, <1>5, <2>4, WaitsBlock
  <2>7. NIn(tokens, closes, R, la)
    BY <1>3, <2>5, <2>6, QFacts DEF NIn
  <2>8. QED
    BY <2>1, <2>2, <2>7
<1>8. CASE la \in Starters /\ la \notin Head(todo).until
  <2>1. UNCHANGED <<tokens, la, closes>> /\ todo' = Statement \o todo
    BY <1>8 DEF parse_block_statement, Stay
  <2>2. PInv /\ XInv
    BY QFacts DEF XInv
  <2>3. CASE la \notin {"If", "Loop"}
    <3>1. Onto(todo', todo)
      BY <1>1, <1>8, <2>1, <2>2, <2>3, QFacts, StatementOnto
    <3>2. PICK td : td = todo'
      OBVIOUS
    <3>3. /\ Joint(td) /\ Frames(td) = F /\ Head(td).do \notin Closers /\ Told(tokens, td) = tokens
      BY <1>2, <3>1, <3>2, ToldIs DEF Onto, Ready
    <3>4. TakenIn(tokens) = {} => Waits(tokens, F, Head(td), la)
      BY <1>1, <1>5, <3>3, WaitsQuiet
    <3>5. NIn(tokens, closes, td, la)
      BY <3>3, <3>4, QFacts DEF NIn
    <3>6. QED
      BY <2>1, <3>2, <3>5
  <2>4. PICK us, n : us = Append(tokens, la) /\ n = Len(tokens) + 1
    OBVIOUS
  <2>5. Appended(us, tokens, la) /\ Len(us) = n /\ Here = n /\ n \in Nat
    <3>1. la \in Real
      BY <1>8, <2>2 DEF Starters, Real, PInv
    <3>2. Appended(us, tokens, la)
      BY <2>2, <2>4, <3>1, Facts, AppendedIs
    <3>3. QED
      BY <2>4, <3>2, QFacts DEF Appended
  <2>6. /\ \A x \in F : x.d < Len(todo) /\ x.d \in Nat
        /\ Len(todo) \in Nat
    BY <1>2, QFacts, FrameDepths
  <2>7. CASE la = "If"
    <3>1. todo' = If(n) \o todo
      BY <2>1, <2>5, <2>7 DEF Statement, Is
    <3>2. PICK e, h : e = Endif(todo, n) /\ h = Iftail(todo, n)
      OBVIOUS
    <3>3. /\ Joint(todo') /\ Head(todo').do = "token" /\ Head(todo').type = la
          /\ Frames(todo') = (F \cup {e}) \cup {h}
      <4>1. AfterIf(todo, n) /\ la \in {"If", "ElseIf"} /\ PInv
        BY <1>1, <2>2, <2>7, QFacts DEF AfterIf
      <4>2. QED
        BY ONLY <1>2, <2>5, <3>1, <3>2, <4>1, IfOnto
    <3>10. /\ e = [d |-> Len(todo), do |-> "endif", of |-> Len(us)]
           /\ h = [d |-> Len(todo) + 1, do |-> "iftail", of |-> Len(us)]
      BY <2>5, <3>2 DEF Endif, Iftail
    <3>4. Head(todo').do \notin Closers
      BY <3>3 DEF Closers
    <3>5. TakenIn(tokens) = {} => Waits(us, (F \cup {e}) \cup {h}, Head(todo'), la)
      BY <1>1, <1>5, <2>5, <2>6, <2>7, <3>4, <3>10, WaitsIf
    <3>6. la \in Structural
      BY <2>7 DEF Structural
    <3>7. QED
      BY <2>1, <2>4, <3>3, <3>5, <3>6, WordStep
  <2>8. CASE la = "Loop"
    <3>1. todo' = Loop \o todo
      BY <2>1, <2>8 DEF Statement, Is
    <3>2. PICK E, h : E = Cons(End(n), todo) /\ h = [d |-> Len(todo), do |-> "end", of |-> n]
      OBVIOUS
    <3>3. End(n) \in Items /\ End(n).do = "end" /\ End(n).of = n
      BY <2>5, ItemTypes, ItemsAre
    <3>4. E \in Seq(Items) /\ Joint(E) /\ Head(E) = End(n) /\ Frames(E) = F \cup {h}
      <4>1. Stands(End(n)) /\ Fits(End(n), Head(todo)) /\ End(n).do \in Closers
        BY <1>1, <3>3 DEF Stands, Fits, Closers
      <4>2. E \in Seq(Items) /\ Joint(E) /\ Head(E) = End(n)
        BY <3>2, <3>3, <4>1, QFacts, JointCons
      <4>3. Frames(E) = F \cup {h}
        BY <1>2, <3>2, <3>3, <4>1, QFacts, FramesCons
      <4>4. QED
        BY <4>2, <4>3
    <3>5. Onto(Cons(Block({"End"}), E), E)
      BY <3>3, <3>4, BlockCons DEF Closers
    <3>6. todo' = Cons(Token(la), Cons(Block({"End"}), E))
      <4>1. Token("Loop") \in Items /\ Block({"End"}) \in Items
        BY ItemTypes DEF Real, TokenTypes, Starters
      <4>2. todo \in Seq(Items)
        BY QFacts
      <4>3. QED
        BY <2>5, <2>8, <3>1, <3>2, <3>3, <4>1, <4>2, Front3 DEF Loop
    <3>7. la \in Structural
      BY <2>8 DEF Structural
    <3>8. /\ Joint(todo') /\ Head(todo').do = "token" /\ Head(todo').type = la
          /\ Frames(todo') = F \cup {h}
      BY <3>4, <3>5, <3>6, <3>7, WordCons
    <3>9. Head(todo').do \notin Closers
      BY <3>8 DEF Closers
    <3>10. h.do = "end" /\ h.of = n /\ h.d = Len(todo)
      BY <3>2
    <3>11. TakenIn(tokens) = {} => Waits(us, F \cup {h}, Head(todo'), la)
      BY <1>1, <1>5, <2>5, <2>6, <2>8, <3>9, <3>10, WaitsOpen
    <3>12. QED
      BY <2>1, <2>4, <3>7, <3>8, <3>11, WordStep
  <2>9. QED
    BY <2>3, <2>7, <2>8
<1>9. QED
  BY <1>6, <1>7, <1>8 DEF parse_block_statement

(***************************************************************************)
(* The functions: what follows the first block of an if.                   *)
(***************************************************************************)
LEMMA parse_if_elseNested ==
    ASSUME QInv, parse_if_else
    PROVE  NIn(tokens', closes', todo', la')
<1>1. Head(todo).do = "iftail"
  BY DEF parse_if_else, Doing
<1>2. PICK a, R, G : a = Head(todo) /\ R = Tail(todo) /\ G = Frames(R)
  OBVIOUS
<1>3. /\ a \in Items /\ R \in Seq(Items) /\ todo = Cons(a, R) /\ Joint(R) /\ Fits(a, Head(R))
      /\ a.do = "iftail" /\ a.do \in Closers
  BY <1>1, <1>2, QFacts, JointTail DEF Closers
<1>4. Head(R).do = "endif" /\ Head(R).of = a.of /\ Head(R).do \in Closers
  BY <1>3 DEF Fits, Closers
<1>5. PICK h : /\ h = [d |-> Len(R), do |-> a.do, of |-> a.of]
               /\ h.d = Len(R) /\ h.do = a.do /\ h.of = a.of
               /\ Frames(Cons(a, R)) = Frames(R) \cup {h}
  BY <1>3, FramesFirst
<1>6. PICK F : F = G \cup {h} /\ F = Frames(todo)
  BY <1>2, <1>3, <1>5
<1>7. PICK e \in G : e.d = h.d - 1 /\ e.do = "endif" /\ e.of = h.of
  <2>1. PICK b, S : b = Head(R) /\ S = Tail(R)
    OBVIOUS
  <2>2. b \in Items /\ S \in Seq(Items) /\ R = Cons(b, S)
    BY <1>3, <2>1, JointTail
  <2>3. PICK e : /\ e.d = Len(S) /\ e.do = b.do /\ e.of = b.of
                 /\ Frames(Cons(b, S)) = Frames(S) \cup {e}
    BY <1>4, <2>1, <2>2, FramesFirst
  <2>4. Len(R) = Len(S) + 1 /\ Len(S) \in Nat
    BY <2>2, ConsIs, LenProperties
  <2>5. e \in G /\ e.d = h.d - 1 /\ e.do = "endif" /\ e.of = h.of
    <3>1. e \in G
      BY <1>2, <2>2, <2>3
    <3>2. e.d = h.d - 1
      BY <1>5, <2>3, <2>4
    <3>3. e.do = "endif" /\ e.of = h.of
      BY <1>4, <1>5, <2>1, <2>3
    <3>4. QED
      BY <3>1, <3>2, <3>3
  <2>6. QED
    BY <2>5
<1>8. (\A x \in G : x.d < h.d /\ x.d \in Nat) /\ h.d \in Nat
  BY <1>2, <1>3, <1>5, FrameDepths
<1>9. TakenIn(tokens) = {} => Waits(tokens, G \cup {h}, a, la)
  <2>1. Told(tokens, todo) = tokens
    BY <1>1, ToldIs
  <2>2. QED
    BY <1>2, <1>6, <2>1, QFacts DEF NIn
<1>10. UNCHANGED <<tokens, la, closes>> /\ PInv
  BY QFacts DEF parse_if_else, Stay, XInv
<1>11. PICK us : us = Append(tokens, la)
  OBVIOUS
<1>12. la \in {"ElseIf", "Else"} => Appended(us, tokens, la) /\ la \in Structural
  <2>1. la \in {"ElseIf", "Else"} => la \in Real
    BY <1>10 DEF Real, PInv
  <2>2. QED
    BY <1>11, <2>1, QFacts, Facts, AppendedIs DEF Structural
<1>13. CASE la = "ElseIf"
  <2>1. todo' = If(a.of) \o R
    BY <1>2, <1>13 DEF parse_if_else, Then
  <2>2. a.of \in Nat
    BY <1>2, <1>3, <1>10, QFacts, HeadType
  <2>3. PICK td : td = todo'
    OBVIOUS
  <2>4. PICK f, g : f = Endif(R, a.of) /\ g = Iftail(R, a.of)
    OBVIOUS
  <2>5. /\ Joint(td) /\ Head(td).do = "token" /\ Head(td).type = la
        /\ Frames(td) = (G \cup {f}) \cup {g}
    <3>1. AfterIf(R, a.of) /\ la \in {"If", "ElseIf"} /\ PInv
      BY <1>3, <1>4, <1>10, <1>13 DEF AfterIf
    <3>2. QED
      BY ONLY <1>2, <2>1, <2>2, <2>3, <2>4, <3>1, IfOnto
  <2>10. /\ f = [d |-> h.d, do |-> "endif", of |-> h.of]
         /\ g = [d |-> h.d + 1, do |-> "iftail", of |-> h.of]
    BY <1>5, <2>4 DEF Endif, Iftail
  <2>6. Head(td).do \notin Closers
    BY <2>5 DEF Closers
  <2>7. Appended(us, tokens, "ElseIf") /\ la \in Structural
    BY <1>12, <1>13
  <2>8. TakenIn(tokens) = {} => Waits(us, (G \cup {f}) \cup {g}, Head(td), la)
    <3>1. ASSUME TakenIn(tokens) = {}
          PROVE  Waits(us, (G \cup {f}) \cup {g}, Head(td), la)
      <4>1. /\ Waits(tokens, G \cup {h}, a, la)
            /\ a.do = "iftail" /\ h.do = "iftail" /\ h.d \in Nat
            /\ \A x \in G : x.d < h.d /\ x.d \in Nat
        BY <1>3, <1>5, <1>8, <1>9, <3>1
      <4>2. e \in G /\ e.d = h.d - 1 /\ e.do = "endif" /\ e.of = h.of
        BY <1>7
      <4>3. QED
        BY ONLY <2>6, <2>7, <2>10, <4>1, <4>2, WaitsElseIf
    <3>2. QED
      BY <3>1
  <2>9. QED
    BY <1>10, <1>11, <2>3, <2>5, <2>7, <2>8, WordStep
<1>14. CASE la = "Else"
  <2>1. todo' = <<Token("Else"), Block({"End"})>> \o R
    BY <1>2, <1>14 DEF parse_if_else, Then
  <2>2. Token("Else") \in Items /\ Block({"End"}) \in Items
    BY ItemTypes DEF Real, TokenTypes
  <2>3. todo' = Cons(Token(la), Cons(Block({"End"}), R))
    BY <1>3, <1>14, <2>1, <2>2, Front2
  <2>4. Onto(Cons(Block({"End"}), R), R)
    BY <1>3, <1>4, BlockCons
  <2>5. Appended(us, tokens, "Else") /\ la \in Structural
    BY <1>12, <1>14
  <2>6. PICK td : td = todo'
    OBVIOUS
  <2>7. /\ Joint(td) /\ Frames(td) = G /\ Head(td).do = "token" /\ Head(td).type = la
    BY <1>2, <2>3, <2>4, <2>5, <2>6, WordCons
  <2>8. Head(td).do \notin Closers
    BY <2>7 DEF Closers
  <2>9. TakenIn(tokens) = {} => Waits(us, G, Head(td), la)
    BY <1>3, <1>5, <1>7, <1>8, <1>9, <2>5, <2>8, WaitsElse
  <2>10. QED
    BY <1>10, <1>11, <2>5, <2>6, <2>7, <2>9, WordStep
<1>15. CASE la \notin {"ElseIf", "Else"}
  <2>1. Then(<< >>)
    BY <1>15 DEF parse_if_else
  <2>2. todo' = R
    BY <1>2, <2>1, QFacts, Popping
  <2>3. Told(tokens, R) = tokens
    BY <1>4, ToldIs
  <2>4. TakenIn(tokens) = {} => Waits(tokens, G, Head(R), la)
    <3>1. ASSUME TakenIn(tokens) = {}
          PROVE  Waits(tokens, G, Head(R), la)
      <4>1. Waits(tokens, G \cup {h}, a, la)
        BY <1>9, <3>1
      <4>2. la = "End"
        BY <1>3, <1>15, <4>1 DEF Waits, Ahead, IF_TERMINATORS
      <4>3. QED
        BY <1>3, <1>4, <1>5, <1>7, <1>8, <4>1, <4>2, QFacts, WaitsNoBranch
    <3>2. QED
      BY <3>1
  <2>5. NIn(tokens, closes, R, la)
    BY <1>2, <1>3, <2>3, <2>4, QFacts DEF NIn
  <2>6. QED
    BY <1>10, <2>2, <2>5
<1>16. QED
  BY <1>13, <1>14, <1>15

(***************************************************************************)
(* The functions: an `end`.                                                *)
(***************************************************************************)
\* What stands behind an item that takes an `end`.
LEMMA BehindEnd ==
    ASSUME NEW L \in Seq(Items), Joint(L), Head(L).do \in {"end", "endif"}
    PROVE  /\ Tail(L) \in Seq(Items) /\ Joint(Tail(L))
           /\ \A ts : Told(ts, Tail(L)) = ts
           /\ \E h : /\ Frames(L) = Frames(Tail(L)) \cup {h}
                     /\ EndTop(Frames(Tail(L)), h, Head(L), Head(Tail(L)))
<1>1. PICK a, R : a = Head(L) /\ R = Tail(L)
  OBVIOUS
<1>2. /\ a \in Items /\ R \in Seq(Items) /\ L = Cons(a, R) /\ Joint(R) /\ Fits(a, Head(R))
      /\ a.do \in Closers
  BY <1>1, JointTail DEF Closers
<1>3. /\ Head(R).do \in {"block", "program", "endif"}
      /\ Head(R).do = "endif" => a.do = "endif" /\ Head(R).of = a.of
  BY <1>1, <1>2 DEF Fits
<1>4. \A ts : Told(ts, R) = ts
  BY <1>3, ToldIs
<1>5. PICK h : /\ h.d = Len(R) /\ h.do = a.do /\ h.of = a.of
               /\ Frames(Cons(a, R)) = Frames(R) \cup {h}
  BY <1>2, FramesFirst
<1>6. (\A x \in Frames(R) : x.d < h.d /\ x.d \in Nat) /\ h.d \in Nat
  BY <1>2, <1>5, FrameDepths
<1>7. ASSUME NEW e \in Frames(R), e.d = h.d - 1
      PROVE  Head(R).do = e.do /\ Head(R).of = e.of
  BY <1>2, <1>5, <1>7, FramesIn
<1>8. EndTop(Frames(R), h, a, Head(R))
  BY <1>1, <1>3, <1>5, <1>6, <1>7 DEF EndTop
<1>9. QED
  BY <1>1, <1>2, <1>4, <1>5, <1>8

LEMMA EndNested ==
    ASSUME QInv, consume_end \/ consume_end_of_if
    PROVE  NIn(tokens', closes', todo', la')
<1>1. Head(todo).do \in {"end", "endif"} /\ Head(todo).do # "token"
  BY DEF consume_end, consume_end_of_if, Doing
<1>2. CASE Reject /\ UNCHANGED lang
  BY <1>2, QFacts DEF Reject, Stay
<1>3. PICK a, R, G : a = Head(todo) /\ R = Tail(todo) /\ G = Frames(R)
  OBVIOUS
<1>4. /\ R \in Seq(Items) /\ Joint(R)
      /\ \A ts : Told(ts, R) = ts
      /\ \E h : Frames(todo) = G \cup {h} /\ EndTop(G, h, a, Head(R))
  <2>1. todo \in Seq(Items) /\ Joint(todo)
    BY QFacts
  <2>2. QED
    BY ONLY <1>1, <1>3, <2>1, BehindEnd
<1>5. PICK h : Frames(todo) = G \cup {h} /\ EndTop(G, h, a, Head(R))
  BY <1>4
<1>10. h.do = a.do /\ h.of = a.of
  BY <1>5 DEF EndTop
<1>6. TakenIn(tokens) = {} => Waits(tokens, G \cup {h}, a, la)
  <2>1. Told(tokens, todo) = tokens
    BY <1>1, ToldIs
  <2>2. QED
    BY <1>3, <1>5, <2>1, QFacts DEF NIn
<1>7. CASE /\ la = "End" /\ Advance /\ Then(<< >>)
           /\ closes' = closes \cup {[at |-> Here, of |-> Head(todo).of]}
  <2>1. PICK us : us = tokens'
    OBVIOUS
  <2>2. Appended(us, tokens, "End") /\ Len(us) = Here
    BY <1>7, <2>1, QFacts, AdvanceIs
  <2>3. todo' = R /\ closes' = closes \cup {[at |-> Len(us), of |-> a.of]}
    BY <1>3, <1>7, <2>2, QFacts, Popping
  <2>4. ASSUME TakenIn(tokens) = {}, a.of \in Open(tokens)
        PROVE  Waits(us, G, Head(R), la') /\ ~Chained(tokens) /\ a.of = MatchIn(us, Len(us))
    <3>1. Waits(tokens, G \cup {h}, a, "End")
      BY <1>6, <1>7, <2>4
    <3>2. h.of \in Open(tokens)
      BY <1>10, <2>4
    <3>3. /\ Waits(us, G, Head(R), la')
          /\ ~Chained(tokens)
          /\ Open(tokens) # {} /\ h.of = Innermost(Open(tokens))
      BY <1>5, <2>2, <3>1, <3>2, WaitsEnd
    <3>4. MatchIn(us, Len(us)) = Innermost(Open(tokens))
      BY <2>2, <3>3, TextEnd
    <3>5. QED
      BY <1>10, <3>3, <3>4
  <2>5. ASSUME TakenIn(tokens) = {}, a.of \notin Open(tokens)
        PROVE  Chained(tokens) /\ a.of # MatchIn(us, Len(us)) /\ TakenIn(us) # {}
    <3>1. Waits(tokens, G \cup {h}, a, "End")
      BY <1>6, <1>7, <2>5
    <3>2. Chained(tokens)
      BY <1>10, <2>5, <3>1 DEF Waits, Spent
    <3>3. a.of # 0
      BY <1>10, <3>1 DEF Waits, Kind
    <3>4. MatchIn(us, Len(us)) = IF Open(tokens) = {} THEN 0 ELSE Innermost(Open(tokens))
      BY <2>2, TextEnd
    <3>5. Open(tokens) # {} => Innermost(Open(tokens)) \in Open(tokens)
      <4>1. Open(tokens) \subseteq 1 .. Len(tokens) /\ Len(tokens) \in Nat
        BY <2>2, OpenNew DEF Appended
      <4>2. QED
        BY <4>1, InnermostIs
    <3>6. TakenIn(us) # {}
      BY <2>2, <3>2, TakenNext
    <3>7. QED
      BY <2>5, <3>2, <3>3, <3>4, <3>5, <3>6
  <2>6. Justly(us, closes') <=> TakenIn(us) = {}
    <3>1. TakenIn(tokens) = {} => (a.of = MatchIn(us, Len(us)) <=> ~Chained(tokens))
      BY <2>4, <2>5
    <3>2. (Justly(tokens, closes) <=> TakenIn(tokens) = {}) /\ Recorded(closes, Len(tokens))
      BY QFacts DEF NIn
    <3>3. QED
      BY <2>2, <2>3, <3>1, <3>2, JudgedEnd
  <2>7. ASSUME TakenIn(us) = {}
        PROVE  Waits(us, G, Head(R), la')
    <3>1. TakenIn(tokens) = {}
      BY <2>2, <2>7, TakenNext
    <3>2. QED
      BY <2>4, <2>5, <2>7, <3>1
  <2>8. NIn(us, closes', R, la')
    BY <1>3, <1>4, <2>1, <2>6, <2>7 DEF NIn
  <2>9. QED
    BY <2>1, <2>3, <2>8
<1>8. CASE consume_end_of_if /\ la # "End"
  <2>1. UNCHANGED <<tokens, la, closes>> /\ Then(<< >>) /\ a.do = "endif"
    BY <1>3, <1>8 DEF consume_end_of_if, Stay, Doing
  <2>2. todo' = R
    BY <1>3, <2>1, QFacts, Popping
  <2>3. ASSUME TakenIn(tokens) = {}
        PROVE  Waits(tokens, G, Head(R), la)
    <3>1. Waits(tokens, G \cup {h}, a, la)
      BY <1>6, <2>3
    <3>2. h.of \notin Open(tokens)
      BY <1>8, <1>10, <2>1, <3>1 DEF Waits, Ahead
    <3>3. QED
      BY <1>5, <1>8, <2>1, <3>1, <3>2, QFacts, WaitsSpent
  <2>4. NIn(tokens, closes, R, la)
    BY <1>3, <1>4, <2>3, QFacts DEF NIn
  <2>5. QED
    BY <2>1, <2>2, <2>4
<1>9. QED
  BY <1>2, <1>7, <1>8 DEF consume_end, consume_end_of_if

(***************************************************************************)
(* The functions: parse, and all of them.                                  *)
(***************************************************************************)
LEMMA parse_top_levelNested ==
    ASSUME QInv, parse_top_level
    PROVE  NIn(tokens', closes', todo', la')
<1>1. Head(todo).do = "program" /\ Head(todo).do \notin Closers
  BY DEF parse_top_level, Doing, Closers
<1>2. CASE la # "Function"
  <2>1. UNCHANGED <<tokens, la, todo, closes>>
    BY <1>2 DEF parse_top_level, Reject, Stay
  <2>2. QED
    BY <2>1, QFacts
<1>3. CASE la = "Function"
  <2>1. PICK n : n = Len(tokens) + 1
    OBVIOUS
  <2>2. /\ Advance /\ closes' = closes
        /\ todo' = <<Token("Identifier"), Token("LParen"), Token("RParen"),
                     Block({"End"}), End(n)>> \o todo
    BY <1>3, <2>1, QFacts DEF parse_top_level
  <2>3. PICK us : us = tokens'
    OBVIOUS
  <2>4. Appended(us, tokens, "Function") /\ Len(us) = n /\ n \in Nat
    BY <1>3, <2>1, <2>2, <2>3, QFacts, AdvanceIs
  <2>5. PICK a, b, c, d, e : /\ a = Token("Identifier") /\ b = Token("LParen") /\ c = Token("RParen")
                             /\ d = Block({"End"}) /\ e = End(n)
    OBVIOUS
  <2>6. Bare(a) /\ Bare(b) /\ Bare(c) /\ e \in Items /\ d \in Items /\ e.do = "end" /\ e.of = n
    <3>1. "Identifier" \in Real /\ "Identifier" \notin Structural \cup {"End", "Function"}
      BY DEF Real, TokenTypes, Starters, Structural
    <3>2. Bare(a)
      BY <2>5, <3>1, BareItems
    <3>3. Bare(b) /\ Bare(c)
      BY <2>5, ParenWords
    <3>4. e \in Items /\ d \in Items /\ e.do = "end" /\ e.of = n
      BY <2>4, <2>5, ItemTypes, ItemsAre
    <3>5. QED
      BY <3>2, <3>3, <3>4
  <2>7. PICK E, h : E = Cons(e, todo) /\ h = [d |-> Len(todo), do |-> "end", of |-> n]
    OBVIOUS
  <2>8. E \in Seq(Items) /\ Joint(E) /\ Head(E) = e /\ Frames(E) = Frames(todo) \cup {h}
    <3>1. Stands(e) /\ Fits(e, Head(todo)) /\ e.do \in Closers
      BY <1>1, <2>6 DEF Stands, Fits, Closers
    <3>2. E \in Seq(Items) /\ Joint(E) /\ Head(E) = e
      BY <2>6, <2>7, <3>1, QFacts, JointCons
    <3>3. Frames(E) = Frames(todo) \cup {h}
      BY <2>6, <2>7, <3>1, QFacts, FramesCons
    <3>4. QED
      BY <3>2, <3>3
  <2>9. Onto(Cons(d, E), E)
    BY <2>5, <2>6, <2>8, BlockCons DEF Closers
  <2>10. todo' = <<a, b, c>> \o Cons(d, E)
    <3>1. a \in Items /\ b \in Items /\ c \in Items /\ d \in Items /\ e \in Items
      BY <2>6 DEF Bare
    <3>2. todo \in Seq(Items)
      BY QFacts
    <3>3. PICK s, f : s = <<b, c, d, e>> /\ f = <<a, b, c, d, e>>
      OBVIOUS
    <3>4. /\ s \in Seq(Items) /\ f \in Seq(Items) /\ Len(f) = Len(s) + 1 /\ f[1] = a
          /\ \A i \in 1 .. Len(s) : f[i + 1] = s[i]
      BY ONLY <3>1, <3>3
    <3>5. f \o todo = Cons(a, s \o todo)
      BY ONLY <3>1, <3>2, <3>4, FrontMore
    <3>6. s \o todo = Cons(b, Cons(c, Cons(d, Cons(e, todo))))
      BY ONLY <3>1, <3>2, <3>3, Front4
    <3>7. Cons(d, E) \in Seq(Items)
      BY <2>9 DEF Onto, Ready
    <3>8. <<a, b, c>> \o Cons(d, E) = Cons(a, Cons(b, Cons(c, Cons(d, E))))
      BY ONLY <3>1, <3>7, Front3
    <3>9. todo' = f \o todo
      BY ONLY <2>2, <2>5, <3>3
    <3>10. QED
      BY ONLY <2>7, <3>5, <3>6, <3>8, <3>9
  <2>11. Onto(todo', E)
    <3>1. Cons(d, E) \in Seq(Items)
      BY <2>9 DEF Onto, Ready
    <3>2. QED
      BY <2>6, <2>9, <2>10, <3>1, InFront
  <2>12. PICK td : td = todo'
    OBVIOUS
  <2>13. /\ Joint(td) /\ Frames(td) = Frames(todo) \cup {h} /\ Head(td).do \notin Closers
         /\ Told(us, td) = us
    BY <2>8, <2>11, <2>12, ToldIs DEF Onto, Ready
  <2>14. (\A x \in Frames(todo) : x.d < Len(todo) /\ x.d \in Nat) /\ Len(todo) \in Nat
    BY QFacts, FrameDepths
  <2>15. h.do = "end" /\ h.of = n /\ h.d = Len(todo)
    BY <2>7
  <2>16. TakenIn(tokens) = {} => Waits(us, Frames(todo) \cup {h}, Head(td), la')
    <3>1. ASSUME TakenIn(tokens) = {}
          PROVE  Waits(us, Frames(todo) \cup {h}, Head(td), la')
      <4>1. Told(tokens, todo) = tokens
        BY <1>1, ToldIs
      <4>2. Waits(tokens, Frames(todo), Head(todo), la)
        BY <3>1, <4>1, QFacts DEF NIn
      <4>3. QED
        BY <1>1, <2>4, <2>13, <2>14, <2>15, <4>2, WaitsOpen
    <3>2. QED
      BY <3>1
  <2>17. TakenIn(us) = TakenIn(tokens) /\ (Justly(us, closes) <=> Justly(tokens, closes))
    BY <2>4, QFacts, JudgedOther
  <2>18. NIn(us, closes, td, la')
    BY <2>13, <2>16, <2>17, QFacts DEF NIn
  <2>19. QED
    BY <2>2, <2>3, <2>12, <2>18
<1>4. QED
  BY <1>2, <1>3

LEMMA InitNInv == Init => TInv /\ NInv
<1> SUFFICES ASSUME Init PROVE TInv /\ NInv
  OBVIOUS
<1>1. TInv
  BY InitTInv
<1>2. PICK a : a = [do |-> "program"]
  OBVIOUS
<1>3. /\ todo = <<a>> /\ a.do = "program" /\ tokens = << >> /\ Len(tokens) = 0 /\ closes = {}
      /\ a \in Items /\ todo \in Seq(Items) /\ status = "running"
  BY <1>2, ItemTypes DEF Init
<1>4. DOMAIN todo = {1} /\ todo[1] = a /\ Head(todo) = a /\ Len(todo) = 1 /\ todo # << >>
  BY <1>3
<1>5. Joint(todo)
  BY <1>3, <1>4 DEF Joint, Follows
<1>6. Frames(todo) = {}
  BY <1>3, <1>4, <1>5, JointTail
<1>7. Told(tokens, todo) = tokens
  BY <1>3, <1>4, ToldIs
<1>8. TakenIn(tokens) = {} /\ Open(tokens) = {} /\ ~Chained(tokens)
  BY <1>3 DEF TakenIn, Open, OpenAt, Chained
<1>9. Justly(tokens, closes)
  BY <1>3 DEF Justly
<1>10. Waits(tokens, {}, a, la)
  <2>1. Kind(tokens, {}) /\ Nested({}) /\ Held(tokens, {}) /\ Branched(tokens, {}, a)
    BY <1>8 DEF Kind, Nested, Held, Branched
  <2>2. Spent(tokens, {}, a, la) /\ Ahead(tokens, a, la)
    BY <1>3, <1>8 DEF Spent, Ahead
  <2>3. QED
    BY <2>1, <2>2 DEF Waits
<1>11. QED
  BY <1>1, <1>3, <1>4, <1>5, <1>6, <1>7, <1>8, <1>9, <1>10 DEF NInv, NIn

LEMMA NextNInv == TInv /\ NInv /\ [Next]_vars => TInv' /\ NInv'
<1> SUFFICES ASSUME TInv, NInv, [Next]_vars PROVE TInv' /\ NInv'
  OBVIOUS
<1>1. TInv'
  BY NextTInv
<1>2. QInv
  BY DEF NInv, QInv
<1>3. CASE UNCHANGED vars
  BY <1>1, <1>3 DEF vars, NInv, NIn
<1>4. CASE Parse
  <2>1. NIn(tokens', closes', todo', la')
    BY <1>2, <1>4, consumeNested, parse_top_levelNested, parse_block_statementNested,
       EndNested, parse_if_elseNested, QuietNested DEF Parse
  <2>2. status' = "accepted" => Head(todo').do = "program"
    <3>1. status = "running"
      BY <1>4 DEF Parse, parse_top_level, parse_block_statement, parse_if_else,
         parse_annotation, parse_type_expression, parse_primary_expression, parse_call,
         parse_operators, make_binary, consume, consume_end, consume_end_of_if, Doing
    <3>2. CASE parse_top_level
      BY <3>1, <3>2 DEF parse_top_level, Doing, Reject
    <3>3. CASE ~parse_top_level
      <4>1. status' # "accepted"
        BY <1>4, <3>1, <3>3 DEF Parse, parse_block_statement, parse_if_else,
           parse_annotation, parse_type_expression, parse_primary_expression, parse_call,
           parse_operators, make_binary, consume, consume_end, consume_end_of_if, Reject
      <4>2. QED
        BY <4>1
    <3>4. QED
      BY <3>2, <3>3
  <2>3. QED
    BY <1>1, <2>1, <2>2 DEF NInv
<1>5. QED
  BY <1>3, <1>4 DEF Next, Stopped

(***************************************************************************)
(* What follows for the text.                                              *)
(***************************************************************************)
LEMMA InText ==
    /\ \A p : Unclosed(p) = OpenAt(tokens, p) /\ Match(p) = MatchIn(tokens, p)
    /\ \A types, o, p : Branches(types, o, p) = BranchesIn(tokens, types, o, p)
<1>1. \A i, j : Balance(i, j) = Depth(tokens, i, j)
  BY DEF Balance, Count, Depth, CountIn
<1>2. \A p : Unclosed(p) = OpenAt(tokens, p)
  BY <1>1 DEF Unclosed, OpenAt
<1>3. \A p : Match(p) = MatchIn(tokens, p)
  BY <1>2 DEF Match, MatchIn
<1>4. \A types, o, p : Branches(types, o, p) = BranchesIn(tokens, types, o, p)
  BY <1>1 DEF Branches, BranchesIn
<1>5. QED
  BY <1>2, <1>3, <1>4

LEMMA TakenText ==
    ASSUME tokens \in Seq(Real)
    PROVE  Taken = TakenIn(tokens)
<1>1. DOMAIN tokens = 1 .. Len(tokens)
  BY LenProperties
<1>2. \A p : p \in Ends <=> p \in 1 .. Len(tokens) /\ tokens[p] = "End"
  BY <1>1 DEF Ends
<1>3. \A p : p \in Taken <=> p \in TakenIn(tokens)
  BY <1>2, InText DEF Taken, TakenIn
<1>4. Taken \subseteq Ends
  BY DEF Taken
<1>5. QED
  BY <1>3

LEMMA Nesting == TInv /\ NInv => NestingExact
<1> SUFFICES ASSUME TInv, NInv PROVE NestingExact
  OBVIOUS
<1>1. QInv /\ Taken = TakenIn(tokens)
  BY TakenText DEF NInv, QInv, TInv, XInv, PInv
<1>2. (\A c \in closes : c.of = Match(c.at)) <=> Taken = {}
  BY <1>1, InText, QFacts DEF NIn, Justly
<1>3. ASSUME status = "accepted", Taken = {}
      PROVE  Unclosed(Len(tokens)) = {}
  <2>1. Head(todo).do = "program"
    BY <1>3 DEF NInv
  <2>2. Frames(todo) = {} /\ Told(tokens, todo) = tokens
    BY <1>1, <2>1, QFacts, JointTail, ToldIs
  <2>3. Held(tokens, {})
    BY <1>1, <1>3, <2>2, QFacts DEF NIn, Waits
  <2>4. Open(tokens) = {}
    BY <2>3 DEF Held
  <2>5. QED
    BY <2>4, InText DEF Open
<1>4. QED
  BY <1>2, <1>3 DEF NestingExact

\* What the block that is being parsed takes, by the text.
LEMMA BlockTakes ==
    ASSUME QInv, Head(todo).do = "block", Taken = {}
    PROVE  Legal <=> la \in Head(todo).until \cup Starters
<1>1. PICK a, R, F, O : a = Head(todo) /\ R = Tail(todo) /\ F = Frames(todo) /\ O = Open(tokens)
  OBVIOUS
<1>2. /\ a \in Items /\ R \in Seq(Items) /\ todo = Cons(a, R) /\ Joint(R) /\ Fits(a, Head(R))
      /\ a.do \notin Closers /\ Head(R).do \in Closers
      /\ a.until = IF Head(R).do = "iftail" THEN IF_TERMINATORS ELSE {"End"}
  <2>1. a \in Items /\ R \in Seq(Items) /\ todo = Cons(a, R) /\ Joint(R) /\ Fits(a, Head(R))
    BY <1>1, QFacts, JointTail
  <2>2. a.do \notin Closers
    BY <1>1 DEF Closers
  <2>3. QED
    BY <1>1, <2>1, <2>2 DEF Fits
<1>3. Waits(tokens, F, a, la)
  <2>1. Told(tokens, todo) = tokens
    BY ToldIs
  <2>2. TakenIn(tokens) = {}
    BY TakenText, QFacts DEF XInv, PInv
  <2>3. QED
    BY <1>1, <2>1, <2>2, QFacts DEF NIn
<1>4. PICK b, S : b = Head(R) /\ S = Tail(R) /\ b \in Items /\ S \in Seq(Items) /\ R = Cons(b, S)
  BY <1>2, JointTail
<1>5. PICK h : h.d = Len(S) /\ h.do = b.do /\ h.of = b.of /\ Frames(Cons(b, S)) = Frames(S) \cup {h}
  BY <1>2, <1>4, FramesFirst
<1>6. PICK G : G = Frames(S)
  OBVIOUS
<1>7. F = G \cup {h} /\ (\A x \in G : x.d < h.d /\ x.d \in Nat) /\ h.d \in Nat
  <2>1. F = Frames(R)
    <3>1. Frames(Cons(a, R)) = Frames(R)
      BY <1>2, FramesCons
    <3>2. QED
      BY <1>1, <1>2, <3>1
  <2>2. QED
    BY <1>4, <1>5, <1>6, <2>1, FrameDepths
<1>8. /\ \A x \in F : x.of \in Open(tokens)
      /\ \A o \in Open(tokens) : tokens[o] = "If" /\ o \notin Having(tokens, "Else") => Tailed(F, o)
  BY <1>2, <1>3, AllOpen DEF Closers
<1>9. h.of \in O /\ O # {} /\ h.of = Innermost(O)
  <2>1. h.of \in Open(tokens)
    BY <1>7, <1>8
  <2>2. h.of = Innermost(Open(tokens))
    BY <1>3, <1>7, <2>1, QFacts, TopInnermost DEF Waits
  <2>3. QED
    BY <1>1, <2>1, <2>2
<1>10. PICK o : o = h.of
  OBVIOUS
<1>11. b.do = "iftail" <=> tokens[o] = "If" /\ o \notin Having(tokens, "Else")
  <2>1. CASE b.do = "iftail"
    <3>1. tokens[o] = "If" /\ Tailed(F, o)
      BY <1>3, <1>5, <1>7, <1>10, <2>1 DEF Waits, Kind, Tailed
    <3>2. QED
      BY <1>1, <1>3, <1>9, <1>10, <2>1, <3>1 DEF Waits, Branched
  <2>2. CASE b.do = "end"
    BY <1>3, <1>5, <1>7, <1>10, <2>2 DEF Waits, Kind
  <2>3. CASE b.do = "endif"
    <3>1. ASSUME NEW x \in F, x.do = "iftail", x.of = o
          PROVE  FALSE
      <4>1. x \in G /\ x.d < h.d
        BY <1>5, <1>7, <2>3, <3>1
      <4>2. h.d > x.d /\ h \in F
        BY <1>7, <4>1
      <4>3. h.of > x.of \/ x.do = "endif"
        BY <1>3, <4>2 DEF Waits, Nested
      <4>4. o \in Int
        BY <1>1, <1>9, <1>10 DEF Open, OpenAt
      <4>5. QED
        BY <1>10, <3>1, <4>3, <4>4
    <3>2. ~Tailed(F, o)
      BY <3>1 DEF Tailed
    <3>3. QED
      BY <1>1, <1>8, <1>9, <1>10, <2>3, <3>2
  <2>4. QED
    BY <1>2, <1>4, <2>1, <2>2, <2>3 DEF Closers
<1>12. /\ Unclosed(Len(tokens)) = O
       /\ Branches({"Else"}, o, Len(tokens)) = {} <=> o \notin Having(tokens, "Else")
  <2>1. Unclosed(Len(tokens)) = O
    BY <1>1, InText DEF Open
  <2>2. PICK E : E = {"Else"}
    OBVIOUS
  <2>3. Branches(E, o, Len(tokens)) = BranchesIn(tokens, E, o, Len(tokens))
    BY InText
  <2>4. QED
    BY <1>1, <1>9, <1>10, <2>1, <2>2, <2>3 DEF Having
<1>13. Legal <=> \/ la \in Starters \cup {"End"}
                 \/ la \in {"Else", "ElseIf"} /\ b.do = "iftail"
  BY <1>9, <1>10, <1>11, <1>12 DEF Legal
<1>14. la \in a.until <=> la = "End" \/ (la \in {"Else", "ElseIf"} /\ b.do = "iftail")
  BY <1>2, <1>4 DEF IF_TERMINATORS
<1>15. QED
  BY <1>1, <1>13, <1>14

LEMMA Judging ==
    ASSUME TInv, NInv, Next, status = "running", AtStatement
    PROVE  status' = "rejected" <=> ~Legal
<1>1. QInv /\ Taken = {} /\ Parse
  BY DEF NInv, QInv, AtStatement, Next, Stopped
<1>2. CASE Head(todo).do = "program"
  <2>1. parse_top_level
    BY <1>1, <1>2 DEF Parse, parse_block_statement, parse_if_else,
       parse_annotation, parse_type_expression, parse_primary_expression, parse_call,
       parse_operators, make_binary, consume, consume_end, consume_end_of_if, Doing
  <2>2. status' = "rejected" <=> la \notin {"Function", "EndOfFile"}
    BY <2>1 DEF parse_top_level, Reject
  <2>3. Open(tokens) = {}
    <3>1. Frames(todo) = {} /\ Told(tokens, todo) = tokens
      BY <1>1, <1>2, QFacts, JointTail, ToldIs
    <3>2. TakenIn(tokens) = {}
      BY <1>1, TakenText, QFacts DEF XInv, PInv
    <3>3. Held(tokens, {})
      BY <1>1, <3>1, <3>2, QFacts DEF NIn, Waits
    <3>4. QED
      BY <3>3 DEF Held
  <2>4. Legal <=> la \in {"Function", "EndOfFile"}
    BY <2>3, InText DEF Legal, Open
  <2>5. QED
    BY <2>2, <2>4
<1>3. CASE Head(todo).do = "block"
  <2>1. parse_block_statement
    BY <1>1, <1>3 DEF Parse, parse_top_level, parse_if_else,
       parse_annotation, parse_type_expression, parse_primary_expression, parse_call,
       parse_operators, make_binary, consume, consume_end, consume_end_of_if, Doing
  <2>2. status' = "rejected" <=> la \notin Head(todo).until \cup Starters
    BY <2>1 DEF parse_block_statement, Reject
  <2>3. QED
    BY <1>1, <1>3, <2>2, BlockTakes
<1>4. QED
  BY <1>2, <1>3 DEF AtStatement

-----------------------------------------------------------------------------
\* Every `end` is recorded for the construct it closes in the text, until an
\* `end` follows that of an elseif chain; then one is not.  An accepted text
\* without such an `end` has nothing left open: for texts of any length, with
\* constructs nested to any depth and any number of branches.
THEOREM NestingIsExact == Spec => []NestingExact
BY InitNInv, NextNInv, Nesting, PTL DEF Spec

\* Where a statement may begin, the parser throws exactly when the text has no
\* place for the token: outside functions anything but a function or the end,
\* inside anything but a statement, an `end`, and a branch of an if that has had
\* no else.
THEOREM StatementsAreJudged == Spec => StatementsJudged
<1>1. TInv /\ NInv /\ [Next]_vars
          => [status = "running" /\ AtStatement => (status' = "rejected" <=> ~Legal)]_vars
  BY Judging
<1>2. QED
  BY <1>1, InitNInv, NextNInv, PTL DEF Spec, StatementsJudged
=============================================================================
