------------------------------- MODULE Parser --------------------------------
(***************************************************************************)
(* The recursive descent of Parser (src/parser.cxx) over a token stream.   *)
(*                                                                         *)
(* todo is the C++ call stack read as a list of things left to do: what    *)
(* the innermost active parse_* function does next comes first, then the   *)
(* rest of its callers.  Calling a function puts its body in front;        *)
(* a while loop is an item that puts itself behind each iteration.         *)
(*                                                                         *)
(* Of a token only its type matters (and of an Identifier whether it names *)
(* a type).  The stream is chosen while it is read: la is what peek()      *)
(* returns, tokens what has been consumed, so index is Len(tokens).        *)
(***************************************************************************)
EXTENDS Integers, Sequences, FiniteSets

CONSTANTS
    Languages   \* bound: sets of token types a stream may be made of,
                \* each with the length of its longest stream

VARIABLES
    lang,     \* the member of Languages this stream is from
    tokens,   \* the types of the tokens consumed
    la,       \* peek(): the type of the next token
    todo,     \* what the active functions have still to do
    values,   \* expressions parsed whose parent is not built yet
    closes,   \* history: which construct consumed which `end`
    status    \* running, accepted, rejected (an exception)

vars == <<lang, tokens, la, todo, values, closes, status>>

(***************************************************************************)
(* Token types.  TypeName: an Identifier with the name of a builtin type.  *)
(* BadLiteral: a number whose conversion throws.  Other: what no rule      *)
(* takes (StringLiteral, And, Or, Not, In).                                *)
(***************************************************************************)
Comparisons == {"Equals", "NotEquals"}
Orderings   == {"LessThan", "GreaterThan", "LessThanEquals", "GreaterThanEquals"}
Literals    == {"IntLiteral", "FloatLiteral"}
Starters    == {"Identifier", "TypeName", "Set", "Show", "Return", "If", "Loop",
                "Break", "Cycle"}
TokenTypes  == Comparisons \cup Orderings \cup Literals \cup Starters \cup
               {"Plus", "Minus", "Asterisk", "ForwardSlash", "LParen", "RParen",
                "Colon", "Assignment", "Function", "End", "Else", "ElseIf",
                "BadLiteral", "Other", "EndOfFile"}

IF_TERMINATORS == {"ElseIf", "Else", "End"}

precedence(t) == CASE t \in Comparisons                -> 1
                   [] t \in Orderings                  -> 2
                   [] t \in {"Plus", "Minus"}          -> 3
                   [] t \in {"Asterisk", "ForwardSlash"} -> 4
                   [] OTHER                            -> 0

ASSUME LanguagesAssumption ==
    \A l \in Languages : l.types \subseteq TokenTypes \ {"EndOfFile"} /\ l.max \in Nat

(***************************************************************************)
(* Items of todo.                                                          *)
(***************************************************************************)
Token(t)          == [do |-> "token", type |-> t]
Block(until)      == [do |-> "block", until |-> until]
End(of)           == [do |-> "end", of |-> of]
Expression(min)   == [do |-> "expression", min |-> min]
Operators(min, p) == [do |-> "operators", min |-> min, from |-> p]
Binary(op)        == [do |-> "binary", op |-> op]

Here == Len(tokens) + 1

If(of) == <<Token(la), Expression(0), Block(IF_TERMINATORS),
            [do |-> "iftail", of |-> of], [do |-> "endif", of |-> of]>>

Is(t) == la = t \/ (t = "Identifier" /\ la = "TypeName")

Declaration == <<Token("Identifier"), [do |-> "annotation"], Token("Assignment"),
                 Expression(0)>>
Assignment  == <<Token("Set"), Token("Identifier"), Token("Assignment"), Expression(0)>>
WithValue   == <<Token(la), Expression(0)>>
Loop        == <<Token("Loop"), Block({"End"}), End(Here)>>
Jump        == <<Token(la)>>

Statement ==
    CASE Is("Identifier")           -> Declaration
      [] la = "Set"                 -> Assignment
      [] la \in {"Show", "Return"}  -> WithValue
      [] la = "If"                  -> If(Here)
      [] la = "Loop"                -> Loop
      [] la \in {"Break", "Cycle"}  -> Jump

(***************************************************************************)
(* Steps.                                                                  *)
(***************************************************************************)
Doing(k)   == status = "running" /\ todo # << >> /\ Head(todo).do = k
Then(more) == todo' = more \o Tail(todo)

\* peek() keeps returning the last token, EndOfFile, beyond the end.
Advance ==
    /\ tokens' = Append(tokens, la)
    /\ la' \in IF la = "EndOfFile" \/ Len(tokens') >= lang.max
               THEN {"EndOfFile"} ELSE lang.types \cup {"EndOfFile"}

Stay   == UNCHANGED <<tokens, la>>
Reject == status' = "rejected" /\ Stay /\ UNCHANGED <<todo, values, closes>>

Init ==
    /\ lang \in Languages
    /\ tokens = << >>
    /\ la \in lang.types \cup {"EndOfFile"}
    /\ todo = <<[do |-> "program"]>>
    /\ values = << >>
    /\ closes = {}
    /\ status = "running"

consume ==
    /\ Doing("token")
    /\ IF Is(Head(todo).type)
       THEN Advance /\ Then(<< >>) /\ UNCHANGED <<values, closes, status>>
       ELSE Reject
    /\ UNCHANGED lang

parse_top_level ==
    /\ Doing("program")
    /\ CASE la = "EndOfFile" ->
              status' = "accepted" /\ Stay /\ UNCHANGED <<todo, values, closes>>
         [] la = "Function" ->
              /\ Advance
              /\ todo' = <<Token("Identifier"), Token("LParen"), Token("RParen"),
                           Block({"End"}), End(Here)>> \o todo
              /\ UNCHANGED <<values, closes, status>>
         [] OTHER -> Reject
    /\ UNCHANGED lang

\* Mutant of parse_block_statement: a token that begins no statement is
\* skipped, to report more errors in one go.
parse_block_skipping ==
    /\ Doing("block")
    /\ CASE la \in Head(todo).until -> Stay /\ Then(<< >>)
         [] la \in Starters         -> Stay /\ todo' = Statement \o todo
         [] OTHER                   -> Advance /\ UNCHANGED todo
    /\ values' = << >>
    /\ UNCHANGED <<lang, closes, status>>

\* Mutant of parse_block_statement: parse_statement returns an empty
\* statement where it should throw.
parse_block_looping ==
    /\ Doing("block")
    /\ Stay
    /\ CASE la \in Head(todo).until -> Then(<< >>)
         [] la \in Starters         -> todo' = Statement \o todo
         [] OTHER                   -> UNCHANGED todo
    /\ values' = << >>
    /\ UNCHANGED <<lang, closes, status>>

\* One turn of the while of parse_block_statement, with parse_statement.  The
\* statement parsed before owns its expression now.
parse_block_statement ==
    /\ Doing("block")
    /\ IF la \in Head(todo).until \cup Starters
       THEN /\ IF la \in Head(todo).until THEN Then(<< >>)
                                         ELSE todo' = Statement \o todo
            /\ values' = << >>
            /\ Stay
            /\ UNCHANGED <<closes, status>>
       ELSE Reject
    /\ UNCHANGED lang

consume_end ==
    /\ Doing("end")
    /\ IF la = "End"
       THEN /\ Advance
            /\ Then(<< >>)
            /\ closes' = closes \cup {[at |-> Here, of |-> Head(todo).of]}
            /\ UNCHANGED <<values, status>>
       ELSE Reject
    /\ UNCHANGED lang

\* Behind the then-block of an if: the if_else is an if of its own, or a block.
parse_if_else ==
    /\ Doing("iftail")
    /\ Then(CASE la = "ElseIf" -> If(Head(todo).of)
              [] la = "Else"   -> <<Token("Else"), Block({"End"})>>
              [] OTHER         -> << >>)
    /\ Stay
    /\ UNCHANGED <<lang, values, closes, status>>

\* Mutant of consume_end_of_if: while for if.
consume_ends_of_if ==
    /\ Doing("endif")
    /\ IF la = "End"
       THEN /\ Advance
            /\ closes' = closes \cup {[at |-> Here, of |-> Head(todo).of]}
            /\ UNCHANGED todo
       ELSE Stay /\ Then(<< >>) /\ UNCHANGED closes
    /\ UNCHANGED <<lang, values, status>>

\* Each if of a chain takes an `end` if there is one.
consume_end_of_if ==
    /\ Doing("endif")
    /\ Then(<< >>)
    /\ IF la = "End"
       THEN Advance /\ closes' = closes \cup {[at |-> Here, of |-> Head(todo).of]}
       ELSE Stay /\ UNCHANGED closes
    /\ UNCHANGED <<lang, values, status>>

parse_annotation ==
    /\ Doing("annotation")
    /\ IF la = "Colon" THEN Advance /\ Then(<<[do |-> "type"]>>)
                       ELSE Stay /\ Then(<< >>)
    /\ UNCHANGED <<lang, values, closes, status>>

parse_type_expression ==
    /\ Doing("type")
    /\ IF la = "TypeName"
       THEN Advance /\ Then(<< >>) /\ UNCHANGED <<values, closes, status>>
       ELSE Reject
    /\ UNCHANGED lang

(***************************************************************************)
(* Expressions: parse_primary_expression and its callees, then the while   *)
(* of parse_expression.  A leaf is the position of its token, an inner     *)
(* node that of its operator with the two sides.                           *)
(***************************************************************************)
parse_primary_expression ==
    LET rest == Operators(Head(todo).min, Here)
        leaf == Append(values, [at |-> Here])
    IN  /\ Doing("expression")
        /\ IF la \in Literals \cup {"Identifier", "TypeName", "LParen"}
           THEN /\ Advance
                /\ CASE la \in Literals -> Then(<<rest>>) /\ values' = leaf
                     [] la = "LParen"   ->
                          /\ Then(<<Expression(0), Token("RParen"), rest>>)
                          /\ UNCHANGED values
                     [] OTHER           -> Then(<<[do |-> "call"], rest>>) /\ values' = leaf
                /\ UNCHANGED <<closes, status>>
           ELSE Reject
        /\ UNCHANGED lang

parse_call ==
    /\ Doing("call")
    /\ Then(IF la = "LParen" THEN <<Token("LParen"), Token("RParen")>> ELSE << >>)
    /\ Stay
    /\ UNCHANGED <<lang, values, closes, status>>

\* Mutant of parse_operators: >= for >.
parse_operators_right ==
    /\ Doing("operators")
    /\ IF precedence(la) > 0 /\ precedence(la) >= Head(todo).min
       THEN Advance /\ todo' = <<Expression(precedence(la)), Binary(Here)>> \o todo
       ELSE Stay /\ Then(<< >>)
    /\ UNCHANGED <<lang, values, closes, status>>

parse_operators ==
    /\ Doing("operators")
    /\ IF precedence(la) > Head(todo).min
       THEN Advance /\ todo' = <<Expression(precedence(la)), Binary(Here)>> \o todo
       ELSE Stay /\ Then(<< >>)
    /\ UNCHANGED <<lang, values, closes, status>>

\* Mutant of make_binary: the left side stays where it was.
make_binary_by_copy ==
    LET n == Len(values)
    IN  /\ Doing("binary")
        /\ values' = Append(SubSeq(values, 1, n - 1),
                            [at |-> Head(todo).op, l |-> values[n - 1], r |-> values[n]])
        /\ Then(<< >>)
        /\ Stay
        /\ UNCHANGED <<lang, closes, status>>

make_binary ==
    LET n == Len(values)
    IN  /\ Doing("binary")
        /\ values' = Append(SubSeq(values, 1, n - 2),
                            [at |-> Head(todo).op, l |-> values[n - 1], r |-> values[n]])
        /\ Then(<< >>)
        /\ Stay
        /\ UNCHANGED <<lang, closes, status>>

Stopped == status # "running" /\ UNCHANGED vars

Parse ==
    \/ parse_top_level
    \/ parse_block_statement
    \/ parse_if_else
    \/ parse_annotation
    \/ parse_type_expression
    \/ parse_primary_expression
    \/ parse_call
    \/ parse_operators
    \/ make_binary
    \/ consume
    \/ consume_end
    \/ consume_end_of_if

Next == Parse \/ Stopped

\* One thread parses, and waits for nothing.
Spec == Init /\ [][Next]_vars /\ WF_vars(Parse)

-----------------------------------------------------------------------------
Pending == Cardinality({k \in DOMAIN todo : todo[k].do = "binary"})

TypeOK ==
    /\ lang \in Languages
    /\ tokens \in Seq(TokenTypes)
    /\ la \in TokenTypes
    /\ todo # << >>
    /\ Head(todo).do = "expression" => Len(values) = Pending
    /\ Head(todo).do \in {"operators", "binary", "call"} => Len(values) = Pending + 1
    /\ closes \in SUBSET [at : 1 .. Len(tokens), of : 1 .. Len(tokens)]
    /\ status \in {"running", "accepted", "rejected"}

\* No function advances over EndOfFile: peek() beyond the last token, for which
\* it has a fallback, is never needed, whatever the stream.
NeverPastEnd == \A p \in DOMAIN tokens : tokens[p] # "EndOfFile"

(***************************************************************************)
(* What an expression means, said of its tokens: the operator that binds   *)
(* it together is the last of those that bind least, outside parentheses.  *)
(***************************************************************************)
Count(types, i, j) == Cardinality({p \in i .. j : tokens[p] \in types})

OperatorsAt(i, j) ==
    {k \in i .. j : /\ precedence(tokens[k]) > 0
                    /\ Count({"LParen"}, i, k) = Count({"RParen"}, i, k)}

Loosest(K) == CHOOSE k \in K : \A m \in K :
                  \/ precedence(tokens[k]) < precedence(tokens[m])
                  \/ precedence(tokens[k]) = precedence(tokens[m]) /\ m <= k

\* The tokens p[1] .. p[2].
Spans == (Nat \ {0}) \X Nat

Grouping(first, last) ==
    LET G[p \in Spans] ==
            LET i == p[1]
                j == p[2]
                K == OperatorsAt(i, j)
            IN  IF K # {} THEN [at |-> Loosest(K), l |-> G[<<i, Loosest(K) - 1>>],
                                r |-> G[<<Loosest(K) + 1, j>>]]
                ELSE IF i < j /\ tokens[i] = "LParen" THEN G[<<i + 1, j - 1>>]
                ELSE [at |-> i]
    IN  G[<<first, last>>]

\* Precedence climbing builds the tree the operators' levels and left
\* associativity define, for every subexpression and in parentheses nested
\* anyhow: what `>` against the caller's level decides token by token is where
\* the whole expression has to be split.
ExpressionsExact ==
    Head(todo).do = "operators" =>
        values[Len(values)] = Grouping(Head(todo).from, Len(tokens))

(***************************************************************************)
(* What an `end` closes, said of the text: the innermost function, if or   *)
(* loop that is open.                                                      *)
(***************************************************************************)
Openers == {"Function", "If", "Loop"}

Balance(i, j) == Count(Openers, i, j) - Count({"End"}, i, j)

\* The openers whose own `end` has not come before position p.
Unclosed(p) == {o \in 1 .. p : /\ tokens[o] \in Openers
                               /\ \A q \in o .. p : Balance(o, q) > 0}

Innermost(O) == CHOOSE o \in O : \A q \in O : q <= o

Match(p) == IF Unclosed(p - 1) = {} THEN 0 ELSE Innermost(Unclosed(p - 1))

\* Branch words of types that belong to the if at o, before position p.
Branches(types, o, p) ==
    {q \in o .. p : tokens[q] \in types /\ Balance(o, q) = 1}

Ends == {p \in DOMAIN tokens : tokens[p] = "End"}

\* An `end` directly behind the one that closes an if with an elseif.
Taken == {p \in Ends : /\ p - 1 \in Ends
                       /\ Match(p - 1) # 0
                       /\ Branches({"ElseIf"}, Match(p - 1), p - 1) # {}}

\* Every `end` is consumed by the construct it closes in the text, until an
\* `end` follows that of an elseif chain: that one goes to the chain, and its
\* owner has to look for another.  An accepted text without such an `end` has
\* all its constructs closed.
NestingExact ==
    /\ (\A c \in closes : c.of = Match(c.at)) <=> Taken = {}
    /\ status = "accepted" /\ Taken = {} => Unclosed(Len(tokens)) = {}

\* Where a statement may begin, the text decides what may stand: outside
\* functions a function or the end; inside, a statement, `end`, and in an if
\* that has had no `else`, a further branch.
Legal ==
    LET O == Unclosed(Len(tokens))
    IN  IF O = {} THEN la \in {"Function", "EndOfFile"}
        ELSE \/ la \in Starters \cup {"End"}
             \/ /\ la \in {"Else", "ElseIf"}
                /\ tokens[Innermost(O)] = "If"
                /\ Branches({"Else"}, Innermost(O), Len(tokens)) = {}

AtStatement == Head(todo).do \in {"program", "block"} /\ Taken = {}

\* The parser throws at the first token that cannot stand where it stands, and
\* at no other.
StatementsJudged ==
    [][status = "running" /\ AtStatement => (status' = "rejected" <=> ~Legal)]_vars

\* Every stream is parsed to a verdict: no loop of the parser turns without
\* consuming a token or returning.
ParsingEnds == <>(status # "running")

\* An `end` closes the innermost block that is open.  ("B2 is a block-end style
\* language, similar to lua", README.md:28.)
EndClosesInnermost == \A c \in closes : c.of = Match(c.at)
==============================================================================
