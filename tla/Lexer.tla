-------------------------------- MODULE Lexer --------------------------------
(***************************************************************************)
(* Lexer (src/lexer.cxx): tokenise() over a text, character by character.  *)
(*                                                                         *)
(* A character is its class as far as the rules tell: letters (with `_`),  *)
(* digits, each symbol, the quote, the dot, white space and line ends, the *)
(* character 0, and anything else.  A token is its type, the positions of  *)
(* its first and last character, and its location; words are looked up in  *)
(* the two StaticMaps.                                                     *)
(***************************************************************************)
EXTENDS StaticMap

CONSTANTS
    Chars,       \* the characters texts are made of
    MaxLen,      \* bound: length of a text
    Rank(_),     \* a word's place in the order of words
    KEYWORDS,    \* the two maps, each key the rank of its word
    SYMBOLS

VARIABLES
    text,        \* data
    index,       \* characters consumed
    line, column,             \* current_location
    token_line, token_column, \* token_location
    rule,        \* the function that is active
    start,       \* where its token begins
    tokens,
    status       \* running, done, error (LexerError)

vars == <<text, index, line, column, token_line, token_column, rule, start,
          tokens, status, mapVars>>

Letters     == {"a"}
Digits      == {"1"}
SymbolChars == {"+", "-", "*", "/", "(", ")", "=", ":", "<", ">", "{", "}", "!"}
Spaces      == {"space", "newline"}
Quote       == "quote"
NUL         == "NUL"

is_identifier_char(c) == c \in Letters \cup Digits \cup {"-"}
is_symbol_char(c)     == c \in SymbolChars

Texts == UNION {[1 .. n -> Chars] : n \in 0 .. MaxLen}

ASSUME MaxLenAssumption == MaxLen \in Nat
ASSUME TablesAssumption == /\ Maps = {KEYWORDS, SYMBOLS} /\ Maps = Constructed
                           /\ KEYWORDS # SYMBOLS
\* The tables give no word a literal's type or the end's; "(" and ")" name what
\* parse_symbol makes before it looks anything up.
ASSUME ValuesAssumption == Values \cap {"(", ")", "StringLiteral", "IntLiteral",
                                        "FloatLiteral", "EndOfFile"} = {}
ASSUME RankAssumption   == \A w \in Texts : Rank(w) \in Int

(***************************************************************************)
(* Reading.                                                                *)
(***************************************************************************)
At(i)   == IF i < Len(text) THEN text[i + 1] ELSE NUL
current == At(index)
peek    == At(index + 1)
Word    == SubSeq(text, start + 1, index)

\* Mutant of advance: a new line begins in column 0, as the text does.
advance_from_zero ==
    /\ index' = index + 1
    /\ IF current = "newline" THEN column' = 0 /\ line' = line + 1
                              ELSE column' = column + 1 /\ UNCHANGED line

\* The text begins in column 0, every later line in column 1.
advance ==
    /\ index' = index + 1
    /\ IF current = "newline" THEN column' = 1 /\ line' = line + 1
                              ELSE column' = column + 1 /\ UNCHANGED line

Stay     == UNCHANGED <<index, line, column>>
Located  == UNCHANGED <<token_line, token_column>>
Token(type, to) == [type |-> type, from |-> start + 1, to |-> to,
                    line |-> token_line, column |-> token_column]
Emit(type, to)  == tokens' = Append(tokens, Token(type, to)) /\ rule' = "next"

EndOfFile(l, c) ==
    /\ tokens' = Append(tokens, [type |-> "EndOfFile", from |-> index + 1,
                                 to |-> index, line |-> l, column |-> c])
    /\ status' = "done"

Running(r) == status = "running" /\ rule = r

Init ==
    /\ text \in Texts
    /\ index = 0
    /\ line = 1 /\ column = 0
    /\ token_line = 1 /\ token_column = 0
    /\ rule = "next"
    /\ start = 0
    /\ tokens = << >>
    /\ status = "running"
    /\ items = SYMBOLS /\ key = 0 /\ first = 1 /\ count = Len(SYMBOLS)

(***************************************************************************)
(* next_token.                                                             *)
(***************************************************************************)
skip_space ==
    /\ Running("next")
    /\ current \in Spaces
    /\ advance
    /\ Located
    /\ UNCHANGED <<text, rule, start, tokens, status, mapVars>>

\* The location of EndOfFile is that of the token before it.
end_of_text ==
    /\ Running("next")
    /\ current = NUL
    /\ EndOfFile(token_line, token_column)
    /\ Stay
    /\ Located
    /\ UNCHANGED <<text, rule, start, mapVars>>

\* A rule takes over at its first character; a string's has consumed the quote.
begin_token ==
    /\ Running("next")
    /\ current \in {Quote} \cup SymbolChars \cup Digits \cup Letters
    /\ token_line' = line
    /\ token_column' = column
    /\ start' = index
    /\ rule' = CASE current = Quote          -> "string"
                 [] current \in {"(", ")"}    -> "parenthesis"
                 [] is_symbol_char(current)   -> "symbol"
                 [] current \in Digits        -> "number"
                 [] OTHER                     -> "identifier"
    /\ IF current = Quote THEN advance ELSE Stay
    /\ UNCHANGED <<text, tokens, status, mapVars>>

\* Mutant of unknown_char: it is skipped like white space.
skip_unknown_char ==
    /\ Running("next")
    /\ current \notin {Quote, NUL} \cup SymbolChars \cup Digits \cup Letters \cup Spaces
    /\ token_line' = line
    /\ token_column' = column
    /\ advance
    /\ UNCHANGED <<text, rule, start, tokens, status, mapVars>>

\* Mutant of unknown_char: next_token is tried again at the same place.
unknown_char_again ==
    /\ Running("next")
    /\ current \notin {Quote, NUL} \cup SymbolChars \cup Digits \cup Letters \cup Spaces
    /\ token_line' = line
    /\ token_column' = column
    /\ Stay
    /\ UNCHANGED <<text, rule, start, tokens, status, mapVars>>

\* A character no rule knows ends the stream.
unknown_char ==
    /\ Running("next")
    /\ current \notin {Quote, NUL} \cup SymbolChars \cup Digits \cup Letters \cup Spaces
    /\ token_line' = line
    /\ token_column' = column
    /\ advance
    /\ EndOfFile(line, column)
    /\ UNCHANGED <<text, rule, start, mapVars>>

(***************************************************************************)
(* The rules: each consumes while it can, then makes its token.            *)
(***************************************************************************)
consume_char ==
    /\ advance
    /\ Located
    /\ UNCHANGED <<text, rule, start, tokens, status, mapVars>>

parse_parenthesis ==
    /\ Running("parenthesis")
    /\ Emit(current, index + 1)
    /\ advance
    /\ Located
    /\ UNCHANGED <<text, start, status, mapVars>>

\* Mutant of parse_string_literal: the end of the text is not asked for.
parse_string_unbounded ==
    /\ Running("string")
    /\ IF current = Quote THEN Emit("StringLiteral", index + 1)
                          ELSE UNCHANGED <<rule, tokens>>
    /\ advance
    /\ Located
    /\ UNCHANGED <<text, start, status, mapVars>>

\* Mutant of parse_string_literal: a string ends on its line.
parse_string_line ==
    /\ Running("string")
    /\ CASE current = Quote -> /\ Emit("StringLiteral", index + 1)
                               /\ advance
                               /\ UNCHANGED status
         [] current \in {NUL, "newline"} -> /\ status' = "error"
                                            /\ Stay
                                            /\ UNCHANGED <<rule, tokens>>
         [] OTHER           -> advance /\ UNCHANGED <<rule, tokens, status>>
    /\ Located
    /\ UNCHANGED <<text, start, mapVars>>

parse_string_literal ==
    /\ Running("string")
    /\ CASE current = Quote -> /\ Emit("StringLiteral", index + 1)
                               /\ advance
                               /\ UNCHANGED status
         [] current = NUL   -> /\ status' = "error"
                               /\ Stay
                               /\ UNCHANGED <<rule, tokens>>
         [] OTHER           -> advance /\ UNCHANGED <<rule, tokens, status>>
    /\ Located
    /\ UNCHANGED <<text, start, mapVars>>

digit_of_number == /\ status = "running"
                   /\ rule \in {"number", "fraction"}
                   /\ current \in Digits
                   /\ consume_char

\* Mutant of point_of_number: the digit behind the point is not asked for.
point_of_any_number ==
    /\ Running("number")
    /\ current = "."
    /\ advance
    /\ rule' = "fraction"
    /\ Located
    /\ UNCHANGED <<text, start, tokens, status, mapVars>>

point_of_number ==
    /\ Running("number")
    /\ current = "." /\ peek \in Digits
    /\ advance
    /\ rule' = "fraction"
    /\ Located
    /\ UNCHANGED <<text, start, tokens, status, mapVars>>

end_of_number ==
    /\ status = "running"
    /\ \/ /\ rule = "number"
          /\ current \notin Digits
          /\ ~(current = "." /\ peek \in Digits)
          /\ Emit("IntLiteral", index)
       \/ rule = "fraction" /\ current \notin Digits /\ Emit("FloatLiteral", index)
    /\ Stay
    /\ Located
    /\ UNCHANGED <<text, start, status, mapVars>>

char_of_word ==
    /\ \/ Running("symbol") /\ is_symbol_char(current)
       \/ Running("identifier") /\ is_identifier_char(current)
    /\ consume_char

end_of_word ==
    /\ \/ Running("symbol") /\ ~is_symbol_char(current) /\ Search(SYMBOLS, Rank(Word))
       \/ Running("identifier") /\ ~is_identifier_char(current)
          /\ Search(KEYWORDS, Rank(Word))
    /\ rule' = "lookup"
    /\ Stay
    /\ Located
    /\ UNCHANGED <<text, start, tokens, status>>

halve == /\ Running("lookup")
         /\ Halve
         /\ Stay
         /\ Located
         /\ UNCHANGED <<text, rule, start, tokens, status>>

looked_up ==
    /\ Running("lookup")
    /\ count = 0
    /\ IF Has
       THEN Emit(FoundValue, index) /\ UNCHANGED status
       ELSE IF items = KEYWORDS THEN Emit("Identifier", index) /\ UNCHANGED status
       ELSE status' = "error" /\ UNCHANGED <<rule, tokens>>
    /\ Stay
    /\ Located
    /\ UNCHANGED <<text, start, mapVars>>

Stopped == status # "running" /\ UNCHANGED vars

Lex ==
    \/ skip_space
    \/ end_of_text
    \/ begin_token
    \/ unknown_char
    \/ parse_parenthesis
    \/ parse_string_literal
    \/ digit_of_number
    \/ point_of_number
    \/ end_of_number
    \/ char_of_word
    \/ end_of_word
    \/ halve
    \/ looked_up

Next == Lex \/ Stopped

Spec == Init /\ [][Next]_vars /\ WF_vars(Lex)

-----------------------------------------------------------------------------
TokenTypes == Values \cup {"(", ")", "StringLiteral", "IntLiteral", "FloatLiteral",
                           "Identifier", "EndOfFile"}

TypeOK ==
    /\ text \in Texts
    /\ index \in 0 .. Len(text)
    /\ line \in Nat /\ column \in Nat /\ token_line \in Nat /\ token_column \in Nat
    /\ rule \in {"next", "string", "parenthesis", "symbol", "number", "fraction",
                 "identifier", "lookup"}
    /\ start \in 0 .. index
    /\ tokens \in Seq([type : TokenTypes, from : 1 .. Len(text) + 1,
                       to : 0 .. Len(text), line : Nat, column : Nat])
    /\ status \in {"running", "done", "error"}

Span(t)   == t.from .. t.to
InTokens  == UNION {Span(tokens[k]) : k \in DOMAIN tokens}
Final     == tokens[Len(tokens)]
Known(c)  == c \in {Quote} \cup SymbolChars \cup Digits \cup Letters \cup Spaces

\* No character is lost or taken twice before the place where the stream ends:
\* the tokens follow each other and all that lies between them is white space.
\* That place is the end of the text only if no unknown character stands
\* outside the strings: the first of these cuts the text off, without an error.
TextCovered ==
    /\ \A k \in 1 .. Len(tokens) - 1 : tokens[k].to < tokens[k + 1].from
    /\ status = "done" =>
          /\ \A p \in 1 .. Final.from - 1 : text[p] \in Spaces \/ p \in InTokens
          /\ Final.from > Len(text) \/ ~Known(text[Final.from])

All(S, i, j) == \A p \in i .. j : text[p] \in S

TableOf(c)   == IF c \in SymbolChars THEN SYMBOLS ELSE KEYWORDS
CharsOf(c)   == IF c \in SymbolChars THEN SymbolChars ELSE Letters \cup Digits \cup {"-"}
InTable(m, w) == \E i \in DOMAIN m : m[i].key = Rank(w)

\* What each type of token looks like, and that it could not have been longer.
IsToken(t) ==
    LET w == SubSeq(text, t.from, t.to)
        c == text[t.from]
    IN  CASE t.type = "IntLiteral" ->
               /\ All(Digits, t.from, t.to)
               /\ At(t.to) \notin Digits
               /\ At(t.to) = "." => At(t.to + 1) \notin Digits
          [] t.type = "FloatLiteral" ->
               /\ \E k \in t.from + 1 .. t.to - 1 :
                     text[k] = "." /\ All(Digits, t.from, k - 1) /\ All(Digits, k + 1, t.to)
               /\ At(t.to) \notin Digits
          [] t.type = "StringLiteral" ->
               /\ t.from < t.to /\ c = Quote /\ text[t.to] = Quote
               /\ \A p \in t.from + 1 .. t.to - 1 : text[p] \notin {Quote, NUL}
          [] t.type \in {"(", ")"} -> w = <<t.type>>
          [] OTHER ->
               /\ All(CharsOf(c), t.from, t.to)
               /\ At(t.to) \notin CharsOf(c)
               /\ IF InTable(TableOf(c), w)
                  THEN \E i \in DOMAIN TableOf(c) :
                          TableOf(c)[i] = [key |-> Rank(w), value |-> t.type]
                  ELSE c \notin SymbolChars /\ t.type = "Identifier"

\* Each token is the longest of its kind at its place: a keyword is one only as
\* a whole word, a word takes digits and `-` in, a number takes a point only
\* with a digit behind it.
TokensExact ==
    \A k \in DOMAIN tokens : tokens[k].type # "EndOfFile" => IsToken(tokens[k])

\* The lexer throws for two reasons: a string with no closing quote (or
\* with a NUL before it, which peek() cannot tell from the end), and a run
\* of symbols that is, as a whole, no symbol (`=(` and `*-` are such runs
\* although each half is one).
ErrorsJustified ==
    status = "error" =>
        \/ /\ text[start + 1] = Quote
           /\ At(index) = NUL
           /\ \A p \in start + 2 .. index : text[p] # Quote
        \/ /\ All(SymbolChars, start + 1, index)
           /\ At(index) \notin SymbolChars
           /\ ~InTable(SYMBOLS, Word)

Newlines(p) == {q \in 1 .. p - 1 : text[q] = "newline"}

\* A token's location is the line and column its first character has: columns
\* count from 0 in the first line and from 1 in the others.
LocationsExact ==
    \A k \in DOMAIN tokens : tokens[k].type # "EndOfFile" =>
        LET N == Newlines(tokens[k].from)
        IN  /\ tokens[k].line = 1 + Cardinality(N)
            /\ IF N = {} THEN tokens[k].column = tokens[k].from - 1
               ELSE \E q \in N : /\ \A r \in N : r <= q
                                 /\ tokens[k].column = tokens[k].from - q

\* Every text is lexed to its end or to an error.
LexingEnds == <>(status # "running")
==============================================================================
