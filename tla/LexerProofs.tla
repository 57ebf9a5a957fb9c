----------------------------- MODULE LexerProofs -----------------------------
(***************************************************************************)
(* For texts of any length over any characters, and any tables: the lexer  *)
(* stays within the text, loses no character and takes none twice, and     *)
(* looks every word up correctly (IInv).  Each token is the longest of its *)
(* kind and located where it begins, and each error has its reason (XInv). *)
(* Before that, the searches of StaticMap, which are the lexer's.          *)
(***************************************************************************)
EXTENDS Lexer, TLAPS, SequenceTheorems, FiniteSetTheorems

(***************************************************************************)
(* StaticMap: find is exact in every map the constructor accepts, of any   *)
(* length and for any key: halving never excludes the entry that is looked *)
(* for.                                                                    *)
(***************************************************************************)

\* The part not yet excluded lies within the array.
InArray ==
    /\ items \in Constructed
    /\ key \in Int
    /\ first \in 1 .. Len(items) + 1
    /\ count \in Nat
    /\ first + count <= Len(items) + 1

\* Whatever has been excluded in front is smaller than the key, and whatever
\* has been excluded behind is not.
Excluded ==
    /\ \A i \in 1 .. first - 1 : items[i].key < key
    /\ \A i \in first + count .. Len(items) : ~(items[i].key < key)

MapInv == InArray /\ Excluded

LEMMA ConstructedType ==
    ASSUME NEW m \in Constructed
    PROVE  /\ m \in Seq(Entries)
           /\ Len(m) \in Nat
           /\ \A i \in 1 .. Len(m) : m[i] \in Entries /\ m[i].key \in Int
           /\ \A i, j \in 1 .. Len(m) : i < j => m[i].key < m[j].key
<1>1. m \in Seq(Entries)
  BY DEF Constructed
<1>2. \A i \in 1 .. Len(m) : m[i] \in Entries
  BY <1>1
<1>3. QED
  BY <1>1, <1>2 DEF Constructed, Entries

\* A search begins with nothing excluded.
LEMMA SearchInit ==
    ASSUME NEW m \in Constructed, NEW k \in Int, Search(m, k)
    PROVE  MapInv'
<1>1. Len(m) \in Nat
  BY ConstructedType
<1>2. QED
  BY <1>1 DEF Search, MapInv, InArray, Excluded

LEMMA HalveMapInv ==
    ASSUME MapInv, Halve
    PROVE  MapInv'
<1> USE DEF MapInv, InArray
<1>1. /\ Len(items) \in Nat
      /\ \A i \in 1 .. Len(items) : items[i].key \in Int
      /\ \A i, j \in 1 .. Len(items) : i < j => items[i].key < items[j].key
  BY ConstructedType
<1>2. /\ count > 0
      /\ items' = items /\ key' = key
  BY DEF Halve
<1>3. /\ Middle \in first .. first + count - 1
      /\ Middle \in 1 .. Len(items)
      /\ count \div 2 \in Nat
      /\ count \div 2 < count
      /\ Middle = first + count \div 2
  BY <1>1, <1>2 DEF Middle
<1>4. CASE items[Middle].key < key
  <2>1. first' = Middle + 1 /\ count' = count - count \div 2 - 1
    BY <1>4 DEF Halve
  <2>2. first' + count' = first + count
    BY <2>1, <1>3
  <2>3. InArray'
    BY <2>1, <2>2, <1>1, <1>2, <1>3
  <2>4. ASSUME NEW i \in 1 .. Middle
        PROVE  items[i].key < key
    BY <1>1, <1>3, <1>4
  <2>5. QED
    BY <2>1, <2>2, <2>3, <2>4, <1>2, <1>3 DEF Excluded
<1>5. CASE ~(items[Middle].key < key)
  <2>1. first' = first /\ count' = count \div 2
    BY <1>5 DEF Halve
  <2>2. first' + count' = Middle
    BY <2>1, <1>3
  <2>3. InArray'
    BY <2>1, <2>2, <1>1, <1>2, <1>3
  <2>4. ASSUME NEW i \in Middle .. Len(items)
        PROVE  ~(items[i].key < key)
    BY <1>1, <1>3, <1>5
  <2>5. QED
    BY <2>1, <2>2, <2>3, <2>4, <1>2 DEF Excluded
<1>6. QED
  BY <1>4, <1>5

\* What is left when nothing is: all keys before first are smaller, and the
\* others are not; of these only the first can be the key.
LEMMA FindExactAtEnd ==
    ASSUME MapInv
    PROVE  FindExact
<1> SUFFICES ASSUME count = 0
             PROVE  Has <=> \E i \in 1 .. Len(items) : items[i].key = key
  BY DEF FindExact
<1> USE DEF MapInv, InArray
<1>1. /\ Len(items) \in Nat
      /\ \A i \in 1 .. Len(items) : items[i].key \in Int
      /\ \A i, j \in 1 .. Len(items) : i < j => items[i].key < items[j].key
  BY ConstructedType
<1>2. ASSUME NEW i \in 1 .. Len(items), items[i].key = key
      PROVE  Has
  <2>1. i >= first
    BY <1>1, <1>2 DEF Excluded
  <2>2. first \in 1 .. Len(items) /\ ~(items[first].key < key)
    BY <1>1, <2>1 DEF Excluded
  <2>3. i = first
    BY <1>1, <1>2, <2>1, <2>2
  <2>4. QED
    BY <1>2, <2>2, <2>3 DEF Has
<1>3. ASSUME Has
      PROVE  \E i \in 1 .. Len(items) : items[i].key = key
  BY <1>1, <1>3 DEF Has
<1>4. QED
  BY <1>2, <1>3

\* Search after search, of any map and any key: a search that has come to its
\* end has found the key exactly if an entry of the map has it
\* (container.h:29-35).
THEOREM FindIsExact == MapSpec => []FindExact
<1>1. MapInit => MapInv
  <2> SUFFICES ASSUME MapInit
               PROVE  MapInv
    OBVIOUS
  <2>1. Len(items) \in Nat
    BY ConstructedType DEF MapInit
  <2>2. QED
    BY <2>1 DEF MapInit, MapInv, InArray, Excluded
<1>2. MapInv /\ [MapNext]_mapVars => MapInv'
  <2> SUFFICES ASSUME MapInv, [MapNext]_mapVars
               PROVE  MapInv'
    OBVIOUS
  <2>1. CASE Halve
    BY <2>1, HalveMapInv
  <2>2. CASE Again
    BY <2>2, SearchInit DEF Again
  <2>3. CASE UNCHANGED mapVars
    BY <2>3 DEF mapVars, MapInv, InArray, Excluded
  <2>4. QED
    BY <2>1, <2>2, <2>3 DEF MapNext
<1>3. QED
  BY <1>1, <1>2, FindExactAtEnd, PTL DEF MapSpec

(***************************************************************************)
(* Lexer.                                                                  *)
(***************************************************************************)

\* The position up to which the text has become tokens.
Lexed == IF rule = "next" THEN index ELSE start

\* Up to there everything is white space or in a token, and no token reaches
\* further.
Covered ==
    status # "done" =>
        /\ \A p \in 1 .. Lexed : text[p] \in Spaces \/ p \in InTokens
        /\ \A k \in 1 .. Len(tokens) : tokens[k].to <= Lexed

\* parse_parenthesis runs where there is one.
AtParenthesis == status = "running" /\ rule = "parenthesis" => current \in {"(", ")"}

IInv == TypeOK /\ MapInv /\ TextCovered /\ Covered /\ AtParenthesis

TokenSet == [type : TokenTypes, from : 1 .. Len(text) + 1,
             to : 0 .. Len(text), line : Nat, column : Nat]

LEMMA TextType ==
    ASSUME TypeOK
    PROVE  /\ text \in Seq(Chars)
           /\ Len(text) \in Nat
           /\ Len(text) <= MaxLen
           /\ index \in Nat
           /\ start \in Nat
<1>1. PICK n \in 0 .. MaxLen : text \in [1 .. n -> Chars]
  BY DEF TypeOK, Texts
<1>2. n \in Nat
  BY <1>1, MaxLenAssumption
<1>3. text \in Seq(Chars) /\ Len(text) = n
  BY <1>1, <1>2
<1>4. QED
  BY <1>1, <1>3, MaxLenAssumption DEF TypeOK

\* A character that is not the character 0 is one of the text.
LEMMA CurrentInText ==
    ASSUME TypeOK, current # NUL
    PROVE  /\ index < Len(text)
           /\ index + 1 \in 1 .. Len(text)
           /\ text[index + 1] = current
BY TextType DEF current, At

LEMMA NotNUL ==
    /\ NUL \notin Spaces /\ NUL \notin SymbolChars /\ NUL \notin Digits
    /\ NUL \notin Letters /\ NUL # Quote /\ NUL # "-" /\ NUL # "."
BY DEF NUL, Spaces, SymbolChars, Digits, Letters, Quote

\* advance moves over a character of the text.
LEMMA AdvanceType ==
    ASSUME TypeOK, current # NUL, advance
    PROVE  /\ index' = index + 1
           /\ index' \in 0 .. Len(text)
           /\ line' \in Nat /\ column' \in Nat
<1>1. index' = index + 1
  BY DEF advance
<1>2. line' \in Nat /\ column' \in Nat
  BY DEF advance, TypeOK
<1>3. QED
  BY <1>1, <1>2, CurrentInText, TextType

\* The lookup tables change only with a search.
LEMMA MapUnchanged ==
    ASSUME MapInv, UNCHANGED mapVars
    PROVE  MapInv'
BY DEF mapVars, MapInv, InArray, Excluded

LEMMA WordInTexts ==
    ASSUME TypeOK
    PROVE  Rank(Word) \in Int
<1>1. start + 1 \in 1 .. Len(text) + 1 /\ index \in start .. Len(text)
  BY TextType DEF TypeOK
<1>2. \A i \in start + 1 .. index : text[i] \in Chars
  BY <1>1, TextType
<1>3. Word \in Seq(Chars) /\ Len(Word) = index - start
  BY <1>1, <1>2, TextType DEF Word
<1>4. index - start \in 0 .. MaxLen
  BY <1>1, TextType, MaxLenAssumption
<1>5. Word \in [1 .. (index - start) -> Chars]
  BY <1>3
<1>6. QED
  BY <1>4, <1>5, RankAssumption DEF Texts

LEMMA TokensType ==
    ASSUME TypeOK
    PROVE  /\ tokens \in Seq(TokenSet)
           /\ Len(tokens) \in Nat
           /\ \A k \in 1 .. Len(tokens) : tokens[k].to \in 0 .. Len(text)
<1>1. tokens \in Seq(TokenSet)
  BY DEF TypeOK, TokenSet
<1>2. Len(tokens) \in Nat /\ \A k \in 1 .. Len(tokens) : tokens[k] \in TokenSet
  BY ONLY <1>1
<1>3. \A k \in 1 .. Len(tokens) : tokens[k].to \in 0 .. Len(text)
  BY ONLY <1>2 DEF TokenSet
<1>4. QED
  BY ONLY <1>1, <1>2, <1>3

(***************************************************************************)
(* Appending a token that begins behind all others.                        *)
(***************************************************************************)
LEMMA AppendToken ==
    ASSUME TypeOK, NEW t \in TokenSet, tokens' = Append(tokens, t), text' = text
    PROVE  /\ tokens' \in Seq(TokenSet)
           /\ Len(tokens) \in Nat
           /\ Len(tokens') = Len(tokens) + 1
           /\ \A k \in 1 .. Len(tokens) : tokens'[k] = tokens[k]
           /\ tokens'[Len(tokens) + 1] = t
           /\ InTokens' = InTokens \cup (t.from .. t.to)
<1>1. tokens \in Seq(TokenSet)
  BY DEF TypeOK, TokenSet
<1>2. /\ tokens' \in Seq(TokenSet)
      /\ Len(tokens) \in Nat
      /\ Len(tokens') = Len(tokens) + 1
      /\ \A k \in 1 .. Len(tokens) : tokens'[k] = tokens[k]
      /\ tokens'[Len(tokens) + 1] = t
  BY <1>1
<1>3. DOMAIN tokens = 1 .. Len(tokens) /\ DOMAIN tokens' = 1 .. Len(tokens) + 1
  BY <1>1, <1>2
<1>4. InTokens' = InTokens \cup (t.from .. t.to)
  <2>1. ASSUME NEW p \in InTokens'
        PROVE  p \in InTokens \cup (t.from .. t.to)
    <3>1. PICK k \in DOMAIN tokens' : p \in tokens'[k].from .. tokens'[k].to
      BY <2>1 DEF InTokens, Span
    <3>2. QED
      BY <3>1, <1>2, <1>3 DEF InTokens, Span
  <2>2. ASSUME NEW p \in InTokens
        PROVE  p \in InTokens'
    <3>1. PICK k \in DOMAIN tokens : p \in tokens[k].from .. tokens[k].to
      BY <2>2 DEF InTokens, Span
    <3>2. k \in DOMAIN tokens' /\ tokens'[k] = tokens[k]
      BY <3>1, <1>2, <1>3
    <3>3. QED
      BY <3>1, <3>2 DEF InTokens, Span
  <2>3. ASSUME NEW p \in t.from .. t.to
        PROVE  p \in InTokens'
    <3>1. Len(tokens) + 1 \in DOMAIN tokens'
      BY <1>2, <1>3
    <3>2. QED
      BY <2>3, <3>1, <1>2 DEF InTokens, Span
  <2>4. QED
    BY <2>1, <2>2, <2>3
<1>5. QED
  BY <1>2, <1>4

\* A rule makes its token: what it consumed is covered by it.
LEMMA EmitCovers ==
    ASSUME TypeOK, TextCovered, Covered, status = "running", rule # "next",
           NEW type \in TokenTypes, NEW to \in start .. Len(text),
           Emit(type, to), index' = to, status' = status, text' = text,
           start' = start
    PROVE  /\ tokens' \in Seq(TokenSet)
           /\ TextCovered' /\ Covered' /\ AtParenthesis'
<1> DEFINE t == Token(type, to)
<1>1. t \in TokenSet /\ t.from = start + 1 /\ t.to = to
  BY TextType DEF TypeOK, TokenSet, Token
<1>2. tokens' = Append(tokens, t) /\ rule' = "next"
  BY DEF Emit
<1>3. /\ tokens' \in Seq(TokenSet)
      /\ Len(tokens) \in Nat
      /\ Len(tokens') = Len(tokens) + 1
      /\ \A k \in 1 .. Len(tokens) : tokens'[k] = tokens[k]
      /\ tokens'[Len(tokens) + 1] = t
      /\ InTokens' = InTokens \cup (start + 1 .. to)
  <2> HIDE DEF t
  <2>1. QED
    BY <1>1, <1>2, AppendToken
<1>4. \A k \in 1 .. Len(tokens) : tokens[k].to <= start /\ tokens[k].to \in Int
  <2>1. \A k \in 1 .. Len(tokens) : tokens[k].to <= start
    BY DEF Covered, Lexed
  <2>2. QED
    BY <2>1, TokensType, TextType
<1>5. Lexed' = to
  BY <1>2 DEF Lexed
<1>6. Covered'
  <2>1. ASSUME NEW p \in 1 .. to
        PROVE  text[p] \in Spaces \/ p \in InTokens'
    BY <1>3, TextType DEF Covered, Lexed
  <2>2. ASSUME NEW k \in 1 .. Len(tokens')
        PROVE  tokens'[k].to <= to
    <3>1. CASE k \in 1 .. Len(tokens)
      BY <3>1, <1>3, <1>4, TextType
    <3>2. CASE k = Len(tokens) + 1
      BY <3>2, <1>1, <1>3, TextType
    <3>3. QED
      BY <3>1, <3>2, <1>3
  <2>3. QED
    BY <2>1, <2>2, <1>5 DEF Covered
<1>7. TextCovered'
  <2>1. ASSUME NEW k \in 1 .. Len(tokens') - 1
        PROVE  tokens'[k].to < tokens'[k + 1].from
    <3>1. CASE k \in 1 .. Len(tokens) - 1
      BY <3>1, <1>3 DEF TextCovered
    <3>2. CASE k = Len(tokens)
      BY <3>2, <2>1, <1>1, <1>3, <1>4, TextType
    <3>3. QED
      BY <3>1, <3>2, <1>3
  <2>2. QED
    BY <2>1 DEF TextCovered
<1>8. QED
  BY <1>2, <1>3, <1>6, <1>7 DEF AtParenthesis

\* No token is made and nothing becomes lexed.
LEMMA KeepCovers ==
    ASSUME TextCovered, Covered, status # "done",
           UNCHANGED <<text, tokens>>, Lexed' = Lexed, status' # "done"
    PROVE  TextCovered' /\ Covered'
<1>1. InTokens' = InTokens
  BY DEF InTokens, Span
<1>2. QED
  BY <1>1 DEF TextCovered, Covered

(***************************************************************************)
(* next_token.                                                             *)
(***************************************************************************)
LEMMA skip_spaceIInv ==
    ASSUME IInv, skip_space
    PROVE  IInv'
<1> USE DEF IInv, skip_space, Running
<1>1. current # NUL
  BY NotNUL
<1>2. index' = index + 1 /\ index' \in 0 .. Len(text) /\ line' \in Nat /\ column' \in Nat
  BY <1>1, AdvanceType
<1>3. text[index + 1] \in Spaces
  BY <1>1, CurrentInText
<1>4. TypeOK'
  BY <1>2, TextType DEF TypeOK, Located
<1>5. InTokens' = InTokens
  BY DEF InTokens, Span
<1>6. Covered'
  <2>1. Lexed = index /\ Lexed' = index + 1
    BY <1>2 DEF Lexed
  <2>2. \A p \in 1 .. index + 1 : text[p] \in Spaces \/ p \in InTokens
    BY <1>3, <2>1, TextType DEF Covered
  <2>3. \A k \in 1 .. Len(tokens) : tokens[k].to <= index + 1
    BY <2>1, TokensType, TextType DEF Covered
  <2>4. QED
    BY <1>5, <2>1, <2>2, <2>3 DEF Covered
<1>7. TextCovered'
  BY <1>5 DEF TextCovered
<1>8. QED
  BY <1>4, <1>6, <1>7, MapUnchanged DEF AtParenthesis

LEMMA begin_tokenIInv ==
    ASSUME IInv, begin_token
    PROVE  IInv'
<1> USE DEF IInv, begin_token, Running
<1>1. current # NUL
  BY NotNUL
<1>2. index' \in {index, index + 1} /\ index' \in 0 .. Len(text)
  <2>1. CASE current = Quote
    BY <1>1, <2>1, AdvanceType
  <2>2. CASE current # Quote
    BY <2>2, TextType DEF Stay, TypeOK
  <2>3. QED
    BY <2>1, <2>2
<1>3. line' \in Nat /\ column' \in Nat
  <2>1. CASE current = Quote
    BY <1>1, <2>1, AdvanceType
  <2>2. CASE current # Quote
    BY <2>2 DEF Stay, TypeOK
  <2>3. QED
    BY <2>1, <2>2
<1>4. /\ rule' \in {"string", "parenthesis", "symbol", "number", "identifier"}
      /\ rule' = "parenthesis" => current \in {"(", ")"}
  OBVIOUS
<1>5. TypeOK'
  BY <1>2, <1>3, <1>4, TextType DEF TypeOK
<1>6. Lexed' = Lexed
  BY <1>4 DEF Lexed
<1>7. TextCovered' /\ Covered'
  BY <1>6, KeepCovers
<1>8. AtParenthesis'
  <2>1. ASSUME rule' = "parenthesis"
        PROVE  current' = current
    BY <1>4, <2>1 DEF Stay, current, At, Quote
  <2>2. QED
    BY <2>1, <1>4 DEF AtParenthesis
<1>9. QED
  BY <1>5, <1>7, <1>8, MapUnchanged

\* EndOfFile stands behind all other tokens.
LEMMA EndOfFileCovers ==
    ASSUME IInv, Running("next"), text' = text, NEW l \in Nat, NEW c \in Nat,
           EndOfFile(l, c), current \notin {Quote} \cup SymbolChars \cup Digits
                                          \cup Letters \cup Spaces
    PROVE  tokens' \in Seq(TokenSet) /\ TextCovered' /\ Covered'
<1> USE DEF IInv, Running
<1> DEFINE t == [type |-> "EndOfFile", from |-> index + 1, to |-> index,
                 line |-> l, column |-> c]
<1>1. t \in TokenSet /\ t.from = index + 1 /\ t.to = index
  BY TextType DEF TypeOK, TokenSet, TokenTypes
<1>2. tokens' = Append(tokens, t) /\ status' = "done"
  BY DEF EndOfFile
<1>3. /\ tokens' \in Seq(TokenSet)
      /\ Len(tokens) \in Nat
      /\ Len(tokens') = Len(tokens) + 1
      /\ \A k \in 1 .. Len(tokens) : tokens'[k] = tokens[k]
      /\ tokens'[Len(tokens) + 1] = t
      /\ InTokens' = InTokens \cup (index + 1 .. index)
  <2> HIDE DEF t
  <2>1. QED
    BY <1>1, <1>2, AppendToken
<1>4. /\ \A k \in 1 .. Len(tokens) : tokens[k].to <= index
      /\ \A p \in 1 .. index : text[p] \in Spaces \/ p \in InTokens
  BY DEF Covered, Lexed
<1>5. \A k \in 1 .. Len(tokens) : tokens[k].to \in 0 .. Len(text)
  BY TokensType
<1>6. ASSUME NEW k \in 1 .. Len(tokens') - 1
      PROVE  tokens'[k].to < tokens'[k + 1].from
  <2>1. CASE k \in 1 .. Len(tokens) - 1
    BY <2>1, <1>3 DEF TextCovered
  <2>2. CASE k = Len(tokens)
    BY <2>2, <1>6, <1>1, <1>3, <1>4, <1>5, TextType
  <2>3. QED
    BY <2>1, <2>2, <1>3
<1>7. Final' = t
  BY <1>3 DEF Final
<1>8. \A p \in 1 .. index : text[p] \in Spaces \/ p \in InTokens'
  BY <1>3, <1>4
<1>9. index + 1 > Len(text) \/ ~Known(text[index + 1])
  <2>1. CASE index < Len(text)
    <3>1. text[index + 1] = current
      BY <2>1 DEF current, At
    <3>2. QED
      BY <3>1 DEF Known
  <2>2. CASE ~(index < Len(text))
    BY <2>2, TextType
  <2>3. QED
    BY <2>1, <2>2
<1>10. TextCovered'
  <2>1. Final'.from = index + 1
    BY <1>1, <1>7
  <2>2. \A p \in 1 .. (index + 1) - 1 : text[p] \in Spaces \/ p \in InTokens'
    BY <1>8, TextType
  <2>3. \A ch : Known(ch)' <=> Known(ch)
    BY DEF Known
  <2>4. QED
    BY <1>2, <1>6, <1>9, <2>1, <2>2, <2>3 DEF TextCovered
<1>11. QED
  BY <1>2, <1>3, <1>10 DEF Covered

LEMMA end_of_textIInv ==
    ASSUME IInv, end_of_text
    PROVE  IInv'
<1> USE DEF IInv, end_of_text, Running
<1>1. token_line \in Nat /\ token_column \in Nat
  BY DEF TypeOK
<1>2. tokens' \in Seq(TokenSet) /\ TextCovered' /\ Covered'
  BY <1>1, NotNUL, EndOfFileCovers
<1>3. status' = "done"
  BY DEF EndOfFile
<1>4. TypeOK'
  BY <1>2, <1>3 DEF TypeOK, TokenSet, Stay, Located, TokenTypes
<1>5. QED
  BY <1>2, <1>3, <1>4, MapUnchanged DEF AtParenthesis

LEMMA unknown_charIInv ==
    ASSUME IInv, unknown_char
    PROVE  IInv'
<1> USE DEF IInv, unknown_char, Running
<1>1. line \in Nat /\ column \in Nat /\ current # NUL
  BY DEF TypeOK
<1>2. tokens' \in Seq(TokenSet) /\ TextCovered' /\ Covered'
  BY <1>1, EndOfFileCovers
<1>3. status' = "done"
  BY DEF EndOfFile
<1>4. index' = index + 1 /\ index' \in 0 .. Len(text) /\ line' \in Nat /\ column' \in Nat
  BY <1>1, AdvanceType
<1>5. TypeOK'
  BY <1>1, <1>2, <1>3, <1>4, TextType DEF TypeOK, TokenSet, TokenTypes
<1>6. QED
  BY <1>2, <1>3, <1>5, MapUnchanged DEF AtParenthesis

(***************************************************************************)
(* The rules.                                                              *)
(***************************************************************************)
\* A rule consumes a character and goes on.
LEMMA consume_charIInv ==
    ASSUME IInv, status = "running", rule \notin {"next", "parenthesis"}, current # NUL,
           advance, Located, UNCHANGED <<text, start, tokens, status, mapVars>>,
           rule' \in {"string", "symbol", "number", "fraction", "identifier"}
    PROVE  IInv'
<1> USE DEF IInv
<1>1. index' = index + 1 /\ index' \in 0 .. Len(text) /\ line' \in Nat /\ column' \in Nat
  BY AdvanceType
<1>2. TypeOK'
  BY <1>1, TextType DEF TypeOK, Located
<1>3. Lexed' = Lexed
  BY DEF Lexed
<1>4. QED
  BY <1>2, <1>3, KeepCovers, MapUnchanged DEF AtParenthesis

\* A rule makes its token.
LEMMA EmitIInv ==
    ASSUME IInv, status = "running", rule # "next", Located,
           NEW type \in TokenTypes, NEW to \in start .. Len(text), Emit(type, to),
           index' = to, line' \in Nat, column' \in Nat,
           UNCHANGED <<text, start, status, mapVars>>
    PROVE  IInv'
<1> USE DEF IInv
<1>1. tokens' \in Seq(TokenSet) /\ TextCovered' /\ Covered' /\ AtParenthesis'
  BY EmitCovers
<1>2. TypeOK'
  BY <1>1, TextType DEF TypeOK, TokenSet, TokenTypes, Located, Emit
<1>3. QED
  BY <1>1, <1>2, MapUnchanged

\* A rule ends in an error.
LEMMA ErrorIInv ==
    ASSUME IInv, status = "running", status' = "error", Stay, Located,
           UNCHANGED <<text, rule, start, tokens, mapVars>>
    PROVE  IInv'
<1> USE DEF IInv
<1>1. TypeOK'
  BY DEF TypeOK, Stay, Located
<1>2. Lexed' = Lexed
  BY DEF Lexed, Stay
<1>3. QED
  BY <1>1, <1>2, KeepCovers, MapUnchanged DEF AtParenthesis

LEMMA parse_parenthesisIInv ==
    ASSUME IInv, parse_parenthesis
    PROVE  IInv'
<1> USE DEF parse_parenthesis, Running
<1>1. TypeOK /\ current \in {"(", ")"}
  BY DEF IInv, AtParenthesis
<1>2. current # NUL /\ current \in TokenTypes
  BY <1>1 DEF NUL, TokenTypes
<1>3. index' = index + 1 /\ index' \in 0 .. Len(text) /\ line' \in Nat /\ column' \in Nat
  BY <1>1, <1>2, AdvanceType
<1>4. index + 1 \in start .. Len(text)
  BY <1>1, <1>3, TextType DEF TypeOK
<1>5. QED
  BY <1>2, <1>3, <1>4, EmitIInv

LEMMA parse_string_literalIInv ==
    ASSUME IInv, parse_string_literal
    PROVE  IInv'
<1> USE DEF parse_string_literal, Running
<1>1. TypeOK
  BY DEF IInv
<1>2. CASE current = NUL
  BY <1>2, NotNUL, ErrorIInv
<1>3. CASE current = Quote
  <2>1. current # NUL
    BY <1>3, NotNUL
  <2>2. index' = index + 1 /\ index' \in 0 .. Len(text) /\ line' \in Nat /\ column' \in Nat
    BY <1>1, <1>3, <2>1, AdvanceType
  <2>3. index + 1 \in start .. Len(text)
    BY <1>1, <2>2, TextType DEF TypeOK
  <2>4. "StringLiteral" \in TokenTypes
    BY DEF TokenTypes
  <2>5. QED
    <3>1. Emit("StringLiteral", index + 1) /\ status' = status
      BY <1>3 DEF NUL, Quote
    <3>2. QED
      BY <2>2, <2>3, <2>4, <3>1, EmitIInv
<1>4. CASE current # NUL /\ current # Quote
  BY <1>4, consume_charIInv
<1>5. QED
  BY <1>2, <1>3, <1>4

LEMMA numberIInv ==
    ASSUME IInv, digit_of_number \/ point_of_number \/ end_of_number
    PROVE  IInv'
<1>1. CASE digit_of_number
  BY <1>1, NotNUL, consume_charIInv DEF digit_of_number, consume_char
<1>2. CASE point_of_number
  BY <1>2, NotNUL, consume_charIInv DEF point_of_number, Running
<1>3. CASE end_of_number
  <2> USE DEF end_of_number, Running, Stay
  <2>1. index \in start .. Len(text) /\ line \in Nat /\ column \in Nat
    BY TextType DEF IInv, TypeOK
  <2>2. {"IntLiteral", "FloatLiteral"} \subseteq TokenTypes
    BY DEF TokenTypes
  <2>3. PICK type \in {"IntLiteral", "FloatLiteral"} : Emit(type, index)
    BY <1>3
  <2>4. QED
    BY <1>3, <2>1, <2>2, <2>3, EmitIInv
<1>4. QED
  BY <1>1, <1>2, <1>3

LEMMA wordIInv ==
    ASSUME IInv, char_of_word \/ end_of_word \/ halve
    PROVE  IInv'
<1>1. CASE char_of_word
  BY <1>1, NotNUL, consume_charIInv
     DEF char_of_word, consume_char, Running, is_symbol_char, is_identifier_char
<1>2. CASE end_of_word
  <2> USE DEF end_of_word, Running, IInv
  <2>1. TypeOK'
    BY <1>2 DEF TypeOK, Stay, Located
  <2>2. MapInv'
    <3>1. Rank(Word) \in Int /\ SYMBOLS \in Constructed /\ KEYWORDS \in Constructed
      BY WordInTexts, TablesAssumption
    <3>2. QED
      BY <1>2, <3>1, SearchInit
  <2>3. Lexed' = Lexed
    BY <1>2 DEF Lexed
  <2>4. QED
    <3>1. TextCovered' /\ Covered'
      BY <1>2, <2>3, KeepCovers
    <3>2. QED
      BY <1>2, <2>1, <2>2, <3>1 DEF AtParenthesis
<1>3. CASE halve
  <2> USE DEF halve, Running, IInv
  <2>1. TypeOK'
    BY <1>3 DEF TypeOK, Stay, Located
  <2>2. Lexed' = Lexed
    BY <1>3 DEF Lexed
  <2>3. QED
    BY <1>3, <2>1, <2>2, HalveMapInv, KeepCovers DEF AtParenthesis
<1>4. QED
  BY <1>1, <1>2, <1>3

LEMMA looked_upIInv ==
    ASSUME IInv, looked_up
    PROVE  IInv'
<1> USE DEF looked_up, Running
<1>1. index \in start .. Len(text) /\ line \in Nat /\ column \in Nat
  BY TextType DEF IInv, TypeOK
<1>2. CASE Has
  <2>1. items \in Constructed /\ first \in 1 .. Len(items)
    BY <1>2, ConstructedType DEF IInv, MapInv, InArray, Has
  <2>2. items[first] \in Entries
    BY <2>1, ConstructedType
  <2>3. FoundValue \in TokenTypes
    BY <2>2 DEF Entries, FoundValue, TokenTypes
  <2>4. QED
    BY <1>1, <1>2, <2>3, EmitIInv DEF Stay
<1>3. CASE ~Has /\ items = KEYWORDS
  <2>1. "Identifier" \in TokenTypes
    BY DEF TokenTypes
  <2>2. QED
    BY <1>1, <1>3, <2>1, EmitIInv DEF Stay
<1>4. CASE ~Has /\ items # KEYWORDS
  BY <1>4, ErrorIInv
<1>5. QED
  BY <1>2, <1>3, <1>4

(***************************************************************************)
(* The theorems.                                                           *)
(***************************************************************************)
LEMMA InitIInv ==
    ASSUME Init
    PROVE  IInv
<1> USE DEF Init
<1>1. text \in Texts
  OBVIOUS
<1>2. PICK n \in 0 .. MaxLen : text \in [1 .. n -> Chars]
  BY <1>1 DEF Texts
<1>3. Len(text) = n /\ n \in Nat
  BY <1>2, MaxLenAssumption
<1>4. TypeOK
  BY <1>1, <1>3 DEF TypeOK
<1>5. MapInv
  <2>1. SYMBOLS \in Constructed
    BY TablesAssumption
  <2>2. Len(SYMBOLS) \in Nat
    BY <2>1, ConstructedType
  <2>3. QED
    BY <2>1, <2>2 DEF MapInv, InArray, Excluded
<1>6. TextCovered /\ Covered
  BY DEF TextCovered, Covered, Lexed
<1>7. QED
  BY <1>4, <1>5, <1>6 DEF IInv, AtParenthesis

LEMMA NextIInv ==
    ASSUME IInv, [Next]_vars
    PROVE  IInv'
<1>1. CASE UNCHANGED vars
  <2>1. /\ UNCHANGED <<text, index, line, column, token_line, token_column, rule>>
        /\ UNCHANGED <<start, tokens, status, items, key, first, count>>
    BY <1>1 DEF vars, mapVars
  <2>2. TypeOK' /\ MapInv' /\ AtParenthesis'
    BY <2>1 DEF IInv, TypeOK, MapInv, InArray, Excluded, AtParenthesis, current, At
  <2>3. InTokens' = InTokens /\ Lexed' = Lexed /\ Final' = Final
    BY <2>1 DEF InTokens, Span, Lexed, Final
  <2>4. TextCovered' /\ Covered'
    BY <2>1, <2>3 DEF IInv, TextCovered, Covered, Known
  <2>5. QED
    BY <2>2, <2>4 DEF IInv
<1>2. CASE Lex
  <2>1. CASE skip_space \/ end_of_text \/ begin_token \/ unknown_char
    BY <2>1, skip_spaceIInv, end_of_textIInv, begin_tokenIInv, unknown_charIInv
  <2>2. CASE parse_parenthesis \/ parse_string_literal
    BY <2>2, parse_parenthesisIInv, parse_string_literalIInv
  <2>3. CASE digit_of_number \/ point_of_number \/ end_of_number
    BY <2>3, numberIInv
  <2>4. CASE char_of_word \/ end_of_word \/ halve
    BY <2>4, wordIInv
  <2>5. CASE looked_up
    BY <2>5, looked_upIInv
  <2>6. QED
    BY <1>2, <2>1, <2>2, <2>3, <2>4, <2>5 DEF Lex
<1>3. QED
  BY <1>1, <1>2 DEF Next, Stopped

LEMMA Invariance == Spec => []IInv
BY InitIInv, NextIInv, PTL DEF Spec

\* The lexer never reads past the character behind its text (lexer.cxx:34-40),
\* and every token lies in the text.
THEOREM TypeCorrect == Spec => []TypeOK
BY Invariance, PTL DEF IInv

\* No text is too long for TextCovered: no character of it is lost or taken
\* twice before the place where the stream ends (lexer.cxx:90-107, 130-142).
THEOREM NothingLost == Spec => []TextCovered
BY Invariance, PTL DEF IInv

\* Every word is looked up correctly, whatever the tables: the searches of the
\* lexer are those of StaticMap (lexer.cxx:83, 123).
THEOREM WordsLookedUp == Spec => []FindExact
<1>1. IInv => FindExact
  BY FindExactAtEnd DEF IInv
<1>2. QED
  BY <1>1, Invariance, PTL

(***************************************************************************)
(* What a rule has consumed: the characters from start + 1 to index.       *)
(***************************************************************************)
WordChars == Letters \cup Digits \cup {"-"}

Fraction(k) ==
    /\ text[k] = "." /\ All(Digits, start + 1, k - 1) /\ All(Digits, k + 1, index)
    /\ k = index => current \in Digits

Symbols     == At(start) \in SymbolChars /\ All(SymbolChars, start + 1, index)
AWord       == At(start) \in Letters /\ All(WordChars, start + 1, index)

LookedUp ==
    /\ start < index /\ key = Rank(Word)
    /\ \/ items = SYMBOLS /\ Symbols /\ At(index) \notin SymbolChars
       \/ items = KEYWORDS /\ AWord /\ At(index) \notin WordChars

Shape ==
    /\ rule = "string" =>
          /\ start < index /\ text[start + 1] = Quote
          /\ \A p \in start + 2 .. index : text[p] \notin {Quote, NUL}
    /\ rule = "parenthesis" => index = start
    /\ rule = "number" => At(start) \in Digits /\ All(Digits, start + 1, index)
    /\ rule = "fraction" => \E k \in start + 2 .. index : Fraction(k)
    /\ rule = "symbol" => Symbols
    /\ rule = "identifier" => AWord
    /\ rule = "lookup" => LookedUp

\* The line and column of the character at p.
IsLocation(p, l, c) ==
    /\ l = 1 + Cardinality(Newlines(p))
    /\ IF Newlines(p) = {} THEN c = p - 1
       ELSE \E q \in Newlines(p) : /\ \A r \in Newlines(p) : r <= q
                                   /\ c = p - q

Placed ==
    /\ IsLocation(index + 1, line, column)
    /\ rule # "next" => IsLocation(start + 1, token_line, token_column)

\* What holds of every token made, with what the rules have consumed.
XInv == IInv /\ Shape /\ Placed /\ TokensExact /\ LocationsExact /\ ErrorsJustified

(***************************************************************************)
(* The text never changes, nor what is said of it.                         *)
(***************************************************************************)
LEMMA SameTokens ==
    ASSUME text' = text, NEW t
    PROVE  IsToken(t)' <=> IsToken(t)
BY DEF IsToken, All, At, CharsOf, TableOf, InTable

LEMMA SameLocations ==
    ASSUME text' = text, NEW p, NEW l, NEW c
    PROVE  IsLocation(p, l, c)' <=> IsLocation(p, l, c)
BY DEF IsLocation, Newlines

LEMMA LocatedTokens ==
    LocationsExact <=>
        \A k \in DOMAIN tokens : tokens[k].type # "EndOfFile" =>
            IsLocation(tokens[k].from, tokens[k].line, tokens[k].column)
BY DEF LocationsExact, IsLocation

\* A token that is none of the text's stays out of TokensExact; any other has
\* to be one.
LEMMA TokenAdded ==
    ASSUME TypeOK, TokensExact, LocationsExact, text' = text,
           NEW t \in TokenSet, tokens' = Append(tokens, t),
           t.type # "EndOfFile" => IsToken(t) /\ IsLocation(t.from, t.line, t.column)
    PROVE  TokensExact' /\ LocationsExact'
<1>1. /\ Len(tokens) \in Nat
      /\ Len(tokens') = Len(tokens) + 1
      /\ tokens' \in Seq(TokenSet)
      /\ \A k \in 1 .. Len(tokens) : tokens'[k] = tokens[k]
      /\ tokens'[Len(tokens) + 1] = t
  BY AppendToken
<1>2. DOMAIN tokens = 1 .. Len(tokens) /\ DOMAIN tokens' = 1 .. Len(tokens')
  BY <1>1, TokensType
<1>3. ASSUME NEW k \in DOMAIN tokens', tokens'[k].type # "EndOfFile"
      PROVE  /\ IsToken(tokens'[k])
             /\ IsLocation(tokens'[k].from, tokens'[k].line, tokens'[k].column)
  <2>1. CASE k \in 1 .. Len(tokens)
    <3>1. tokens'[k] = tokens[k] /\ k \in DOMAIN tokens
      BY <1>1, <1>2, <2>1
    <3>2. IsToken(tokens[k])
      BY <1>3, <3>1 DEF TokensExact
    <3>3. IsLocation(tokens[k].from, tokens[k].line, tokens[k].column)
      BY <1>3, <3>1, LocatedTokens
    <3>4. QED
      BY <3>1, <3>2, <3>3
  <2>2. CASE k = Len(tokens) + 1
    BY <1>1, <1>3, <2>2
  <2>3. QED
    BY <1>1, <1>2, <2>1, <2>2
<1>4. TokensExact'
  BY <1>3, SameTokens DEF TokensExact
<1>5. (LocationsExact <=>
          \A k \in DOMAIN tokens : tokens[k].type # "EndOfFile" =>
              IsLocation(tokens[k].from, tokens[k].line, tokens[k].column))'
  BY LocatedTokens, PTL
<1>6. LocationsExact'
  BY <1>3, <1>5, SameLocations
<1>7. QED
  BY <1>4, <1>6

LEMMA TokensSame ==
    ASSUME TokensExact, LocationsExact, UNCHANGED <<text, tokens>>
    PROVE  TokensExact' /\ LocationsExact'
<1>1. TokensExact'
  BY SameTokens DEF TokensExact
<1>2. LocationsExact'
  BY DEF LocationsExact, Newlines
<1>3. QED
  BY <1>1, <1>2

(***************************************************************************)
(* Locations.                                                              *)
(***************************************************************************)
LEMMA NewlinesFinite ==
    ASSUME NEW p \in Nat
    PROVE  IsFiniteSet(Newlines(p)) /\ Cardinality(Newlines(p)) \in Nat
<1>1. Newlines(p) \subseteq 1 .. p - 1 /\ IsFiniteSet(1 .. p - 1)
  BY FS_Interval DEF Newlines
<1>2. QED
  BY <1>1, FS_Subset, FS_CardinalityType

\* advance keeps line and column those of the next character.
LEMMA AdvanceLocation ==
    ASSUME TypeOK, IsLocation(index + 1, line, column), current # NUL, advance, text' = text
    PROVE  IsLocation(index + 1, line, column)'
<1> DEFINE p == index + 1
           N == Newlines(p)
           M == Newlines(p + 1)
<1>1. p \in Nat \ {0} /\ p + 1 \in Nat /\ text[p] = current
  BY CurrentInText, TextType
<1>2. M = IF current = "newline" THEN N \cup {p} ELSE N
  BY <1>1 DEF Newlines
<1>3. p \notin N /\ \A q \in N : q \in Nat /\ q < p
  BY <1>1 DEF Newlines
<1>4. IsFiniteSet(N) /\ Cardinality(N) \in Nat
  BY <1>1, NewlinesFinite
<1>5. /\ line = 1 + Cardinality(N)
      /\ N = {} => column = p - 1
      /\ N # {} => \E q \in N : (\A r \in N : r <= q) /\ column = p - q
  BY DEF IsLocation
<1> HIDE DEF N
<1>6. CASE current = "newline"
  <2>1. line' = line + 1 /\ column' = 1
    BY <1>6 DEF advance
  <2>2. M = N \cup {p} /\ M # {}
    BY <1>2, <1>6
  <2>3. Cardinality(M) = Cardinality(N) + 1
    BY <1>3, <1>4, <2>2, FS_AddElement
  <2> HIDE DEF M
  <2>4. line' = 1 + Cardinality(M)
    BY <1>4, <1>5, <2>1, <2>3
  <2>5. p \in M /\ (\A r \in M : r <= p) /\ column' = (p + 1) - p
    BY <1>1, <1>3, <2>1, <2>2
  <2>6. IsLocation(p + 1, line', column')
    BY <2>2, <2>4, <2>5 DEF IsLocation, M
  <2>7. QED
    BY <2>6, SameLocations DEF advance
<1>7. CASE current # "newline"
  <2>1. line' = line /\ column' = column + 1
    BY <1>7 DEF advance
  <2>2. M = N
    BY <1>2, <1>7
  <2> HIDE DEF M
  <2>3. line' = 1 + Cardinality(M)
    BY <1>5, <2>1, <2>2
  <2>4. M = {} => column' = (p + 1) - 1
    BY <1>1, <1>5, <2>1, <2>2
  <2>5. M # {} => \E q \in M : (\A r \in M : r <= q) /\ column' = (p + 1) - q
    <3> SUFFICES ASSUME M # {} PROVE \E q \in M : (\A r \in M : r <= q) /\ column' = (p + 1) - q
      OBVIOUS
    <3>1. PICK q \in N : (\A r \in N : r <= q) /\ column = p - q
      BY <1>5, <2>2
    <3>2. column' = (p + 1) - q
      BY <1>1, <1>3, <2>1, <3>1
    <3>3. QED
      BY <2>2, <3>1, <3>2
  <2>6. IsLocation(p + 1, line', column')
    BY <2>3, <2>4, <2>5 DEF IsLocation, M
  <2>7. QED
    BY <2>6, SameLocations DEF advance
<1>8. QED
  BY <1>6, <1>7

\* Placed is kept while the token's location is.
LEMMA PlacedKept ==
    ASSUME TypeOK, Placed, UNCHANGED <<text, start, token_line, token_column>>,
           (advance /\ current # NUL) \/ Stay, rule # "next" \/ rule' = "next"
    PROVE  Placed'
<1>1. IsLocation(index + 1, line, column)'
  <2>1. CASE advance /\ current # NUL
    BY <2>1, AdvanceLocation DEF Placed
  <2>2. CASE Stay
    BY <2>2, SameLocations DEF Placed, Stay
  <2>3. QED
    BY <2>1, <2>2
<1>2. rule' # "next" => IsLocation(start + 1, token_line, token_column)'
  BY SameLocations DEF Placed
<1>3. QED
  BY <1>1, <1>2 DEF Placed

(***************************************************************************)
(* next_token.                                                             *)
(***************************************************************************)
\* No token is made and no error thrown.
LEMMA NoTokenXInv ==
    ASSUME XInv, IInv', Shape', Placed', UNCHANGED <<text, tokens>>, status' # "error"
    PROVE  XInv'
BY TokensSame DEF XInv, ErrorsJustified

LEMMA skip_spaceXInv ==
    ASSUME XInv, skip_space
    PROVE  XInv'
<1> USE DEF skip_space, Running
<1>1. IInv'
  BY skip_spaceIInv DEF XInv
<1>2. TypeOK /\ Placed /\ current # NUL
  BY NotNUL DEF XInv, IInv
<1>3. Placed'
  BY <1>2, PlacedKept DEF Located
<1>4. Shape'
  BY DEF Shape
<1>5. QED
  BY <1>1, <1>3, <1>4, NoTokenXInv

\* The end of the stream is no token of the text.
LEMMA EndOfFileXInv ==
    ASSUME XInv, IInv', Shape', Placed', Running("next"), text' = text,
           NEW l \in Nat, NEW c \in Nat, EndOfFile(l, c)
    PROVE  XInv'
<1> DEFINE t == [type |-> "EndOfFile", from |-> index + 1, to |-> index,
                 line |-> l, column |-> c]
<1>1. t \in TokenSet /\ t.type = "EndOfFile"
  BY TextType DEF XInv, IInv, TypeOK, TokenSet, TokenTypes
<1>2. tokens' = Append(tokens, t) /\ status' = "done"
  BY DEF EndOfFile
<1> HIDE DEF t
<1>3. TypeOK /\ TokensExact /\ LocationsExact
  BY DEF XInv, IInv
<1>4. TokensExact' /\ LocationsExact'
  BY <1>1, <1>2, <1>3, TokenAdded
<1>5. QED
  BY <1>2, <1>4 DEF XInv, ErrorsJustified

LEMMA end_of_textXInv ==
    ASSUME XInv, end_of_text
    PROVE  XInv'
<1> USE DEF end_of_text, Running
<1>1. IInv'
  BY end_of_textIInv DEF XInv
<1>2. TypeOK /\ Placed /\ token_line \in Nat /\ token_column \in Nat
  BY DEF XInv, IInv, TypeOK
<1>3. rule' = "next"
  OBVIOUS
<1>4. Placed'
  BY <1>2, <1>3, PlacedKept DEF Located
<1>5. Shape'
  BY <1>3 DEF Shape
<1>6. QED
  BY <1>1, <1>2, <1>4, <1>5, EndOfFileXInv

LEMMA unknown_charXInv ==
    ASSUME XInv, unknown_char
    PROVE  XInv'
<1> USE DEF unknown_char, Running
<1>1. IInv'
  BY unknown_charIInv DEF XInv
<1>2. TypeOK /\ Placed /\ line \in Nat /\ column \in Nat /\ current # NUL
  BY DEF XInv, IInv, TypeOK
<1>3. rule' = "next"
  OBVIOUS
<1>4. IsLocation(index + 1, line, column)'
  BY <1>2, AdvanceLocation DEF Placed
<1>5. Placed' /\ Shape'
  BY <1>3, <1>4 DEF Placed, Shape
<1>6. QED
  BY <1>1, <1>2, <1>5, EndOfFileXInv

\* A rule starts with its first character, where the token is located.
LEMMA begin_tokenXInv ==
    ASSUME XInv, begin_token
    PROVE  XInv'
<1> USE DEF begin_token, Running
<1>1. IInv'
  BY begin_tokenIInv DEF XInv
<1>2. TypeOK /\ Placed /\ current # NUL /\ index \in Nat
  BY NotNUL, TextType DEF XInv, IInv
<1>3. IsLocation(index + 1, line, column)'
  <2>1. CASE current = Quote
    <3>1. advance /\ text' = text
      BY <2>1
    <3>2. QED
      BY <1>2, <3>1, AdvanceLocation DEF Placed
  <2>2. CASE current # Quote
    <3>1. Stay /\ text' = text
      BY <2>2
    <3>2. QED
      BY <1>2, <3>1, SameLocations DEF Placed, Stay
  <2>3. QED
    BY <2>1, <2>2
<1>4. IsLocation(start + 1, token_line, token_column)'
  <2>1. start' = index /\ token_line' = line /\ token_column' = column /\ text' = text
    OBVIOUS
  <2>2. IsLocation(index + 1, line, column)
    BY DEF XInv, Placed
  <2>3. QED
    BY <2>1, <2>2 DEF IsLocation, Newlines
<1>5. Placed'
  BY <1>3, <1>4 DEF Placed
<1>6. CASE current = Quote
  <2>1. rule' = "string" /\ index' = index + 1 /\ start' = index /\ text' = text
    BY <1>6 DEF advance, Quote, is_symbol_char, SymbolChars, Digits, Letters
  <2>2. text[index + 1] = Quote
    BY <1>2, <1>6, CurrentInText
  <2>3. Shape'
    BY <1>2, <2>1, <2>2 DEF Shape
  <2>4. QED
    BY <1>1, <1>5, <2>3, NoTokenXInv
<1>7. CASE current # Quote
  <2>1. index' = index /\ start' = index /\ text' = text
    BY <1>7 DEF Stay
  <2>2. \A S : All(S, start + 1, index)'
    BY <1>2, <2>1 DEF All
  <2>3. At(start)' = current
    BY <2>1 DEF At, current
  <2>4. /\ rule' \in {"parenthesis", "symbol", "number", "identifier"}
        /\ rule' = "symbol" => current \in SymbolChars
        /\ rule' = "number" => current \in Digits
        /\ rule' = "identifier" => current \in Letters
    BY <1>7 DEF is_symbol_char
  <2>5. Shape'
    BY <2>1, <2>2, <2>3, <2>4 DEF Shape, Symbols, AWord
  <2>6. QED
    BY <1>1, <1>5, <2>5, NoTokenXInv
<1>8. QED
  BY <1>6, <1>7

(***************************************************************************)
(* The rules.                                                              *)
(***************************************************************************)
\* A rule takes one more character of its kind.
LEMMA AllTaken ==
    ASSUME TypeOK, NEW S, NEW i \in Nat \ {0}, All(S, i, index), current \in S, current # NUL,
           text' = text, index' = index + 1
    PROVE  All(S, i, index + 1) /\ \A p \in i .. index + 1 : text[p] \in S
<1>1. text[index + 1] = current /\ index \in Nat
  BY CurrentInText, TextType
<1>2. \A p \in i .. index + 1 : p \in i .. index \/ p = index + 1
  BY <1>1
<1>3. QED
  BY <1>1, <1>2 DEF All

\* A rule's token is what it consumed, at the place where it began.
LEMMA EmitXInv ==
    ASSUME XInv, IInv', status = "running", rule # "next",
           NEW type \in TokenTypes \ {"EndOfFile"}, NEW to \in start .. Len(text),
           Emit(type, to), IsToken(Token(type, to)),
           (advance /\ current # NUL) \/ Stay,
           UNCHANGED <<text, start, token_line, token_column, status>>
    PROVE  XInv'
<1> DEFINE t == Token(type, to)
<1>1. /\ t \in TokenSet /\ t.type # "EndOfFile" /\ t.from = start + 1
      /\ t.line = token_line /\ t.column = token_column
  BY TextType DEF XInv, IInv, TypeOK, TokenSet, Token
<1>2. tokens' = Append(tokens, t) /\ rule' = "next" /\ IsToken(t)
  BY DEF Emit
<1> HIDE DEF t
<1>3. TypeOK /\ TokensExact /\ LocationsExact /\ Placed
  BY DEF XInv, IInv
<1>4. IsLocation(t.from, t.line, t.column)
  BY <1>1, <1>3 DEF Placed
<1>5. TokensExact' /\ LocationsExact'
  BY <1>1, <1>2, <1>3, <1>4, TokenAdded
<1>6. Placed'
  BY <1>2, <1>3, PlacedKept
<1>7. Shape'
  BY <1>2 DEF Shape
<1>8. status' # "error"
  OBVIOUS
<1>9. QED
  BY <1>5, <1>6, <1>7, <1>8 DEF XInv, ErrorsJustified

LEMMA TokenIs ==
    ASSUME NEW type, NEW to
    PROVE  /\ Token(type, to).type = type
           /\ Token(type, to).from = start + 1
           /\ Token(type, to).to = to
BY DEF Token

LEMMA SeqIsOne ==
    ASSUME NEW w \in Seq(Chars), Len(w) = 1
    PROVE  w = <<w[1]>>
OBVIOUS

LEMMA parse_parenthesisXInv ==
    ASSUME XInv, parse_parenthesis
    PROVE  XInv'
<1> USE DEF parse_parenthesis, Running
<1>1. IInv'
  BY parse_parenthesisIInv DEF XInv
<1>2. /\ TypeOK /\ current \in {"(", ")"} /\ current # NUL /\ index = start
      /\ current \in TokenTypes \ {"EndOfFile"}
  BY DEF XInv, IInv, AtParenthesis, Shape, NUL, TokenTypes
<1>3. /\ index + 1 \in start .. Len(text) /\ text[start + 1] = current
      /\ start \in Nat /\ Len(text) \in Nat /\ text \in Seq(Chars)
  BY <1>2, CurrentInText, TextType
<1>4. SubSeq(text, start + 1, index + 1) = <<current>>
  <2>1. start + 1 \in 1 .. Len(text)
    BY <1>2, <1>3
  <2> DEFINE w == SubSeq(text, start + 1, start + 1)
  <2>2. Len(w) = 1 /\ w[1] = text[start + 1] /\ w \in Seq(Chars)
    BY <1>3, <2>1
  <2>3. w = <<w[1]>>
    BY <2>2, SeqIsOne
  <2>4. QED
    BY <1>2, <1>3, <2>2, <2>3
<1>5. IsToken(Token(current, index + 1))
  BY <1>2, <1>4, TokenIs DEF IsToken
<1>6. QED
  BY <1>1, <1>2, <1>3, <1>5, EmitXInv DEF Located

LEMMA parse_string_literalXInv ==
    ASSUME XInv, parse_string_literal
    PROVE  XInv'
<1> USE DEF parse_string_literal, Running
<1>1. IInv'
  BY parse_string_literalIInv DEF XInv
<1>2. /\ TypeOK /\ Placed
      /\ start < index /\ text[start + 1] = Quote
      /\ \A p \in start + 2 .. index : text[p] \notin {Quote, NUL}
  BY DEF XInv, IInv, Shape
<1>3. start \in Nat /\ index \in Nat /\ Len(text) \in Nat
  BY <1>2, TextType
<1>4. CASE current = Quote
  <2>1. current # NUL
    BY <1>4, NotNUL
  <2>2. index + 1 \in start .. Len(text) /\ text[index + 1] = Quote
    BY <1>2, <1>3, <1>4, <2>1, CurrentInText
  <2>3. /\ start + 1 < index + 1
        /\ \A p \in start + 2 .. (index + 1) - 1 : text[p] \notin {Quote, NUL}
        /\ (start + 1) + 1 = start + 2
    BY <1>2, <1>3
  <2>4. IsToken(Token("StringLiteral", index + 1))
    BY <1>2, <2>2, <2>3, TokenIs DEF IsToken
  <2>5. "StringLiteral" \in TokenTypes \ {"EndOfFile"}
    BY DEF TokenTypes
  <2>6. Emit("StringLiteral", index + 1) /\ advance /\ status' = status
    BY <1>4 DEF Quote, NUL
  <2>7. QED
    BY <1>1, <2>1, <2>2, <2>4, <2>5, <2>6, EmitXInv DEF Located
<1>5. CASE current = NUL
  <2>1. status' = "error" /\ Stay /\ UNCHANGED <<rule, tokens>>
    BY <1>5, NotNUL
  <2>2. index' = index
    BY <2>1 DEF Stay
  <2>3. Placed'
    BY <1>2, <2>1, PlacedKept DEF Located
  <2>4. Shape'
    BY <1>2, <2>1, <2>2 DEF Shape
  <2>5. TokensExact' /\ LocationsExact'
    BY <2>1, TokensSame DEF XInv
  <2>6. At(index)' = NUL
    BY <1>5, <2>2 DEF At, current
  <2>7. ErrorsJustified'
    BY <1>2, <2>2, <2>6 DEF ErrorsJustified
  <2>8. QED
    BY <1>1, <2>3, <2>4, <2>5, <2>7 DEF XInv
<1>6. CASE current # NUL /\ current # Quote
  <2>1. advance /\ UNCHANGED <<rule, tokens, status>>
    BY <1>6
  <2>2. index' = index + 1
    BY <2>1 DEF advance
  <2>3. Placed'
    BY <1>2, <1>6, <2>1, PlacedKept DEF Located
  <2>4. text[index + 1] = current
    BY <1>2, <1>6, CurrentInText
  <2>5. \A p \in start + 2 .. index + 1 : p \in start + 2 .. index \/ p = index + 1
    BY <1>3
  <2>6. \A p \in start + 2 .. index + 1 : text[p] \notin {Quote, NUL}
    BY <1>2, <1>6, <2>4, <2>5
  <2>7. Shape'
    BY <1>2, <1>3, <2>1, <2>2, <2>6 DEF Shape
  <2>8. QED
    BY <1>1, <2>1, <2>3, <2>7, NoTokenXInv
<1>7. QED
  BY <1>4, <1>5, <1>6

LEMMA digit_of_numberXInv ==
    ASSUME XInv, digit_of_number
    PROVE  XInv'
<1> USE DEF digit_of_number, consume_char
<1>1. IInv'
  BY numberIInv DEF XInv
<1>2. TypeOK /\ Placed /\ current \in Digits /\ current # NUL
  BY NotNUL DEF XInv, IInv
<1>3. start \in Nat /\ index \in Nat /\ index' = index + 1
  BY <1>2, TextType DEF advance
<1>4. Placed'
  BY <1>2, PlacedKept DEF Located
<1>5. CASE rule = "number"
  <2>1. At(start) \in Digits /\ All(Digits, start + 1, index)
    BY <1>5 DEF XInv, Shape
  <2>2. \A p \in start + 1 .. index + 1 : text[p] \in Digits
    BY <1>2, <1>3, <2>1, AllTaken
  <2>3. Shape'
    BY <1>3, <1>5, <2>1, <2>2 DEF Shape, All, At
  <2>4. QED
    BY <1>1, <1>4, <2>3, NoTokenXInv
<1>6. CASE rule = "fraction"
  <2>1. PICK k \in start + 2 .. index : Fraction(k)
    BY <1>6 DEF XInv, Shape
  <2>2. text[k] = "." /\ All(Digits, start + 1, k - 1) /\ All(Digits, k + 1, index)
    BY <2>1 DEF Fraction
  <2>3. k \in Nat /\ k + 1 \in Nat \ {0} /\ k # index + 1 /\ k \in start + 2 .. index + 1
    BY <1>3, <2>1
  <2>4. \A p \in k + 1 .. index + 1 : text[p] \in Digits
    BY <1>2, <1>3, <2>2, <2>3, AllTaken
  <2>5. Fraction(k)'
    BY <1>3, <2>2, <2>3, <2>4 DEF Fraction, All
  <2>6. Shape'
    BY <1>3, <1>6, <2>3, <2>5 DEF Shape
  <2>7. QED
    BY <1>1, <1>4, <2>6, NoTokenXInv
<1>7. QED
  BY <1>5, <1>6

LEMMA point_of_numberXInv ==
    ASSUME XInv, point_of_number
    PROVE  XInv'
<1> USE DEF point_of_number, Running
<1>1. IInv'
  BY numberIInv DEF XInv
<1>2. TypeOK /\ Placed /\ current = "." /\ current # NUL /\ peek \in Digits
  BY NotNUL DEF XInv, IInv
<1>3. start \in Nat /\ index \in Nat /\ index' = index + 1 /\ start \in 0 .. index
  BY <1>2, TextType DEF advance, TypeOK
<1>4. Placed'
  BY <1>2, PlacedKept DEF Located
<1>5. At(start) \in Digits /\ All(Digits, start + 1, index)
  BY DEF XInv, Shape
<1>6. start # index
  BY <1>2, <1>5 DEF current, Digits
<1>7. text[index + 1] = "."
  BY <1>2, CurrentInText
<1>8. current' = peek
  BY <1>3 DEF current, peek, At
<1>9. PICK k \in start + 2 .. index + 1 : k = index + 1
  BY <1>3, <1>6
<1>10. Fraction(k)'
  <2>1. text[k] = "." /\ k - 1 = index /\ \A p \in k + 1 .. index + 1 : FALSE
    BY <1>3, <1>7, <1>9
  <2>2. QED
    BY <1>2, <1>3, <1>5, <1>8, <2>1 DEF Fraction, All
<1>11. Shape'
  BY <1>3, <1>9, <1>10 DEF Shape
<1>12. QED
  BY <1>1, <1>4, <1>11, NoTokenXInv

LEMMA end_of_numberXInv ==
    ASSUME XInv, end_of_number
    PROVE  XInv'
<1> USE DEF end_of_number, Running
<1>1. IInv'
  BY numberIInv DEF XInv
<1>2. TypeOK /\ Placed /\ current \notin Digits
  BY DEF XInv, IInv
<1>3. start \in Nat /\ index \in Nat /\ index \in start .. Len(text)
  BY <1>2, TextType DEF TypeOK
<1>4. {"IntLiteral", "FloatLiteral"} \subseteq TokenTypes \ {"EndOfFile"}
  BY DEF TokenTypes
<1>5. At(index) \notin Digits
  BY <1>2 DEF current
<1>6. CASE rule = "number"
  <2>1. Emit("IntLiteral", index) /\ ~(current = "." /\ peek \in Digits)
    BY <1>6
  <2>2. All(Digits, start + 1, index)
    BY <1>6 DEF XInv, Shape
  <2>3. IsToken(Token("IntLiteral", index))
    BY <1>5, <2>1, <2>2, TokenIs DEF IsToken, current, peek
  <2>4. QED
    BY <1>1, <1>3, <1>4, <1>6, <2>1, <2>3, EmitXInv DEF Located
<1>7. CASE rule = "fraction"
  <2>1. Emit("FloatLiteral", index)
    BY <1>7
  <2>2. PICK k \in start + 2 .. index : Fraction(k)
    BY <1>7 DEF XInv, Shape
  <2>3. k \in (start + 1) + 1 .. index - 1
    BY <1>2, <1>3, <2>2 DEF Fraction
  <2>4. IsToken(Token("FloatLiteral", index))
    BY <1>5, <2>2, <2>3, TokenIs DEF IsToken, Fraction
  <2>5. QED
    BY <1>1, <1>3, <1>4, <1>7, <2>1, <2>4, EmitXInv DEF Located
<1>8. QED
  BY <1>6, <1>7

LEMMA char_of_wordXInv ==
    ASSUME XInv, char_of_word
    PROVE  XInv'
<1> USE DEF char_of_word, consume_char, Running, is_symbol_char, is_identifier_char
<1>1. IInv'
  BY wordIInv DEF XInv
<1>2. TypeOK /\ Placed /\ current # NUL
  BY NotNUL DEF XInv, IInv
<1>3. start \in Nat /\ index \in Nat /\ index' = index + 1
  BY <1>2, TextType DEF advance
<1>4. Placed'
  BY <1>2, PlacedKept DEF Located
<1>5. CASE rule = "symbol"
  <2>1. At(start) \in SymbolChars /\ All(SymbolChars, start + 1, index)
    BY <1>5 DEF XInv, Shape, Symbols
  <2>2. \A p \in start + 1 .. index + 1 : text[p] \in SymbolChars
    BY <1>2, <1>3, <1>5, <2>1, AllTaken
  <2>3. Shape'
    BY <1>3, <1>5, <2>1, <2>2 DEF Shape, All, At, Symbols
  <2>4. QED
    BY <1>1, <1>4, <2>3, NoTokenXInv
<1>6. CASE rule = "identifier"
  <2>1. At(start) \in Letters /\ All(WordChars, start + 1, index)
    BY <1>6 DEF XInv, Shape, AWord
  <2>2. \A p \in start + 1 .. index + 1 : text[p] \in WordChars
    BY <1>2, <1>3, <1>6, <2>1, AllTaken DEF WordChars
  <2>3. Shape'
    BY <1>3, <1>6, <2>1, <2>2 DEF Shape, All, At, AWord
  <2>4. QED
    BY <1>1, <1>4, <2>3, NoTokenXInv
<1>7. QED
  BY <1>5, <1>6

LEMMA end_of_wordXInv ==
    ASSUME XInv, end_of_word
    PROVE  XInv'
<1> USE DEF end_of_word, Running, Search
<1>1. IInv'
  BY wordIInv DEF XInv
<1>2. TypeOK /\ Placed
  BY DEF XInv, IInv
<1>3. index' = index /\ start' = start /\ text' = text /\ start \in Nat /\ index \in start .. Len(text)
  BY <1>2, TextType DEF Stay, TypeOK
<1>4. Placed'
  BY <1>2, PlacedKept DEF Located
<1>5. Word' = Word /\ At(index)' = current
  BY <1>3 DEF Word, At, current
<1>6. start # index
  BY DEF XInv, Shape, Symbols, AWord, current, is_symbol_char, is_identifier_char
<1>7. CASE rule = "symbol"
  <2>1. Symbols' /\ current \notin SymbolChars
    BY <1>3, <1>7 DEF XInv, Shape, Symbols, All, At, is_symbol_char
  <2>2. items' = SYMBOLS /\ key' = Rank(Word)'
    BY <1>5, <1>7
  <2>3. LookedUp'
    BY <1>3, <1>5, <1>6, <2>1, <2>2, TextType, <1>2 DEF LookedUp
  <2>4. QED
    BY <1>1, <1>4, <2>3, NoTokenXInv DEF Shape
<1>8. CASE rule = "identifier"
  <2>1. AWord' /\ current \notin WordChars
    BY <1>3, <1>8 DEF XInv, Shape, AWord, All, At, is_identifier_char, WordChars
  <2>2. items' = KEYWORDS /\ key' = Rank(Word)'
    BY <1>5, <1>8
  <2>3. LookedUp'
    BY <1>3, <1>5, <1>6, <2>1, <2>2, TextType, <1>2 DEF LookedUp
  <2>4. QED
    BY <1>1, <1>4, <2>3, NoTokenXInv DEF Shape
<1>9. QED
  BY <1>7, <1>8

LEMMA halveXInv ==
    ASSUME XInv, halve
    PROVE  XInv'
<1> USE DEF halve, Running
<1>1. IInv'
  BY wordIInv DEF XInv
<1>2. TypeOK /\ Placed
  BY DEF XInv, IInv
<1>3. Placed'
  BY <1>2, PlacedKept DEF Located
<1>4. UNCHANGED <<text, index, start, items, key>>
  BY DEF Stay, Halve
<1>5. LookedUp'
  BY <1>4 DEF XInv, Shape, LookedUp, Symbols, AWord, Word, All, At
<1>6. QED
  BY <1>1, <1>3, <1>5, NoTokenXInv DEF Shape

\* What a finished search says of the word.
LEMMA WordFound ==
    ASSUME XInv, looked_up
    PROVE  /\ InTable(items, Word) <=> Has
           /\ Has => /\ FoundValue \in Values
                     /\ first \in DOMAIN items
                     /\ items[first] = [key |-> Rank(Word), value |-> FoundValue]
<1> USE DEF looked_up, Running
<1>1. MapInv /\ key = Rank(Word)
  BY DEF XInv, IInv, Shape, LookedUp
<1>2. /\ items \in Seq(Entries) /\ Len(items) \in Nat
      /\ \A i \in 1 .. Len(items) : items[i] \in Entries
      /\ DOMAIN items = 1 .. Len(items)
      /\ first \in 1 .. Len(items) + 1
  BY <1>1, ConstructedType DEF MapInv, InArray
<1>3. Has <=> \E i \in 1 .. Len(items) : items[i].key = key
  BY <1>1, FindExactAtEnd DEF FindExact
<1>4. ASSUME Has
      PROVE  /\ FoundValue \in Values
             /\ first \in DOMAIN items
             /\ items[first] = [key |-> Rank(Word), value |-> FoundValue]
  BY <1>1, <1>2, <1>4 DEF Has, FoundValue, Entries
<1>5. QED
  BY <1>1, <1>2, <1>3, <1>4 DEF InTable

LEMMA looked_upXInv ==
    ASSUME XInv, looked_up
    PROVE  XInv'
<1> USE DEF looked_up, Running
<1>1. IInv'
  BY looked_upIInv DEF XInv
<1>2. TypeOK /\ Placed /\ LookedUp
  BY DEF XInv, IInv, Shape
<1>3. start \in Nat /\ index \in Nat /\ index \in start .. Len(text)
  BY <1>2, TextType DEF TypeOK
<1> DEFINE c == text[start + 1]
<1>4. c = At(start)
  BY <1>2, <1>3, TextType DEF At, LookedUp, TypeOK
<1>5. /\ items = TableOf(c)
      /\ All(CharsOf(c), start + 1, index)
      /\ At(index) \notin CharsOf(c)
      /\ items = SYMBOLS <=> c \in SymbolChars
      /\ items \in {SYMBOLS, KEYWORDS}
  <2>1. CASE items = SYMBOLS
    BY <1>2, <1>4, <2>1, TablesAssumption DEF LookedUp, Symbols, TableOf, CharsOf
  <2>2. CASE items = KEYWORDS
    <3>1. c \in Letters /\ c \notin SymbolChars
      BY <1>2, <1>4, <2>2, TablesAssumption DEF LookedUp, AWord, Letters, SymbolChars
    <3>2. QED
      BY <1>2, <2>2, <3>1, TablesAssumption DEF LookedUp, AWord, TableOf, CharsOf, WordChars
  <2>3. QED
    BY <1>2, <2>1, <2>2 DEF LookedUp
<1> HIDE DEF c
<1>6. /\ InTable(TableOf(c), Word) <=> Has
      /\ Has => /\ FoundValue \in Values
                /\ first \in DOMAIN TableOf(c)
                /\ TableOf(c)[first] = [key |-> Rank(Word), value |-> FoundValue]
  BY <1>5, WordFound
<1>7. ASSUME NEW type, type \notin {"IntLiteral", "FloatLiteral", "StringLiteral", "(", ")"},
             IF InTable(TableOf(c), Word)
             THEN \E i \in DOMAIN TableOf(c) :
                     TableOf(c)[i] = [key |-> Rank(Word), value |-> type]
             ELSE c \notin SymbolChars /\ type = "Identifier"
      PROVE  IsToken(Token(type, index))
  <2>1. SubSeq(text, start + 1, index) = Word /\ text[start + 1] = c
    BY DEF Word, c
  <2> DEFINE t == Token(type, index)
  <2>2. t.type = type /\ t.from = start + 1 /\ t.to = index
    BY TokenIs
  <2> HIDE DEF t
  <2>3. /\ t.type # "IntLiteral" /\ t.type # "FloatLiteral" /\ t.type # "StringLiteral"
        /\ t.type \notin {"(", ")"}
    BY <1>7, <2>2
  <2>4. /\ SubSeq(text, t.from, t.to) = Word /\ text[t.from] = c
        /\ All(CharsOf(c), t.from, t.to) /\ At(t.to) \notin CharsOf(c)
    BY <1>5, <2>1, <2>2
  <2>5. IF InTable(TableOf(text[t.from]), SubSeq(text, t.from, t.to))
        THEN \E i \in DOMAIN TableOf(text[t.from]) :
                TableOf(text[t.from])[i] = [key |-> Rank(SubSeq(text, t.from, t.to)),
                                            value |-> t.type]
        ELSE text[t.from] \notin SymbolChars /\ t.type = "Identifier"
    BY <1>7, <2>2, <2>4
  <2>6. IsToken(t)
    BY <2>3, <2>4, <2>5 DEF IsToken
  <2>7. QED
    BY <2>6 DEF t
<1>8. CASE Has
  <2>1. FoundValue \in Values /\ Emit(FoundValue, index) /\ status' = status
    BY <1>6, <1>8
  <2>2. FoundValue \notin {"IntLiteral", "FloatLiteral", "StringLiteral", "(", ")", "EndOfFile"}
    BY <2>1, ValuesAssumption
  <2>3. FoundValue \in TokenTypes \ {"EndOfFile"}
    BY <2>1, <2>2 DEF TokenTypes
  <2>4. IsToken(Token(FoundValue, index))
    BY <1>6, <1>7, <1>8, <2>2
  <2>5. QED
    BY <1>1, <1>3, <2>1, <2>3, <2>4, EmitXInv DEF Located
<1>9. CASE ~Has /\ items = KEYWORDS
  <2>1. Emit("Identifier", index) /\ status' = status
    BY <1>9
  <2>2. "Identifier" \in TokenTypes \ {"EndOfFile"}
    BY DEF TokenTypes
  <2>3. c \notin SymbolChars
    BY <1>5, <1>9, TablesAssumption
  <2>4. IsToken(Token("Identifier", index))
    BY <1>6, <1>7, <1>9, <2>3
  <2>5. QED
    BY <1>1, <1>3, <2>1, <2>2, <2>4, EmitXInv DEF Located
<1>10. CASE ~Has /\ items # KEYWORDS
  <2>1. status' = "error" /\ UNCHANGED <<rule, tokens>>
    BY <1>10
  <2>2. UNCHANGED <<text, index, start, items, key>>
    BY DEF Stay, mapVars
  <2>3. Placed'
    BY <1>2, <2>1, PlacedKept DEF Located
  <2>4. Shape'
    BY <1>2, <2>1, <2>2 DEF Shape, LookedUp, Symbols, AWord, Word, All, At
  <2>5. TokensExact' /\ LocationsExact'
    BY <2>1, TokensSame DEF XInv
  <2>6. /\ All(SymbolChars, start + 1, index) /\ At(index) \notin SymbolChars
        /\ ~InTable(SYMBOLS, Word)
    BY <1>2, <1>5, <1>6, <1>10 DEF LookedUp, Symbols
  <2>7. ErrorsJustified'
    BY <2>2, <2>6 DEF ErrorsJustified, All, At, InTable, Word
  <2>8. QED
    BY <1>1, <2>3, <2>4, <2>5, <2>7 DEF XInv
<1>11. QED
  BY <1>8, <1>9, <1>10

(***************************************************************************)
(* The theorems about tokens.                                              *)
(***************************************************************************)
LEMMA InitXInv ==
    ASSUME Init
    PROVE  XInv
<1> USE DEF Init
<1>1. IInv
  BY InitIInv
<1>2. Newlines(index + 1) = {}
  BY DEF Newlines
<1>3. Cardinality({}) = 0
  BY FS_EmptySet
<1>4. Placed
  <2>0. Cardinality(Newlines(index + 1)) = 0
    BY <1>2, <1>3, Zenon
  <2>1. line = 1 + Cardinality(Newlines(index + 1))
    BY <2>0
  <2>2. Newlines(index + 1) = {} /\ column = (index + 1) - 1 /\ rule = "next"
    BY <1>2
  <2>3. IsLocation(index + 1, line, column)
    BY <2>1, <2>2 DEF IsLocation
  <2>4. QED
    BY <2>2, <2>3 DEF Placed
<1>5. Shape /\ TokensExact /\ LocationsExact /\ ErrorsJustified
  BY DEF Shape, TokensExact, LocationsExact, ErrorsJustified
<1>6. QED
  BY <1>1, <1>4, <1>5 DEF XInv

LEMMA NextXInv ==
    ASSUME XInv, [Next]_vars
    PROVE  XInv'
<1>1. CASE UNCHANGED vars
  <2>1. /\ UNCHANGED <<text, index, line, column, token_line, token_column, rule>>
        /\ UNCHANGED <<start, tokens, status, items, key, first, count>>
    BY <1>1 DEF vars, mapVars
  <2>2. IInv'
    BY <1>1, NextIInv DEF XInv
  <2>3. TokensExact' /\ LocationsExact'
    BY <2>1, TokensSame DEF XInv
  <2>4. Placed'
    BY <2>1, PlacedKept DEF XInv, IInv, Stay
  <2>5. Shape'
    BY <2>1 DEF XInv, Shape, Fraction, LookedUp, Symbols, AWord, Word, All, At, current
  <2>6. ErrorsJustified'
    BY <2>1 DEF XInv, ErrorsJustified, All, At, InTable, Word
  <2>7. QED
    BY <2>2, <2>3, <2>4, <2>5, <2>6 DEF XInv
<1>2. CASE Lex
  <2>1. CASE skip_space \/ end_of_text \/ begin_token \/ unknown_char
    BY <2>1, skip_spaceXInv, end_of_textXInv, begin_tokenXInv, unknown_charXInv
  <2>2. CASE parse_parenthesis \/ parse_string_literal
    BY <2>2, parse_parenthesisXInv, parse_string_literalXInv
  <2>3. CASE digit_of_number \/ point_of_number \/ end_of_number
    BY <2>3, digit_of_numberXInv, point_of_numberXInv, end_of_numberXInv
  <2>4. CASE char_of_word \/ end_of_word \/ halve \/ looked_up
    BY <2>4, char_of_wordXInv, end_of_wordXInv, halveXInv, looked_upXInv
  <2>5. QED
    BY <1>2, <2>1, <2>2, <2>3, <2>4 DEF Lex
<1>3. QED
  BY <1>1, <1>2 DEF Next, Stopped

LEMMA ExactInvariance == Spec => []XInv
BY InitXInv, NextXInv, PTL DEF Spec

\* For every text and all tables, each token is the longest of its kind at its
\* place and has the type its characters stand for (lexer.cxx:42-128).
THEOREM TokensAreExact == Spec => []TokensExact
BY ExactInvariance, PTL DEF XInv

\* The location a token carries, which every message of the compiler shows, is
\* that of its first character (lexer.cxx:97, 144-153).
THEOREM LocationsAreExact == Spec => []LocationsExact
BY ExactInvariance, PTL DEF XInv

\* The lexer throws only at a string that nothing closes and at a run of
\* symbols that is none (lexer.cxx:66, 127).
THEOREM ErrorsAreJustified == Spec => []ErrorsJustified
BY ExactInvariance, PTL DEF XInv
==============================================================================
