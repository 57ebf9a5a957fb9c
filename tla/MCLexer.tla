------------------------------- MODULE MCLexer -------------------------------
(***************************************************************************)
(* Lexer over short texts, for TLC.  The tables hold what can be written   *)
(* with the characters: keywords of which one begins another (as `else`    *)
(* and `elseif`) and symbols of one and two characters.                    *)
(***************************************************************************)
EXTENDS Lexer, SequencesExt

MCChars == {"a", "1", "-", "=", "!", "(", ".", "quote", "newline", "?", "NUL"}

\* Lexicographic order as an integer: a shorter word is padded with zeros.
MCOrder == <<"NUL", "newline", "space", "!", "quote", "(", "-", ".", "1", "=", "?", "a">>

MCRank(w) ==
    LET R[i \in 0 .. MaxLen] ==
            IF i = 0 THEN 0
            ELSE 13 * R[i - 1] + (IF i > Len(w) THEN 0
                                 ELSE CHOOSE k \in DOMAIN MCOrder : MCOrder[k] = w[i])
    IN  R[MaxLen]

MCTable(words) ==
    SetToSortSeq({[key |-> MCRank(w[1]), value |-> w[2]] : w \in words},
                 LAMBDA a, b : a.key < b.key)

MCKeywords == MCTable({<< <<"a", "a">>, "Else">>, << <<"a", "a", "1", "a">>, "ElseIf">>,
                       << <<"a", "1">>, "End">>})

MCSymbols == MCTable({<< <<"-">>, "Minus">>, << <<"=">>, "Assignment">>,
                      << <<"=", "=">>, "Equals">>, << <<"!", "=">>, "NotEquals">>,
                      << <<"(">>, "LParen">>})

MCMaps == {MCKeywords, MCSymbols}

MCTypes == {"Else", "ElseIf", "End", "Minus", "Assignment", "Equals", "NotEquals",
            "LParen"}
==============================================================================
