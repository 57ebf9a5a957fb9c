------------------------------ MODULE MCParser -------------------------------
(***************************************************************************)
(* Streams for TLC: one language of blocks with the shortest statements,   *)
(* one of expressions, one with every statement and its parts.             *)
(***************************************************************************)
EXTENDS Parser

Header == {"Function", "Identifier", "LParen", "RParen"}

BlockWords == {"If", "ElseIf", "Else", "End", "Loop", "Break", "IntLiteral"}

\* An operator of each level.
ExpressionWords == {"Return", "IntLiteral", "Equals", "LessThan", "Plus",
                    "Asterisk", "End"}

StatementWords == TokenTypes \ {"EndOfFile"}

MCLanguages == {[types |-> Header \cup BlockWords,      max |-> 12],
                [types |-> Header \cup ExpressionWords, max |-> 12],
                [types |-> StatementWords,              max |-> 9]}

\* Long enough for a loop whose last statement is an if with an elseif.
MCBlocks == {[types |-> Header \cup BlockWords, max |-> 13]}
==============================================================================
