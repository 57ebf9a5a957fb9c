---------------------------- MODULE LexicalScope -----------------------------
(***************************************************************************)
(* What the scope stack of the type checker promises its callers, without  *)
(* a stack: a name is visible, with the type of its declaration, from that *)
(* declaration to the end of the block that holds it; while it is visible  *)
(* it is not declared again; blocks nest and close innermost first.        *)
(***************************************************************************)
EXTENDS Integers, Sequences

CONSTANTS
    Names,
    BlockKinds,  \* what a block may be the body or branch of
    DeclTypes,   \* what a name may be declared as
    Unbound      \* the type of a name that is not visible, not in DeclTypes

VARIABLES
    open,    \* kinds of the open blocks, outermost first
    type,    \* type of each visible name
    level    \* block that declares each visible name

lexical == <<open, type, level>>

Depth == Len(open)

LexicalInit ==
    /\ open = << >>
    /\ type = [n \in Names |-> Unbound]
    /\ level = [n \in Names |-> 0]

\* The names block d declares go out of scope.
Forget(d) ==
    /\ type'  = [n \in Names |-> IF level[n] = d THEN Unbound ELSE type[n]]
    /\ level' = [n \in Names |-> IF level[n] = d THEN 0 ELSE level[n]]

Open(kind) ==
    /\ open' = Append(open, kind)
    /\ UNCHANGED <<type, level>>

Close ==
    /\ open # << >>
    /\ open' = SubSeq(open, 1, Depth - 1)
    /\ Forget(Depth)

\* One branch of an if ends and the next begins.
Reopen(kind) ==
    /\ open # << >>
    /\ open' = [open EXCEPT ![Depth] = kind]
    /\ Forget(Depth)

Bind(n, t) ==
    /\ open # << >>
    /\ type[n] = Unbound
    /\ type'  = [type EXCEPT ![n] = t]
    /\ level' = [level EXCEPT ![n] = Depth]
    /\ UNCHANGED open

LexicalNext ==
    \/ \E kind \in BlockKinds : Open(kind) \/ Reopen(kind)
    \/ Close
    \/ \E n \in Names, t \in DeclTypes : Bind(n, t)

LexicalSpec == LexicalInit /\ [][LexicalNext]_lexical
==============================================================================
