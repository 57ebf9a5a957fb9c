------------------------------ MODULE MCCodegen ------------------------------
(***************************************************************************)
(* Codegen alone, over any program, for TLC.  An expression is the pair of *)
(* the variables it loads and the functions it calls.                      *)
(***************************************************************************)
EXTENDS Codegen

MCVarsOf(e)  == e[1]
MCCallsOf(e) == e[2]

\* A literal, and a call of the function every module has.
MCExprs == {<<{}, {}>>, <<{}, {"printf"}>>}
==============================================================================
