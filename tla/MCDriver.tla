------------------------------ MODULE MCDriver -------------------------------
(***************************************************************************)
(* Two compilations in one directory, for TLC.                             *)
(***************************************************************************)
EXTENDS Driver

MCProcs == {"a", "b"}

\* One pass stands for the four.
MCFlaws == {"generate", "verify", "link", "none"}
==============================================================================
