---------------------------- MODULE MC_EnvFiles ----------------------------
(***************************************************************************)
(* Environment files for TLC.  One plaintext with one variable is enough:  *)
(* the properties tell whole files from broken ones, and every way a       *)
(* consumer can refuse a text is also a way sops can fail.                 *)
(***************************************************************************)
EXTENDS EnvFiles, TLC

CONSTANT x

OneText == {<<[key |-> x, value |-> [quote |-> "double", items |-> <<[char |-> 97]>>]]>>}

Alike == Permutations(Shell) \union Permutations(Env)
=============================================================================
