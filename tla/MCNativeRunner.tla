---------------------------- MODULE MCNativeRunner ----------------------------
(* The native API Runner on small instances; prompts, calls and backends are  *)
(* interchangeable.                                                           *)
EXTENDS NativeRunner, TLC

Symmetric == Permutations(Prompt) \cup Permutations(Call) \cup Permutations(Backend)
=============================================================================
