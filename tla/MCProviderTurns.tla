----------------------------- MODULE MCProviderTurns -----------------------------
(***************************************************************************)
(* Small instances of ProviderTurns.  References, bundles and attachments  *)
(* are opaque and interchangeable, so their permutations are symmetries.   *)
(***************************************************************************)
EXTENDS ProviderTurns, TLC

References == Permutations(Requests) \union Permutations(Bundles) \union Permutations(Files)
=============================================================================
