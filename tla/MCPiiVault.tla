----------------------------- MODULE MCPiiVault -----------------------------
(* Instance of PiiVault for TLC.                                           *)
EXTENDS PiiVaultLedger, TLC

Symmetry == Permutations(Value) \cup Permutations(Request)
=============================================================================
