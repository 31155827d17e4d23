---------------------------- MODULE MCTokenVault ----------------------------
(* Instance of TokenVault for TLC.                                         *)
EXTENDS TokenVaultLedger, TLC

Symmetry == Permutations(Secret) \cup Permutations(Request) \cup Permutations(Addr)
=============================================================================
