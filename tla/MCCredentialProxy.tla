------------------------- MODULE MCCredentialProxy -------------------------
(* Instances of CredentialProxy for TLC.                                   *)
EXTENDS CredentialRefinesApproval, TLC

(* Requests and room members are interchangeable in the safety runs; a     *)
(* permutation of members must keep the whitelist.                         *)
Symmetry == Permutations(Req) \cup Permutations(User \ Whitelist)
============================================================================
