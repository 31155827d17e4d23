-------------------------- MODULE MCCallerRegistry --------------------------
(* CallerRegistry on small instances.  Names, hashes and registrations are *)
(* interchangeable.                                                        *)
EXTENDS CallerRegistry, TLC

Symmetry == Permutations(Reg) \cup Permutations(Hash) \cup Permutations(Name)
=============================================================================
