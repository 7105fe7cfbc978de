---------------------------- MODULE MCDiscovery ----------------------------
(* One device heard by one verifier; nonces are interchangeable.           *)
EXTENDS Discovery, TLC

CONSTANTS d1, n1, n2, n3, n4
Symmetry == Permutations({n1, n2, n3, n4})
=============================================================================
