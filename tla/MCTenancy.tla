----------------------------- MODULE MCTenancy -----------------------------
(* Tenancy on small instances; all constants are interchangeable.          *)
EXTENDS Tenancy, TLC

CONSTANTS o1, o2, c1, c2, r1, r2

Symmetric == Permutations(Org) \cup Permutations(Conn) \cup Permutations(Req)
============================================================================
