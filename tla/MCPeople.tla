------------------------------ MODULE MCPeople ------------------------------
(* People on small instances; all constants are interchangeable.           *)
EXTENDS People, TLC

CONSTANTS p1, p2, n1, n2, i1, i2, r1, r2

Symmetric == Permutations(Person) \cup Permutations(Name)
               \cup Permutations(Image) \cup Permutations(Req)
============================================================================
