--------------------------- MODULE MCFaceGallery ---------------------------
(* FaceGallery on small instances; slots are interchangeable.              *)
EXTENDS FaceGallery, TLC

CONSTANTS o1, o2, a, b, v1, v2, n1, n2, t1, t2

Symmetric == Permutations(Slot) \cup Permutations(Org) \cup Permutations(Pid)
               \cup Permutations(Version) \cup Permutations(Name)
============================================================================
