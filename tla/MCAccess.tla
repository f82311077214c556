------------------------------ MODULE MCAccess ------------------------------
(* Instances of Access for TLC.                                            *)
EXTENDS Access, TLC

CONSTANTS ann, bob, eve, s1, s2, b1, r1, r2, c1, c2, i1, i2

RequestSymmetry == Permutations(Sessions)
MemberSymmetry  == Permutations(Calls) \cup Permutations(Members \ {Founder})

=============================================================================
