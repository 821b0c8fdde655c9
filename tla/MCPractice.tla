------------------------------ MODULE MCPractice ------------------------------
(* Instances of Practice for TLC.                                            *)
EXTENDS Practice, TLC

CONSTANTS q1, q2, k1, k2, a1, a2, s1, s2

\* Two questions of one skill, or of a skill each.
TwoOfOne == [q \in Questions |-> k1]
OneEach == [q \in Questions |-> IF q = q1 THEN k1 ELSE k2]

\* A plain decision, a ranked one, and one that tells of a validated episode.
PlainOrMore == {<<FALSE, FALSE>>, <<TRUE, FALSE>>, <<FALSE, TRUE>>}

Symmetry == Permutations(Answers) \cup Permutations(Sessions)
================================================================================
