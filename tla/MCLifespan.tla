------------------------------ MODULE MCLifespan ------------------------------
(***************************************************************************)
(* Lifespan for TLC.                                                       *)
(***************************************************************************)
EXTENDS Lifespan, TLC

CONSTANTS old, new, broken, sound

\* A deployment: a process of the release before, and one of the next.
TwoReleases == [p \in Processes |-> IF p = old THEN 2 ELSE 3]

\* The tenant that comes first fails in every poll.
BrokenFirst == <<broken, sound>>
===============================================================================
