----------------------------- MODULE MCProjection -----------------------------
(***************************************************************************)
(* Projection for TLC: answers that share an attempt id or an item, in     *)
(* every order their sequences allow.                                      *)
(***************************************************************************)
EXTENDS Projection

CONSTANTS s1, s2, t1, t2, a1, a2, a3, i1, i2, e1, e2, e3, e4, e5, e6

OneSkill == [i \in Items |-> "linear"]
Hard == [i \in Items |-> IF i = i1 THEN 3 ELSE 2]

Base == [kind |-> "ANSWER_SUBMITTED", student |-> s1, session |-> t1, device |-> 1,
         sequence |-> 1, occurred_at |-> 1, attempt |-> a1, item |-> i1, known |-> TRUE,
         correct |-> TRUE, mapped |-> FALSE, hint |-> 0, source |-> None, approved |-> TRUE]

\* Three answers with one attempt id.
OneAttempt == [e \in Events |-> [Base EXCEPT !.occurred_at = 1,
                  !.sequence = IF e = e1 THEN 1 ELSE IF e = e2 THEN 2 ELSE 3]]

\* Two devices, one item, one answer with all its hints.
TwoHints == [e \in Events |-> [Base EXCEPT
                  !.device = IF e = e1 THEN 1 ELSE 2, !.attempt = IF e = e1 THEN a1 ELSE a2,
                  !.hint = IF e = e1 THEN 0 ELSE 3, !.occurred_at = IF e = e1 THEN 0 ELSE 1]]

MCNext == (\E e \in Events : Store(e)) \/ ScriptNext
MCSpec == ProjectionInit /\ [][MCNext]_projectionVars
===============================================================================
