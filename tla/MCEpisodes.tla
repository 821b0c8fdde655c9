------------------------------ MODULE MCEpisodes ------------------------------
(***************************************************************************)
(* Episodes for TLC: scripts of events, in every order their sequences     *)
(* allow and with every choice of the policy.                              *)
(***************************************************************************)
EXTENDS Episodes

CONSTANTS s1, s2, t1, t2, a1, a2, a3, a4, a5, a6, i1, i2, i3,
          e1, e2, e3, e4, e5, e6, e7, e8, e9, e10

OneSkill == [i \in Items |-> "linear"]
Medium == [i \in Items |-> 2]

Answer == [kind |-> "ANSWER_SUBMITTED", student |-> s1, session |-> t1, device |-> 1,
           sequence |-> 1, occurred_at |-> 1, attempt |-> a1, item |-> i1, known |-> TRUE,
           correct |-> FALSE, mapped |-> TRUE, hint |-> 0, source |-> None,
           approved |-> TRUE]
Shown == [Answer EXCEPT !.kind = "WORKED_EXAMPLE_PRESENTED", !.attempt = None,
                        !.item = None, !.source = e1, !.mapped = FALSE]

(* Device 1: a wrong answer to an item, the example, a right one to another item
   with two hints, the example for that one, the first item again, an answer with
   the first attempt id.  Device 2: the first presentation told again, the session's
   end.  Device 3: another student with the first attempt id, and with an answer in
   the first student's session. *)
Story(e) ==
    CASE e = e1 -> [Answer EXCEPT !.mapped = FALSE]
      [] e = e2 -> [Shown EXCEPT !.sequence = 2]
      [] e = e3 -> [Answer EXCEPT !.sequence = 3, !.attempt = a2, !.item = i2,
                                  !.correct = TRUE, !.hint = 2]
      [] e = e4 -> [Shown EXCEPT !.sequence = 4, !.source = e3]
      [] e = e5 -> [Answer EXCEPT !.sequence = 5, !.attempt = a3, !.correct = TRUE]
      [] e = e6 -> [Answer EXCEPT !.sequence = 6]
      [] e = e7 -> [Shown EXCEPT !.device = 2]
      [] e = e8 -> [Answer EXCEPT !.kind = "SESSION_COMPLETED", !.device = 2, !.sequence = 2,
                                  !.attempt = None, !.item = None, !.mapped = FALSE]
      [] e = e9 -> [Answer EXCEPT !.device = 3, !.student = s2, !.session = t2]
      [] OTHER  -> [Answer EXCEPT !.device = 3, !.sequence = 2, !.student = s2, !.attempt = a4]
Teaching == [e \in Events |-> Story(e)]

\* Three rounds of a wrong answer, the example and a right answer to one other
\* item, the last in a second session; such an answer with two hints.
Number == [e \in Events |->
    CASE e = e1 -> 1 [] e = e2 -> 2 [] e = e3 -> 3 [] e = e4 -> 4 [] e = e5 -> 5
      [] e = e6 -> 6 [] e = e7 -> 7 [] e = e8 -> 8 [] e = e9 -> 9
      [] OTHER -> 10]
Round(n) == (n - 1) \div 3
Rounds == [e \in Events |->
    LET n == Number[e]
        r == Round(n)
        session == IF r = 2 THEN t2 ELSE t1
    IN  CASE n % 3 = 1 /\ n # 10 -> [Answer EXCEPT !.sequence = n, !.session = session,
                              !.attempt = <<a1, a2, a3>>[r + 1]]
          [] n % 3 = 2 -> [Shown EXCEPT !.sequence = n, !.session = session,
                              !.source = <<e1, e4, e7>>[r + 1]]
          [] n = 10 -> [Answer EXCEPT !.sequence = n, !.attempt = a6, !.item = i2,
                                    !.correct = TRUE, !.hint = 2]
          [] OTHER -> [Answer EXCEPT !.sequence = n, !.session = session, !.item = i2,
                          !.correct = TRUE, !.attempt = <<a4, a5, a6>>[r + 1]]]

\* Without the script.
TeachingNext == \E e \in Events : SubmitAnswer(e) \/ Present(e) \/ Observe(e)
TeachingSpec == EpisodesInit /\ [][TeachingNext]_learnerVars
===============================================================================
