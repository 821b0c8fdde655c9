------------------------------ MODULE MCDecisions ------------------------------
(***************************************************************************)
(* Decisions for TLC: wrong answers, one by a clock that is behind, an       *)
(* episode that memory may recall, two overlapping requests and a model     *)
(* that says what it may and what it may not.                               *)
(***************************************************************************)
EXTENDS Decisions

CONSTANTS a1, a2, a3, m1, c1, c2

Wrong == [correct |-> FALSE, item |-> 1, misconception |-> TRUE, hint |-> 0, at |-> 1,
          mastery |-> 60, confidence |-> 30, ending |-> FALSE]

Story == [a \in Answers |->
    CASE a = a1 -> Wrong
      [] a = a2 -> [Wrong EXCEPT !.item = 2, !.at = 2]
      [] OTHER -> [Wrong EXCEPT !.item = 3, !.at = 0]]

Worked == [x \in {m1} |->
    [mine |-> TRUE, validated |-> TRUE, skill |-> "skill", misconception |-> "confusion",
     intervention |-> "SHOW_MICRO_LESSON", correct |-> TRUE, transfer |-> TRUE, strong |-> TRUE]]

Says(action) == [action |-> action, episode |-> None, lesson |-> None, claims |-> {}, clean |-> TRUE]
SaidActions ==
    {Says("SHOW_MICRO_LESSON"), Says("RAISE_DIFFICULTY"),
     [Says("RETRY_SAME_SKILL") EXCEPT !.episode = m1,
        !.claims = {[code |-> "SUPPORTED_INTERVENTION_EFFECT", refs |-> {m1}]}]}

Outcomes ==
    {[intervention |-> "SHOW_MICRO_LESSON", attempts |-> 3, effect |-> 80],
     [intervention |-> "SHOW_WORKED_EXAMPLE", attempts |-> 4, effect |-> 50]}

Explains(refs, numbers, history) ==
    [refs |-> refs, clauses |-> {[words |-> {}, numbers |-> numbers]}, history |-> history, clean |-> TRUE]
SaidExplanations ==
    {Explains({"errors"}, {2}, FALSE), Explains({"purpose"}, {}, TRUE)}

Sums(refs, words, numbers) ==
    [refs |-> refs, clauses |-> {[words |-> words, numbers |-> numbers]}, clean |-> TRUE]
SaidSummaries ==
    {Sums({"attempts"}, {"questions"}, {1}), Sums({"attempts"}, {"questions"}, {2}),
     Sums({"attempts", "interventions"}, {"confirmed"}, {})}

CallSymmetry == Permutations(Calls)

Up == [configured |-> TRUE, enabled |-> Tasks]
================================================================================
