-------------------------------- MODULE Policy --------------------------------
(***************************************************************************)
(* The deterministic teaching policy: app/agent/policy.py with the         *)
(* thresholds of app/domain/learner.py and the session states of           *)
(* app/domain/sessions.py.                                                 *)
(*                                                                         *)
(* An input is what SyncService knows of the learner when an answer was    *)
(* scored.  mastery and confidence are compared with thresholds only and   *)
(* are integers of percent.                                                *)
(***************************************************************************)
EXTENDS Naturals, FiniteSets

CONSTANT None

Interventions == {"SHOW_WORKED_EXAMPLE", "SHOW_MICRO_LESSON"}

BoundedActions == Interventions \cup
    {"RETRY_SAME_SKILL", "LOWER_DIFFICULTY", "RAISE_DIFFICULTY",
     "SWITCH_TO_PREREQUISITE", "END_WITH_REVIEW"}

ASSUME NoneIsNoAction == None \notin BoundedActions

PolicyInput == [ending: BOOLEAN, recalled: SUBSET Interventions, prerequisite: BOOLEAN,
                misconception: BOOLEAN, observations: Nat, items: Nat, errors: Nat,
                streak: Nat, mastery: 0..100, confidence: 0..100,
                clean: 0..3, recent: 0..3, difficulty: 1..3]

--------------------------------------------------------------------------------
SessionStates == {"NEW", "PROFILE_READY", "DIAGNOSTIC_ACTIVE", "DIAGNOSTIC_COMPLETE",
    "PLAN_READY", "QUESTION_ACTIVE", "HINT_ACTIVE", "ANSWER_EVALUATED",
    "WORKED_EXAMPLE_ACTIVE", "MICRO_LESSON_ACTIVE", "PRACTICE_ADAPTED", "PAUSED",
    "SESSION_SUMMARY", "SESSION_COMPLETED"}

\* Where every state with a question behind it may go.
Resting == {"QUESTION_ACTIVE", "PAUSED", "SESSION_SUMMARY"}

Transitions(s) ==
    CASE s = "NEW" -> {"PROFILE_READY"}
      [] s = "PROFILE_READY" -> {"DIAGNOSTIC_ACTIVE"}
      [] s = "DIAGNOSTIC_ACTIVE" -> {"DIAGNOSTIC_COMPLETE"}
      [] s = "DIAGNOSTIC_COMPLETE" -> {"PLAN_READY"}
      [] s = "PLAN_READY" -> {"QUESTION_ACTIVE"}
      [] s = "QUESTION_ACTIVE" -> {"HINT_ACTIVE", "ANSWER_EVALUATED", "PAUSED", "SESSION_SUMMARY"}
      [] s = "HINT_ACTIVE" -> Resting \cup {"ANSWER_EVALUATED"}
      [] s = "ANSWER_EVALUATED" -> Resting \cup
             {"WORKED_EXAMPLE_ACTIVE", "MICRO_LESSON_ACTIVE", "PRACTICE_ADAPTED"}
      [] s \in {"WORKED_EXAMPLE_ACTIVE", "MICRO_LESSON_ACTIVE", "PRACTICE_ADAPTED", "PAUSED"} -> Resting
      [] s = "SESSION_SUMMARY" -> {"SESSION_COMPLETED"}
      [] OTHER -> {}

CanTransition(source, target) == target \in Transitions(source)

NextState(action) ==
    CASE action = "SHOW_WORKED_EXAMPLE" -> "WORKED_EXAMPLE_ACTIVE"
      [] action = "SHOW_MICRO_LESSON" -> "MICRO_LESSON_ACTIVE"
      [] action = "RETRY_SAME_SKILL" -> "QUESTION_ACTIVE"
      [] action = "END_WITH_REVIEW" -> "SESSION_SUMMARY"
      [] OTHER -> "PRACTICE_ADAPTED"

--------------------------------------------------------------------------------
\* What the policy permits: the one action it mandates or None, the allowed
\* actions with the state each leads to, and what it does today.
Constraints == [hard: BoundedActions \cup {None}, allowed: SUBSET BoundedActions,
                next: UNION {[A -> SessionStates] : A \in SUBSET BoundedActions},
                fallback: BoundedActions, difficulty: 1..3]

Mandate(action, input) ==
    [hard |-> action, allowed |-> {action}, next |-> [a \in {action} |-> NextState(a)],
     fallback |-> action, difficulty |-> input.difficulty]

Choice(actions, fallback, difficulty) ==
    [hard |-> None, allowed |-> actions, next |-> [a \in actions |-> NextState(a)],
     fallback |-> fallback, difficulty |-> difficulty]

\* The item stays, or follows the promotion: practice goes on in PRACTICE_ADAPTED.
Adapting(actions, fallback, difficulty) ==
    [Choice(actions, fallback, difficulty) EXCEPT
        !.next = [a \in actions |-> "PRACTICE_ADAPTED"]]

ShouldPromote(input) ==
    /\ input.mastery >= 72 /\ input.confidence >= 55
    /\ input.recent >= 3 /\ input.clean >= 2

ShouldSupport(input) ==
    \/ input.errors >= 2
    \/ input.observations >= 2 /\ input.items >= 2
    \/ input.mastery < 45 /\ input.confidence >= 40

RepeatedErrors(input) ==
    input.errors >= 2 \/ (input.misconception /\ input.observations >= 2)

\* The policy without memories, its cases in order.
WithoutRecall(input) ==
    CASE input.ending -> Mandate("END_WITH_REVIEW", input)
      [] ~input.ending /\ input.prerequisite -> Mandate("SWITCH_TO_PREREQUISITE", input)
      [] OTHER ->
         IF RepeatedErrors(input)
         THEN Choice(Interventions \cup {"RETRY_SAME_SKILL"},
                     IF input.misconception THEN "SHOW_WORKED_EXAMPLE"
                     ELSE "SHOW_MICRO_LESSON", input.difficulty)
         ELSE IF input.misconception
         THEN Choice({"RETRY_SAME_SKILL"}, "RETRY_SAME_SKILL", input.difficulty)
         ELSE IF ShouldSupport(input)
         THEN IF input.observations >= 2 /\ input.items >= 2
              THEN Choice(Interventions \cup {"LOWER_DIFFICULTY"}, "SHOW_WORKED_EXAMPLE",
                          input.difficulty)
              ELSE Choice(Interventions \cup {"LOWER_DIFFICULTY"}, "LOWER_DIFFICULTY",
                          IF input.difficulty = 1 THEN 1 ELSE input.difficulty - 1)
         ELSE IF input.streak >= 2 /\ ShouldPromote(input)
         THEN Adapting({"RETRY_SAME_SKILL", "RAISE_DIFFICULTY"}, "RAISE_DIFFICULTY",
                       IF input.difficulty = 3 THEN 3 ELSE input.difficulty + 1)
         ELSE Adapting({"RETRY_SAME_SKILL"}, "RETRY_SAME_SKILL", input.difficulty)

\* Two strategies that worked are alternatives, unless a guard mandates.
WithRecall(base, recalled) ==
    IF base.hard # None THEN base
    ELSE [base EXCEPT !.allowed = @ \cup recalled,
                      !.next = [a \in base.allowed \cup recalled |->
                                   IF a \in recalled THEN NextState(a) ELSE base.next[a]]]

\* derive_policy_constraints: the time guard, then the one strategy that worked,
\* before the prerequisite and what the errors say.
DeriveConstraints(input) ==
    IF input.ending \/ input.recalled = {} THEN WithoutRecall(input)
    ELSE IF \E a \in input.recalled : input.recalled = {a}
    THEN Mandate(CHOOSE a \in input.recalled : TRUE, input)
    ELSE WithRecall(WithoutRecall(input), input.recalled)

--------------------------------------------------------------------------------
\* What every caller relies on: the fallback is allowed, a mandate allows nothing
\* else, and every allowed action has a state a scored answer may lead to.
WellFormed(c) ==
    /\ c.fallback \in c.allowed
    /\ c.hard # None => c.allowed = {c.hard}
    /\ DOMAIN c.next = c.allowed
    /\ \A a \in c.allowed : CanTransition("ANSWER_EVALUATED", c.next[a])

\* Two wrong answers in a row: never harder items, and by itself the policy does
\* more than ask the next question.
SupportsErrors(input) ==
    input.errors >= 2 =>
        LET c == DeriveConstraints(input) IN
            /\ "RAISE_DIFFICULTY" \notin c.allowed
            /\ c.fallback # "RETRY_SAME_SKILL"
================================================================================
