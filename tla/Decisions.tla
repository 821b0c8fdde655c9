------------------------------ MODULE Decisions ------------------------------
(***************************************************************************)
(* What a learner is told after an answer, for one session of a student:   *)
(* the batch that scores it commits the policy's action (phase A); with    *)
(* the lock released a language model is asked for a better one and for    *)
(* wording (phase B); a short transaction under the lock checks that the   *)
(* session has not moved and records what it changes (phase C); then the   *)
(* response is sent.  SyncService.process_batch and below                  *)
(* (app/sync/service.py) with app/agent/hybrid.py.                         *)
(*                                                                         *)
(* Batches are transactions under the student's lock: one step each.  All  *)
(* answers are valid ones of one skill and pack (Projection has the rest). *)
(***************************************************************************)
EXTENDS Grounding, Sequences, SequencesExt, FiniteSetsExt

CONSTANTS
    Answers,      \* ANSWER_SUBMITTED events
    Completion,   \* the SESSION_COMPLETED event
    Calls,        \* requests the server works on
    MaxBatch,     \* events in a batch
    Answer,       \* Answer[a]: what the answer says
    Episode,      \* Episode[x]: validated episodes of the student for the misconception
    Statistics,   \* of the student's interventions for it: [intervention, attempts, effect]
    Failed,       \* interventions with an episode for it whose outcome was wrong
    Proposals, Explanations, Summaries, \* what the model may say
    Provider      \* see ProviderRecord

\* *_PRESENTED events: the answer whose teaching was shown, and the teaching.
Presentations == Answers \X Interventions
Events == Answers \cup Presentations \cup {Completion}

\* at: the device's clock.
AnswerRecord ==
    [correct: BOOLEAN, item: Nat, misconception: BOOLEAN, hint: 0..3, at: Nat,
     mastery: 0..100, confidence: 0..100, ending: BOOLEAN]

ASSUME DecisionsConstants ==
    /\ Answer \in [Answers -> AnswerRecord]
    /\ MaxBatch \in Nat \ {0}
    /\ \A x \in DOMAIN Episode : Episode[x].intervention \in Interventions
    /\ Statistics \subseteq [intervention: Interventions, attempts: Nat, effect: 0..100]
    /\ Failed \subseteq Interventions
    /\ Provider \in ProviderRecord

\* An id is of one event.
ASSUME EventsDistinct ==
    /\ Answers \cap Presentations = {}
    /\ Completion \notin Answers \cup Presentations

VARIABLES
    log,      \* learning_events of the session
    state,    \* study_sessions.session_state
    decided,  \* agent_events, with what the policy knew
    trace,    \* hybrid_decision_trace.verified_action
    student,  \* active; deletion requested; rows deleted
    lessons,  \* interventions with an approved, published lesson for the skill
    calls,    \* the requests
    told,     \* per answer, the server event the page received
    summary   \* the personalized summary the page received

vars == <<log, state, decided, trace, student, lessons, calls, told, summary>>

NoDecision == [action |-> None]
NoEvent == [action |-> None]

\* fresh: decided in its batch and not yet shown to the model; material: what
\* phase A keeps for B and C (ShadowMaterial); proposed: verified other actions.
Idle == [phase |-> "idle", fresh |-> {}, material |-> [a \in Answers |-> NoDecision],
         proposed |-> [a \in Answers |-> None],
         reply |-> [a \in Answers |-> NoEvent], facts |-> {}]

Stored == {log[i] : i \in DOMAIN log}
AnswersIn(L) == {a \in Answers : \E i \in DOMAIN L : L[i] = a}

\* served_action: the verified one if there is a trace.
Served(a) == IF trace[a] # None THEN trace[a] ELSE decided[a].action

Init ==
    /\ log = <<>>
    /\ state = "absent"
    /\ decided = [a \in Answers |-> NoDecision]
    /\ trace = [a \in Answers |-> None]
    /\ student = "active"
    /\ lessons = Interventions
    /\ calls = [c \in Calls |-> Idle]
    /\ told = [a \in Answers |-> NoEvent]
    /\ summary = None

--------------------------------------------------------------------------------
(* Phase A: _decide_and_record_agent_event                                 *)

\* ORDER BY occurred_at DESC
Recent(L) == SetToSortSeq(AnswersIn(L), LAMBDA a, b : Answer[a].at > Answer[b].at)

Leading(seq, correct) ==
    CHOOSE n \in 0..Len(seq) :
        /\ \A i \in 1..n : Answer[seq[i]].correct = correct
        /\ n < Len(seq) => Answer[seq[n + 1]].correct # correct

\* recalled: what memory returns, some of the episodes or nothing.
Input(a, L, recalled) ==
    LET recent == Recent(L)
        same == {b \in AnswersIn(L) : Answer[a].misconception /\ Answer[b].misconception}
        first == {recent[i] : i \in 1..Min({3, Len(recent)})}
    IN  [ending |-> Answer[a].ending, prerequisite |-> FALSE,
         recalled |-> IF Answer[a].misconception THEN {Episode[x].intervention : x \in recalled}
                      ELSE {},
         misconception |-> Answer[a].misconception,
         observations |-> Cardinality(same),
         items |-> Cardinality({Answer[b].item : b \in same}),
         errors |-> Leading(recent, FALSE), streak |-> Leading(recent, TRUE),
         mastery |-> Answer[a].mastery, confidence |-> Answer[a].confidence,
         clean |-> Cardinality({b \in first : Answer[b].correct /\ Answer[b].hint <= 1}),
         recent |-> Cardinality(first), difficulty |-> 2]

\* Mutant: the other lesson is shown instead of a missing one.
ChosenOther(c, missing) ==
    LET other == CHOOSE x \in Interventions : x # c.fallback IN
        IF missing THEN [action |-> other, after |-> NextState(other)]
        ELSE [action |-> c.fallback, after |-> c.next[c.fallback]]

Chosen(c, missing) ==
    IF missing THEN [action |-> "RETRY_SAME_SKILL", after |-> "QUESTION_ACTIVE"]
    ELSE [action |-> c.fallback, after |-> c.next[c.fallback]]

\* _lesson_matches_verified_payload, for an action that shows a lesson.
IsOffered(action) == action \in Interventions => action \in lessons

\* _verified_payloads: what phase C may serve.
Payloads(c) == {x \in c.allowed : IsOffered(x)}

\* _decision_token: what phase C compares, None when the action is not one of the
\* policy's.
Token(c, action, L, earlier) ==
    IF action \notin DOMAIN c.next THEN None
    ELSE [after |-> c.next[action], learning |-> Len(L), agent |-> earlier + 1]

\* The policy's action; without its lesson the learner goes on with a question.
Decision(a, L, recalled, earlier) ==
    LET input == Input(a, L, recalled)
        c == DeriveConstraints(input)
        missing == ~IsOffered(c.fallback)
        chosen == Chosen(c, missing)
    IN  [action |-> chosen.action, after |-> chosen.after, missing |-> missing,
         constraints |-> c, input |-> input,
         episodes |-> IF Answer[a].misconception THEN recalled ELSE {},
         payloads |-> Payloads(c), token |-> Token(c, chosen.action, L, earlier)]

\* What a completed session was (_build_session_summary_context), and that it was.
SummaryFacts(L) ==
    LET n == Cardinality(AnswersIn(L))
        shown == {L[i] : i \in DOMAIN L} \cap Presentations
    IN  (IF n = 0 THEN {} ELSE
           {[ref |-> "attempts", words |-> {"questions", "attempted"}, numbers |-> {n}]})
        \cup (IF shown = {} THEN {} ELSE
           {[ref |-> "interventions", words |-> {"presentation", "confirmed"}, numbers |-> {}]})

SyncFact == [ref |-> "sync", words |-> {"completion", "accepted"}, numbers |-> {}]
SummaryContext(facts) == IF facts = {} THEN {} ELSE facts \cup {SyncFact}

\* A batch works on s: the session's rows and what its call will need.
ApplyAnswer(s, a) ==
    LET L == Append(s.log, a)
        decision == Decision(a, L, s.recalled, Cardinality({b \in Answers : s.decided[b] # NoDecision}))
    IN  IF s.state = "SESSION_COMPLETED" THEN [s EXCEPT !.log = L]
        ELSE [s EXCEPT !.log = L, !.state = decision.after, !.decided[a] = decision,
                       !.fresh = @ \cup {a}]

\* The session ends once; its summary is of what was stored before.
ApplyCompletion(s) ==
    LET L == Append(s.log, Completion)
    IN  IF s.state = "SESSION_COMPLETED" THEN [s EXCEPT !.log = L]
        ELSE [s EXCEPT !.log = L, !.state = "SESSION_COMPLETED", !.facts = SummaryFacts(L)]

\* _start_presented_intervention refuses what was not served, or has no lesson
\* now; the refusal is the event's alone.
ApplyPresentation(s, e) ==
    LET a == e[1]
        action == IF trace[a] # None THEN trace[a] ELSE s.decided[a].action
    IN  IF action = e[2] /\ e[2] \in lessons THEN [s EXCEPT !.log = Append(@, e)] ELSE s

ApplyEvent(s, e) ==
    IF \E i \in DOMAIN s.log : s.log[i] = e THEN s
    ELSE IF e \in Answers THEN ApplyAnswer(s, e)
    ELSE IF e = Completion THEN ApplyCompletion(s)
    ELSE IF s.state = "absent" THEN s
    ELSE ApplyPresentation(s, e)

Batches == SeqOf(Events, MaxBatch) \ {<<>>}

Start(recalled) ==
    [log |-> log, state |-> state, decided |-> decided, fresh |-> {}, facts |-> {},
     recalled |-> recalled]

ProcessBatch(c, batch) ==
    /\ calls[c].phase = "idle"
    /\ student = "active"
    /\ \A a \in Answers : (\E i \in DOMAIN batch : batch[i] = a) => told[a] = NoEvent
    /\ \E recalled \in SUBSET DOMAIN Episode :
       LET s == FoldLeft(ApplyEvent, Start(recalled), batch)
       IN  /\ s.log # log
           /\ log' = s.log /\ state' = s.state /\ decided' = s.decided
           /\ calls' = [calls EXCEPT ![c] =
                 [Idle EXCEPT !.phase = "working", !.fresh = s.fresh, !.facts = s.facts,
                    !.material = [a \in Answers |-> IF a \in s.fresh THEN s.decided[a]
                                                    ELSE NoDecision],
                    !.reply = [a \in Answers |->
                        IF a \notin s.fresh THEN NoEvent
                        ELSE [action |-> s.decided[a].action, after |-> s.decided[a].after,
                              ranked |-> FALSE, explanation |-> None]]]]
    /\ UNCHANGED <<trace, student, lessons, told, summary>>

--------------------------------------------------------------------------------
(* Phase B: _run_shadow_observations, no lock and no transaction           *)

Context(a, m) ==
    [state |-> "ANSWER_EVALUATED", skill |-> "skill",
     misconception |-> IF Answer[a].misconception THEN "confusion" ELSE None,
     supported |-> IF Answer[a].misconception THEN SupportedBy(Statistics, Failed) ELSE {}]

Evidence(m) == [x \in m.episodes |-> Episode[x]]

LessonEvidence(m) ==
    [x \in m.payloads \cap Interventions |->
        [approved |-> TRUE, lineage |-> TRUE, type |-> x, skill |-> "skill", misconceptions |-> {}]]

\* Facts of the lesson shown, the only source of numbers; without one there are none.
ExplanationFacts(m) ==
    LET Fact(ref, numbers) == [ref |-> ref, words |-> {}, numbers |-> numbers] IN
    IF m.action \notin Interventions THEN {}
    ELSE
        {Fact("purpose", {}), Fact("mastery", {m.input.mastery})}
        \cup {Fact("episode", {}) : x \in {y \in m.episodes :
                 Episode[y].correct /\ Episode[y].transfer /\ Episode[y].strong}}
        \cup {Fact("misconception", {n}) : n \in {m.input.observations} \ {0}}
        \cup {Fact("errors", {n}) : n \in {m.input.errors} \ {0}}

\* The model answers something, or nothing of use: late, unparsable, refused.
Observe(c, a) ==
    /\ calls[c].phase = "working" /\ a \in calls[c].fresh
    /\ \E p \in Proposals \cup {None}, x \in Explanations \cup {None} :
         LET m == calls[c].material[a]
         IN  calls' = [calls EXCEPT ![c].fresh = @ \ {a},
                  ![c].proposed[a] = Proposed(m.constraints, m.action, Provider, Context(a, m),
                                              Evidence(m), LessonEvidence(m), p),
                  ![c].reply[a].explanation = Explained(ExplanationFacts(m), Provider, x)]
    /\ UNCHANGED <<log, state, decided, trace, student, lessons, told, summary>>

--------------------------------------------------------------------------------
(* Phase C: _apply_ranked_actions                                          *)

\* Mutant: events that are not answers do not count.
IsCurrentDecision(a, m) ==
    /\ decided[a] # NoDecision /\ decided[a].action = m.action
    /\ state = m.token.after
    /\ Cardinality({b \in Answers : decided[b] # NoDecision}) = m.token.agent

\* _decision_token_is_current: the decision is stored and nothing came after it.
IsCurrent(a, m) ==
    /\ decided[a] # NoDecision /\ decided[a].action = m.action
    /\ state = m.token.after
    /\ Cardinality({b \in Answers : decided[b] # NoDecision}) = m.token.agent
    /\ Len(log) = m.token.learning

\* An action with a payload of phase A, whose lesson is still approved.
MayServe(a, m, action) ==
    /\ m.token # None
    /\ action \in m.payloads
    /\ IsOffered(action)
    /\ IsCurrent(a, m)

\* _insert_decision_trace: ON CONFLICT DO NOTHING.
Traced(a, action) == [trace EXCEPT ![a] = IF @ = None THEN action ELSE @]

RankedEvent(m, action) ==
    [action |-> action, after |-> m.constraints.next[action], ranked |-> TRUE, explanation |-> None]

\* Mutant: the response changes before the transaction decides.
RankEagerly(c, a) ==
    /\ calls[c].phase = "working" /\ calls[c].fresh = {} /\ calls[c].proposed[a] # None
    /\ LET m == calls[c].material[a]
           action == calls[c].proposed[a]
       IN  /\ trace' = IF MayServe(a, m, action) THEN [trace EXCEPT ![a] = action] ELSE trace
           /\ calls' = [calls EXCEPT ![c].proposed[a] = None,
                                     ![c].reply[a] = RankedEvent(m, action)]
    /\ UNCHANGED <<log, state, decided, student, lessons, told, summary>>

\* Trace and response change together, or neither.
Rank(c, a) ==
    /\ calls[c].phase = "working" /\ calls[c].fresh = {} /\ calls[c].proposed[a] # None
    /\ LET m == calls[c].material[a]
           action == calls[c].proposed[a]
       IN  IF MayServe(a, m, action)
           THEN /\ trace' = Traced(a, action)
                /\ calls' = [calls EXCEPT ![c].proposed[a] = None,
                                          ![c].reply[a] = RankedEvent(m, action)]
           ELSE /\ calls' = [calls EXCEPT ![c].proposed[a] = None]
                /\ UNCHANGED trace
    /\ UNCHANGED <<log, state, decided, student, lessons, told, summary>>

IsRanked(c) ==
    /\ calls[c].phase = "working" /\ calls[c].fresh = {}
    /\ \A a \in Answers : calls[c].proposed[a] = None

\* run_shadow_summary for a session with facts, then the response.
Reply(c) ==
    /\ IsRanked(c)
    /\ \E text \in Summaries \cup {None} :
         LET said == Summarized(SummaryContext(calls[c].facts), Provider, text)
         IN  summary' = IF said # None THEN said ELSE summary
    /\ told' = [a \in Answers |-> IF calls[c].reply[a] # NoEvent THEN calls[c].reply[a] ELSE told[a]]
    /\ calls' = [calls EXCEPT ![c] = Idle]
    /\ UNCHANGED <<log, state, decided, trace, student, lessons>>

\* The process dies, or the response does not arrive.
LoseCall(c) ==
    /\ calls[c].phase = "working"
    /\ calls' = [calls EXCEPT ![c] = Idle]
    /\ UNCHANGED <<log, state, decided, trace, student, lessons, told, summary>>

--------------------------------------------------------------------------------
\* The registry withdraws the lesson.
WithdrawLesson(x) ==
    /\ x \in lessons
    /\ lessons' = lessons \ {x}
    /\ UNCHANGED <<log, state, decided, trace, student, calls, told, summary>>

RequestDeletion ==
    /\ student = "active"
    /\ student' = "leaving"
    /\ UNCHANGED <<log, state, decided, trace, lessons, calls, told, summary>>

\* delete_postgres_data: hybrid_decision_trace is not among its tables.
DeletePostgresData ==
    /\ student = "leaving"
    /\ student' = "deleted"
    /\ log' = <<>> /\ state' = "absent" /\ decided' = [a \in Answers |-> NoDecision]
    /\ UNCHANGED <<trace, lessons, calls, told, summary>>

Work(c) ==
    \/ \E a \in Answers : Observe(c, a) \/ Rank(c, a)
    \/ Reply(c)

Next ==
    \/ \E c \in Calls : (\E batch \in Batches : ProcessBatch(c, batch)) \/ Work(c) \/ LoseCall(c)
    \/ \E x \in Interventions : WithdrawLesson(x)
    \/ RequestDeletion \/ DeletePostgresData

Spec == Init /\ [][Next]_vars
--------------------------------------------------------------------------------
DecisionsTypeOK ==
    /\ log \in Seq(Events) /\ IsInjective(log)
    /\ state \in SessionStates \cup {"absent"}
    /\ \A a \in Answers : decided[a] # NoDecision =>
          /\ decided[a].action \in BoundedActions
          /\ CanTransition("ANSWER_EVALUATED", decided[a].after)
    /\ trace \in [Answers -> BoundedActions \cup {None}]
    /\ student \in {"active", "leaving", "deleted"}
    /\ lessons \subseteq Interventions

\* The learner is told the action that the server takes for served when the page
\* reports what it showed, whatever the model says, overtakes or crashes.
ToldIsServed ==
    student # "deleted" =>
        \A a \in Answers : told[a] # NoEvent => told[a].action = Served(a)

\* What is served is permitted by the policy for that answer: nothing replaces a
\* mandated action, and a missing lesson means another question.
ServedIsPermitted ==
    \A a \in Answers : decided[a] # NoDecision =>
        LET c == DeriveConstraints(decided[a].input) IN
            \/ Served(a) \in c.allowed /\ (c.hard # None => Served(a) = c.hard)
            \/ decided[a].missing /\ Served(a) = "RETRY_SAME_SKILL"

\* Wording explains the action that is shown: never next to another action, never
\* with numbers or a past that this learner does not have.
ExplanationIsTrue ==
    \A a \in Answers : told[a] # NoEvent /\ told[a].explanation # None /\ decided[a] # NoDecision =>
        LET text == told[a].explanation
            input == decided[a].input
        IN  /\ told[a].action = decided[a].action /\ told[a].action \in Interventions
            /\ NumbersOf(text.clauses) \subseteq {input.errors, input.observations, input.mastery}
            /\ text.history => \E x \in decided[a].episodes : Episode[x].transfer /\ Episode[x].correct

\* A summary counts the answers the session had when it ended, and speaks of a
\* lesson only if one was shown in it.
SummaryIsTrue ==
    summary # None /\ Completion \in Stored =>
        LET before == SubSeq(log, 1, CHOOSE i \in DOMAIN log : log[i] = Completion)
            said == UNION {clause.words : clause \in summary.clauses}
        IN  /\ "questions" \in said =>
                   NumbersOf(summary.clauses) \subseteq {Cardinality(AnswersIn(before))}
            /\ "confirmed" \in said => \E i \in DOMAIN before : before[i] \in Presentations

\* No wording tells a learner what is not so.
WordingIsTrue == ExplanationIsTrue /\ SummaryIsTrue

\* A lesson counts as shown only if it is the one that was served.
PresentedWasServed ==
    \A e \in Stored \cap Presentations : e[2] = Served(e[1])

\* docs/THREAT_MODEL.md 10: deletion removes learner data from PostgreSQL.
DeletionRemovesTraces == student = "deleted" => \A a \in Answers : trace[a] = None
==============================================================================
