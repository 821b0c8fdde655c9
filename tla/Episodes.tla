------------------------------- MODULE Episodes -------------------------------
(***************************************************************************)
(* What the server remembers of its teaching: an intervention shown to a   *)
(* learner becomes an episode when a later answer on another item shows    *)
(* its outcome, and validated episodes make facts.  The other half of      *)
(* SyncService._apply_event: _start_presented_intervention and the effects *)
(* of a valid answer, with app/memory/episode_builder.py and               *)
(* app/memory/pg_memory.py.                                                *)
(*                                                                         *)
(* Which action the policy chooses is any of Actions here.  An event's     *)
(* effects are one transaction with its projections, so its action is      *)
(* Store of Projection and what follows.                                   *)
(***************************************************************************)
EXTENDS Projection

CONSTANT Interventions  \* bound: the kinds of teaching there is content for

ASSUME TeachingConstants ==
    /\ Interventions \subseteq {"SHOW_WORKED_EXAMPLE", "SHOW_MICRO_LESSON"}
    /\ None \notin {"SHOW_WORKED_EXAMPLE", "SHOW_MICRO_LESSON", "RETRY_SAME_SKILL"}

VARIABLES
    agent,     \* per answer, the action served for it (agent_events, or the
               \* verified one of hybrid_decision_trace); None: no decision
    episodes,  \* learning_episodes
    facts,     \* student_memory_facts, by student and normalized_key
    stats,     \* intervention_stats: outcomes and the sum of their scores
    queued     \* (aggregate, version) with a row in memory_outbox

episodeVars == <<agent, episodes, facts, stats, queued>>
learnerVars == <<log, projection, script, torn, agent, episodes, facts, stats, queued>>

Actions == Interventions \cup {"RETRY_SAME_SKILL"}

InterventionOf(e) ==
    IF Event[e].kind = "WORKED_EXAMPLE_PRESENTED" THEN "SHOW_WORKED_EXAMPLE"
    ELSE "SHOW_MICRO_LESSON"

\* The misconception an answer gave evidence of, or none.
IsConfused(e) == ~Event[e].correct /\ Event[e].mapped

\* fact_key: skill, misconception, intervention.
Keys == Skills \X BOOLEAN \X Interventions
KeyOf(ep) == <<ep.skill, ep.misconception, ep.intervention>>

\* Scores in tenths.
Episode == [source: Events, intervention: Interventions, student: Students,
            session: Sessions, skill: Skills, misconception: BOOLEAN,
            trigger: Items, presented: Events, outcome: Events \cup {None},
            effectiveness: 0..10,
            status: {"candidate", "validated", "insufficient_outcome"}]

FactStatuses == <<"observation", "inference", "stable">>
NoFact == [version |-> 0, status |-> "observation", supporting |-> {}]

EpisodesTypeOK ==
    /\ agent \in [Events -> Actions \cup {None}]
    /\ episodes \subseteq Episode
    /\ \A ep \in episodes : ep.outcome = None <=> ep.status = "candidate"
    /\ \A t \in Students \X Keys :
          /\ facts[t].version \in Nat /\ facts[t].supporting \subseteq episodes
          /\ facts[t].status \in {FactStatuses[i] : i \in 1..3}
    /\ stats \in [Students \X Keys -> [attempts: Nat, score: Nat]]

EpisodesInit ==
    /\ ProjectionInit
    /\ agent = [e \in Events |-> None]
    /\ episodes = {}
    /\ facts = [t \in Students \X Keys |-> NoFact]
    /\ stats = [t \in Students \X Keys |-> [attempts |-> 0, score |-> 0]]
    /\ queued = {}

--------------------------------------------------------------------------------
\* Position of an event in the log.
Arrival(e) == CHOOSE i \in DOMAIN log : log[i] = e

\* Mutant: any decision of the session will do.
HasAnyDecision(e) ==
    LET source == Event[e].source IN
        /\ agent[source] # None
        /\ Event[source].student = Event[e].student
        /\ Event[e].approved

\* A decision for the source answer in this student's session, whose served
\* action is the one presented, with approved content.
HasServedDecision(e) ==
    LET source == Event[e].source IN
        /\ agent[source] = InterventionOf(e)
        /\ Event[source].student = Event[e].student
        /\ Event[source].session = Event[e].session
        /\ Event[e].approved

\* get_episode: its id is derived from the source and the content.
IsPresented(e) ==
    \E ep \in episodes : ep.source = Event[e].source /\ ep.intervention = InterventionOf(e)

Candidate(e) ==
    [source |-> Event[e].source, intervention |-> InterventionOf(e),
     student |-> Event[e].student, session |-> Event[e].session,
     skill |-> Skill[Event[Event[e].source].item],
     misconception |-> IsConfused(Event[e].source),
     trigger |-> Event[Event[e].source].item, presented |-> e, outcome |-> None,
     effectiveness |-> 0, status |-> "candidate"]

\* _insert_episode
Inserted(ep) == episodes \cup {ep}

\* outcome_component_score
Score(e) == IF Event[e].correct THEN <<10, 8, 5, 2>>[Event[e].hint + 1] ELSE 0

\* Candidates of the session and skill whose trigger is another item.
Waiting(e) ==
    {ep \in episodes : /\ ep.student = Event[e].student /\ ep.session = Event[e].session
                       /\ ep.skill = Skill[Event[e].item] /\ ep.status = "candidate"
                       /\ ep.trigger # Event[e].item}

IsLatest(ep, E) == \A other \in E : Arrival(other.presented) <= Arrival(ep.presented)

\* complete_runtime_candidate, then validate with EPISODE_MIN_CONFIDENCE.
Completed(ep, e) ==
    [ep EXCEPT !.outcome = e, !.effectiveness = Score(e),
               !.status = IF Score(e) >= 5 THEN "validated" ELSE "insufficient_outcome"]

\* list_episodes_for_fact: validated episodes with an effectiveness of 0.6.
Supporting(E, s, key) ==
    {ep \in E : /\ ep.student = s /\ KeyOf(ep) = key
                /\ ep.status = "validated" /\ ep.effectiveness >= 6}

FactStatus(E) ==
    IF Cardinality(E) >= 3 /\ Cardinality({ep.session : ep \in E}) >= 2 THEN "stable"
    ELSE IF Cardinality({Event[ep.outcome].item : ep \in E}) >= 2 THEN "inference"
    ELSE "observation"

\* Mutant: the version stays.
UpdatedInPlace(fact, E) ==
    [version |-> IF fact.version = 0 THEN 1 ELSE fact.version,
     status |-> FactStatus(E), supporting |-> E]

\* _upsert_fact_for_episode
Updated(fact, E) ==
    [version |-> fact.version + 1, status |-> FactStatus(E), supporting |-> E]

\* Outbox rows of a validated episode and of the fact it changes.
OutboxRows(ep, t, version) == {<<<<ep.source, ep.intervention>>, 1>>, <<t, version>>}

\* record_intervention_outcome
WithOutcome(t, score) ==
    [stats EXCEPT ![t] = [attempts |-> @.attempts + 1, score |-> @.score + score]]

\* Statistics of every outcome; a fact and outbox rows for a validated one.
CompletesEpisode(ep, e) ==
    LET done == Completed(ep, e)
        t == <<ep.student, KeyOf(ep)>>
        fact == Updated(facts[t], Supporting(episodes', ep.student, KeyOf(ep)))
    IN  /\ episodes' = (episodes \ {ep}) \cup {done}
        /\ stats' = WithOutcome(t, done.effectiveness)
        /\ IF done.status = "validated"
           THEN /\ facts' = [facts EXCEPT ![t] = fact]
                /\ queued' = queued \cup OutboxRows(ep, t, fact.version)
           ELSE UNCHANGED <<facts, queued>>

IsScored(e) == PriorSameAttempt(projection, e) = {} /\ ~IsLate(projection, e)

\* ANSWER_SUBMITTED: an outcome for the latest candidate, and a decision, unless
\* the answer is late or a duplicate.
SubmitAnswer(e) ==
    /\ Event[e].kind = "ANSWER_SUBMITTED"
    /\ Store(e)
    /\ IF ~IsScored(e) THEN UNCHANGED episodeVars
       ELSE /\ IF Waiting(e) = {} THEN UNCHANGED <<episodes, facts, stats, queued>>
               ELSE \E ep \in Waiting(e) : IsLatest(ep, Waiting(e)) /\ CompletesEpisode(ep, e)
            /\ \E action \in Actions : agent' = [agent EXCEPT ![e] = action]

\* WORKED_EXAMPLE_PRESENTED, MICRO_LESSON_PRESENTED: refused without a matching
\* decision; an episode that exists is kept.
Present(e) ==
    /\ Event[e].kind \in Presentations
    /\ HasServedDecision(e)
    /\ Store(e)
    /\ episodes' = IF IsPresented(e) THEN episodes ELSE Inserted(Candidate(e))
    /\ UNCHANGED <<agent, facts, stats, queued>>

Observe(e) ==
    /\ Event[e].kind \in {"SESSION_COMPLETED", "DIAGNOSTIC_STARTED"}
    /\ Store(e)
    /\ UNCHANGED episodeVars

\* The script replays projections only.
Rebuild == ScriptNext /\ UNCHANGED episodeVars

LearnerNext ==
    \/ \E e \in Events : SubmitAnswer(e) \/ Present(e) \/ Observe(e)
    \/ Rebuild

LearnerSpec == EpisodesInit /\ [][LearnerNext]_learnerVars

--------------------------------------------------------------------------------
\* An episode is validated by an answer that came after the presentation of what
\* was served, in the same session and skill, on an item other than the one that
\* led to it; no answer is the outcome of two episodes, and a presentation makes
\* one episode however often it is told.
EpisodesAreEarned ==
    /\ \A ep \in episodes : ep.outcome # None =>
          /\ Arrival(ep.source) < Arrival(ep.presented)
          /\ Arrival(ep.presented) < Arrival(ep.outcome)
          /\ agent[ep.source] = ep.intervention
          /\ Event[ep.outcome].session = Event[ep.source].session
          /\ Event[ep.outcome].item # Event[ep.source].item
          /\ Skill[Event[ep.outcome].item] = Skill[Event[ep.source].item]
    /\ \A ep, other \in episodes : ep # other =>
          /\ ep.outcome # None => ep.outcome # other.outcome
          /\ <<ep.source, ep.intervention>> # <<other.source, other.intervention>>

EpisodesOf(s, key) == {ep \in episodes : ep.student = s /\ KeyOf(ep) = key}

EffectOf(E) == MapThenSumSet(LAMBDA ep : ep.effectiveness, E)

\* Of one key: the statistics count each outcome once; the fact rests on all the
\* successful episodes and of no other student, although it is written only when
\* one is validated; every version of it has its outbox row.
KeyFollowsEpisodes(s, key) ==
    LET done == {ep \in EpisodesOf(s, key) : ep.status # "candidate"}
        validated == {ep \in done : ep.status = "validated"}
        fact == facts[<<s, key>>]
    IN  /\ stats[<<s, key>>].attempts = Cardinality(done)
        /\ stats[<<s, key>>].score = EffectOf(done)
        /\ fact.supporting = Supporting(episodes, s, key)
        /\ fact.version = Cardinality(validated)
        /\ \A v \in 1..fact.version : <<<<s, key>>, v>> \in queued

\* What four components write about an episode agrees, and every validated
\* episode is queued: what MemoryOutbox delivers is all there is.
MemoryFollowsEpisodes ==
    /\ \A s \in Students, key \in Keys : KeyFollowsEpisodes(s, key)
    /\ \A ep \in episodes : ep.status = "validated"
          => <<<<ep.source, ep.intervention>>, 1>> \in queued

\* docs/MEMORY_CONSISTENCY.md 7.1: an observation is directly supported by events.
FactsHaveSupport ==
    \A t \in Students \X Keys : facts[t].version > 0 => facts[t].supporting # {}

\* docs/MEMORY_CONSISTENCY.md 7: a fact leaves observation with two supporting
\* episodes on distinct items.
PromotedOnDistinctItems ==
    \A t \in Students \X Keys : facts[t].status # "observation" =>
        Cardinality({Event[ep.outcome].item : ep \in facts[t].supporting}) >= 2
================================================================================
