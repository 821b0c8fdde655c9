------------------------------- MODULE Grounding -------------------------------
(***************************************************************************)
(* What may leave the language model: the gate and the verifiers of        *)
(* app/agent/hybrid.py.  A text is what it says: the facts it cites, the   *)
(* numbers and words of its clauses (which have no commas), and whether    *)
(* its style is clean (no prohibited phrase or character, no copied span,  *)
(* two sentences at most).                                                 *)
(***************************************************************************)
EXTENDS Policy

EpisodeClaims == {"SAME_MISCONCEPTION", "SUCCESSFUL_TRANSFER", "SUPPORTED_INTERVENTION_EFFECT"}

\* HybridTask; each has a flag under the master flag.
Tasks == {"ranking", "explanation", "summary"}

\* A key, and the tasks whose flags are on.
ProviderRecord == [configured: BOOLEAN, enabled: SUBSET Tasks]

\* explanation_gate, and summary_gate.
Available(provider, task) == provider.configured /\ task \in provider.enabled

\* semantic_reasoning_needed: more evidence only adds reasons.
NeedsReasoning(c) == Cardinality(c.allowed) >= 2

\* choose_mode: a mandated action is not discussed, and neither is a single one.
AsksModel(c, provider) ==
    /\ c.hard = None
    /\ Available(provider, "ranking")
    /\ NeedsReasoning(c)

\* _shadow_intervention_evidence: the interventions that worked in at least three
\* outcomes and clearly better than every other, with no failure to contradict it.
SupportedBy(statistics, failed) ==
    {s.intervention : s \in {t \in statistics :
        /\ t.attempts >= 3 /\ t.effect >= 60
        /\ \A o \in statistics : o.intervention # t.intervention => t.effect >= o.effect + 15
        /\ t.intervention \notin failed}}

--------------------------------------------------------------------------------
(* verify_proposal                                                         *)

ActionFits(c, context, p) ==
    /\ c.hard # None => p.action = c.hard
    /\ p.action \in c.allowed
    /\ p.action \in DOMAIN c.next
    /\ CanTransition(context.state, c.next[p.action])

EpisodeFits(context, episodes, p) ==
    p.episode # None =>
        /\ p.episode \in DOMAIN episodes
        /\ LET ep == episodes[p.episode] IN
              /\ ep.mine /\ ep.validated /\ ep.skill = context.skill
              /\ context.misconception # None => ep.misconception = context.misconception

LessonFits(context, lessons, p) ==
    p.lesson # None =>
        /\ p.lesson \in DOMAIN lessons
        /\ LET lesson == lessons[p.lesson] IN
              /\ lesson.approved /\ lesson.lineage
              /\ p.action \in Interventions => lesson.type = p.action
              /\ lesson.skill = context.skill
              /\ context.misconception # None /\ lesson.misconceptions # {}
                    => context.misconception \in lesson.misconceptions

\* _episode_ok_for_claim; supported: the interventions whose statistics for this
\* skill, misconception and difficulty have support.
SupportsClaim(code, ep, context) ==
    /\ ep.mine /\ ep.skill = context.skill /\ ep.misconception = context.misconception
    /\ code = "SUCCESSFUL_TRANSFER" => ep.correct /\ ep.transfer /\ ep.strong
    /\ code = "SUPPORTED_INTERVENTION_EFFECT" => ep.intervention \in context.supported

\* A false claim about the selected episode rejects the proposal; about another
\* one it costs the wording only.
SelectionIsTrue(context, episodes, p) ==
    \A claim \in p.claims :
        claim.code \in EpisodeClaims /\ p.episode # None /\ p.episode \in claim.refs
            => SupportsClaim(claim.code, episodes[p.episode], context)

IsVerified(c, context, episodes, lessons, p) ==
    /\ ActionFits(c, context, p)
    /\ EpisodeFits(context, episodes, p)
    /\ LessonFits(context, lessons, p)
    /\ SelectionIsTrue(context, episodes, p)

\* run_shadow_decision: a verified action other than the policy's, or None.  The
\* model's answer p is None when it is late, unparsable or refused.
Proposed(c, action, provider, context, episodes, lessons, p) ==
    IF /\ AsksModel(c, provider)
       /\ p # None /\ p.action # action
       /\ IsVerified(c, context, episodes, lessons, p)
    THEN p.action ELSE None

--------------------------------------------------------------------------------
(* verify_explanation, verify_summary: facts is a set of [ref, words,       *)
(* numbers]; a text cites refs and is a set of clauses [words, numbers].    *)

Cited(facts, text) == {f \in facts : f.ref \in text.refs}
RefsOf(facts) == {f.ref : f \in facts}
NumbersOf(S) == UNION {x.numbers : x \in S}

CitesFacts(facts, text) == text.refs # {} /\ text.refs \subseteq RefsOf(facts)

\* Mutant: numbers are free.
IsCitedExplanation(facts, text) == text.clean /\ CitesFacts(facts, text)

\* A claim that something worked before needs an episode among the cited facts;
\* other words are free.
IsGroundedExplanation(facts, text) ==
    /\ text.clean
    /\ CitesFacts(facts, text)
    /\ NumbersOf(text.clauses) \subseteq NumbersOf(Cited(facts, text))
    /\ text.history => "episode" \in text.refs

\* Each number belongs to a cited fact that says what is said of it, and every
\* clause is part of one cited fact.
IsGroundedSummary(facts, text) ==
    /\ text.clean
    /\ CitesFacts(facts, text)
    /\ \A clause \in text.clauses :
          /\ \E f \in Cited(facts, text) : clause.words \subseteq f.words
          /\ \A n \in clause.numbers :
                /\ clause.words # {}
                /\ \E f \in Cited(facts, text) : n \in f.numbers /\ clause.words \subseteq f.words

\* run_shadow_explanation; facts is empty when no lesson is shown.
Explained(facts, provider, text) ==
    IF /\ facts # {} /\ Available(provider, "explanation")
       /\ text # None /\ IsGroundedExplanation(facts, text)
    THEN text ELSE None

\* run_shadow_summary; facts is empty when no session ended.
Summarized(facts, provider, text) ==
    IF /\ facts # {} /\ Available(provider, "summary")
       /\ text # None /\ IsGroundedSummary(facts, text)
    THEN text ELSE None
================================================================================
