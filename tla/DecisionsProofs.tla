---------------------------- MODULE DecisionsProofs ----------------------------
(***************************************************************************)
(* Proofs about what a learner is told, for any answers, batches, calls,   *)
(* episodes and words of the model: what is told is what is served, the    *)
(* policy permits it, what is recorded as shown was served, and no wording *)
(* says what is not so.                                                    *)
(***************************************************************************)
EXTENDS Decisions, FiniteSetTheorems, TLAPS

--------------------------------------------------------------------------------
(* Counting up, and folds.                                                 *)

\* What holds of 0 and is kept by the next number holds of all.
LEMMA NaturalsOf ==
  ASSUME NEW S, 0 \in S, \A n \in Nat : n \in S => n + 1 \in S
  PROVE  Nat \subseteq S
<1>. DEFINE T == Nat \ S
            R == {ss \in Nat \X Nat : ss[1] < ss[2]}
<1>. SUFFICES ASSUME T # {} PROVE FALSE
  OBVIOUS
<1>1. IsWellFoundedOn(R, Nat)
  BY NatLessThanWellFounded DEF OpToRel
<1>2. PICK x \in T : \A y \in T : ~(<<y, x>> \in R)
  <2>. HIDE DEF R
  <2>. QED BY <1>1, WFMin, Zenon
<1>3. x # 0 /\ x - 1 \in Nat /\ x - 1 < x
  BY SMT
<1>4. <<x - 1, x>> \in R
  BY <1>3, SMT
<1>5. x - 1 \in S
  BY <1>2, <1>3, <1>4
<1>. QED  BY <1>3, <1>5, SMT

LEMMA GreatestOf ==
  ASSUME NEW k \in Nat, NEW s \in SUBSET (1..k), k \in s
  PROVE  Max(s) = k
<1>1. \A y \in s : k >= y
  OBVIOUS
<1>2. PICK m : m = Max(s) /\ m \in s /\ \A y \in s : m >= y
  BY <1>1 DEF Max
<1>3. m \in 1..k /\ m >= k /\ k >= m
  BY <1>1, <1>2
<1>. QED  BY <1>2, <1>3

Processed(batch, recalled) == FoldLeft(ApplyEvent, Start(recalled), batch)

\* A batch is a chain of applications.
LEMMA BatchIsChain ==
  ASSUME NEW batch, NEW recalled, NEW n \in Nat, DOMAIN batch = 1..n
  PROVE  \E h : /\ h[0] = Start(recalled)
                /\ h[n] = Processed(batch, recalled)
                /\ \A i \in 1..n : h[i] = ApplyEvent(h[i-1], batch[i])
<1>. DEFINE start == Start(recalled)
            Step(g, s) == IF s = {} THEN start ELSE ApplyEvent(g[s \ {Max(s)}], batch[Max(s)])
            IsFold(g, k) == g = [s \in SUBSET (1..k) |-> Step(g, s)]
            S == {k \in Nat : \E g : IsFold(g, k)}
<1>1. 0 \in S
  <2>. DEFINE g == [s \in SUBSET (1..0) |-> start]
  <2>1. \A s \in SUBSET (1..0) : s = {}
    OBVIOUS
  <2>2. IsFold(g, 0)
    BY <2>1
  <2>. QED  BY <2>2
<1>2. ASSUME NEW k \in Nat, k \in S PROVE k + 1 \in S
  <2>1. PICK g : IsFold(g, k)
    BY <1>2
  <2>. DEFINE f == [s \in SUBSET (1..k+1) |->
                       IF k + 1 \in s THEN ApplyEvent(g[s \ {k+1}], batch[k+1]) ELSE g[s]]
  <2>2. ASSUME NEW s \in SUBSET (1..k+1) PROVE f[s] = Step(f, s)
    <3>1. CASE k + 1 \in s
      <4>1. s \ {k+1} \in SUBSET (1..k) /\ s \ {k+1} \in SUBSET (1..k+1) /\ k + 1 \notin s \ {k+1}
        BY <2>2
      <4>2. Max(s) = k + 1
        BY <2>2, <3>1, GreatestOf
      <4>3. f[s \ {k+1}] = g[s \ {k+1}]
        BY <4>1
      <4>. QED  BY <3>1, <4>2, <4>3
    <3>2. CASE k + 1 \notin s
      <4>1. s \in SUBSET (1..k)
        BY <2>2, <3>2
      <4>2. g[s] = Step(g, s)
        BY <2>1, <4>1
      <4>3. /\ s \ {Max(s)} \in SUBSET (1..k+1) /\ k + 1 \notin s \ {Max(s)}
            /\ f[s \ {Max(s)}] = g[s \ {Max(s)}]
        BY <3>2, <4>1
      <4>. QED  BY <3>2, <4>2, <4>3
    <3>. QED  BY <3>1, <3>2
  <2>3. IsFold(f, k + 1)
    <3>. HIDE DEF Step
    <3>. QED  BY <2>2
  <2>4. \E m : IsFold(m, k + 1)
    <3>. HIDE DEF IsFold, f
    <3>. QED  BY <2>3
  <2>. QED
    <3>. HIDE DEF IsFold
    <3>. QED  BY <2>4
<1>3. n \in S
  <2>. HIDE DEF S
  <2>. QED  BY <1>1, <1>2, NaturalsOf
<1>. DEFINE iter == CHOOSE g : IsFold(g, n)
<1>4. FoldLeft(ApplyEvent, start, batch) = iter[1..n]
  BY DEF FoldLeft, MapThenFoldSet
<1>5. iter = [s \in SUBSET (1..n) |-> Step(iter, s)]
  BY <1>3
<1>. DEFINE h == [i \in 0..n |-> iter[1..i]]
<1>. HIDE DEF iter
<1>6. h[0] = start /\ h[n] = FoldLeft(ApplyEvent, start, batch)
  <2>1. 1..0 = {} /\ 1..0 \in SUBSET (1..n)
    OBVIOUS
  <2>2. iter[1..0] = start
    BY <1>5, <2>1
  <2>. QED  BY <1>4, <2>2
<1>7. ASSUME NEW i \in 1..n PROVE h[i] = ApplyEvent(h[i-1], batch[i])
  <2>1. /\ 1..i \in SUBSET (1..n) /\ 1..i # {} /\ i \in 1..i
        /\ i - 1 \in Nat /\ i - 1 \in 0..n /\ i \in 0..n
    OBVIOUS
  <2>3. (1..i) \ {i} = 1..(i-1)
    OBVIOUS
  <2>2. Max(1..i) = i
    BY <2>1, GreatestOf
  <2>. QED  BY <1>5, <2>1, <2>2, <2>3
<1>. QED  BY <1>6, <1>7 DEF Processed
--------------------------------------------------------------------------------
(* The policy.                                                             *)

\* What WellFormed says, and that the actions are actions.
Sound(c) ==
    /\ WellFormed(c)
    /\ c.allowed \subseteq BoundedActions
    /\ \A a \in c.allowed : c.next[a] \in SessionStates

LEMMA NextStates ==
  ASSUME NEW a \in BoundedActions
  PROVE  CanTransition("ANSWER_EVALUATED", NextState(a)) /\ NextState(a) \in SessionStates
BY DEF BoundedActions, Interventions, NextState, CanTransition, Transitions, Resting, SessionStates

LEMMA MandateSound ==
  ASSUME NEW action \in BoundedActions, NEW input
  PROVE  Sound(Mandate(action, input))
BY NextStates DEF Sound, WellFormed, Mandate

LEMMA ChoiceSound ==
  ASSUME NEW actions \in SUBSET BoundedActions, NEW fallback \in actions, NEW difficulty
  PROVE  Sound(Choice(actions, fallback, difficulty))
BY NextStates DEF Sound, WellFormed, Choice

LEMMA AdaptingSound ==
  ASSUME NEW actions \in SUBSET BoundedActions, NEW fallback \in actions, NEW difficulty
  PROVE  Sound(Adapting(actions, fallback, difficulty))
<1>1. /\ CanTransition("ANSWER_EVALUATED", "PRACTICE_ADAPTED")
      /\ "PRACTICE_ADAPTED" \in SessionStates
  BY DEF CanTransition, Transitions, SessionStates, Resting
<1>. QED  BY <1>1 DEF Sound, WellFormed, Adapting, Choice

LEMMA WithoutRecallSound ==
  ASSUME NEW input, input.ending \in BOOLEAN
  PROVE  Sound(WithoutRecall(input))
<1>1. /\ Interventions \cup {"RETRY_SAME_SKILL"} \subseteq BoundedActions
      /\ Interventions \cup {"LOWER_DIFFICULTY"} \subseteq BoundedActions
      /\ {"RETRY_SAME_SKILL", "RAISE_DIFFICULTY"} \subseteq BoundedActions
      /\ {"RETRY_SAME_SKILL"} \subseteq BoundedActions
      /\ {"SHOW_WORKED_EXAMPLE", "SHOW_MICRO_LESSON"} \subseteq Interventions
      /\ "END_WITH_REVIEW" \in BoundedActions /\ "SWITCH_TO_PREREQUISITE" \in BoundedActions
  BY DEF BoundedActions, Interventions
<1>. QED
  BY <1>1, MandateSound, ChoiceSound, AdaptingSound DEF WithoutRecall

LEMMA WithRecallSound ==
  ASSUME NEW base, Sound(base), NEW recalled \in SUBSET Interventions,
         \E hard, allowed, next, fallback, difficulty :
            base = [hard |-> hard, allowed |-> allowed, next |-> next,
                    fallback |-> fallback, difficulty |-> difficulty]
  PROVE  Sound(WithRecall(base, recalled))
<1>1. CASE base.hard # None
  BY <1>1 DEF WithRecall
<1>2. CASE base.hard = None
  <2>1. recalled \subseteq BoundedActions
    BY DEF BoundedActions
  <2>. DEFINE c == WithRecall(base, recalled)
              A == base.allowed \cup recalled
  <2>2. /\ c.allowed = A /\ c.hard = None /\ c.fallback = base.fallback
        /\ c.next = [a \in A |-> IF a \in recalled THEN NextState(a) ELSE base.next[a]]
    BY <1>2 DEF WithRecall
  <2>3. \A a \in A : /\ CanTransition("ANSWER_EVALUATED", c.next[a])
                     /\ c.next[a] \in SessionStates
    BY <2>1, <2>2, NextStates DEF Sound, WellFormed
  <2>. QED  BY <2>1, <2>2, <2>3 DEF Sound, WellFormed
<1>. QED  BY <1>1, <1>2

\* Every answer of the policy: the fallback is allowed, a mandate allows nothing
\* else, and each action leads to a state that a scored answer may be followed by.
THEOREM PolicyIsWellFormed ==
  ASSUME NEW input, input.ending \in BOOLEAN, input.recalled \subseteq Interventions
  PROVE  WellFormed(DeriveConstraints(input)) /\ Sound(DeriveConstraints(input))
<1>1. \A a \in input.recalled : a \in BoundedActions
  BY DEF BoundedActions
<1>2. (CHOOSE a \in input.recalled : TRUE) \in BoundedActions \/ input.recalled = {}
  BY <1>1
<1>. DEFINE base == WithoutRecall(input)
<1>3. \E hard, allowed, next, fallback, difficulty :
            base = [hard |-> hard, allowed |-> allowed, next |-> next,
                    fallback |-> fallback, difficulty |-> difficulty]
  <2>. DEFINE Shaped(c) == \E hard, allowed, next, fallback, difficulty :
                 c = [hard |-> hard, allowed |-> allowed, next |-> next,
                      fallback |-> fallback, difficulty |-> difficulty]
  <2>1. \A a : Shaped(Mandate(a, input))
    BY DEF Mandate
  <2>2. \A A, a, d : Shaped(Choice(A, a, d))
    BY DEF Choice
  <2>3. ASSUME NEW A, NEW a, NEW d PROVE Shaped(Adapting(A, a, d))
    <3>. DEFINE n == [x \in A |-> "PRACTICE_ADAPTED"]
    <3>1. Adapting(A, a, d) = [Choice(A, a, d) EXCEPT !.next = n]
      BY DEF Adapting
    <3>. HIDE DEF n
    <3>2. Adapting(A, a, d) = [hard |-> None, allowed |-> A, next |-> n,
                               fallback |-> a, difficulty |-> d]
      BY <3>1 DEF Choice
    <3>. QED  BY <3>2
  <2>. HIDE DEF Shaped
  <2>4. Shaped(base)
    BY <2>1, <2>2, <2>3 DEF WithoutRecall
  <2>. QED  BY <2>4 DEF Shaped
<1>4. Sound(base)
  BY WithoutRecallSound
<1>5. Sound(WithRecall(base, input.recalled))
  <2>. HIDE DEF base
  <2>. QED  BY <1>3, <1>4, WithRecallSound
<1>. QED  BY <1>2, <1>4, <1>5, MandateSound DEF DeriveConstraints, Sound
--------------------------------------------------------------------------------
(* The invariant.                                                          *)

\* A stored decision: the policy's constraints for its input, an action that they
\* permit or the question for a missing lesson, and payloads among the allowed.
IsRightDecision(d) ==
    /\ d.constraints = DeriveConstraints(d.input)
    /\ Sound(d.constraints)
    /\ d.payloads \subseteq d.constraints.allowed
    /\ d.action \in BoundedActions
    /\ \/ d.action \in d.constraints.allowed
       \/ d.missing /\ d.action = "RETRY_SAME_SKILL"

Holds(L, e) == \E i \in DOMAIN L : L[i] = e

\* For decisions D and traces T.
ServedBy(D, T, a) == IF T[a] # None THEN T[a] ELSE D[a].action

\* The rows of a session, log L, decisions D and traces T: an event once; decisions of stored
\* answers; presentations of what was served, none before its decision was made.
Rows(L, D, T) ==
    /\ L \in Seq(Events) /\ IsInjective(L)
    /\ DOMAIN D = Answers
    /\ \A a \in Answers : D[a] # NoDecision =>
          /\ IsRightDecision(D[a]) /\ Holds(L, a)
          /\ D[a].token # None =>
                /\ D[a].token.learning \in Nat /\ D[a].token.learning <= Len(L)
                /\ \A i \in DOMAIN L :
                      L[i] \in Presentations /\ L[i][1] = a => i > D[a].token.learning
    /\ \A i \in DOMAIN L : L[i] \in Presentations =>
          /\ D[L[i][1]] # NoDecision
          /\ L[i][2] = ServedBy(D, T, L[i][1])

\* The facts of the session that ended in L, and a summary that rests on them.
EndedWith(L, facts) ==
    \E k \in DOMAIN L : L[k] = Completion /\ facts = SummaryFacts(SubSeq(L, 1, k))
IsTrueSummary(L, said) ==
    \E k \in DOMAIN L :
        L[k] = Completion /\ IsGroundedSummary(SummaryFacts(SubSeq(L, 1, k)) \cup {SyncFact}, said)

Traces ==
    /\ DOMAIN trace = Answers
    /\ \A a \in Answers : trace[a] # None =>
          decided[a] # NoDecision /\ trace[a] \in decided[a].payloads

Owns(c, a) == calls[c].reply[a] # NoEvent

\* An event that is told, for decision d and trace t of its answer: what is
\* served, and wording only for the policy's action.
IsTrueEvent(d, t, event) ==
    /\ DOMAIN event = {"action", "after", "ranked", "explanation"}
    /\ event.action = IF t # None THEN t ELSE d.action
    /\ event.explanation # None =>
          t = None /\ IsGroundedExplanation(ExplanationFacts(d), event.explanation)

IsCall(call) ==
    /\ DOMAIN call = {"phase", "fresh", "material", "proposed", "reply", "facts"}
    /\ call.fresh \subseteq Answers
    /\ DOMAIN call.material = Answers
    /\ DOMAIN call.proposed = Answers
    /\ DOMAIN call.reply = Answers

\* A request has the events of the answers it decided, and only it has them; while
\* the model may still change one, nothing is recorded as verified.
Requests ==
    /\ DOMAIN calls = Calls
    /\ \A c \in Calls :
          /\ IsCall(calls[c])
          /\ calls[c].facts # {} => EndedWith(log, calls[c].facts)
          /\ \A a \in Answers :
                /\ Owns(c, a) =>
                      /\ decided[a] # NoDecision
                      /\ IsTrueEvent(decided[a], trace[a], calls[c].reply[a])
                      /\ calls[c].material[a] = decided[a]
                      /\ told[a] = NoEvent
                      /\ \A d \in Calls : Owns(d, a) => d = c
                /\ a \in calls[c].fresh \/ calls[c].proposed[a] # None =>
                      Owns(c, a) /\ trace[a] = None

Answered ==
    /\ DOMAIN told = Answers
    /\ \A a \in Answers : told[a] # NoEvent =>
          decided[a] # NoDecision /\ IsTrueEvent(decided[a], trace[a], told[a])
    /\ summary # None => IsTrueSummary(log, summary)

\* While the student has rows they are right, and so is what rests on them.
DecisionsInv ==
    /\ student = "deleted" => log = <<>> /\ \A a \in Answers : decided[a] = NoDecision
    /\ student # "deleted" => Rows(log, decided, trace) /\ Traces /\ Requests /\ Answered

Extends(L, M) == Len(L) <= Len(M) /\ \A i \in 1..Len(L) : M[i] = L[i]

LEMMA AppendIs ==
  ASSUME NEW S, NEW L \in Seq(S), NEW e \in S
  PROVE  /\ Append(L, e) \in Seq(S)
         /\ Len(Append(L, e)) = Len(L) + 1 /\ Len(L) \in Nat
         /\ DOMAIN L = 1..Len(L) /\ DOMAIN Append(L, e) = 1..(Len(L) + 1)
         /\ Append(L, e)[Len(L) + 1] = e
         /\ \A i \in 1..Len(L) : Append(L, e)[i] = L[i]
         /\ Extends(L, Append(L, e))
BY DEF Extends

LEMMA ExtendsKeepsEnd ==
  ASSUME NEW S, NEW L \in Seq(S), NEW M \in Seq(S), Extends(L, M)
  PROVE  /\ \A facts : EndedWith(L, facts) => EndedWith(M, facts)
         /\ \A said : IsTrueSummary(L, said) => IsTrueSummary(M, said)
         /\ \A e : Holds(L, e) => Holds(M, e)
<1>1. /\ Len(L) \in Nat /\ Len(M) \in Nat /\ DOMAIN L = 1..Len(L) /\ DOMAIN M = 1..Len(M)
      /\ \A k \in 1..Len(L) : k \in 1..Len(M) /\ M[k] = L[k]
  BY DEF Extends
<1>2. ASSUME NEW k \in 1..Len(L) PROVE SubSeq(M, 1, k) = SubSeq(L, 1, k)
  <2>1. \A i \in 1..k : M[i] = L[i]
    BY <1>1
  <2>2. SubSeq(M, 1, k) = [i \in 1..k |-> M[i]] /\ SubSeq(L, 1, k) = [i \in 1..k |-> L[i]]
    BY <1>1
  <2>. QED  BY <2>1, <2>2
<1>3. \A facts : EndedWith(L, facts) => EndedWith(M, facts)
  BY <1>1, <1>2 DEF EndedWith
<1>4. \A said : IsTrueSummary(L, said) => IsTrueSummary(M, said)
  BY <1>1, <1>2 DEF IsTrueSummary
<1>5. \A e : Holds(L, e) => Holds(M, e)
  BY <1>1 DEF Holds
<1>. QED  BY <1>3, <1>4, <1>5

LEMMA ExtendsChain ==
  ASSUME NEW S, NEW L \in Seq(S), NEW M \in Seq(S), NEW N \in Seq(S),
         Extends(L, M), Extends(M, N)
  PROVE  Extends(L, N)
BY DEF Extends

\* A decision names an action, so it is not the absent one.
LEMMA RightIsSome ==
  ASSUME NEW d, d.action \in BoundedActions
  PROVE  d # NoDecision /\ d # NoEvent
BY NoneIsNoAction DEF NoDecision, NoEvent

\* What the policy decides for an answer.
LEMMA DecisionIsRight ==
  ASSUME NEW a \in Answers, NEW L, NEW recalled \in SUBSET DOMAIN Episode, NEW earlier
  PROVE  LET d == Decision(a, L, recalled, earlier) IN
         /\ IsRightDecision(d)
         /\ d.token # None => d.token.learning = Len(L)
<1>. DEFINE input == Input(a, L, recalled)
            c == DeriveConstraints(input)
            d == Decision(a, L, recalled, earlier)
<1>1. Answer[a].ending \in BOOLEAN
  BY DecisionsConstants DEF AnswerRecord
<1>2. input.ending \in BOOLEAN /\ input.recalled \subseteq Interventions
  BY <1>1, DecisionsConstants DEF Input
<1>3. WellFormed(c) /\ Sound(c)
  <2>. HIDE DEF input
  <2>. QED  BY <1>2, PolicyIsWellFormed
<1>. HIDE DEF input
<1>4. /\ d.constraints = c /\ d.input = input
      /\ d.payloads = Payloads(c) /\ d.token = Token(c, d.action, L, earlier)
      /\ d.missing = ~IsOffered(c.fallback)
      /\ d.action = Chosen(c, ~IsOffered(c.fallback)).action
  BY DEF Decision, input
<1>. HIDE DEF d, c
<1>5. d.payloads \subseteq c.allowed
  BY <1>4 DEF Payloads
<1>6. \/ d.action \in c.allowed
      \/ d.missing /\ d.action = "RETRY_SAME_SKILL"
  BY <1>3, <1>4 DEF Chosen, WellFormed
<1>7. d.action \in BoundedActions
  BY <1>3, <1>6 DEF Sound, BoundedActions
<1>8. d.token # None => d.token.learning = Len(L)
  BY <1>4 DEF Token
<1>9. d.constraints = DeriveConstraints(d.input)
  BY <1>4 DEF c
<1>10. IsRightDecision(d)
  BY <1>3, <1>4, <1>5, <1>6, <1>7, <1>9 DEF IsRightDecision
<1>. QED  BY <1>8, <1>10 DEF d

LEMMA AppendRows ==
  ASSUME NEW L, NEW D, NEW T, Rows(L, D, T), NEW e \in Events, ~Holds(L, e),
         e \in Presentations => D[e[1]] # NoDecision /\ e[2] = ServedBy(D, T, e[1])
  PROVE  Rows(Append(L, e), D, T)
<1>. DEFINE M == Append(L, e)
<1>1. /\ L \in Seq(Events) /\ IsInjective(L) /\ DOMAIN D = Answers
  BY DEF Rows
<1>2. /\ M \in Seq(Events)
      /\ Len(M) = Len(L) + 1 /\ Len(L) \in Nat
      /\ DOMAIN L = 1..Len(L) /\ DOMAIN M = 1..(Len(L) + 1)
      /\ M[Len(L) + 1] = e
      /\ \A i \in 1..Len(L) : M[i] = L[i]
      /\ Extends(L, M)
  BY <1>1, AppendIs
<1>. HIDE DEF M
<1>3. IsInjective(M)
  <2>1. ASSUME NEW i \in DOMAIN M, NEW j \in DOMAIN M, M[i] = M[j] PROVE i = j
    <3>1. CASE i = Len(L) + 1 \/ j = Len(L) + 1
      BY <1>2, <2>1, <3>1 DEF Holds
    <3>2. CASE i # Len(L) + 1 /\ j # Len(L) + 1
      <4>1. i \in DOMAIN L /\ j \in DOMAIN L /\ L[i] = L[j]
        BY <1>2, <2>1, <3>2
      <4>. QED  BY <1>1, <4>1 DEF IsInjective
    <3>. QED  BY <3>1, <3>2
  <2>. QED  BY <2>1 DEF IsInjective
<1>4. ASSUME NEW a \in Answers, D[a] # NoDecision
      PROVE  /\ IsRightDecision(D[a]) /\ Holds(M, a)
             /\ D[a].token # None =>
                  /\ D[a].token.learning \in Nat /\ D[a].token.learning <= Len(M)
                  /\ \A i \in DOMAIN M :
                        M[i] \in Presentations /\ M[i][1] = a => i > D[a].token.learning
  <2>1. IsRightDecision(D[a]) /\ Holds(L, a)
    BY <1>4 DEF Rows
  <2>2. Holds(M, a)
    BY <2>1, <1>1, <1>2, ExtendsKeepsEnd
  <2>3. ASSUME D[a].token # None
        PROVE  /\ D[a].token.learning \in Nat /\ D[a].token.learning <= Len(L)
               /\ \A i \in DOMAIN L :
                     L[i] \in Presentations /\ L[i][1] = a => i > D[a].token.learning
    BY <1>4, <2>3 DEF Rows
  <2>4. ASSUME D[a].token # None, NEW i \in DOMAIN M, M[i] \in Presentations /\ M[i][1] = a
        PROVE  i > D[a].token.learning
    BY <1>2, <2>3, <2>4
  <2>. QED  BY <1>2, <2>1, <2>2, <2>3, <2>4
<1>5. ASSUME NEW i \in DOMAIN M, M[i] \in Presentations
      PROVE  D[M[i][1]] # NoDecision /\ M[i][2] = ServedBy(D, T, M[i][1])
  <2>1. CASE i = Len(L) + 1
    BY <1>2, <1>5, <2>1
  <2>2. CASE i # Len(L) + 1
    <3>1. i \in DOMAIN L /\ M[i] = L[i]
      BY <1>2, <1>5, <2>2
    <3>. QED  BY <1>5, <3>1 DEF Rows
  <2>. QED  BY <2>1, <2>2
<1>. QED  BY <1>1, <1>2, <1>3, <1>4, <1>5 DEF Rows, M

LEMMA DecideRows ==
  ASSUME NEW L, NEW D, NEW T, Rows(L, D, T), NEW a \in Answers, Holds(L, a), D[a] = NoDecision,
         NEW d, IsRightDecision(d), d.token # None => d.token.learning = Len(L)
  PROVE  Rows(L, [D EXCEPT ![a] = d], T)
<1>. DEFINE E == [D EXCEPT ![a] = d]
<1>1. L \in Seq(Events) /\ IsInjective(L) /\ DOMAIN D = Answers /\ DOMAIN L = 1..Len(L) /\ Len(L) \in Nat
  BY DEF Rows
<1>2. DOMAIN E = Answers /\ E[a] = d /\ \A b \in Answers : b # a => E[b] = D[b]
  BY <1>1
<1>3. d # NoDecision
  BY RightIsSome DEF IsRightDecision
<1>. HIDE DEF E
<1>4. \A i \in DOMAIN L : L[i] \in Presentations =>
         L[i][1] \in Answers /\ L[i][1] # a /\ D[L[i][1]] # NoDecision
            /\ L[i][2] = ServedBy(D, T, L[i][1])
  BY DEF Rows, Presentations
<1>5. \A i \in DOMAIN L : L[i] \in Presentations =>
         E[L[i][1]] # NoDecision /\ L[i][2] = ServedBy(E, T, L[i][1])
  BY <1>2, <1>4 DEF ServedBy
<1>6. ASSUME NEW b \in Answers, E[b] # NoDecision
      PROVE  /\ IsRightDecision(E[b]) /\ Holds(L, b)
             /\ E[b].token # None =>
                  /\ E[b].token.learning \in Nat /\ E[b].token.learning <= Len(L)
                  /\ \A i \in DOMAIN L :
                        L[i] \in Presentations /\ L[i][1] = b => i > E[b].token.learning
  <2>1. CASE b = a
    BY <1>1, <1>2, <1>4, <2>1
  <2>2. CASE b # a
    BY <1>2, <1>6, <2>2 DEF Rows
  <2>. QED  BY <2>1, <2>2
<1>. QED  BY <1>1, <1>2, <1>5, <1>6 DEF Rows, E

--------------------------------------------------------------------------------
(* A batch.                                                                *)

\* What a batch works on stays right, keeps what was stored and decides only the
\* answers that are fresh.
IsRightBatch(s) ==
    /\ DOMAIN s = {"log", "state", "decided", "fresh", "facts", "recalled"}
    /\ s.recalled \subseteq DOMAIN Episode
    /\ s.fresh \subseteq Answers
    /\ Rows(s.log, s.decided, trace)
    /\ Extends(log, s.log)
    /\ \A a \in Answers :
          IF a \in s.fresh THEN decided[a] = NoDecision /\ s.decided[a] # NoDecision
          ELSE s.decided[a] = decided[a]
    /\ s.facts # {} => EndedWith(s.log, s.facts)

LEMMA StartIsRight ==
  ASSUME Rows(log, decided, trace), NEW recalled \in SUBSET DOMAIN Episode
  PROVE  IsRightBatch(Start(recalled))
<1>1. Extends(log, log)
  BY DEF Extends, Rows
<1>. QED  BY <1>1 DEF IsRightBatch, Start

LEMMA ApplyAnswerIsRight ==
  ASSUME Rows(log, decided, trace), NEW s, IsRightBatch(s), NEW a \in Answers, ~Holds(s.log, a)
  PROVE  IsRightBatch(ApplyAnswer(s, a))
<1>. DEFINE L == Append(s.log, a)
            d == Decision(a, L, s.recalled, Cardinality({b \in Answers : s.decided[b] # NoDecision}))
<1>1. Rows(s.log, s.decided, trace) /\ s.log \in Seq(Events) /\ log \in Seq(Events) /\ a \in Events
  BY DEF IsRightBatch, Rows, Events
<1>2. a \notin Presentations /\ a # Completion
  BY EventsDistinct
<1>3. Rows(L, s.decided, trace)
  BY <1>1, <1>2, AppendRows
<1>4. /\ L \in Seq(Events) /\ Extends(s.log, L)
      /\ Holds(L, a)
  <2>1. /\ L \in Seq(Events) /\ Extends(s.log, L)
        /\ DOMAIN L = 1..(Len(s.log) + 1) /\ Len(s.log) \in Nat /\ L[Len(s.log) + 1] = a
    BY <1>1, AppendIs
  <2>. HIDE DEF L
  <2>. QED  BY <2>1 DEF Holds
<1>5. Extends(log, L)
  BY <1>1, <1>4, ExtendsChain DEF IsRightBatch
<1>6. s.decided[a] = NoDecision /\ a \notin s.fresh /\ decided[a] = NoDecision
  BY DEF IsRightBatch, Rows
<1>7. /\ IsRightDecision(d)
      /\ d.token # None => d.token.learning = Len(L)
  <2>1. s.recalled \in SUBSET DOMAIN Episode
    BY DEF IsRightBatch
  <2>. HIDE DEF L
  <2>. QED  BY <2>1, DecisionIsRight
<1>. HIDE DEF d
<1>8. d # NoDecision
  BY <1>7, RightIsSome DEF IsRightDecision
<1>9. s.facts # {} => EndedWith(L, s.facts)
  BY <1>1, <1>4, ExtendsKeepsEnd DEF IsRightBatch
<1>. HIDE DEF L
<1>10. Rows(L, [s.decided EXCEPT ![a] = d], trace)
  BY <1>3, <1>4, <1>6, <1>7, DecideRows
<1>11. CASE s.state = "SESSION_COMPLETED"
  <2>1. ApplyAnswer(s, a) = [s EXCEPT !.log = L]
    BY <1>11 DEF ApplyAnswer, L
  <2>. QED  BY <2>1, <1>3, <1>5, <1>9 DEF IsRightBatch
<1>12. CASE s.state # "SESSION_COMPLETED"
  <2>. DEFINE n == [s EXCEPT !.log = L, !.state = d.after, !.decided[a] = d, !.fresh = @ \cup {a}]
  <2>1. ApplyAnswer(s, a) = n
    BY <1>12 DEF ApplyAnswer, L, d
  <2>2. DOMAIN s = {"log", "state", "decided", "fresh", "facts", "recalled"}
    BY DEF IsRightBatch
  <2>3. /\ DOMAIN n = DOMAIN s /\ n.log = L /\ n.decided = [s.decided EXCEPT ![a] = d]
        /\ n.fresh = s.fresh \cup {a} /\ n.facts = s.facts /\ n.recalled = s.recalled
    BY <2>2
  <2>. HIDE DEF n
  <2>4. DOMAIN s.decided = Answers
    BY <1>1 DEF Rows
  <2>5. \A b \in Answers :
          IF b \in n.fresh THEN decided[b] = NoDecision /\ n.decided[b] # NoDecision
          ELSE n.decided[b] = decided[b]
    BY <1>6, <1>8, <2>3, <2>4 DEF IsRightBatch
  <2>6. n.fresh \subseteq Answers /\ n.recalled \subseteq DOMAIN Episode
    BY <2>3 DEF IsRightBatch
  <2>. QED  BY <1>5, <1>9, <1>10, <2>1, <2>2, <2>3, <2>5, <2>6 DEF IsRightBatch
<1>. QED  BY <1>11, <1>12

LEMMA ApplyCompletionIsRight ==
  ASSUME Rows(log, decided, trace), NEW s, IsRightBatch(s), ~Holds(s.log, Completion)
  PROVE  IsRightBatch(ApplyCompletion(s))
<1>. DEFINE L == Append(s.log, Completion)
            n == ApplyCompletion(s)
<1>1. /\ Rows(s.log, s.decided, trace) /\ s.log \in Seq(Events) /\ log \in Seq(Events)
      /\ Completion \in Events /\ Completion \notin Presentations
  BY EventsDistinct DEF IsRightBatch, Rows, Events
<1>2. Rows(L, s.decided, trace)
  BY <1>1, AppendRows
<1>3. /\ L \in Seq(Events) /\ Extends(s.log, L)
      /\ DOMAIN L = 1..(Len(s.log) + 1) /\ L[Len(s.log) + 1] = Completion
      /\ Len(s.log) \in Nat /\ Len(L) = Len(s.log) + 1
  BY <1>1, AppendIs
<1>4. Extends(log, L)
  BY <1>1, <1>3, ExtendsChain DEF IsRightBatch
<1>5. s.facts # {} => EndedWith(L, s.facts)
  <2>1. s.facts # {} => EndedWith(s.log, s.facts)
    BY DEF IsRightBatch
  <2>. HIDE DEF L
  <2>. QED  BY <1>1, <1>3, <2>1, ExtendsKeepsEnd
<1>6. EndedWith(L, SummaryFacts(L))
  <2>1. SubSeq(L, 1, Len(L)) = L
    BY <1>3
  <2>2. Len(L) \in DOMAIN L /\ L[Len(L)] = Completion
    BY <1>3
  <2>. HIDE DEF L
  <2>. QED  BY <2>1, <2>2 DEF EndedWith
<1>. HIDE DEF L
<1>7. DOMAIN s = {"log", "state", "decided", "fresh", "facts", "recalled"}
  BY DEF IsRightBatch
<1>8. /\ DOMAIN n = DOMAIN s /\ n.log = L /\ n.decided = s.decided /\ n.fresh = s.fresh
      /\ n.facts = s.facts \/ n.facts = SummaryFacts(L)
      /\ n.recalled = s.recalled
  BY <1>7 DEF ApplyCompletion, L
<1>. HIDE DEF n
<1>9. n.facts # {} => EndedWith(n.log, n.facts)
  BY <1>5, <1>6, <1>8
<1>. QED  BY <1>2, <1>4, <1>7, <1>8, <1>9 DEF IsRightBatch, n

LEMMA ApplyPresentationIsRight ==
  ASSUME Rows(log, decided, trace), Traces, NEW s, IsRightBatch(s),
         NEW e \in Presentations, ~Holds(s.log, e)
  PROVE  IsRightBatch(ApplyPresentation(s, e))
<1>. DEFINE L == Append(s.log, e)
            a == e[1]
<1>1. /\ Rows(s.log, s.decided, trace) /\ s.log \in Seq(Events) /\ log \in Seq(Events)
      /\ e \in Events /\ a \in Answers /\ e[2] \in Interventions
  BY DEF IsRightBatch, Rows, Events, Presentations
<1>2. CASE ServedBy(s.decided, trace, a) # e[2] \/ e[2] \notin lessons
  BY <1>2 DEF ApplyPresentation, ServedBy
<1>3. CASE ServedBy(s.decided, trace, a) = e[2] /\ e[2] \in lessons
  <2>1. s.decided[a] # NoDecision
    <3>1. CASE trace[a] # None
      <4>1. decided[a] # NoDecision
        BY <1>1, <3>1 DEF Traces
      <4>. QED  BY <1>1, <4>1 DEF IsRightBatch
    <3>2. CASE trace[a] = None
      <4>1. s.decided[a].action \in BoundedActions
        BY <1>1, <1>3, <3>2 DEF ServedBy, BoundedActions
      <4>. QED  BY <4>1, RightIsSome
    <3>. QED  BY <3>1, <3>2
  <2>2. Rows(L, s.decided, trace)
    BY <1>1, <1>3, <2>1, AppendRows
  <2>3. L \in Seq(Events) /\ Extends(s.log, L)
    BY <1>1, AppendIs
  <2>4. Extends(log, L)
    BY <1>1, <2>3, ExtendsChain DEF IsRightBatch
  <2>5. s.facts # {} => EndedWith(L, s.facts)
    BY <1>1, <2>3, ExtendsKeepsEnd DEF IsRightBatch
  <2>. HIDE DEF L
  <2>6. ApplyPresentation(s, e) = [s EXCEPT !.log = L]
    BY <1>3 DEF ApplyPresentation, ServedBy, L, IsRightBatch
  <2>. QED  BY <2>2, <2>4, <2>5, <2>6 DEF IsRightBatch
<1>. QED  BY <1>2, <1>3

LEMMA ApplyEventIsRight ==
  ASSUME Rows(log, decided, trace), Traces, NEW s, IsRightBatch(s), NEW e \in Events
  PROVE  IsRightBatch(ApplyEvent(s, e))
<1>1. CASE Holds(s.log, e)
  BY <1>1 DEF ApplyEvent, Holds
<1>2. CASE ~Holds(s.log, e) /\ e \in Answers
  BY <1>2, ApplyAnswerIsRight DEF ApplyEvent, Holds
<1>3. CASE ~Holds(s.log, e) /\ e \notin Answers /\ e = Completion
  BY <1>3, ApplyCompletionIsRight DEF ApplyEvent, Holds
<1>4. CASE ~Holds(s.log, e) /\ e \notin Answers /\ e # Completion
  BY <1>4, ApplyPresentationIsRight DEF ApplyEvent, Holds, Events
<1>. QED  BY <1>1, <1>2, <1>3, <1>4

LEMMA BatchIsRight ==
  ASSUME Rows(log, decided, trace), Traces, NEW batch \in Batches,
         NEW recalled \in SUBSET DOMAIN Episode
  PROVE  IsRightBatch(Processed(batch, recalled))
<1>1. batch \in Seq(Events) /\ DOMAIN batch = 1..Len(batch) /\ Len(batch) \in Nat
  BY DecisionsConstants DEF Batches, SeqOf
<1>. DEFINE n == Len(batch)
<1>2. PICK h : /\ h[0] = Start(recalled)
               /\ h[n] = Processed(batch, recalled)
               /\ \A i \in 1..n : h[i] = ApplyEvent(h[i-1], batch[i])
  <2>1. \A k \in Nat : DOMAIN batch = 1..k =>
           \E h : /\ h[0] = Start(recalled)
                  /\ h[k] = Processed(batch, recalled)
                  /\ \A i \in 1..k : h[i] = ApplyEvent(h[i-1], batch[i])
    BY BatchIsChain, Zenon
  <2>. QED  BY <1>1, <2>1
<1>. DEFINE S == {i \in Nat : i <= n => IsRightBatch(h[i])}
<1>3. 0 \in S
  BY <1>2, StartIsRight
<1>4. ASSUME NEW i \in Nat, i \in S PROVE i + 1 \in S
  <2>. SUFFICES ASSUME i + 1 <= n PROVE IsRightBatch(h[i + 1])
    OBVIOUS
  <2>1. i + 1 \in 1..n /\ (i + 1) - 1 = i /\ i <= n
    BY <1>1
  <2>2. batch[i + 1] \in Events
    BY <1>1, <2>1
  <2>3. h[i + 1] = ApplyEvent(h[i], batch[i + 1])
    BY <1>2, <2>1
  <2>4. IsRightBatch(h[i])
    BY <1>4, <2>1
  <2>. QED  BY <2>2, <2>3, <2>4, ApplyEventIsRight
<1>5. n \in S
  <2>. HIDE DEF S
  <2>. QED  BY <1>1, <1>3, <1>4, NaturalsOf
<1>. QED  BY <1>1, <1>2, <1>5

--------------------------------------------------------------------------------
(* The steps.                                                              *)

Live == Rows(log, decided, trace) /\ Traces /\ Requests /\ Answered

LEMMA ServedIsAction ==
  ASSUME Rows(log, decided, trace), Traces, NEW a \in Answers, decided[a] # NoDecision
  PROVE  /\ Served(a) \in BoundedActions /\ Served(a) = ServedBy(decided, trace, a)
         /\ trace[a] # None => trace[a] \in decided[a].constraints.allowed
         /\ IsRightDecision(decided[a])
<1>1. IsRightDecision(decided[a])
  BY DEF Rows
<1>. QED  BY <1>1 DEF Traces, Served, ServedBy, IsRightDecision, Sound

LEMMA InitIsRight ==
  ASSUME Init
  PROVE  DecisionsInv
<1>1. Rows(log, decided, trace)
  <2>1. log \in Seq(Events) /\ DOMAIN log = {}
    BY DEF Init
  <2>. QED  BY <2>1 DEF Init, Rows, IsInjective
<1>2. Traces /\ Requests /\ Answered
  BY DEF Init, Traces, Requests, Answered, IsCall, Owns, Idle
<1>. QED  BY <1>1, <1>2 DEF DecisionsInv, Init

LEMMA ProcessBatchIsRight ==
  ASSUME Live, NEW c \in Calls, NEW batch \in Batches, ProcessBatch(c, batch)
  PROVE  Live'
<1>1. PICK recalled \in SUBSET DOMAIN Episode :
        LET s == Processed(batch, recalled)
        IN  /\ log' = s.log /\ state' = s.state /\ decided' = s.decided
            /\ calls' = [calls EXCEPT ![c] =
                 [Idle EXCEPT !.phase = "working", !.fresh = s.fresh, !.facts = s.facts,
                    !.material = [a \in Answers |-> IF a \in s.fresh THEN s.decided[a]
                                                    ELSE NoDecision],
                    !.reply = [a \in Answers |->
                        IF a \notin s.fresh THEN NoEvent
                        ELSE [action |-> s.decided[a].action, after |-> s.decided[a].after,
                              ranked |-> FALSE, explanation |-> None]]]]
  BY DEF ProcessBatch, Processed
<1>. DEFINE s == Processed(batch, recalled)
            n == calls'[c]
<1>2. IsRightBatch(s)
  BY BatchIsRight DEF Live
<1>. HIDE DEF s
<1>3. /\ log' = s.log /\ decided' = s.decided
      /\ UNCHANGED <<trace, told, summary>>
  BY <1>1 DEF s, ProcessBatch
<1>4. /\ DOMAIN calls' = Calls
      /\ \A d \in Calls : d # c => calls'[d] = calls[d]
      /\ IsCall(n)
      /\ n.fresh = s.fresh /\ n.facts = s.facts
      /\ \A a \in Answers :
            /\ n.proposed[a] = None
            /\ a \in s.fresh => n.material[a] = s.decided[a]
            /\ a \notin s.fresh => n.reply[a] = NoEvent
            /\ a \in s.fresh =>
                  n.reply[a] = [action |-> s.decided[a].action, after |-> s.decided[a].after,
                                ranked |-> FALSE, explanation |-> None]
  <2>1. DOMAIN calls = Calls /\ s.fresh \subseteq Answers
    BY <1>2 DEF Live, Requests, IsRightBatch
  <2>2. n = [phase |-> "working", fresh |-> s.fresh,
             material |-> [a \in Answers |-> IF a \in s.fresh THEN s.decided[a] ELSE NoDecision],
             proposed |-> [a \in Answers |-> None],
             reply |-> [a \in Answers |->
                        IF a \notin s.fresh THEN NoEvent
                        ELSE [action |-> s.decided[a].action, after |-> s.decided[a].after,
                              ranked |-> FALSE, explanation |-> None]],
             facts |-> s.facts]
    BY <1>1, <2>1 DEF Idle, s
  <2>3. DOMAIN calls' = Calls /\ \A d \in Calls : d # c => calls'[d] = calls[d]
    BY <1>1, <2>1
  <2>. HIDE DEF n
  <2>. QED  BY <2>1, <2>2, <2>3 DEF IsCall
<1>. HIDE DEF n
<1>5. \A a \in Answers :
        /\ a \in s.fresh => /\ decided[a] = NoDecision /\ s.decided[a] # NoDecision
                            /\ IsRightDecision(s.decided[a])
                            /\ trace[a] = None /\ told[a] = NoEvent
                            /\ \A d \in Calls : ~Owns(d, a)
        /\ decided[a] # NoDecision => s.decided[a] = decided[a]
  BY <1>2 DEF IsRightBatch, Rows, Live, Traces, Requests, Answered
<1>6. Rows(log', decided', trace')
  BY <1>2, <1>3 DEF IsRightBatch
<1>7. Traces'
  BY <1>3, <1>5 DEF Live, Traces
<1>8. log \in Seq(Events) /\ log' \in Seq(Events) /\ Extends(log, log')
  BY <1>2, <1>3 DEF IsRightBatch, Rows, Live
<1>9. Answered'
  BY <1>3, <1>5, <1>8, ExtendsKeepsEnd DEF Live, Answered
<1>10. ASSUME NEW d \in Calls
       PROVE  /\ IsCall(calls'[d])
              /\ calls'[d].facts # {} => EndedWith(log', calls'[d].facts)
  <2>1. CASE d = c
    BY <1>2, <1>3, <1>4, <2>1 DEF IsRightBatch, n
  <2>2. CASE d # c
    BY <1>4, <1>8, <2>2, ExtendsKeepsEnd DEF Live, Requests
  <2>. QED  BY <2>1, <2>2
<1>11. ASSUME NEW d \in Calls, NEW a \in Answers
       PROVE  /\ calls'[d].reply[a] # NoEvent =>
                   /\ decided'[a] # NoDecision
                   /\ IsTrueEvent(decided'[a], trace'[a], calls'[d].reply[a])
                   /\ calls'[d].material[a] = decided'[a]
                   /\ told'[a] = NoEvent
                   /\ \A x \in Calls : calls'[x].reply[a] # NoEvent => x = d
              /\ a \in calls'[d].fresh \/ calls'[d].proposed[a] # None =>
                   calls'[d].reply[a] # NoEvent /\ trace'[a] = None
  <2>1. CASE d = c /\ a \in s.fresh
    <3>. DEFINE e == n.reply[a]
    <3>1. e = [action |-> s.decided[a].action, after |-> s.decided[a].after,
               ranked |-> FALSE, explanation |-> None]
      BY <1>4, <2>1
    <3>. HIDE DEF e
    <3>2. /\ DOMAIN e = {"action", "after", "ranked", "explanation"}
          /\ e.action = s.decided[a].action /\ e.explanation = None
      BY <3>1
    <3>3. n.reply[a] # NoEvent
      <4>1. e.action \in BoundedActions
        BY <1>5, <2>1, <3>2 DEF IsRightDecision
      <4>. QED  BY <4>1, RightIsSome DEF e
    <3>4. IsTrueEvent(s.decided[a], trace[a], n.reply[a])
      <4>1. IsTrueEvent(s.decided[a], trace[a], e)
        BY <1>5, <2>1, <3>2 DEF IsTrueEvent
      <4>. QED  BY <4>1 DEF e
    <3>5. /\ calls'[d].reply[a] # NoEvent
          /\ IsTrueEvent(decided'[a], trace'[a], calls'[d].reply[a])
      BY <1>3, <2>1, <3>3, <3>4 DEF n
    <3>6. decided'[a] # NoDecision /\ told'[a] = NoEvent /\ trace'[a] = None
      BY <1>3, <1>5, <2>1
    <3>7. calls'[d].material[a] = decided'[a]
      BY <1>3, <1>4, <2>1 DEF n
    <3>8. \A x \in Calls : calls'[x].reply[a] # NoEvent => x = d
      BY <1>4, <1>5, <2>1 DEF Owns
    <3>. QED  BY <3>5, <3>6, <3>7, <3>8
  <2>2. CASE d = c /\ a \notin s.fresh
    BY <1>3, <1>4, <2>2 DEF n
  <2>3. CASE d # c
    <3>1. calls'[d] = calls[d] /\ trace'[a] = trace[a] /\ told'[a] = told[a]
      BY <1>3, <1>4, <2>3
    <3>2. a \in calls[d].fresh \/ calls[d].proposed[a] # None =>
             Owns(d, a) /\ trace[a] = None
      BY DEF Live, Requests
    <3>3. ASSUME Owns(d, a)
          PROVE  /\ decided[a] # NoDecision
                 /\ IsTrueEvent(decided[a], trace[a], calls[d].reply[a])
                 /\ calls[d].material[a] = decided[a]
                 /\ told[a] = NoEvent
                 /\ \A x \in Calls : Owns(x, a) => x = d
      BY <3>3 DEF Live, Requests
    <3>4. ASSUME Owns(d, a), NEW x \in Calls, calls'[x].reply[a] # NoEvent PROVE x = d
      <4>1. a \notin s.fresh
        BY <1>5, <3>4
      <4>2. x # c
        BY <1>4, <3>4, <4>1 DEF n
      <4>. QED  BY <1>4, <3>3, <3>4, <4>2 DEF Owns
    <3>. QED  BY <1>3, <1>5, <3>1, <3>2, <3>3, <3>4 DEF Owns
  <2>. QED  BY <2>1, <2>2, <2>3
<1>12. Requests'
  BY <1>4, <1>10, <1>11 DEF Requests, Owns
<1>. QED  BY <1>6, <1>7, <1>9, <1>12 DEF Live

LEMMA ObserveIsRight ==
  ASSUME Live, NEW c \in Calls, NEW a \in Answers, Observe(c, a)
  PROVE  Live'
<1>1. PICK p \in Proposals \cup {None}, x \in Explanations \cup {None} :
         LET m == calls[c].material[a]
         IN  calls' = [calls EXCEPT ![c].fresh = @ \ {a},
                  ![c].proposed[a] = Proposed(m.constraints, m.action, Provider, Context(a, m),
                                              Evidence(m), LessonEvidence(m), p),
                  ![c].reply[a].explanation = Explained(ExplanationFacts(m), Provider, x)]
  BY DEF Observe
<1>. DEFINE n == calls'[c]
            said == Explained(ExplanationFacts(calls[c].material[a]), Provider, x)
<1>2. a \in calls[c].fresh /\ UNCHANGED <<log, decided, trace, told, summary>>
  BY DEF Observe
<1>3. /\ decided[a] # NoDecision
      /\ IsTrueEvent(decided[a], trace[a], calls[c].reply[a])
      /\ calls[c].material[a] = decided[a]
      /\ Owns(c, a) /\ trace[a] = None
  BY <1>2 DEF Live, Requests
<1>4. /\ DOMAIN calls' = Calls
      /\ \A d \in Calls : d # c => calls'[d] = calls[d]
      /\ IsCall(n)
      /\ n.fresh = calls[c].fresh \ {a} /\ n.facts = calls[c].facts
      /\ n.material = calls[c].material
      /\ \A b \in Answers : b # a =>
            n.proposed[b] = calls[c].proposed[b] /\ n.reply[b] = calls[c].reply[b]
      /\ n.reply[a] = [calls[c].reply[a] EXCEPT !.explanation = said]
  <2>1. DOMAIN calls = Calls /\ IsCall(calls[c])
    BY DEF Live, Requests
  <2>. HIDE DEF said
  <2>2. /\ DOMAIN calls' = Calls
        /\ \A d \in Calls : d # c => calls'[d] = calls[d]
    BY <1>1, <2>1
  <2>3. /\ DOMAIN n = DOMAIN calls[c]
        /\ n.fresh = calls[c].fresh \ {a} /\ n.facts = calls[c].facts
        /\ n.material = calls[c].material
        /\ DOMAIN n.proposed = DOMAIN calls[c].proposed
        /\ DOMAIN n.reply = DOMAIN calls[c].reply
        /\ \A b \in Answers : b # a =>
            n.proposed[b] = calls[c].proposed[b] /\ n.reply[b] = calls[c].reply[b]
    BY <1>1, <2>1 DEF IsCall
  <2>4. n.reply[a] = [calls[c].reply[a] EXCEPT !.explanation = said]
    BY <1>1, <2>1 DEF IsCall, said
  <2>. HIDE DEF n
  <2>. QED  BY <2>1, <2>2, <2>3, <2>4 DEF IsCall
<1>5. said # None => IsGroundedExplanation(ExplanationFacts(decided[a]), said)
  BY <1>3 DEF Explained
<1>. HIDE DEF n, said
<1>6. IsTrueEvent(decided[a], trace[a], n.reply[a]) /\ n.reply[a] # NoEvent
  <2>. DEFINE e == n.reply[a]
  <2>1. /\ DOMAIN e = {"action", "after", "ranked", "explanation"}
        /\ e.action = calls[c].reply[a].action /\ e.explanation = said
    BY <1>3, <1>4 DEF IsTrueEvent
  <2>. HIDE DEF e
  <2>2. IsTrueEvent(decided[a], trace[a], e)
    BY <1>3, <1>5, <2>1 DEF IsTrueEvent
  <2>3. e.action \in BoundedActions
    BY <1>3, <2>1 DEF IsTrueEvent, Live, Rows, IsRightDecision
  <2>4. e # NoEvent
    BY <2>3, RightIsSome
  <2>. QED  BY <2>2, <2>4 DEF e
<1>7. ASSUME NEW d \in Calls
      PROVE  /\ IsCall(calls'[d])
             /\ calls'[d].facts # {} => EndedWith(log', calls'[d].facts)
  BY <1>2, <1>4 DEF Live, Requests, n
<1>8. \A d \in Calls, b \in Answers : calls'[d].reply[b] # NoEvent => Owns(d, b)
  BY <1>3, <1>4 DEF Owns, n
<1>9. ASSUME NEW d \in Calls, NEW b \in Answers
      PROVE  /\ calls'[d].reply[b] # NoEvent =>
                  /\ decided'[b] # NoDecision
                  /\ IsTrueEvent(decided'[b], trace'[b], calls'[d].reply[b])
                  /\ calls'[d].material[b] = decided'[b]
                  /\ told'[b] = NoEvent
                  /\ \A y \in Calls : calls'[y].reply[b] # NoEvent => y = d
             /\ b \in calls'[d].fresh \/ calls'[d].proposed[b] # None =>
                  calls'[d].reply[b] # NoEvent /\ trace'[b] = None
  <2>1. /\ Owns(d, b) =>
             /\ decided[b] # NoDecision
             /\ IsTrueEvent(decided[b], trace[b], calls[d].reply[b])
             /\ calls[d].material[b] = decided[b]
             /\ told[b] = NoEvent
             /\ \A y \in Calls : Owns(y, b) => y = d
        /\ b \in calls[d].fresh \/ calls[d].proposed[b] # None =>
             Owns(d, b) /\ trace[b] = None
    BY DEF Live, Requests
  <2>2. CASE d = c /\ b = a
    BY <1>2, <1>3, <1>4, <1>6, <1>8, <2>1, <2>2 DEF n
  <2>3. CASE d = c /\ b # a
    BY <1>2, <1>4, <1>8, <2>1, <2>3 DEF n, Owns
  <2>4. CASE d # c
    BY <1>2, <1>4, <1>8, <2>1, <2>4 DEF Owns
  <2>. QED  BY <2>2, <2>3, <2>4
<1>10. Requests'
  BY <1>4, <1>7, <1>9 DEF Requests, Owns
<1>11. Rows(log', decided', trace') /\ Traces' /\ Answered'
  BY <1>2 DEF Live, Traces, Answered
<1>. QED  BY <1>10, <1>11 DEF Live

LEMMA RankIsRight ==
  ASSUME Live, NEW c \in Calls, NEW a \in Answers, Rank(c, a)
  PROVE  Live'
<1>. DEFINE m == calls[c].material[a]
            action == calls[c].proposed[a]
            n == calls'[c]
<1>1. /\ action # None
      /\ UNCHANGED <<log, decided, told, summary>>
  BY DEF Rank
<1>2. /\ decided[a] # NoDecision /\ m = decided[a]
      /\ Owns(c, a) /\ trace[a] = None /\ told[a] = NoEvent
      /\ \A d \in Calls : Owns(d, a) => d = c
  BY <1>1 DEF Live, Requests
<1>3. DOMAIN calls = Calls /\ DOMAIN trace = Answers /\ IsCall(calls[c])
  BY DEF Live, Requests, Traces
<1>4. CASE ~MayServe(a, m, action)
  <2>1. calls' = [calls EXCEPT ![c].proposed[a] = None] /\ trace' = trace
    BY <1>4 DEF Rank
  <2>2. /\ DOMAIN calls' = Calls
        /\ \A d \in Calls : d # c => calls'[d] = calls[d]
        /\ IsCall(n)
        /\ n.fresh = calls[c].fresh /\ n.facts = calls[c].facts
        /\ n.material = calls[c].material /\ n.reply = calls[c].reply
        /\ \A b \in Answers : n.proposed[b] # None => calls[c].proposed[b] # None
    BY <1>3, <2>1 DEF IsCall
  <2>. HIDE DEF n
  <2>3. Requests'
    BY <1>1, <2>1, <2>2 DEF Live, Requests, Owns, n
  <2>. QED  BY <1>1, <2>1, <2>3 DEF Live, Traces, Answered
<1>5. CASE MayServe(a, m, action)
  <2>1. /\ trace' = [trace EXCEPT ![a] = action]
        /\ calls' = [calls EXCEPT ![c].proposed[a] = None,
                                  ![c].reply[a] = RankedEvent(m, action)]
    BY <1>2, <1>3, <1>5 DEF Rank, Traced
  <2>2. /\ DOMAIN calls' = Calls
        /\ \A d \in Calls : d # c => calls'[d] = calls[d]
        /\ DOMAIN n = DOMAIN calls[c]
        /\ n.fresh = calls[c].fresh /\ n.facts = calls[c].facts
        /\ n.material = calls[c].material
        /\ DOMAIN n.proposed = Answers /\ DOMAIN n.reply = Answers
        /\ \A b \in Answers : n.proposed[b] # None => b # a /\ calls[c].proposed[b] # None
        /\ \A b \in Answers : b # a => n.reply[b] = calls[c].reply[b]
        /\ n.reply[a] = RankedEvent(m, action)
    <3>. HIDE DEF m, action
    <3>. QED  BY <1>3, <2>1 DEF IsCall
  <2>3. /\ DOMAIN trace' = Answers /\ trace'[a] = action
        /\ \A b \in Answers : b # a => trace'[b] = trace[b]
    BY <1>3, <2>1
  <2>4. IsCall(n)
    <3>. HIDE DEF n
    <3>. QED  BY <1>3, <2>2 DEF IsCall
  <2>5. /\ m.token # None /\ action \in m.payloads /\ Len(log) = m.token.learning
        /\ calls[c].fresh = {}
    BY <1>5 DEF MayServe, IsCurrent, Rank
  <2>6. action \in BoundedActions
    BY <1>2, <2>5 DEF Live, Rows, IsRightDecision, Sound
  <2>7. \A i \in DOMAIN log : log[i] \in Presentations => log[i][1] # a
    <3>1. DOMAIN log = 1..Len(log) /\ Len(log) \in Nat
      BY DEF Live, Rows
    <3>2. \A i \in DOMAIN log :
             log[i] \in Presentations /\ log[i][1] = a => i > decided[a].token.learning
      BY <1>2, <2>5 DEF Live, Rows
    <3>. QED  BY <1>2, <2>5, <3>1, <3>2
  <2>. HIDE DEF n, action
  <2>8. Rows(log, decided, trace')
    <3>1. \A i \in DOMAIN log : log[i] \in Presentations =>
            /\ decided[log[i][1]] # NoDecision
            /\ log[i][2] = ServedBy(decided, trace', log[i][1])
      <4>. SUFFICES ASSUME NEW i \in DOMAIN log, log[i] \in Presentations
                    PROVE  /\ decided[log[i][1]] # NoDecision
                           /\ log[i][2] = ServedBy(decided, trace', log[i][1])
        OBVIOUS
      <4>1. log[i][1] \in Answers /\ log[i][1] # a
        BY <2>7 DEF Presentations
      <4>2. /\ decided[log[i][1]] # NoDecision
            /\ log[i][2] = ServedBy(decided, trace, log[i][1])
        BY DEF Live, Rows
      <4>. QED  BY <2>3, <4>1, <4>2 DEF ServedBy
    <3>. QED  BY <3>1 DEF Live, Rows
  <2>9. Traces'
    BY <1>1, <1>2, <2>3, <2>5 DEF Live, Traces
  <2>10. IsTrueEvent(decided[a], trace'[a], n.reply[a]) /\ n.reply[a] # NoEvent
    <3>1. n.reply[a] = [action |-> action, after |-> m.constraints.next[action],
                        ranked |-> TRUE, explanation |-> None]
      BY <2>2 DEF RankedEvent
    <3>2. action # None
      BY <2>6, NoneIsNoAction
    <3>. DEFINE e == n.reply[a]
    <3>3. /\ DOMAIN e = {"action", "after", "ranked", "explanation"}
          /\ e.action = action /\ e.explanation = None
      BY <3>1
    <3>. HIDE DEF e
    <3>4. e # NoEvent
      BY <2>6, <3>3, RightIsSome
    <3>5. IsTrueEvent(decided[a], trace'[a], e)
      BY <2>3, <3>2, <3>3 DEF IsTrueEvent
    <3>. QED  BY <3>4, <3>5 DEF e
  <2>11. \A d \in Calls, b \in Answers : calls'[d].reply[b] # NoEvent => Owns(d, b)
    BY <1>2, <2>2 DEF Owns, n
  <2>12. ASSUME NEW d \in Calls
         PROVE  /\ IsCall(calls'[d])
                /\ calls'[d].facts # {} => EndedWith(log', calls'[d].facts)
    BY <1>1, <2>2, <2>4 DEF Live, Requests, n
  <2>13. ASSUME NEW d \in Calls, NEW b \in Answers
         PROVE  /\ calls'[d].reply[b] # NoEvent =>
                     /\ decided'[b] # NoDecision
                     /\ IsTrueEvent(decided'[b], trace'[b], calls'[d].reply[b])
                     /\ calls'[d].material[b] = decided'[b]
                     /\ told'[b] = NoEvent
                     /\ \A y \in Calls : calls'[y].reply[b] # NoEvent => y = d
                /\ b \in calls'[d].fresh \/ calls'[d].proposed[b] # None =>
                     calls'[d].reply[b] # NoEvent /\ trace'[b] = None
    <3>1. /\ Owns(d, b) =>
               /\ decided[b] # NoDecision
               /\ IsTrueEvent(decided[b], trace[b], calls[d].reply[b])
               /\ calls[d].material[b] = decided[b]
               /\ told[b] = NoEvent
               /\ \A y \in Calls : Owns(y, b) => y = d
          /\ b \in calls[d].fresh \/ calls[d].proposed[b] # None =>
               Owns(d, b) /\ trace[b] = None
      BY DEF Live, Requests
    <3>2. CASE d = c /\ b = a
      BY <1>1, <1>2, <2>2, <2>5, <2>10, <2>11, <3>2 DEF n, m
    <3>3. CASE d = c /\ b # a
      BY <1>1, <2>2, <2>3, <2>11, <3>1, <3>3 DEF n, Owns
    <3>4. CASE d # c /\ b # a
      BY <1>1, <2>2, <2>3, <2>11, <3>1, <3>4 DEF Owns
    <3>5. CASE d # c /\ b = a
      BY <1>2, <2>2, <2>11, <3>1, <3>5
    <3>. QED  BY <3>2, <3>3, <3>4, <3>5
  <2>14. Requests'
    BY <2>2, <2>12, <2>13 DEF Requests, Owns
  <2>15. Answered'
    BY <1>1, <1>2, <2>3 DEF Live, Answered
  <2>. QED  BY <1>1, <2>8, <2>9, <2>14, <2>15 DEF Live
<1>. QED  BY <1>4, <1>5

LEMMA ReplyIsRight ==
  ASSUME Live, NEW c \in Calls, Reply(c)
  PROVE  Live'
<1>1. /\ UNCHANGED <<log, decided, trace>>
      /\ calls' = [calls EXCEPT ![c] = Idle]
      /\ told' = [a \in Answers |-> IF Owns(c, a) THEN calls[c].reply[a] ELSE told[a]]
  BY DEF Reply, Owns
<1>2. PICK text \in Summaries \cup {None} :
        LET said == Summarized(SummaryContext(calls[c].facts), Provider, text)
        IN  summary' = IF said # None THEN said ELSE summary
  BY DEF Reply
<1>3. /\ DOMAIN calls' = Calls
      /\ \A d \in Calls : d # c => calls'[d] = calls[d]
      /\ calls'[c] = Idle
  BY <1>1 DEF Live, Requests
<1>4. /\ IsCall(Idle) /\ Idle.facts = {} /\ Idle.fresh = {}
      /\ \A a \in Answers : Idle.reply[a] = NoEvent /\ Idle.proposed[a] = None
  BY DEF Idle, IsCall
<1>5. ASSUME summary' # None PROVE IsTrueSummary(log, summary')
  <2>. DEFINE facts == calls[c].facts
              said == Summarized(SummaryContext(facts), Provider, text)
  <2>1. CASE said = None
    BY <1>2, <1>5, <2>1 DEF Live, Answered
  <2>2. CASE said # None
    <3>1. facts # {} /\ IsGroundedSummary(facts \cup {SyncFact}, said)
      BY <2>2 DEF Summarized, SummaryContext
    <3>2. EndedWith(log, facts)
      BY <3>1 DEF Live, Requests
    <3>3. summary' = said
      BY <1>2, <2>2
    <3>. HIDE DEF facts, said
    <3>. QED  BY <3>1, <3>2, <3>3 DEF EndedWith, IsTrueSummary
  <2>. QED  BY <2>1, <2>2
<1>6. \A d \in Calls, a \in Answers : calls'[d].reply[a] # NoEvent => d # c /\ Owns(d, a)
  BY <1>3, <1>4 DEF Owns
<1>7. ASSUME NEW a \in Answers, told'[a] # NoEvent
      PROVE  /\ decided[a] # NoDecision /\ IsTrueEvent(decided[a], trace[a], told'[a])
             /\ \A d \in Calls : calls'[d].reply[a] = NoEvent
  <2>1. CASE Owns(c, a)
    BY <1>1, <1>6, <2>1 DEF Live, Requests
  <2>2. CASE ~Owns(c, a)
    BY <1>1, <1>6, <1>7, <2>2 DEF Live, Requests, Answered
  <2>. QED  BY <2>1, <2>2
<1>8. Answered'
  BY <1>1, <1>5, <1>7 DEF Answered
<1>9. Requests'
  <2>1. ASSUME NEW d \in Calls
        PROVE  /\ IsCall(calls'[d])
               /\ calls'[d].facts # {} => EndedWith(log', calls'[d].facts)
    BY <1>1, <1>3, <1>4 DEF Live, Requests
  <2>2. ASSUME NEW d \in Calls, NEW a \in Answers
        PROVE  /\ calls'[d].reply[a] # NoEvent =>
                    /\ decided'[a] # NoDecision
                    /\ IsTrueEvent(decided'[a], trace'[a], calls'[d].reply[a])
                    /\ calls'[d].material[a] = decided'[a]
                    /\ told'[a] = NoEvent
                    /\ \A y \in Calls : calls'[y].reply[a] # NoEvent => y = d
               /\ a \in calls'[d].fresh \/ calls'[d].proposed[a] # None =>
                    calls'[d].reply[a] # NoEvent /\ trace'[a] = None
    <3>1. CASE d = c
      BY <1>3, <1>4, <3>1
    <3>2. CASE d # c
      BY <1>1, <1>3, <1>6, <1>7, <3>2 DEF Live, Requests, Owns
    <3>. QED  BY <3>1, <3>2
  <2>. QED  BY <1>3, <2>1, <2>2 DEF Requests, Owns
<1>. QED  BY <1>1, <1>8, <1>9 DEF Live, Traces

LEMMA LoseCallIsRight ==
  ASSUME Live, NEW c \in Calls, LoseCall(c)
  PROVE  Live'
<1>1. /\ UNCHANGED <<log, decided, trace, told, summary>>
      /\ DOMAIN calls' = Calls
      /\ \A d \in Calls : d # c => calls'[d] = calls[d]
      /\ calls'[c] = Idle
  BY DEF LoseCall, Live, Requests
<1>2. /\ IsCall(Idle) /\ Idle.facts = {} /\ Idle.fresh = {}
      /\ \A a \in Answers : Idle.reply[a] = NoEvent /\ Idle.proposed[a] = None
  BY DEF Idle, IsCall
<1>3. Requests'
  BY <1>1, <1>2 DEF Live, Requests, Owns
<1>. QED  BY <1>1, <1>3 DEF Live, Traces, Answered

LEMMA UnchangedIsRight ==
  ASSUME Live, UNCHANGED <<log, decided, trace, calls, told, summary>>
  PROVE  Live'
BY DEF Live, Traces, Requests, Owns, Answered

LEMMA NextKeepsRight ==
  ASSUME DecisionsInv, [Next]_vars
  PROVE  DecisionsInv'
<1>1. CASE student = "deleted"
  <2>1. log' = log /\ decided' = decided /\ student' = "deleted"
    <3>1. \A c \in Calls, batch \in Batches : ~ProcessBatch(c, batch)
      BY <1>1 DEF ProcessBatch
    <3>2. ~RequestDeletion /\ ~DeletePostgresData
      BY <1>1 DEF RequestDeletion, DeletePostgresData
    <3>3. ASSUME NEW c \in Calls, Work(c) \/ LoseCall(c)
          PROVE  UNCHANGED <<log, decided, student>>
      <4>1. LoseCall(c) => UNCHANGED <<log, decided, student>>
        BY DEF LoseCall
      <4>2. Reply(c) => UNCHANGED <<log, decided, student>>
        BY DEF Reply
      <4>3. \A a \in Answers : Observe(c, a) => UNCHANGED <<log, decided, student>>
        BY DEF Observe
      <4>4. \A a \in Answers : Rank(c, a) => UNCHANGED <<log, decided, student>>
        BY DEF Rank
      <4>. QED  BY <3>3, <4>1, <4>2, <4>3, <4>4 DEF Work
    <3>4. \A x \in Interventions : WithdrawLesson(x) => UNCHANGED <<log, decided, student>>
      BY DEF WithdrawLesson
    <3>5. UNCHANGED vars => UNCHANGED <<log, decided, student>>
      BY DEF vars
    <3>. QED  BY <1>1, <3>1, <3>2, <3>3, <3>4, <3>5 DEF Next
  <2>. QED  BY <1>1, <2>1 DEF DecisionsInv
<1>2. CASE student # "deleted"
  <2>1. Live
    BY <1>2 DEF DecisionsInv, Live
  <2>2. CASE UNCHANGED vars
    BY <1>2, <2>1, <2>2, UnchangedIsRight DEF vars, DecisionsInv, Live
  <2>3. ASSUME NEW c \in Calls, NEW batch \in Batches, ProcessBatch(c, batch)
        PROVE  DecisionsInv'
    BY <1>2, <2>1, <2>3, ProcessBatchIsRight DEF ProcessBatch, DecisionsInv, Live
  <2>4. ASSUME NEW c \in Calls, NEW a \in Answers, Observe(c, a)
        PROVE  DecisionsInv'
    BY <1>2, <2>1, <2>4, ObserveIsRight DEF Observe, DecisionsInv, Live
  <2>5. ASSUME NEW c \in Calls, NEW a \in Answers, Rank(c, a)
        PROVE  DecisionsInv'
    BY <1>2, <2>1, <2>5, RankIsRight DEF Rank, DecisionsInv, Live
  <2>6. ASSUME NEW c \in Calls, Reply(c)
        PROVE  DecisionsInv'
    BY <1>2, <2>1, <2>6, ReplyIsRight DEF Reply, DecisionsInv, Live
  <2>7. ASSUME NEW c \in Calls, LoseCall(c)
        PROVE  DecisionsInv'
    BY <1>2, <2>1, <2>7, LoseCallIsRight DEF LoseCall, DecisionsInv, Live
  <2>8. ASSUME NEW x \in Interventions, WithdrawLesson(x)
        PROVE  DecisionsInv'
    BY <1>2, <2>1, <2>8, UnchangedIsRight DEF WithdrawLesson, DecisionsInv, Live
  <2>9. CASE RequestDeletion
    BY <2>1, <2>9, UnchangedIsRight DEF RequestDeletion, DecisionsInv, Live
  <2>10. CASE DeletePostgresData
    BY <2>10 DEF DeletePostgresData, DecisionsInv
  <2>. QED  BY <2>2, <2>3, <2>4, <2>5, <2>6, <2>7, <2>8, <2>9, <2>10 DEF Next, Work
<1>. QED  BY <1>1, <1>2

--------------------------------------------------------------------------------
(* The theorems.                                                           *)

\* What the server decided, recorded and answered stays right together, in every
\* interleaving of two requests with their reasoning, withdrawals and a deletion.
THEOREM DecisionsInvariant == Spec => []DecisionsInv
<1>1. Init => DecisionsInv
  BY InitIsRight
<1>2. DecisionsInv /\ [Next]_vars => DecisionsInv'
  BY NextKeepsRight
<1>. QED  BY <1>1, <1>2, PTL DEF Spec

\* Whatever the model answers, and whichever request is overtaken, lost or late,
\* the learner is told the action that the server takes for served.
THEOREM ToldIsServedAlways == Spec => []ToldIsServed
<1>1. DecisionsInv => ToldIsServed
  BY DEF DecisionsInv, Answered, IsTrueEvent, ToldIsServed, Served
<1>. QED  BY <1>1, DecisionsInvariant, PTL

\* No word of the model gets an action served that the policy does not permit for
\* that answer; a mandated action is never replaced.
THEOREM ServedIsPermittedAlways == Spec => []ServedIsPermitted
<1>1. ASSUME DecisionsInv PROVE ServedIsPermitted
  <2>. SUFFICES ASSUME NEW a \in Answers, decided[a] # NoDecision
                PROVE  LET c == decided[a].constraints IN
                       \/ Served(a) \in c.allowed /\ (c.hard # None => Served(a) = c.hard)
                       \/ decided[a].missing /\ Served(a) = "RETRY_SAME_SKILL"
    <3>1. \A a \in Answers : decided[a] # NoDecision =>
             decided[a].constraints = DeriveConstraints(decided[a].input)
      BY <1>1 DEF DecisionsInv, Rows, IsRightDecision
    <3>. QED  BY <3>1 DEF ServedIsPermitted
  <2>1. IsRightDecision(decided[a]) /\ (trace[a] # None => trace[a] \in decided[a].payloads)
    BY <1>1 DEF DecisionsInv, Rows, Traces
  <2>. QED  BY <2>1 DEF IsRightDecision, Sound, WellFormed, Served
<1>. QED  BY <1>1, DecisionsInvariant, PTL

\* The log never has a lesson as shown that was not the one served, also when
\* the model's choice is recorded between the decision and the report.
THEOREM PresentedWasServedAlways == Spec => []PresentedWasServed
<1>1. ASSUME DecisionsInv PROVE PresentedWasServed
  <2>1. CASE student = "deleted"
    BY <1>1, <2>1 DEF DecisionsInv, PresentedWasServed, Stored
  <2>2. CASE student # "deleted"
    BY <1>1, <2>2 DEF DecisionsInv, Rows, PresentedWasServed, Stored, Served, ServedBy
  <2>. QED  BY <2>1, <2>2
<1>. QED  BY <1>1, DecisionsInvariant, PTL

LEMMA GroundedExplanationIsTrue ==
  ASSUME NEW d, NEW text, IsGroundedExplanation(ExplanationFacts(d), text)
  PROVE  /\ d.action \in Interventions
         /\ NumbersOf(text.clauses) \subseteq
               {d.input.errors, d.input.observations, d.input.mastery}
         /\ text.history => \E x \in d.episodes : Episode[x].transfer /\ Episode[x].correct
<1>. DEFINE facts == ExplanationFacts(d)
<1>1. /\ text.refs # {} /\ text.refs \subseteq {f.ref : f \in facts}
      /\ NumbersOf(text.clauses) \subseteq UNION {f.numbers : f \in facts}
      /\ text.history => "episode" \in text.refs
  BY DEF IsGroundedExplanation, CitesFacts, RefsOf, NumbersOf, Cited
<1>2. d.action \in Interventions
  BY <1>1 DEF ExplanationFacts
<1>3. \A f \in facts :
        /\ f.numbers \subseteq {d.input.errors, d.input.observations, d.input.mastery}
        /\ f.ref = "episode" => \E x \in d.episodes : Episode[x].transfer /\ Episode[x].correct
  BY <1>2 DEF ExplanationFacts
<1>. HIDE DEF facts
<1>. QED  BY <1>1, <1>2, <1>3

LEMMA GroundedSummaryIsTrue ==
  ASSUME NEW L, NEW text, IsGroundedSummary(SummaryFacts(L) \cup {SyncFact}, text)
  PROVE  /\ NumbersOf(text.clauses) \subseteq {Cardinality(AnswersIn(L))}
         /\ "confirmed" \in UNION {clause.words : clause \in text.clauses} =>
               \E i \in DOMAIN L : L[i] \in Presentations
<1>. DEFINE facts == SummaryFacts(L) \cup {SyncFact}
<1>1. \A clause \in text.clauses :
        /\ \E f \in facts : clause.words \subseteq f.words
        /\ \A n \in clause.numbers : \E f \in facts : n \in f.numbers
  BY DEF IsGroundedSummary, Cited
<1>2. \A f \in facts :
        /\ f.numbers \subseteq {Cardinality(AnswersIn(L))}
        /\ "confirmed" \in f.words => \E i \in DOMAIN L : L[i] \in Presentations
  BY DEF SummaryFacts, SyncFact
<1>. HIDE DEF facts
<1>3. NumbersOf(text.clauses) \subseteq {Cardinality(AnswersIn(L))}
  BY <1>1, <1>2 DEF NumbersOf
<1>. QED  BY <1>1, <1>2, <1>3

\* An explanation stands next to the action it explains and has only numbers and
\* a past that are this learner's; a summary counts what the session held when
\* it ended, and names a lesson only if one was shown.
THEOREM WordingIsTrueAlways == Spec => []WordingIsTrue
<1>1. ASSUME DecisionsInv PROVE ExplanationIsTrue
  <2>. SUFFICES ASSUME NEW a \in Answers,
                       told[a] # NoEvent, told[a].explanation # None, decided[a] # NoDecision
                PROVE  LET text == told[a].explanation
                           input == decided[a].input
                       IN  /\ told[a].action = decided[a].action /\ told[a].action \in Interventions
                           /\ NumbersOf(text.clauses) \subseteq
                                 {input.errors, input.observations, input.mastery}
                           /\ text.history =>
                                 \E x \in decided[a].episodes : Episode[x].transfer /\ Episode[x].correct
    BY DEF ExplanationIsTrue
  <2>1. IsTrueEvent(decided[a], trace[a], told[a])
    BY <1>1 DEF DecisionsInv, Answered
  <2>. QED  BY <2>1, GroundedExplanationIsTrue DEF IsTrueEvent
<1>2. ASSUME DecisionsInv PROVE SummaryIsTrue
  <2>. DEFINE at == CHOOSE i \in DOMAIN log : log[i] = Completion
              before == SubSeq(log, 1, at)
  <2>1. CASE summary = None \/ Completion \notin Stored
    BY <2>1 DEF SummaryIsTrue
  <2>2. CASE summary # None /\ Completion \in Stored
    <3>1. student # "deleted"
      BY <1>2, <2>2 DEF DecisionsInv, Stored
    <3>2. PICK k \in DOMAIN log :
            /\ log[k] = Completion
            /\ IsGroundedSummary(SummaryFacts(SubSeq(log, 1, k)) \cup {SyncFact}, summary)
      BY <1>2, <2>2, <3>1 DEF DecisionsInv, Answered, IsTrueSummary
    <3>3. at = k
      <4>1. IsInjective(log)
        BY <1>2, <3>1 DEF DecisionsInv, Rows
      <4>2. \A i \in DOMAIN log : log[i] = Completion => i = k
        BY <3>2, <4>1 DEF IsInjective
      <4>. QED  BY <3>2, <4>2
    <3>4. IsGroundedSummary(SummaryFacts(before) \cup {SyncFact}, summary)
      BY <3>2, <3>3
    <3>. HIDE DEF at, before
    <3>5. /\ NumbersOf(summary.clauses) \subseteq {Cardinality(AnswersIn(before))}
          /\ "confirmed" \in UNION {clause.words : clause \in summary.clauses} =>
                \E i \in DOMAIN before : before[i] \in Presentations
      BY <3>4, GroundedSummaryIsTrue
    <3>. QED  BY <3>5 DEF SummaryIsTrue, at, before
  <2>. QED  BY <2>1, <2>2
<1>. QED  BY <1>1, <1>2, DecisionsInvariant, PTL DEF WordingIsTrue
================================================================================
