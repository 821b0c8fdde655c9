------------------------------ MODULE Projection ------------------------------
(***************************************************************************)
(* What stored learning events do to a learner's projections:              *)
(* SyncService._apply_event and below (app/sync/service.py), and the       *)
(* script that clears the projections and replays the log                  *)
(* (scripts/rebuild_learner_projections.py).                               *)
(*                                                                         *)
(* One step applies one event: a batch holds the student's lock, so events *)
(* of a student are applied one after the other (SyncServer has batches,   *)
(* duplicates and refusals before this point).  The script takes no lock.  *)
(* A projection is a record, so that applying an event is an operator that *)
(* the handler and the replay share, as _apply_event is.                   *)
(***************************************************************************)
EXTENDS Integers, Sequences, FiniteSets, SequencesExt, FiniteSetsExt

CONSTANTS
    Students,   \* student ids
    Sessions,   \* session ids, global
    Attempts,   \* attempt ids, chosen by browsers
    Items,      \* questions of the content packs
    Events,     \* learning event ids
    Event,      \* Event[e]: what the event says, see EventRecord
    Skill,      \* Skill[i]: target skill of an item
    Difficulty, \* Difficulty[i]: 1..3
    None,
    Quiesced    \* TRUE: no events arrive that concern a learner who is being rebuilt

Skills == {Skill[i] : i \in Items}
Kinds == {"ANSWER_SUBMITTED", "SESSION_COMPLETED", "DIAGNOSTIC_STARTED",
          "WORKED_EXAMPLE_PRESENTED", "MICRO_LESSON_PRESENTED"}
Presentations == {"WORKED_EXAMPLE_PRESENTED", "MICRO_LESSON_PRESENTED"}

(* An answer names its attempt, item and hint level; `known` says that its
   question version can be scored, `correct` what that key says, `mapped` that
   the wrong choice names a misconception.  A presentation names the answer it
   follows (source) and its content; `approved` says that content, version,
   skill and misconception are those of an approved lesson of the pack. *)
EventRecord ==
    [kind: Kinds, student: Students, session: Sessions, device: Nat, sequence: Nat,
     occurred_at: Nat, attempt: Attempts \cup {None}, item: Items \cup {None},
     known: BOOLEAN, correct: BOOLEAN, mapped: BOOLEAN, hint: 0..3,
     source: Events \cup {None}, approved: BOOLEAN]

ASSUME ProjectionConstants ==
    /\ Event \in [Events -> EventRecord]
    /\ \A e \in Events : Event[e].kind = "ANSWER_SUBMITTED"
          => Event[e].item # None /\ Event[e].attempt # None
    /\ \A e \in Events : Event[e].kind \in Presentations => Event[e].source # None
    /\ Difficulty \in [Items -> 1..3]
    /\ Quiesced \in BOOLEAN

ASSUME NoneIsNothing == None \notin Students \cup Attempts \cup Items \cup Events

SessionStates == {"absent", "NEW", "QUESTION_ACTIVE", "ANSWER_EVALUATED", "SESSION_COMPLETED"}
NoSession == [owner |-> None, state |-> "absent"]

\* SkillState, its weights in 1/10000.
NoSkillState == [alpha |-> 20000, beta |-> 20000, evidence_count |-> 0,
                 correct_streak |-> 0, incorrect_streak |-> 0]

NoProjection ==
    [sessions |-> [s \in Sessions |-> NoSession],
     attempts |-> {},
     skills   |-> [t \in Students \X Skills |-> NoSkillState],
     evidence |-> {},
     conflicts |-> {}]

--------------------------------------------------------------------------------
\* _evidence_weight, rounded to four places.
EvidenceWeight(difficulty, hint, repeated) ==
    LET difficulty_weight == IF difficulty = 3 THEN 125 ELSE 100
        hint_multiplier == <<100, 85, 60, 30>>[hint + 1]
    IN  (difficulty_weight * hint_multiplier) \div (IF repeated THEN 2 ELSE 1)

\* SkillState.record_attempt.
RecordAttempt(state, correct, weight) ==
    [alpha |-> state.alpha + (IF correct THEN weight ELSE 0),
     beta |-> state.beta + (IF correct THEN 0 ELSE weight),
     evidence_count |-> state.evidence_count + 1,
     correct_streak |-> IF correct THEN state.correct_streak + 1 ELSE 0,
     incorrect_streak |-> IF correct THEN 0 ELSE state.incorrect_streak + 1]

\* _locked_session refuses the session of another student.
OwnsSession(p, e) == p.sessions[Event[e].session].owner \in {None, Event[e].student}

\* _ensure_session.
WithSession(p, e, default_state) ==
    IF p.sessions[Event[e].session] = NoSession
    THEN [p EXCEPT !.sessions[Event[e].session] =
             [owner |-> Event[e].student, state |-> default_state]]
    ELSE p

AttemptsOf(p, s) == {a \in p.attempts : a.student = s}

\* Rows with exactly the event's attempt_id in its session: none or one.
PriorSameAttempt(p, e) ==
    {a \in AttemptsOf(p, Event[e].student) :
        a.session = Event[e].session /\ a.attempt = Event[e].attempt /\ a.dup = 0}

PriorSameItem(p, e) ==
    {a \in AttemptsOf(p, Event[e].student) :
        a.session = Event[e].session /\ a.item = Event[e].item /\ a.valid}

\* `#dup1` is appended for a second event with the attempt_id.
StoredDup(p, e) == Cardinality(PriorSameAttempt(p, e))

\* attempt_id is the primary key of answer_attempts.
AttemptIdTaken(p, e) ==
    \E a \in p.attempts : a.attempt = Event[e].attempt /\ a.dup = StoredDup(p, e)

AttemptOfAnother(p, e) ==
    \E a \in p.attempts : /\ a.attempt = Event[e].attempt /\ a.dup = 0
                          /\ a.student # Event[e].student

IsLate(p, e) == p.sessions[Event[e].session].state = "SESSION_COMPLETED"
HasAttempt(p, e) == \E a \in p.attempts : a.event = e

AttemptRow(p, e) ==
    [event |-> e, attempt |-> Event[e].attempt, dup |-> StoredDup(p, e),
     student |-> Event[e].student, session |-> Event[e].session, item |-> Event[e].item,
     correct |-> Event[e].correct, valid |-> PriorSameAttempt(p, e) = {},
     weight |-> IF PriorSameAttempt(p, e) # {} THEN 0
                ELSE EvidenceWeight(Difficulty[Event[e].item], Event[e].hint,
                                    PriorSameItem(p, e) # {})]

\* Mutant: the second event counts.
WithDuplicateCounted(p, e) ==
    [p EXCEPT !.attempts = @ \cup {AttemptRow(p, e)},
              !.skills[<<Event[e].student, Skill[Event[e].item]>>] =
                  RecordAttempt(@, Event[e].correct, 10000)]

\* A second event with an attempt_id: a row that scores nothing, and a conflict.
WithDuplicate(p, e) ==
    [p EXCEPT !.attempts = @ \cup {AttemptRow(p, e)},
              !.conflicts = @ \cup {<<e, "ATTEMPT_ALREADY_SCORED">>}]

\* _update_skill_state
WithMastery(p, row) ==
    [p EXCEPT !.skills[<<row.student, Skill[row.item]>>] =
                  RecordAttempt(@, row.correct, row.weight)]

\* _record_misconception_evidence, for a choice that names one.
WithEvidence(p, e) ==
    IF ~Event[e].correct /\ Event[e].mapped THEN [p EXCEPT !.evidence = @ \cup {e}] ELSE p

\* _record_conflict
WithConflicts(p, e, types) == [p EXCEPT !.conflicts = @ \cup ({e} \X types)]

\* _transition_session: a completed session stays.
Transitioned(p, session, target) ==
    IF p.sessions[session].state = "SESSION_COMPLETED" THEN p
    ELSE [p EXCEPT !.sessions[session].state = target]

\* A valid answer moves mastery and the evidence of misconceptions; it moves the
\* session unless it is late.
Scored(p, e, types) ==
    LET row == AttemptRow(p, e)
        inserted == WithMastery([p EXCEPT !.attempts = @ \cup {row}], row)
    IN  Transitioned(WithConflicts(WithEvidence(inserted, e), e, types),
                     row.session, "ANSWER_EVALUATED")

ParallelTypes(p, e) == IF PriorSameItem(p, e) # {} THEN {"PARALLEL_ATTEMPT_DETECTED"} ELSE {}
LateTypes(p, e) == IF IsLate(p, e) THEN {"SUMMARY_REVISED"} ELSE {}

\* Mutant: late answers are not marked.
WithScoredUnmarked(p, e) == Scored(p, e, ParallelTypes(p, e))

WithScored(p, e) == Scored(p, e, ParallelTypes(p, e) \cup LateTypes(p, e))

\* The transactional part of _apply_answer_submitted.
AnswerApplied(p, e) ==
    LET q == WithSession(p, e, "QUESTION_ACTIVE")
    IN  IF HasAttempt(q, e) THEN q
        ELSE IF PriorSameAttempt(q, e) # {} THEN WithDuplicate(q, e)
        ELSE WithScored(q, e)

\* _apply_session_completed.
CompletionApplied(p, e) ==
    [p EXCEPT !.sessions[Event[e].session] =
        [owner |-> Event[e].student, state |-> "SESSION_COMPLETED"]]

Applied(p, e) ==
    CASE Event[e].kind = "ANSWER_SUBMITTED" -> AnswerApplied(p, e)
      [] Event[e].kind = "SESSION_COMPLETED" -> CompletionApplied(p, e)
      [] OTHER -> WithSession(p, e, "NEW")

\* QuestionVersionError: reported as rejected, nothing is written.
IsUnscorable(e) == Event[e].kind = "ANSWER_SUBMITTED" /\ ~Event[e].known

\* EventValidationError: a session or an attempt of another student.
IsForeign(p, e) ==
    \/ ~OwnsSession(p, e)
    \/ Event[e].kind = "ANSWER_SUBMITTED" /\ ~HasAttempt(p, e) /\ AttemptOfAnother(p, e)

\* The insert meets a row of the same student with the stored attempt id:
\* _global_id_collision has no verdict, the error ends the batch.
Aborts(p, e) ==
    /\ Event[e].kind = "ANSWER_SUBMITTED"
    /\ ~IsUnscorable(e) /\ ~IsForeign(p, e) /\ ~HasAttempt(p, e)
    /\ AttemptIdTaken(p, e)

\* A batch rejects the first two alone and dies of the third.
IsApplicable(p, e) == ~IsUnscorable(e) /\ ~IsForeign(p, e) /\ ~Aborts(p, e)

--------------------------------------------------------------------------------
VARIABLES
    log,        \* learning_events in the order they were received
    projection, \* the projection tables
    script,     \* the run of the script for one student
    torn        \* students whose projections a script cleared and did not finish

projectionVars == <<log, projection, script, torn>>

NoScript == [student |-> None, events |-> <<>>, cleared |-> FALSE]

Stored == {log[i] : i \in DOMAIN log}

ProjectionTypeOK ==
    /\ log \in Seq(Events) /\ IsInjective(log)
    /\ projection.sessions \in
          [Sessions -> [owner: Students \cup {None}, state: SessionStates]]
    /\ \A s \in Sessions : projection.sessions[s].owner = None
                              <=> projection.sessions[s].state = "absent"
    /\ projection.skills \in
          [Students \X Skills -> [alpha: Nat, beta: Nat, evidence_count: Nat,
                                  correct_streak: Nat, incorrect_streak: Nat]]
    /\ projection.evidence \subseteq Events
    /\ script.student \in Students \cup {None} /\ script.cleared \in BOOLEAN
    /\ script.events # <<>> => script.student # None
    /\ torn \in SUBSET Students

ProjectionInit ==
    /\ log = <<>>
    /\ projection = NoProjection
    /\ script = NoScript
    /\ torn = {}

\* Sequences of a device arrive in order (SyncServer: WatermarkExact).
InDeviceOrder(e) ==
    \A f \in Stored : Event[f].device = Event[e].device
                         => Event[f].sequence < Event[e].sequence

\* No script is at work on the projections of s, or has left them half done.
Settled(s) == script.student # s /\ s \notin torn

\* An event of the learner, or of a session that her stored events name.
Concerns(e, s) ==
    \/ Event[e].student = s
    \/ \E f \in Stored : Event[f].student = s /\ Event[f].session = Event[e].session

MayArrive(e) ==
    /\ e \notin Stored
    /\ InDeviceOrder(e)
    /\ Quiesced => \A s \in Students : Concerns(e, s) => Settled(s)

\* The row of learning_events and the projections, in one transaction.
Store(e) ==
    /\ MayArrive(e)
    /\ IsApplicable(projection, e)
    /\ log' = Append(log, e)
    /\ projection' = Applied(projection, e)
    /\ UNCHANGED <<script, torn>>

--------------------------------------------------------------------------------
(* scripts/rebuild_learner_projections.py                                  *)

\* ORDER BY occurred_at, received_at: by the device's clock, then by arrival.
ReplayedBefore(i, j) ==
    \/ Event[log[i]].occurred_at < Event[log[j]].occurred_at
    \/ Event[log[i]].occurred_at = Event[log[j]].occurred_at /\ i < j

EventsFor(s) ==
    LET theirs == {i \in DOMAIN log : Event[log[i]].student = s}
        Rank(i) == 1 + Cardinality({j \in theirs : ReplayedBefore(j, i)})
    IN  [n \in 1..Cardinality(theirs) |-> log[CHOOSE i \in theirs : Rank(i) = n]]

\* _events_for, before anything is cleared.
StartScript(s) ==
    /\ script.student = None
    /\ EventsFor(s) # <<>>
    /\ script' = [student |-> s, events |-> EventsFor(s), cleared |-> FALSE]
    /\ UNCHANGED <<log, projection, torn>>

\* Mutant: mastery is kept from before.
ClearedButSkills(p, s) ==
    [p EXCEPT
        !.sessions = [t \in Sessions |-> IF p.sessions[t].owner = s THEN NoSession
                                         ELSE p.sessions[t]],
        !.attempts = {a \in @ : a.student # s},
        !.evidence = {e \in @ : Event[e].student # s},
        !.conflicts = {c \in @ : Event[c[1]].student # s}]

Cleared(p, s) ==
    [p EXCEPT
        !.sessions = [t \in Sessions |-> IF p.sessions[t].owner = s THEN NoSession
                                         ELSE p.sessions[t]],
        !.attempts = {a \in @ : a.student # s},
        !.skills = [t \in Students \X Skills |-> IF t[1] = s THEN NoSkillState
                                                 ELSE p.skills[t]],
        !.evidence = {e \in @ : Event[e].student # s},
        !.conflicts = {c \in @ : Event[c[1]].student # s}]

\* _clear_projections, a transaction of its own.
ClearProjections ==
    /\ script.student # None /\ ~script.cleared
    /\ projection' = Cleared(projection, script.student)
    /\ script' = [script EXCEPT !.cleared = TRUE]
    /\ torn' = torn \cup {script.student}
    /\ UNCHANGED log

\* The next event, a transaction of its own.  An answer that cannot be scored is
\* only reported; every other refusal raises and ends the script (ScriptDies).
ReplayEvent ==
    /\ script.cleared /\ script.events # <<>>
    /\ LET e == Head(script.events) IN
          IF IsUnscorable(e) THEN UNCHANGED projection
          ELSE IsApplicable(projection, e) /\ projection' = Applied(projection, e)
    /\ script' = [script EXCEPT !.events = Tail(@)]
    /\ UNCHANGED <<log, torn>>

EndScript ==
    /\ script.cleared /\ script.events = <<>>
    /\ script' = NoScript
    /\ torn' = torn \ {script.student}
    /\ UNCHANGED <<log, projection>>

\* Killed, or ended by an event that raises: what was replayed stays.
ScriptDies ==
    /\ script.student # None
    /\ script' = NoScript
    /\ UNCHANGED <<log, projection, torn>>

ScriptNext ==
    \/ \E s \in Students : StartScript(s)
    \/ ClearProjections \/ ReplayEvent \/ EndScript \/ ScriptDies

--------------------------------------------------------------------------------
RowsOf(p, s) ==
    [sessions |-> {<<t, p.sessions[t].state>> :
                      t \in {u \in Sessions : p.sessions[u].owner = s}},
     attempts |-> AttemptsOf(p, s),
     skills |-> [k \in Skills |-> p.skills[<<s, k>>]],
     evidence |-> {e \in p.evidence : Event[e].student = s},
     conflicts |-> {c \in p.conflicts : Event[c[1]].student = s}]

Replayed(events) == FoldLeft(Applied, NoProjection, events)

\* The projections are those of the log: rebuilding them, also after scripts
\* that died half way, gives what the batches had made of the same events.
ProjectionIsOfLog ==
    \A s \in Students : Settled(s) => RowsOf(projection, s) = RowsOf(Replayed(log), s)

ScoredRows(p, s, k) == {a \in AttemptsOf(p, s) : a.valid /\ Skill[a.item] = k}
Right(R) == {a \in R : a.correct}
Wrong(R) == {a \in R : ~a.correct}
WeightOf(R) == MapThenSumSet(LAMBDA a : a.weight, R)

\* Of the prior, of the weights of right and wrong answers, of their number.
IsMastery(state, R) ==
    /\ state.alpha = 20000 + WeightOf(Right(R))
    /\ state.beta = 20000 + WeightOf(Wrong(R))
    /\ state.evidence_count = Cardinality(R)

\* Mastery is the scored answers and nothing else: no answer counts twice, none
\* counts that has no row, through duplicates, repeats and scripts that die.
MasteryIsEvidence ==
    \A s \in Students, k \in Skills :
        IsMastery(projection.skills[<<s, k>>], ScoredRows(projection, s, k))

\* Of two valid answers to an item one is marked, and weighs half.
RepeatsWeighLess(a, b) ==
    \E c \in {a, b} :
        /\ <<c.event, "PARALLEL_ATTEMPT_DETECTED">> \in projection.conflicts
        /\ 2 * c.weight <= EvidenceWeight(Difficulty[c.item], Event[c.event].hint, FALSE)

\* docs/SYNC_PROTOCOL.md 6.2, 6.3, 6.5, also when the log is replayed: of the
\* answers with one attempt_id only the first is scored; a second one to an item
\* weighs less; one received after its session's summary is marked as a revision.
ConflictsAreTold ==
    /\ \A a, b \in projection.attempts :
          a # b /\ a.valid /\ b.valid /\ a.student = b.student /\ a.session = b.session =>
              a.attempt # b.attempt /\ (a.item = b.item => RepeatsWeighLess(a, b))
    /\ \A a \in projection.attempts : a.valid /\ Settled(a.student) =>
          \A i, j \in DOMAIN log :
              /\ i < j /\ log[j] = a.event
              /\ Event[log[i]].kind = "SESSION_COMPLETED" /\ Event[log[i]].session = a.session
              => <<a.event, "SUMMARY_REVISED">> \in projection.conflicts

\* docs/SYNC_PROTOCOL.md 6.2: later submissions with an attempt_id are retained;
\* section 5: an invalid event does not invalidate others of its batch.
NoEventAbortsItsBatch == \A e \in Events : MayArrive(e) => ~Aborts(projection, e)

\* The weights of docs/PEDAGOGY_SPEC.md 7.2 and of EvidenceWeight in
\* app/domain/learner.py.
DocumentedWeight(difficulty, hint, repeated) ==
    (<<75, 100, 125>>[difficulty] * <<100, 80, 55, 30>>[hint + 1]
        * (IF repeated THEN 35 ELSE 100)) \div 100

\* docs/PEDAGOGY_SPEC.md 7.2: what an answer weighs, the repeated ones included.
WeightsAreDocumented ==
    \A a \in projection.attempts : a.valid =>
        a.weight = DocumentedWeight(Difficulty[a.item], Event[a.event].hint,
                      <<a.event, "PARALLEL_ATTEMPT_DETECTED">> \in projection.conflicts)

\* docs/SYNC_PROTOCOL.md 13: uploads in any order reach the same projection, here
\* the mastery of devices that upload independently.
UploadOrderIrrelevant ==
    Stored = Events /\ (\A s \in Students : Settled(s)) =>
        projection.skills = Replayed(SetToSortSeq(Events, LAMBDA e, f :
                               Event[e].occurred_at < Event[f].occurred_at)).skills
================================================================================
