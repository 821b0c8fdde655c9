------------------------------- MODULE Practice -------------------------------
(***************************************************************************)
(* The tutoring page of the browser (web/app.js with the pure functions of *)
(* web/offline-core.js): the diagnostic, practice sessions, the feedback   *)
(* to an answer, first from the browser's own policy and later from the    *)
(* server, and the session kept in IndexedDB for a reload.                 *)
(*                                                                         *)
(* Left out, because nothing here reads them: the hints, the mastery kept  *)
(* in the browser, the count of misconceptions and the time spent.         *)
(*                                                                         *)
(* The page runs one piece of code at a time, up to an await.  What waits  *)
(* for the put of an event is in enqueuing, what waits for a put of the    *)
(* session in saving; the browser does the puts of one store in order.     *)
(* What waits for the network is in syncing, and is answered in any order. *)
(* Delivery of the events is OfflineSync; here a synchronization that      *)
(* succeeds has stored every answer queued so far.                         *)
(***************************************************************************)
EXTENDS Integers, Sequences, FiniteSets, Functions

CONSTANTS
    Questions,        \* of the installed pack
    SkillOf,          \* the target skill of a question
    Sessions,         \* ids of sessions
    Answers,          \* ids of ANSWER_SUBMITTED events
    Lessons,          \* the lessons a decision may name
    DiagnosticItems,  \* DIAGNOSTIC_ITEM_COUNT
    ServerActions,    \* the actions the server may decide
    Details,          \* <<ranked, validated>> of the server's decisions
    FirstPhase,       \* the phase in which the page is found
    MaxTasks,         \* bound on the tasks waiting for IndexedDB at one place: with
                      \* 1, a put is over before the next click
    MaxCalls,         \* bound on the calls of attemptSync under way
    None

Teaching == {"SHOW_WORKED_EXAMPLE", "SHOW_MICRO_LESSON"}

ASSUME PracticeConstants ==
    /\ SkillOf \in [Questions -> Range(SkillOf)]
    /\ Questions # {}
    /\ DiagnosticItems \in Nat \ {0}
    /\ ServerActions \subseteq Teaching \cup {"RETRY_SAME_SKILL", "END_WITH_REVIEW"}
    /\ Details \subseteq BOOLEAN \X BOOLEAN
    /\ FirstPhase \in {"diagnostic", "practice"}
    /\ MaxTasks \in Nat \ {0}
    /\ MaxCalls \in Nat \ {0}

VARIABLES
    page,       \* the variables of app.js and what the screen offers
    enqueuing,  \* tasks in enqueueEvent, first put first
    saving,     \* tasks in a put or delete of active_session
    syncing,    \* tasks waiting for the network
    active,     \* the row of active_session
    queue,      \* the events that have been put in pending_events
    stored      \* the answers the server has

vars == <<page, enqueuing, saving, syncing, active, queue, stored>>

Skills == Range(SkillOf)

-----------------------------------------------------------------------------
(* Decisions and feedback. *)

\* A decision of the browser (no source yet) or of the server.
Decision(action, source, lesson, ranked, validated) ==
    [action |-> action, source |-> source, lesson |-> lesson,
     ranked |-> ranked, validated |-> validated]

NoFeedback == [source |-> None, local |-> None, server |-> None]

\* What the feedback on the screen says: the server's decision if there is one.
Shown(feedback) ==
    IF feedback.server # None THEN feedback.server ELSE feedback.local

Ends(feedback) ==
    /\ feedback # None
    /\ Shown(feedback) # None
    /\ Shown(feedback).action = "END_WITH_REVIEW"

(* localAgentDecision: with no time left the session ends; an episode      *)
(* recalled or a misconception seen twice asks for a worked example.       *)
(* Which of these holds is data.                                           *)
LocalActions == {"END_WITH_REVIEW", "SHOW_WORKED_EXAMPLE", "RETRY_SAME_SKILL"}

AnswersOf(events) == {e.id : e \in {f \in events : f.type = "ANSWER_SUBMITTED"}}

-----------------------------------------------------------------------------
(* The page. *)

\* resetSession
ResetSession(p, session, phase) ==
    [p EXCEPT !.sessionId = session, !.answered = {},
              !.sessionStarted = FALSE, !.sessionPhase = phase,
              !.currentAnswerEventId = None, !.feedbackState = None,
              !.nextActionConstraint = None,
              !.diagnosticAnswers = IF phase = "diagnostic" THEN <<>> ELSE @,
              !.area = "question"]

BlankPage ==
    [sessionId |-> None, sessionPhase |-> "diagnostic", sessionStarted |-> FALSE,
     currentQuestion |-> None, answered |-> {},
     currentAnswerEventId |-> None, feedbackState |-> None,
     nextActionConstraint |-> None, diagnosticAnswers |-> <<>>,
     presentedInterventions |-> {},
     area |-> "question",   \* the section that is not hidden
     rendered |-> None,     \* the question whose choices can be clicked
     next |-> FALSE]        \* the next button is there

\* createActiveSessionSnapshot
Persisted ==
    {"sessionId", "sessionPhase", "currentQuestion", "answered",
     "feedbackState", "nextActionConstraint", "diagnosticAnswers"}

Snapshot(p, stage) ==
    [f \in Persisted \cup {"stage"} |-> IF f = "stage" THEN stage ELSE p[f]]

Persist(p, stage, then) == [row |-> Snapshot(p, stage), then |-> then]

RenderQuestion(p) == [p EXCEPT !.rendered = p.currentQuestion, !.next = FALSE]
RenderAnswerFeedback(p) == [p EXCEPT !.rendered = None, !.next = TRUE]

(* restoreActiveSessionSnapshot and what init does with it. *)
Restored(row) ==
    LET p == [f \in DOMAIN BlankPage |->
                IF f \in Persisted THEN row[f] ELSE BlankPage[f]]
        q == [p EXCEPT !.sessionStarted = TRUE,
                       !.currentAnswerEventId =
                            IF p.feedbackState = None THEN None ELSE p.feedbackState.source]
    IN  CASE row.stage = "diagnostic_complete" -> [q EXCEPT !.area = "diagnostic"]
          [] row.stage = "feedback" /\ q.feedbackState # None ->
                RenderAnswerFeedback(RenderQuestion(q))
          [] OTHER -> RenderQuestion(q)

-----------------------------------------------------------------------------
(* Choosing and presenting a question. *)

Sampled(p) == Range(p.diagnosticAnswers)

\* The first in an order that stays the same: of the pack, or by difficulty.
FirstOf(questions) == CHOOSE q \in questions : TRUE

(* pickDiagnosticQuestion, and pickNextQuestion: the skill asked for, or   *)
(* the weakest one; which skill that is, is data.                          *)
Pickable(p) ==
    IF p.sessionPhase = "diagnostic"
    THEN LET open == {q \in Questions : SkillOf[q] \notin Sampled(p)}
         IN  IF open = {} THEN {} ELSE {FirstOf(open)}
    ELSE LET eligible == Questions \ p.answered
             of(k) == {q \in eligible : SkillOf[q] = k}
             open == {k \in Skills : of(k) # {}}
         IN  {FirstOf(of(k)) : k \in IF p.nextActionConstraint \in open
                                     THEN {p.nextActionConstraint} ELSE open}

Put(event, then) ==
    [event |-> event, then |-> then, item |-> None, local |-> None]
Event(type, session) == [type |-> type, session |-> session]
ContentPresented(session, item) ==
    [type |-> "CONTENT_PRESENTED", session |-> session, question |-> item]

FinishPut(p) == Put(Event("SESSION_COMPLETED", p.sessionId), "completed")
DiagnosedPut(p) ==
    Put([type |-> "DIAGNOSTIC_COMPLETED", session |-> p.sessionId,
         skills |-> Sampled(p)], "diagnosed")

(* presentQuestion up to its first await: p is the page before it.  With   *)
(* no question left it ends the diagnostic or the session.                 *)
Exhausted(p) ==
    /\ Pickable(p) = {}
    /\ page' = p
    /\ enqueuing' = Append(enqueuing,
         IF p.sessionPhase = "diagnostic" THEN DiagnosedPut(p) ELSE FinishPut(p))

PresentQuestion(p) ==
    \E item \in Pickable(p) :
        /\ page' = [p EXCEPT !.currentQuestion = item, !.nextActionConstraint = None,
                             !.currentAnswerEventId = None, !.feedbackState = None,
                             !.sessionStarted = TRUE]
        /\ enqueuing' = Append(enqueuing,
             IF p.sessionPhase = "diagnostic" /\ ~p.sessionStarted
             THEN [Put(Event("DIAGNOSTIC_STARTED", p.sessionId), "started")
                        EXCEPT !.item = item]
             ELSE Put(ContentPresented(p.sessionId, item), "presented"))

-----------------------------------------------------------------------------
(* The server's decisions on the page. *)

\* The bound on the tasks waiting for IndexedDB.
Room(tasks) == Len(tasks) < MaxTasks

\* consumeAgentEvents looks for the decision on this answer.
ExpectedSource(p) ==
    IF p.currentAnswerEventId # None THEN p.currentAnswerEventId
    ELSE IF p.feedbackState # None THEN p.feedbackState.source
    ELSE None

\* Mutant: only a ranked decision is kept.
DowngradesRank(p, decision) ==
    /\ p.feedbackState # None
    /\ p.feedbackState.server # None
    /\ p.feedbackState.server.source = decision.source
    /\ p.feedbackState.server.ranked /\ ~decision.ranked

\* A decision that was ranked, or tells of a validated episode, is kept.
Downgrades(p, decision) ==
    /\ p.feedbackState # None
    /\ p.feedbackState.server # None
    /\ p.feedbackState.server.source = decision.source
    /\ \/ p.feedbackState.server.ranked /\ ~decision.ranked
       \/ p.feedbackState.server.validated /\ ~decision.validated

\* Mutant: any decision is taken while one is expected.
IsConsumedAnyway(p, decision) ==
    /\ decision # None
    /\ p.sessionPhase = "practice"
    /\ ExpectedSource(p) # None
    /\ ~Downgrades(p, decision)

IsConsumed(p, decision) ==
    /\ decision # None
    /\ p.sessionPhase = "practice"
    /\ ExpectedSource(p) # None
    /\ decision.source = ExpectedSource(p)
    /\ ~Downgrades(p, decision)

\* recordPresentedIntervention: its early returns, and the event.
SourceOf(p, decision) ==
    IF decision.source # None THEN decision.source ELSE p.currentAnswerEventId

IsRecorded(p, decision) ==
    /\ decision # None
    /\ decision.action \in Teaching
    /\ decision.lesson # None
    /\ SourceOf(p, decision) # None
    /\ <<SourceOf(p, decision), decision.lesson>> \notin p.presentedInterventions

Record(p, decision) ==
    [p EXCEPT !.presentedInterventions = @ \cup {<<SourceOf(p, decision), decision.lesson>>}]

PresentedPut(p, decision, then) ==
    Put([type |-> "INTERVENTION_PRESENTED", session |-> p.sessionId,
         source |-> SourceOf(p, decision), lesson |-> decision.lesson], then)

(* consumeAgentEvents: the decision is shown, the session put without      *)
(* waiting, and the presentation recorded.                                 *)
Consume(p, decision) ==
    IF ~IsConsumed(p, decision)
    THEN page' = p /\ UNCHANGED <<enqueuing, saving>>
    ELSE Room(saving) /\ Room(enqueuing) /\
         LET before == IF p.feedbackState = None THEN NoFeedback ELSE p.feedbackState
             shown == [p EXCEPT !.feedbackState = [before EXCEPT !.server = decision],
                                !.nextActionConstraint =
                                    IF decision.action = "END_WITH_REVIEW" THEN @
                                    ELSE SkillOf[p.currentQuestion]]
         IN  /\ saving' = Append(saving, Persist(shown, "feedback", "none"))
             /\ IF IsRecorded(shown, decision)
                THEN /\ page' = Record(shown, decision)
                     /\ enqueuing' = Append(enqueuing,
                            PresentedPut(shown, decision, "recordedServer"))
                ELSE page' = shown /\ UNCHANGED enqueuing

\* The decisions the server may send: on any answer it has, or none.
ServerDecisions(details) ==
    {None} \cup
    {Decision(action, a, lesson, d[1], d[2]) :
        action \in ServerActions, a \in stored', lesson \in Lessons, d \in details}

-----------------------------------------------------------------------------
(* What the learner does. *)

Unused(session) ==
    /\ session # page.sessionId
    /\ \A e \in queue \cup {enqueuing[i].event : i \in DOMAIN enqueuing} :
            e.session # session
    /\ \A i \in DOMAIN saving : saving[i].row # None => saving[i].row.sessionId # session
    /\ active # None => active.sessionId # session

\* submitAnswer up to its first await.
SubmitAnswer(answer) ==
    LET item == page.currentQuestion
        skill == SkillOf[item]
    IN  /\ page.area = "question" /\ page.rendered # None
        /\ Room(enqueuing)
        /\ answer \notin AnswersOf(queue \cup {enqueuing[i].event : i \in DOMAIN enqueuing})
        /\ \E action \in LocalActions, lesson \in Lessons :
            LET local == Decision(action, None, lesson, FALSE, FALSE)
            IN  /\ page' = [page EXCEPT
                     !.answered = @ \cup {item},
                     !.diagnosticAnswers =
                        IF page.sessionPhase = "diagnostic" THEN Append(@, skill) ELSE @,
                     !.nextActionConstraint =
                        IF local.action = "END_WITH_REVIEW" THEN None ELSE skill,
                     !.feedbackState = [NoFeedback EXCEPT !.local = local]]
                /\ enqueuing' = Append(enqueuing,
                     [Put([type |-> "ANSWER_SUBMITTED", session |-> page.sessionId,
                           id |-> answer, question |-> item], "answered")
                        EXCEPT !.local = local])
        /\ UNCHANGED <<saving, syncing, active, queue, stored>>

\* The next button: it stays until the next question is rendered.
ClickNext ==
    /\ page.area = "question" /\ page.next
    /\ Room(enqueuing)
    /\ CASE page.sessionPhase = "diagnostic"
                /\ Len(page.diagnosticAnswers) >= DiagnosticItems ->
                page' = page /\ enqueuing' = Append(enqueuing, DiagnosedPut(page))
         [] page.sessionPhase = "practice" /\ Ends(page.feedbackState) ->
                page' = page /\ enqueuing' = Append(enqueuing, FinishPut(page))
         [] OTHER -> Exhausted(page) \/ PresentQuestion(page)
    /\ UNCHANGED <<saving, syncing, active, queue, stored>>

\* The end button, there in practice at any time, clicked once: finishSession.
ClickEnd ==
    /\ page.area = "question" /\ page.sessionPhase = "practice"
    /\ Room(enqueuing)
    /\ \A task \in syncing : task.then # "finish"
    /\ enqueuing' = Append(enqueuing, FinishPut(page))
    /\ UNCHANGED <<page, saving, syncing, active, queue, stored>>

\* The buttons under the two summaries: a new session of practice.
ClickStart(session) ==
    /\ page.area \in {"diagnostic", "session"}
    /\ Room(enqueuing)
    /\ Unused(session)
    /\ PresentQuestion(ResetSession(page, session, "practice"))
    /\ UNCHANGED <<saving, syncing, active, queue, stored>>

-----------------------------------------------------------------------------
(* What runs when an event has been put. *)

Call(then) == [at |-> "sync", then |-> then, served |-> {}]

\* attemptSync is called; the bound on the calls under way.
Calls(then) ==
    /\ Cardinality(syncing) < MaxCalls
    /\ syncing' = syncing \cup {Call(then)}

\* The rows of pending_events that something looks at.
Kept == {e \in {Head(enqueuing).event} : e.type # "CONTENT_PRESENTED"}
Awaited(then) ==
    /\ enqueuing # <<>>
    /\ Head(enqueuing).then = then
    /\ Room(saving)
    /\ queue' = queue \cup Kept

\* DIAGNOSTIC_STARTED has been put: CONTENT_PRESENTED follows.
AfterStarted ==
    /\ Awaited("started")
    /\ enqueuing' = Append(Tail(enqueuing),
            Put(ContentPresented(page.sessionId, Head(enqueuing).item), "presented"))
    /\ UNCHANGED <<page, saving, syncing, active, stored>>

\* renderQuestion shows what is the current question by now.
AfterPresented ==
    /\ Awaited("presented")
    /\ page' = RenderQuestion(page)
    /\ enqueuing' = Tail(enqueuing)
    /\ saving' = Append(saving, Persist(page', "question_active", "none"))
    /\ UNCHANGED <<syncing, active, stored>>

(* submitAnswer goes on: the answer is what decisions are expected for,    *)
(* its feedback is shown, and when offline its presentation is recorded.   *)
(* Without a feedback (the learner went on) it throws.                     *)
AfterAnswer ==
    /\ Awaited("answered")
    /\ LET task == Head(enqueuing)
           expecting == [page EXCEPT !.currentAnswerEventId = task.event.id]
           local == [task.local EXCEPT !.source = task.event.id]
           told == RenderAnswerFeedback(
                    [expecting EXCEPT !.feedbackState.source = task.event.id,
                                      !.feedbackState.local = local])
       IN  \E online \in BOOLEAN :
             IF page.feedbackState = None
             THEN /\ page' = expecting
                  /\ enqueuing' = Tail(enqueuing)
                  /\ UNCHANGED saving
             ELSE IF ~online /\ IsRecorded(told, local)
             THEN /\ page' = Record(told, local)
                  /\ enqueuing' = Append(Tail(enqueuing),
                         PresentedPut(told, local, "recordedOffline"))
                  /\ UNCHANGED saving
             ELSE /\ page' = told
                  /\ enqueuing' = Tail(enqueuing)
                  /\ saving' = Append(saving,
                         Persist(told, "feedback", IF online THEN "answer" ELSE "sync"))
    /\ UNCHANGED <<syncing, active, stored>>

\* The presentation has been put: the session is, or attemptSync called.
AfterRecorded ==
    /\ \/ /\ Awaited("recordedOffline")
          /\ saving' = Append(saving, Persist(page, "feedback", "sync"))
          /\ UNCHANGED syncing
       \/ /\ Awaited("recordedUnsynced")
          /\ saving' = Append(saving, Persist(page, "feedback", "none"))
          /\ UNCHANGED syncing
       \/ /\ Awaited("recordedServer")
          /\ Calls("none")
          /\ UNCHANGED saving
    /\ enqueuing' = Tail(enqueuing)
    /\ UNCHANGED <<page, active, stored>>

\* finishSession and completeDiagnostic call attemptSync.
AfterEnd ==
    /\ \/ Awaited("completed") /\ Calls("finish")
       \/ Awaited("diagnosed") /\ Calls("diagnostic")
    /\ enqueuing' = Tail(enqueuing)
    /\ UNCHANGED <<page, saving, active, stored>>

\* A put or delete of active_session is done; submitAnswer synchronizes.
Saved ==
    /\ saving # <<>>
    /\ active' = Head(saving).row
    /\ saving' = Tail(saving)
    /\ CASE Head(saving).then = "none" -> UNCHANGED syncing
         [] Head(saving).then = "sync" -> Calls("none")
         [] Head(saving).then = "answer" -> Calls("answer")
    /\ UNCHANGED <<page, enqueuing, queue, stored>>

-----------------------------------------------------------------------------
(* attemptSync, and what its callers do with the result. *)

\* A call whose caller does nothing more is over; the others go on.  Only
\* submitAnswer looks at which decisions came.
Moved(task, at, served) ==
    (syncing \ {task}) \cup
        (IF task.then = "none" /\ at = "done" THEN {}
         ELSE {[task EXCEPT !.at = at,
                            !.served = IF task.then = "answer" THEN served ELSE {}]})

\* Offline, nothing to send, an error, or a lost answer: no body.
SyncFails(task) ==
    /\ task.at = "sync"
    /\ stored' \in {stored, AnswersOf(queue)}
    /\ syncing' = Moved(task, "done", {})
    /\ UNCHANGED <<page, enqueuing, saving, active, queue>>

SyncOk(task) ==
    /\ task.at = "sync"
    /\ stored' = AnswersOf(queue)
    /\ \E decision \in ServerDecisions(Details) :
        /\ Consume(page, decision)
        /\ syncing' = Moved(task, "pull",
                IF decision = None THEN {} ELSE {decision.source})
    /\ UNCHANGED <<active, queue>>

\* pullSnapshot throws: attemptSync catches, and its result is null.
PullThrows(task) ==
    /\ task.at = "pull"
    /\ syncing' = Moved(task, "done", {})
    /\ UNCHANGED <<page, enqueuing, saving, active, queue, stored>>

\* A snapshot replays decisions; or none came.
PullOk(task) ==
    /\ task.at = "pull"
    /\ UNCHANGED stored
    /\ \/ UNCHANGED <<page, enqueuing, saving>>
       \/ \E decision \in ServerDecisions({<<FALSE, FALSE>>}) :
            Consume(page, decision)
    /\ syncing' = Moved(task, "done", task.served)
    /\ UNCHANGED <<active, queue>>

(* submitAnswer after attemptSync: online and not served a decision on the *)
(* answer that is current by now, it records its own; it throws when the   *)
(* learner has gone on.                                                    *)
AnswerSynced(task) ==
    /\ task.at = "done" /\ task.then = "answer"
    /\ syncing' = syncing \ {task}
    /\ LET own == page.feedbackState.local
       IN  CASE \/ page.currentAnswerEventId \in task.served
                \/ page.feedbackState = None ->
                    UNCHANGED <<page, enqueuing, saving>>
             [] page.currentAnswerEventId \notin task.served
                /\ page.feedbackState # None /\ IsRecorded(page, own) ->
                    /\ page' = Record(page, own)
                    /\ enqueuing' = Append(enqueuing,
                            PresentedPut(page, own, "recordedUnsynced"))
                    /\ UNCHANGED saving
             [] OTHER ->
                    /\ saving' = Append(saving, Persist(page, "feedback", "none"))
                    /\ UNCHANGED <<page, enqueuing>>
    /\ UNCHANGED <<active, queue, stored>>

\* finishSession: the snapshot if it comes, the summary, the row is deleted.
FinishSession(task) ==
    /\ task.at = "done" /\ task.then = "finish"
    /\ syncing' = syncing \ {task}
    /\ page' = [page EXCEPT !.area = "session"]
    /\ saving' = Append(saving, [row |-> None, then |-> "none"])
    /\ UNCHANGED <<enqueuing, active, queue, stored>>

\* completeDiagnostic: the plan (of the server or its own) replaces the feedback.
CompleteDiagnostic(task) ==
    /\ task.at = "done" /\ task.then = "diagnostic"
    /\ syncing' = syncing \ {task}
    /\ page' = [page EXCEPT !.feedbackState = NoFeedback, !.area = "diagnostic"]
    /\ saving' = Append(saving, Persist(page', "diagnostic_complete", "none"))
    /\ UNCHANGED <<enqueuing, active, queue, stored>>

\* The "online" listener.
Online ==
    /\ Calls("none")
    /\ UNCHANGED <<page, enqueuing, saving, active, queue, stored>>

-----------------------------------------------------------------------------
(* A page that starts with the diagnostic has called presentQuestion.      *)
StartPage(session) ==
    [ResetSession(BlankPage, session, "diagnostic")
        EXCEPT !.currentQuestion = FirstOf(Questions), !.sessionStarted = TRUE]
StartTasks(session) ==
    <<[Put(Event("DIAGNOSTIC_STARTED", session), "started")
        EXCEPT !.item = FirstOf(Questions)]>>

(* The page is closed at any point and opened again (init): with a row of  *)
(* active_session the session goes on, without one a diagnostic starts.    *)
(* Whatever was waiting is gone.                                           *)
Reload(session) ==
    /\ saving' = <<>>
    /\ syncing' = {Call("none")}
    /\ \/ /\ active # None
          /\ page' = Restored(active)
          /\ enqueuing' = <<>>
          /\ session = active.sessionId
       \/ /\ active = None
          /\ Unused(session)
          /\ page' = StartPage(session)
          /\ enqueuing' = StartTasks(session)
    /\ UNCHANGED <<active, queue, stored>>

\* createProfile and installPack have run: the diagnostic starts, or it is
\* over and the learner has clicked to practise.
Init ==
    /\ \E session \in Sessions :
        \/ /\ FirstPhase = "diagnostic"
           /\ page = StartPage(session)
           /\ enqueuing = StartTasks(session)
        \/ /\ FirstPhase = "practice"
           /\ \E item \in Pickable(ResetSession(BlankPage, session, "practice")) :
                /\ page = [ResetSession(BlankPage, session, "practice")
                              EXCEPT !.currentQuestion = item, !.sessionStarted = TRUE]
                /\ enqueuing = <<Put(ContentPresented(session, item), "presented")>>
    /\ saving = <<>>
    /\ syncing = {}
    /\ active = None
    /\ queue = {}
    /\ stored = {}

Task ==
    \/ AfterStarted \/ AfterPresented \/ AfterAnswer
    \/ AfterRecorded \/ AfterEnd \/ Saved
    \/ \E task \in syncing :
        \/ SyncFails(task) \/ SyncOk(task) \/ PullThrows(task) \/ PullOk(task)
        \/ AnswerSynced(task) \/ FinishSession(task) \/ CompleteDiagnostic(task)

Next ==
    \/ Task
    \/ \E answer \in Answers : SubmitAnswer(answer)
    \/ ClickNext \/ ClickEnd \/ Online
    \/ \E session \in Sessions : ClickStart(session) \/ Reload(session)

Spec == Init /\ [][Next]_vars

-----------------------------------------------------------------------------
(* Properties. *)

IsAnswer(e) == e.type = "ANSWER_SUBMITTED"

(* A decision of the server on the screen is about an answer to the        *)
(* question on the screen, given in this session: a response that comes    *)
(* after the learner went on, ended the session or reloaded changes        *)
(* nothing (consumeAgentEvents, app.js:652), as long as a put is over      *)
(* before the next click (MaxTasks = 1).                                   *)
FeedbackIsOwn ==
    page.feedbackState # None /\ page.feedbackState.server # None =>
        \E e \in queue :
            /\ IsAnswer(e)
            /\ e.id = page.feedbackState.server.source
            /\ e.question = page.currentQuestion
            /\ e.session = page.sessionId

(* An intervention is reported as presented only for an answer that was    *)
(* queued before, and in that answer's session; the server looks the       *)
(* answer up under both (recordPresentedIntervention, app.js:567).         *)
PresentationsFollowAnswers ==
    \A e \in queue : e.type = "INTERVENTION_PRESENTED" =>
        \E f \in queue : IsAnswer(f) /\ f.id = e.source /\ f.session = e.session

(* While the page is open, a decision that was ranked or tells of a        *)
(* validated episode is not replaced by a plain one on the same answer,    *)
(* in whatever order responses and snapshots arrive (app.js:659).          *)
RankedStays ==
    [][(\A session \in Sessions : ~Reload(session)) =>
        (page.feedbackState # None /\ page'.feedbackState # None =>
            LET now == page.feedbackState.server
                after == page'.feedbackState.server
            IN  now # None /\ after # None /\ now.source = after.source =>
                    (now.ranked => after.ranked) /\ (now.validated => after.validated))]_vars

(* A question is answered once in a session: a reload restores the session *)
(* with what has been answered in it (docs/ARCHITECTURE.md:1066).          *)
AnsweredOnce ==
    \A e, f \in queue : IsAnswer(e) /\ IsAnswer(f) =>
        (e.session = f.session /\ e.question = f.question => e = f)

(* A session whose completion is queued is not the one that a reload       *)
(* restores once its summary is shown: finishSession deletes the row of    *)
(* the active session (app.js:811).                                        *)
FinishedStaysFinished ==
    page.area = "session" /\ saving = <<>> =>
        (active = None \/ Event("SESSION_COMPLETED", active.sessionId) \notin queue)

(* What is reported as presented was shown (docs/SYNC_PROTOCOL.md:53):     *)
(* interventions are shown only in practice (app.js:542).                  *)
PresentedIsShown ==
    \A e \in queue : e.type = "INTERVENTION_PRESENTED" =>
        Event("DIAGNOSTIC_STARTED", e.session) \notin queue
================================================================================
