---------------------------- MODULE PracticeProofs ----------------------------
(***************************************************************************)
(* Proofs about the tutoring page, for any pack, any number of requests    *)
(* under way and, for the theorem on types and RankedStays, any number of  *)
(* tasks waiting for IndexedDB: what is shown is about the question on the *)
(* screen, a presentation follows its answer, a ranked decision stays.     *)
(***************************************************************************)
EXTENDS Practice, SequenceTheorems, TLAPS

-----------------------------------------------------------------------------
(* Types. *)

Phases == {"diagnostic", "practice"}
Stages == {"question_active", "feedback", "diagnostic_complete"}
Constraints == Skills \cup {None}
Sources == Answers \cup {None}

Decisions == [action : LocalActions \cup ServerActions, source : Sources,
              lesson : Lessons, ranked : BOOLEAN, validated : BOOLEAN]
Feedbacks == [source : Sources, local : Decisions \cup {None}, server : Decisions \cup {None}]

Pages == [sessionId : Sessions, sessionPhase : Phases, sessionStarted : BOOLEAN,
          currentQuestion : Questions, answered : SUBSET Questions,
          currentAnswerEventId : Sources, feedbackState : Feedbacks \cup {None},
          nextActionConstraint : Constraints, diagnosticAnswers : Seq(Skills),
          presentedInterventions : SUBSET (Answers \X Lessons),
          area : {"question", "diagnostic", "session"},
          rendered : Questions \cup {None}, next : BOOLEAN]

Rows == [sessionId : Sessions, sessionPhase : Phases, currentQuestion : Questions,
         answered : SUBSET Questions, feedbackState : Feedbacks \cup {None},
         nextActionConstraint : Constraints, diagnosticAnswers : Seq(Skills),
         stage : Stages]

AnswerEvents ==
    [type : {"ANSWER_SUBMITTED"}, session : Sessions, id : Answers, question : Questions]
PresentationEvents ==
    [type : {"INTERVENTION_PRESENTED"}, session : Sessions, source : Answers, lesson : Lessons]
OtherEvents ==
    [type : {"DIAGNOSTIC_STARTED", "SESSION_COMPLETED"}, session : Sessions]
        \cup [type : {"DIAGNOSTIC_COMPLETED"}, session : Sessions, skills : SUBSET Skills]
        \cup [type : {"CONTENT_PRESENTED"}, session : Sessions, question : Questions]
Events == AnswerEvents \cup PresentationEvents \cup OtherEvents

\* What waits for the put of an event.
PutTasks ==
    [event : AnswerEvents, then : {"answered"}, item : {None}, local : Decisions]
        \cup [event : PresentationEvents, item : {None}, local : {None},
              then : {"recordedOffline", "recordedUnsynced", "recordedServer"}]
        \cup [event : OtherEvents, item : Questions \cup {None}, local : {None},
              then : {"started", "presented", "completed", "diagnosed"}]

PutTask(t) == t \in PutTasks /\ (t.then = "started" => t.item \in Questions)

SaveTasks == [row : Rows \cup {None}, then : {"none", "sync", "answer"}]
SyncTasks == [at : {"sync", "pull", "done"}, served : SUBSET Answers,
              then : {"none", "answer", "finish", "diagnostic"}]

TypeOK ==
    /\ page \in Pages
    /\ enqueuing \in Seq(PutTasks)
    /\ \A t \in Range(enqueuing) : PutTask(t)
    /\ saving \in Seq(SaveTasks)
    /\ syncing \subseteq SyncTasks
    /\ active \in Rows \cup {None}
    /\ queue \subseteq Events
    /\ stored \subseteq Answers

-----------------------------------------------------------------------------
(* What belongs to the question on the screen: r is the page or a row.     *)

\* An answer a to the question of r, in its session, has been queued.
AnsweredIn(a, r, events) ==
    \E e \in events : /\ IsAnswer(e) /\ e.id = a
                      /\ e.session = r.sessionId /\ e.question = r.currentQuestion

Own(a, r, events) == a # None => AnsweredIn(a, r, events)

\* A feedback, with both decisions in it, is about answers to that question.
OwnFeedback(f, r, events) ==
    /\ Own(f.source, r, events)
    /\ f.local # None => Own(f.local.source, r, events)
    /\ f.server # None => AnsweredIn(f.server.source, r, events)

OwnsFeedback(r, events) == r.feedbackState # None => OwnFeedback(r.feedbackState, r, events)

\* The page, and each row that is kept or on its way there.
PageOwns(p, events) == OwnsFeedback(p, events) /\ Own(p.currentAnswerEventId, p, events)
RowOwns(row, events) == row # None => OwnsFeedback(row, events)

IsPreceded(e, events) ==
    e.type = "INTERVENTION_PRESENTED" =>
        \E f \in events : IsAnswer(f) /\ f.id = e.source /\ f.session = e.session

\* An answer on its way to the queue is one to the question on the screen; a
\* presentation on its way there has its answer there.
Pending(t, p, events) ==
    /\ t.then = "answered" => /\ t.event.session = p.sessionId
                              /\ t.event.question = p.currentQuestion
    /\ IsPreceded(t.event, events)

\* All that is shown, kept or on its way belongs to the answers among events.
OwnedIn(events) ==
    /\ PageOwns(page, events)
    /\ RowOwns(active, events)
    /\ \A t \in Range(saving) : RowOwns(t.row, events)
    /\ \A t \in Range(enqueuing) : Pending(t, page, events)

Belonging == OwnedIn(queue) /\ PresentationsFollowAnswers

-----------------------------------------------------------------------------
(* Sequences of tasks. *)

LEMMA AppendTask ==
  ASSUME NEW S, NEW s \in Seq(S), NEW t \in S
  PROVE  Append(s, t) \in Seq(S) /\ Range(Append(s, t)) = Range(s) \cup {t}
<1>1. /\ Append(s, t) \in Seq(S) /\ Len(s) \in Nat
      /\ DOMAIN s = 1..Len(s) /\ DOMAIN Append(s, t) = 1..(Len(s) + 1)
      /\ Append(s, t)[Len(s) + 1] = t
      /\ \A i \in 1..Len(s) : Append(s, t)[i] = s[i]
  OBVIOUS
<1>. QED  BY <1>1 DEF Range

LEMMA OneTask ==
  ASSUME NEW S, NEW t \in S
  PROVE  <<t>> \in Seq(S) /\ Range(<<t>>) = {t}
BY DEF Range

LEMMA HeadTask ==
  ASSUME NEW S, NEW s \in Seq(S), s # <<>>
  PROVE  /\ Head(s) \in S /\ Tail(s) \in Seq(S)
         /\ Head(s) \in Range(s) /\ Range(Tail(s)) \subseteq Range(s)
<1>1. /\ Len(s) \in Nat \ {0} /\ DOMAIN s = 1..Len(s) /\ Head(s) = s[1] /\ Head(s) \in S
      /\ Tail(s) \in Seq(S) /\ DOMAIN Tail(s) = 1..(Len(s) - 1)
      /\ \A i \in 1..(Len(s) - 1) : Tail(s)[i] = s[i + 1]
  OBVIOUS
<1>. QED  BY <1>1 DEF Range

LEMMA RangeOfTasks ==
  ASSUME NEW S, NEW s \in Seq(S)
  PROVE  Range(s) \subseteq S /\ (s = <<>> <=> Range(s) = {})
BY DEF Range

\* With MaxTasks = 1, there is room for a task when there is none.
LEMMA RoomIsEmpty ==
  ASSUME MaxTasks = 1, NEW S, NEW s \in Seq(S), Room(s)
  PROVE  s = <<>>
BY DEF Room

-----------------------------------------------------------------------------
(* Skills and questions. *)

LEMMA SkillTyped == ASSUME NEW q \in Questions PROVE SkillOf[q] \in Skills
BY PracticeConstants DEF Skills

LEMMA FirstTyped ==
  ASSUME NEW S \in SUBSET Questions, S # {}
  PROVE  FirstOf(S) \in S
BY DEF FirstOf

LEMMA PickableTyped ==
  ASSUME NEW p, p.sessionPhase \in Phases
  PROVE  Pickable(p) \subseteq Questions
<1>1. CASE p.sessionPhase = "diagnostic"
  BY <1>1, FirstTyped DEF Pickable
<1>2. CASE p.sessionPhase # "diagnostic"
  <2>. DEFINE eligible == Questions \ p.answered
              of(k) == {q \in eligible : SkillOf[q] = k}
              open == {k \in Skills : of(k) # {}}
  <2>1. \A k \in open : FirstOf(of(k)) \in Questions
    <3>. SUFFICES ASSUME NEW k \in open PROVE FirstOf(of(k)) \in Questions
      OBVIOUS
    <3>1. of(k) \in SUBSET Questions /\ of(k) # {}
      OBVIOUS
    <3>. QED  BY <3>1, FirstTyped
  <2>. QED  BY <1>2, <2>1 DEF Pickable
<1>. QED  BY <1>1, <1>2

-----------------------------------------------------------------------------
(* What the operators of the page make. *)

\* A snapshot, field by field.
LEMMA SnapshotTyped ==
  ASSUME NEW p \in Pages, NEW stage \in Stages, NEW then \in {"none", "sync", "answer"}
  PROVE  /\ Snapshot(p, stage) \in Rows
         /\ Snapshot(p, stage).sessionId = p.sessionId
         /\ Snapshot(p, stage).currentQuestion = p.currentQuestion
         /\ Snapshot(p, stage).feedbackState = p.feedbackState
         /\ Persist(p, stage, then) \in SaveTasks
         /\ Persist(p, stage, then).row = Snapshot(p, stage)
<1>1. Snapshot(p, stage) =
        [sessionId |-> p.sessionId, sessionPhase |-> p.sessionPhase,
         currentQuestion |-> p.currentQuestion, answered |-> p.answered,
         feedbackState |-> p.feedbackState, nextActionConstraint |-> p.nextActionConstraint,
         diagnosticAnswers |-> p.diagnosticAnswers, stage |-> stage]
  BY DEF Snapshot, Persisted
<1>2. Snapshot(p, stage) \in Rows
  BY <1>1 DEF Rows, Pages
<1>. QED  BY <1>1, <1>2 DEF Persist, SaveTasks

\* The page before any session.
BlankPages == [sessionId : Sessions \cup {None}, sessionPhase : Phases, sessionStarted : BOOLEAN,
               currentQuestion : Questions \cup {None}, answered : SUBSET Questions,
               currentAnswerEventId : Sources, feedbackState : Feedbacks \cup {None},
               nextActionConstraint : Constraints, diagnosticAnswers : Seq(Skills),
               presentedInterventions : SUBSET (Answers \X Lessons),
               area : {"question", "diagnostic", "session"},
               rendered : Questions \cup {None}, next : BOOLEAN]

LEMMA BlankTyped == BlankPage \in BlankPages
<1>1. <<>> \in Seq(Skills)
  OBVIOUS
<1>. QED  BY <1>1 DEF BlankPage, BlankPages, Phases, Constraints, Sources

LEMMA RestoredTyped ==
  ASSUME NEW row \in Rows
  PROVE  /\ Restored(row) \in Pages
         /\ Restored(row).sessionId = row.sessionId
         /\ Restored(row).currentQuestion = row.currentQuestion
         /\ Restored(row).feedbackState = row.feedbackState
         /\ Restored(row).currentAnswerEventId =
                IF row.feedbackState = None THEN None ELSE row.feedbackState.source
<1>. DEFINE p == [f \in DOMAIN BlankPage |-> IF f \in Persisted THEN row[f] ELSE BlankPage[f]]
            source == IF p.feedbackState = None THEN None ELSE p.feedbackState.source
            q == [p EXCEPT !.sessionStarted = TRUE, !.currentAnswerEventId = source]
<1>1. DOMAIN BlankPage =
        {"sessionId", "sessionPhase", "sessionStarted", "currentQuestion", "answered",
         "currentAnswerEventId", "feedbackState", "nextActionConstraint",
         "diagnosticAnswers", "presentedInterventions", "area", "rendered", "next"}
  BY DEF BlankPage
<1>2. /\ p.sessionId = row.sessionId /\ p.sessionPhase = row.sessionPhase
      /\ p.sessionStarted = FALSE /\ p.currentQuestion = row.currentQuestion
      /\ p.answered = row.answered /\ p.currentAnswerEventId = None
      /\ p.feedbackState = row.feedbackState
      /\ p.nextActionConstraint = row.nextActionConstraint
      /\ p.diagnosticAnswers = row.diagnosticAnswers
      /\ p.presentedInterventions = {} /\ p.area = "question"
      /\ p.rendered = None /\ p.next = FALSE
  BY <1>1 DEF BlankPage, Persisted
<1>3. p \in Pages
  <2>1. p = [f \in DOMAIN p |-> p[f]] /\ DOMAIN p = DOMAIN BlankPage
    OBVIOUS
  <2>. HIDE DEF p
  <2>. QED  BY <1>1, <1>2, <2>1 DEF Rows, Pages, Sources
<1>4. /\ q \in Pages
      /\ q.sessionId = row.sessionId /\ q.currentQuestion = row.currentQuestion
      /\ q.feedbackState = row.feedbackState
      /\ q.currentAnswerEventId = IF row.feedbackState = None THEN None
                                  ELSE row.feedbackState.source
  <2>. HIDE DEF p
  <2>1. source = IF row.feedbackState = None THEN None ELSE row.feedbackState.source
    BY <1>2
  <2>2. source \in Sources
    BY <2>1 DEF Rows, Feedbacks, Sources
  <2>. HIDE DEF source
  <2>3. q \in Pages
    BY <1>3, <2>2 DEF Pages
  <2>4. /\ q.sessionId = p.sessionId /\ q.currentQuestion = p.currentQuestion
        /\ q.feedbackState = p.feedbackState /\ q.currentAnswerEventId = source
    BY <1>3 DEF Pages
  <2>. QED  BY <1>2, <2>1, <2>3, <2>4
<1>5. \/ Restored(row) = [q EXCEPT !.area = "diagnostic"]
      \/ Restored(row) = RenderAnswerFeedback(RenderQuestion(q))
      \/ Restored(row) = RenderQuestion(q)
  BY DEF Restored
<1>. HIDE DEF q
<1>. DEFINE Keeps(x, y) == /\ y \in Pages /\ y.sessionId = x.sessionId
                           /\ y.currentQuestion = x.currentQuestion
                           /\ y.feedbackState = x.feedbackState
                           /\ y.currentAnswerEventId = x.currentAnswerEventId
<1>6. Keeps(q, [q EXCEPT !.area = "diagnostic"])
  BY <1>4 DEF Pages
<1>7. \A x \in Pages : Keeps(x, RenderQuestion(x))
  BY DEF Pages, RenderQuestion
<1>8. \A x \in Pages : Keeps(x, RenderAnswerFeedback(x))
  BY DEF Pages, RenderAnswerFeedback
<1>9. RenderQuestion(q) \in Pages
  BY <1>4, <1>7
<1>10. \A x, y, z : Keeps(x, y) /\ Keeps(y, z) => Keeps(x, z)
  OBVIOUS
<1>. HIDE DEF Keeps
<1>11. Keeps(q, Restored(row))
  BY <1>4, <1>5, <1>6, <1>7, <1>8, <1>9, <1>10
<1>. QED  BY <1>4, <1>11 DEF Keeps

LEMMA ResetTyped ==
  ASSUME NEW p \in Pages, NEW session \in Sessions
  PROVE  /\ ResetSession(p, session, "practice") \in Pages
         /\ ResetSession(p, session, "practice").sessionId = session
<1>1. "practice" \in Phases /\ None \in Constraints /\ None \in Sources
  BY DEF Phases, Constraints, Sources
<1>2. ResetSession(p, session, "practice") \in Pages
  BY <1>1 DEF ResetSession, Pages
<1>3. ResetSession(p, session, "practice").sessionId = session
  BY DEF ResetSession, Pages
<1>. QED  BY <1>2, <1>3

\* The page of a session that has just begun, in the diagnostic or in practice.
LEMMA FreshTyped ==
  ASSUME NEW session \in Sessions, NEW phase \in Phases, NEW item \in Questions
  PROVE  LET p == [ResetSession(BlankPage, session, phase)
                      EXCEPT !.currentQuestion = item, !.sessionStarted = TRUE]
         IN  /\ p \in Pages
             /\ p.feedbackState = None /\ p.currentAnswerEventId = None
<1>. DEFINE p == [ResetSession(BlankPage, session, phase)
                      EXCEPT !.currentQuestion = item, !.sessionStarted = TRUE]
<1>1. <<>> \in Seq(Skills) /\ None \in Constraints /\ None \in Sources
  BY DEF Constraints, Sources
<1>2. PICK r : r = ResetSession(BlankPage, session, phase)
  OBVIOUS
<1>3. r \in BlankPages
  BY <1>1, <1>2, BlankTyped DEF ResetSession, BlankPages
<1>4. /\ r.sessionId = session
      /\ r.feedbackState = None /\ r.currentAnswerEventId = None /\ r.rendered = BlankPage.rendered
  BY <1>2, BlankTyped DEF ResetSession, BlankPages
<1>. QED  BY <1>2, <1>3, <1>4 DEF BlankPages, Pages

\* The tasks that put something other than an answer or a presentation.
IsOtherPut(t) == PutTask(t) /\ t.event \in OtherEvents

LEMMA PutsTyped ==
  ASSUME NEW session \in Sessions, NEW p \in Pages, NEW item \in Questions
  PROVE  /\ IsOtherPut(FinishPut(p)) /\ IsOtherPut(DiagnosedPut(p))
         /\ IsOtherPut(Put(ContentPresented(session, item), "presented"))
         /\ IsOtherPut([Put(Event("DIAGNOSTIC_STARTED", session), "started")
                           EXCEPT !.item = item])
<1>1. p.sessionId \in Sessions /\ Sampled(p) \subseteq Skills
  BY RangeOfTasks DEF Pages, Sampled
<1>. HIDE DEF Pages
<1>2. IsOtherPut(FinishPut(p))
  BY <1>1 DEF FinishPut, Put, Event, IsOtherPut, PutTask, PutTasks, OtherEvents
<1>3. IsOtherPut(DiagnosedPut(p))
  BY <1>1 DEF DiagnosedPut, Put, IsOtherPut, PutTask, PutTasks, OtherEvents
<1>4. IsOtherPut(Put(ContentPresented(session, item), "presented"))
  BY DEF ContentPresented, Put, IsOtherPut, PutTask, PutTasks, OtherEvents
<1>5. IsOtherPut([Put(Event("DIAGNOSTIC_STARTED", session), "started") EXCEPT !.item = item])
  <2>1. [Put(Event("DIAGNOSTIC_STARTED", session), "started") EXCEPT !.item = item]
          = [event |-> [type |-> "DIAGNOSTIC_STARTED", session |-> session],
             then |-> "started", item |-> item, local |-> None]
    BY DEF Put, Event
  <2>. QED  BY <2>1 DEF IsOtherPut, PutTask, PutTasks, OtherEvents
<1>. QED  BY <1>2, <1>3, <1>4, <1>5

\* Such a task answers to nothing: it is in place on any page.
LEMMA OtherIsPending ==
  ASSUME NEW t, IsOtherPut(t), NEW p, NEW events
  PROVE  Pending(t, p, events) /\ t.event.type # "INTERVENTION_PRESENTED"
BY DEF IsOtherPut, PutTask, PutTasks, OtherEvents, AnswerEvents, PresentationEvents,
       Pending, IsPreceded

LEMMA StartTyped ==
  ASSUME NEW session \in Sessions
  PROVE  /\ StartPage(session) \in Pages
         /\ StartPage(session).feedbackState = None
         /\ StartPage(session).currentAnswerEventId = None
         /\ \E t : IsOtherPut(t) /\ StartTasks(session) = <<t>>
<1>1. FirstOf(Questions) \in Questions
  BY FirstTyped, PracticeConstants
<1>2. /\ StartPage(session) \in Pages
      /\ StartPage(session).feedbackState = None
      /\ StartPage(session).currentAnswerEventId = None
  BY <1>1, FreshTyped DEF StartPage, Phases
<1>. QED  BY <1>1, <1>2, PutsTyped DEF StartTasks

-----------------------------------------------------------------------------
(* What the steps do to the page and to the tasks. *)

\* A row that keeps what p shows.
IsRowOf(row, p) ==
    /\ row \in Rows
    /\ row.sessionId = p.sessionId /\ row.currentQuestion = p.currentQuestion
    /\ row.feedbackState = p.feedbackState

SavesPage == \E t \in SaveTasks : saving' = Append(saving, t) /\ IsRowOf(t.row, page')

\* The task that reports the presentation of a lesson after answer a on page p.
IsReport(t, a, p) ==
    /\ PutTask(t) /\ t.event \in PresentationEvents
    /\ t.event.session = p.sessionId /\ t.event.source = a

\* The same question, its answer and the decisions on it.
SameQuestion(p, q) == q.sessionId = p.sessionId /\ q.currentQuestion = p.currentQuestion
SameScreen(p, q) ==
    /\ SameQuestion(p, q)
    /\ q.feedbackState = p.feedbackState /\ q.currentAnswerEventId = p.currentAnswerEventId

LEMMA ReportTyped ==
  ASSUME NEW p \in Pages, NEW d \in Decisions, IsRecorded(p, d),
         NEW then \in {"recordedOffline", "recordedUnsynced", "recordedServer"}
  PROVE  /\ Record(p, d) \in Pages /\ SameScreen(p, Record(p, d))
         /\ IsReport(PresentedPut(p, d, then), SourceOf(p, d), p)
<1>1. SourceOf(p, d) \in Answers /\ d.lesson \in Lessons
  BY DEF IsRecorded, SourceOf, Decisions, Pages, Sources
<1>2. Record(p, d) \in Pages /\ SameScreen(p, Record(p, d))
  <2>1. <<SourceOf(p, d), d.lesson>> \in Answers \X Lessons
    BY <1>1
  <2>2. Record(p, d) \in Pages
    BY <2>1 DEF Record, Pages
  <2>. QED  BY <2>2 DEF Record, Pages, SameScreen, SameQuestion
<1>3. p.sessionId \in Sessions
  BY DEF Pages
<1>. QED  BY <1>1, <1>2, <1>3 DEF IsReport, PresentedPut, Put, PutTask, PutTasks, PresentationEvents

LEMMA SavesPageTyped ==
  ASSUME page' \in Pages, NEW stage \in Stages, NEW then \in {"none", "sync", "answer"},
         saving' = Append(saving, Persist(page', stage, then))
  PROVE  SavesPage
BY SnapshotTyped DEF SavesPage, IsRowOf

\* The same page, or one with a new question and nothing answered.
Asks ==
    /\ page' \in Pages
    /\ \/ page' = page
       \/ page'.feedbackState = None /\ page'.currentAnswerEventId = None
    /\ \E t : IsOtherPut(t) /\ enqueuing' = Append(enqueuing, t)

LEMMA PresentAsks ==
  ASSUME NEW p \in Pages, PresentQuestion(p)
  PROVE  Asks /\ page'.feedbackState = None /\ page'.currentAnswerEventId = None
<1>1. PICK item \in Pickable(p) :
        /\ page' = [p EXCEPT !.currentQuestion = item, !.nextActionConstraint = None,
                             !.currentAnswerEventId = None, !.feedbackState = None,
                             !.sessionStarted = TRUE]
        /\ enqueuing' = Append(enqueuing,
             IF p.sessionPhase = "diagnostic" /\ ~p.sessionStarted
             THEN [Put(Event("DIAGNOSTIC_STARTED", p.sessionId), "started")
                        EXCEPT !.item = item]
             ELSE Put(ContentPresented(p.sessionId, item), "presented"))
  BY DEF PresentQuestion
<1>2. item \in Questions /\ p.sessionId \in Sessions
  BY PickableTyped DEF Pages
<1>3. /\ page' \in Pages
      /\ page'.feedbackState = None /\ page'.currentAnswerEventId = None
  BY <1>1, <1>2 DEF Pages, Constraints, Sources
<1>4. \E t : IsOtherPut(t) /\ enqueuing' = Append(enqueuing, t)
  BY <1>1, <1>2, PutsTyped
<1>. QED  BY <1>3, <1>4 DEF Asks

LEMMA ExhaustedAsks ==
  ASSUME page \in Pages, Exhausted(page)
  PROVE  Asks
<1>1. \E t : IsOtherPut(t) /\ enqueuing' = Append(enqueuing, t)
  <2>1. PICK q \in Questions : TRUE
    BY PracticeConstants
  <2>. QED  BY <2>1, PutsTyped DEF Exhausted, Pages
<1>. QED  BY <1>1 DEF Exhausted, Asks

\* What a decision of the server changes on the page.
Consumes(d) ==
    /\ IsConsumed(page, d)
    /\ page' \in Pages /\ SameQuestion(page, page')
    /\ page'.currentAnswerEventId = page.currentAnswerEventId
    /\ page'.feedbackState \in Feedbacks /\ page'.feedbackState.server = d
    /\ IF page.feedbackState = None
       THEN page'.feedbackState.source = None /\ page'.feedbackState.local = None
       ELSE /\ page'.feedbackState.source = page.feedbackState.source
            /\ page'.feedbackState.local = page.feedbackState.local
    /\ SavesPage
    /\ \/ enqueuing' = enqueuing
       \/ \E t : IsReport(t, d.source, page) /\ enqueuing' = Append(enqueuing, t)

LEMMA ConsumeEffect ==
  ASSUME page \in Pages, NEW d \in Decisions \cup {None}, Consume(page, d)
  PROVE  UNCHANGED <<page, enqueuing, saving>> \/ Consumes(d)
<1>1. CASE ~IsConsumed(page, d)
  BY <1>1 DEF Consume
<1>2. CASE IsConsumed(page, d)
  <2>. DEFINE before == IF page.feedbackState = None THEN NoFeedback ELSE page.feedbackState
              feedback == [before EXCEPT !.server = d]
              constraint == IF d.action = "END_WITH_REVIEW" THEN page.nextActionConstraint
                            ELSE SkillOf[page.currentQuestion]
              shown == [page EXCEPT !.feedbackState = feedback,
                                    !.nextActionConstraint = constraint]
  <2>1. d \in Decisions /\ d.source # None
    BY <1>2 DEF IsConsumed
  <2>2. before \in Feedbacks
    BY DEF NoFeedback, Feedbacks, Pages, Sources
  <2>3. /\ feedback \in Feedbacks /\ feedback.server = d
        /\ feedback.source = before.source /\ feedback.local = before.local
    <3>. HIDE DEF before
    <3>. QED  BY <2>1, <2>2 DEF Feedbacks
  <2>4. constraint \in Constraints
    BY SkillTyped DEF Pages, Constraints
  <2>5. /\ shown \in Pages /\ SameQuestion(page, shown)
        /\ shown.currentAnswerEventId = page.currentAnswerEventId
        /\ shown.feedbackState = feedback
    <3>. HIDE DEF feedback, constraint
    <3>. QED  BY <2>3, <2>4 DEF Pages, SameQuestion
  <2>6. /\ saving' = Append(saving, Persist(shown, "feedback", "none"))
        /\ IF IsRecorded(shown, d)
           THEN /\ page' = Record(shown, d)
                /\ enqueuing' = Append(enqueuing, PresentedPut(shown, d, "recordedServer"))
           ELSE page' = shown /\ UNCHANGED enqueuing
    BY <1>2 DEF Consume
  <2>. HIDE DEF shown, feedback, constraint
  <2>7. /\ page' \in Pages /\ SameScreen(shown, page')
        /\ \/ enqueuing' = enqueuing
           \/ \E t : IsReport(t, SourceOf(shown, d), shown) /\ enqueuing' = Append(enqueuing, t)
    <3>1. CASE IsRecorded(shown, d)
      BY <2>1, <2>5, <2>6, <3>1, ReportTyped
    <3>2. CASE ~IsRecorded(shown, d)
      BY <2>5, <2>6, <3>2 DEF SameScreen, SameQuestion
    <3>. QED  BY <3>1, <3>2
  <2>8. SourceOf(shown, d) = d.source
    BY <2>1 DEF SourceOf
  <2>9. \/ enqueuing' = enqueuing
        \/ \E t : IsReport(t, d.source, page) /\ enqueuing' = Append(enqueuing, t)
    BY <2>5, <2>7, <2>8 DEF IsReport, SameQuestion
  <2>10. SavesPage
    BY <2>5, <2>6, <2>7, SnapshotTyped DEF SavesPage, IsRowOf, SameScreen, SameQuestion, Stages
  <2>11. IF page.feedbackState = None
         THEN feedback.source = None /\ feedback.local = None
         ELSE /\ feedback.source = page.feedbackState.source
              /\ feedback.local = page.feedbackState.local
    BY <2>3 DEF NoFeedback
  <2>. QED  BY <1>2, <2>3, <2>5, <2>7, <2>9, <2>10, <2>11
            DEF Consumes, SameScreen, SameQuestion
<1>. QED  BY <1>1, <1>2

\* The decisions that can come are typed.
LEMMA ServerDecisionsTyped ==
  ASSUME stored' \subseteq Answers, NEW details \in SUBSET (BOOLEAN \X BOOLEAN)
  PROVE  ServerDecisions(details) \subseteq Decisions \cup {None}
BY DEF ServerDecisions, Decision, Decisions, Sources

-----------------------------------------------------------------------------
(* The state is well typed. *)

LEMMA InitTyped == Init => TypeOK
<1>. SUFFICES ASSUME Init PROVE TypeOK
  OBVIOUS
<1>1. PICK session \in Sessions :
        \/ /\ page = StartPage(session)
           /\ enqueuing = StartTasks(session)
        \/ \E item \in Pickable(ResetSession(BlankPage, session, "practice")) :
             /\ page = [ResetSession(BlankPage, session, "practice")
                           EXCEPT !.currentQuestion = item, !.sessionStarted = TRUE]
             /\ enqueuing = <<Put(ContentPresented(session, item), "presented")>>
  BY DEF Init
<1>2. page \in Pages /\ \E t : IsOtherPut(t) /\ enqueuing = <<t>>
  <2>1. CASE page = StartPage(session) /\ enqueuing = StartTasks(session)
    BY <2>1, StartTyped
  <2>2. ASSUME NEW item \in Pickable(ResetSession(BlankPage, session, "practice")),
               page = [ResetSession(BlankPage, session, "practice")
                          EXCEPT !.currentQuestion = item, !.sessionStarted = TRUE],
               enqueuing = <<Put(ContentPresented(session, item), "presented")>>
        PROVE  page \in Pages /\ \E t : IsOtherPut(t) /\ enqueuing = <<t>>
    <3>1. item \in Questions
      <4>1. ResetSession(BlankPage, session, "practice").sessionPhase = "practice"
        BY BlankTyped DEF ResetSession, BlankPages
      <4>. QED  BY <4>1, PickableTyped DEF Phases
    <3>2. page \in Pages
      BY <2>2, <3>1, FreshTyped DEF Phases
    <3>. QED  BY <2>2, <3>1, <3>2, PutsTyped
  <2>. QED  BY <1>1, <2>1, <2>2
<1>3. /\ enqueuing \in Seq(PutTasks) /\ \A t \in Range(enqueuing) : PutTask(t)
      /\ saving \in Seq(SaveTasks)
  <2>1. PICK t : IsOtherPut(t) /\ enqueuing = <<t>>
    BY <1>2
  <2>2. t \in PutTasks /\ PutTask(t)
    BY <2>1 DEF IsOtherPut, PutTask
  <2>3. enqueuing \in Seq(PutTasks) /\ Range(enqueuing) = {t}
    BY <2>1, <2>2, OneTask
  <2>4. saving \in Seq(SaveTasks)
    <3>1. saving = <<>>
      BY DEF Init
    <3>. QED  BY <3>1
  <2>. QED  BY <2>2, <2>3, <2>4
<1>. QED  BY <1>2, <1>3 DEF Init, TypeOK

\* Tasks that come and go leave the others typed.
LEMMA EnqueuesTyped ==
  ASSUME TypeOK, NEW t, PutTask(t), NEW s,
         \/ s = enqueuing
         \/ enqueuing # <<>> /\ s = Tail(enqueuing)
  PROVE  /\ s \in Seq(PutTasks) /\ \A u \in Range(s) : PutTask(u)
         /\ Append(s, t) \in Seq(PutTasks) /\ \A u \in Range(Append(s, t)) : PutTask(u)
         /\ Range(s) \subseteq Range(enqueuing)
         /\ Range(Append(s, t)) = Range(s) \cup {t}
<1>1. /\ s \in Seq(PutTasks) /\ Range(s) \subseteq Range(enqueuing)
      /\ \A u \in Range(enqueuing) : PutTask(u)
  <2>1. enqueuing \in Seq(PutTasks) /\ \A u \in Range(enqueuing) : PutTask(u)
    BY DEF TypeOK
  <2>2. CASE enqueuing # <<>> /\ s = Tail(enqueuing)
    BY <2>1, <2>2, HeadTask
  <2>. QED  BY <2>1, <2>2
<1>2. Append(s, t) \in Seq(PutTasks) /\ Range(Append(s, t)) = Range(s) \cup {t}
  BY <1>1, AppendTask DEF PutTask
<1>. QED  BY <1>1, <1>2

LEMMA DequeuesTyped ==
  ASSUME TypeOK, enqueuing # <<>>
  PROVE  /\ Head(enqueuing) \in Range(enqueuing) /\ PutTask(Head(enqueuing))
         /\ Tail(enqueuing) \in Seq(PutTasks)
         /\ Range(Tail(enqueuing)) \subseteq Range(enqueuing)
         /\ \A u \in Range(Tail(enqueuing)) : PutTask(u)
BY HeadTask DEF TypeOK

LEMMA SavesTyped ==
  ASSUME TypeOK, SavesPage
  PROVE  saving' \in Seq(SaveTasks)
BY AppendTask DEF SavesPage, TypeOK

LEMMA CallsTyped ==
  ASSUME TypeOK, NEW then \in {"none", "answer", "finish", "diagnostic"}, Calls(then)
  PROVE  syncing' \subseteq SyncTasks
BY DEF Calls, Call, SyncTasks, TypeOK

LEMMA MovedTyped ==
  ASSUME TypeOK, NEW task \in syncing, NEW at \in {"sync", "pull", "done"},
         NEW served \in SUBSET Answers
  PROVE  Moved(task, at, served) \subseteq SyncTasks
BY DEF Moved, SyncTasks, TypeOK

\* What has been put is an event.
LEMMA AwaitedTyped ==
  ASSUME TypeOK, NEW then, Awaited(then)
  PROVE  /\ enqueuing # <<>> /\ Head(enqueuing).then = then /\ PutTask(Head(enqueuing))
         /\ Head(enqueuing).event \in Events
         /\ queue \subseteq queue' /\ queue' \subseteq queue \cup {Head(enqueuing).event}
         /\ queue' \subseteq Events
         /\ Head(enqueuing).event \in AnswerEvents => Head(enqueuing).event \in queue'
<1>1. enqueuing # <<>> /\ Head(enqueuing).then = then /\ queue' = queue \cup Kept
  BY DEF Awaited
<1>2. PutTask(Head(enqueuing))
  BY <1>1, DequeuesTyped
<1>3. Head(enqueuing).event \in Events
  BY <1>2 DEF PutTask, PutTasks, Events
<1>. QED  BY <1>1, <1>2, <1>3 DEF Kept, TypeOK, AnswerEvents

LEMMA AnswersTyped ==
  ASSUME TypeOK
  PROVE  AnswersOf(queue) \subseteq Answers
BY DEF AnswersOf, TypeOK, Events, AnswerEvents, PresentationEvents, OtherEvents

LEMMA AsksTyped ==
  ASSUME TypeOK, Asks, UNCHANGED <<saving, syncing, active, queue, stored>>
  PROVE  TypeOK'
<1>1. PICK t : IsOtherPut(t) /\ enqueuing' = Append(enqueuing, t)
  BY DEF Asks
<1>2. PutTask(t)
  BY <1>1 DEF IsOtherPut
<1>3. /\ enqueuing' \in Seq(PutTasks) /\ \A u \in Range(enqueuing') : PutTask(u)
  BY <1>1, <1>2, EnqueuesTyped
<1>. QED  BY <1>3 DEF Asks, TypeOK

-----------------------------------------------------------------------------
(* What the steps around an answer do. *)

Submits ==
    /\ page' \in Pages /\ SameQuestion(page, page')
    /\ page'.currentAnswerEventId = page.currentAnswerEventId
    /\ \E f \in Feedbacks :
          /\ page'.feedbackState = f
          /\ f.source = None /\ f.server = None /\ f.local.source = None
    /\ \E t : /\ PutTask(t) /\ t.event \in AnswerEvents
              /\ t.event.session = page.sessionId /\ t.event.question = page.currentQuestion
              /\ enqueuing' = Append(enqueuing, t)

LEMMA SubmitEffect ==
  ASSUME TypeOK, NEW answer \in Answers, SubmitAnswer(answer)
  PROVE  Submits
<1>. DEFINE item == page.currentQuestion
            skill == SkillOf[item]
<1>1. PICK action \in LocalActions, lesson \in Lessons :
        LET local == Decision(action, None, lesson, FALSE, FALSE)
        IN  /\ page' = [page EXCEPT
                 !.answered = @ \cup {item},
                 !.diagnosticAnswers =
                    IF page.sessionPhase = "diagnostic" THEN Append(@, skill) ELSE @,
                 !.nextActionConstraint =
                    IF local.action = "END_WITH_REVIEW" THEN None ELSE skill,
                 !.feedbackState = [NoFeedback EXCEPT !.local = local]]
            /\ enqueuing' = Append(enqueuing,
                 [Put([type |-> "ANSWER_SUBMITTED", session |-> page.sessionId,
                       id |-> answer, question |-> item], "answered")
                    EXCEPT !.local = local])
  BY DEF SubmitAnswer
<1>. DEFINE local == Decision(action, None, lesson, FALSE, FALSE)
            feedback == [NoFeedback EXCEPT !.local = local]
            diagnostic == IF page.sessionPhase = "diagnostic"
                          THEN Append(page.diagnosticAnswers, skill) ELSE page.diagnosticAnswers
            constraint == IF local.action = "END_WITH_REVIEW" THEN None ELSE skill
            event == [type |-> "ANSWER_SUBMITTED", session |-> page.sessionId,
                      id |-> answer, question |-> item]
<1>2. local \in Decisions /\ local.source = None
  BY DEF Decision, Decisions, Sources
<1>3. /\ feedback \in Feedbacks
      /\ feedback.source = None /\ feedback.server = None /\ feedback.local = local
  <2>. HIDE DEF local
  <2>. QED  BY <1>2 DEF NoFeedback, Feedbacks, Sources
<1>4. page \in Pages
  BY DEF TypeOK
<1>5. diagnostic \in Seq(Skills) /\ constraint \in Constraints
  <2>1. skill \in Skills /\ page.diagnosticAnswers \in Seq(Skills)
    BY <1>4, SkillTyped DEF Pages
  <2>. HIDE DEF skill
  <2>2. Append(page.diagnosticAnswers, skill) \in Seq(Skills)
    BY <2>1, AppendTask
  <2>. QED  BY <2>1, <2>2 DEF Constraints
<1>6. /\ page' = [page EXCEPT !.answered = @ \cup {item}, !.diagnosticAnswers = diagnostic,
                              !.nextActionConstraint = constraint,
                              !.feedbackState = feedback]
      /\ enqueuing' = Append(enqueuing, [Put(event, "answered") EXCEPT !.local = local])
  BY <1>1
<1>7. /\ page' \in Pages /\ SameQuestion(page, page')
      /\ page'.currentAnswerEventId = page.currentAnswerEventId
      /\ page'.feedbackState = feedback
  <2>. HIDE DEF diagnostic, constraint, feedback, skill
  <2>. QED  BY <1>3, <1>4, <1>5, <1>6 DEF Pages, SameQuestion
<1>8. event \in AnswerEvents
  BY <1>4 DEF AnswerEvents, Pages
<1>9. PutTask([Put(event, "answered") EXCEPT !.local = local])
  <2>. HIDE DEF event, local
  <2>. QED  BY <1>2, <1>8 DEF PutTask, PutTasks, Put
<1>10. [Put(event, "answered") EXCEPT !.local = local].event = event
  BY DEF Put
<1>11. event.session = page.sessionId /\ event.question = page.currentQuestion
  OBVIOUS
<1>. HIDE DEF event, local, feedback
<1>. QED  BY <1>2, <1>3, <1>6, <1>7, <1>8, <1>9, <1>10, <1>11 DEF Submits

\* The answer a has been put, and the feedback says so.
Answered(a) ==
    /\ page' \in Pages /\ SameQuestion(page, page') /\ page'.currentAnswerEventId = a
    /\ \/ /\ page.feedbackState = None /\ page'.feedbackState = None
          /\ enqueuing' = Tail(enqueuing) /\ saving' = saving
       \/ /\ page.feedbackState # None
          /\ page'.feedbackState \in Feedbacks
          /\ page'.feedbackState.source = a
          /\ page'.feedbackState.local \in Decisions
          /\ page'.feedbackState.local.source = a
          /\ page'.feedbackState.server = page.feedbackState.server
          /\ \/ /\ saving' = saving
                /\ \E t : IsReport(t, a, page) /\ enqueuing' = Append(Tail(enqueuing), t)
             \/ enqueuing' = Tail(enqueuing) /\ SavesPage

LEMMA AnswerEffect ==
  ASSUME TypeOK, AfterAnswer
  PROVE  Head(enqueuing).event \in AnswerEvents /\ Answered(Head(enqueuing).event.id)
<1>. DEFINE task == Head(enqueuing)
            a == task.event.id
            expecting == [page EXCEPT !.currentAnswerEventId = a]
            local == [task.local EXCEPT !.source = a]
            feedback == [page.feedbackState EXCEPT !.source = a, !.local = local]
            shown == [expecting EXCEPT !.feedbackState = feedback]
            told == RenderAnswerFeedback(shown)
<1>1. page \in Pages /\ PutTask(task) /\ task.then = "answered"
  BY AwaitedTyped DEF AfterAnswer, TypeOK
<1>2. task.event \in AnswerEvents /\ task.local \in Decisions
  BY <1>1 DEF PutTask, PutTasks
<1>3. a \in Answers
  BY <1>2 DEF AnswerEvents
<1>4. local \in Decisions /\ local.source = a
  <2>. HIDE DEF a
  <2>. QED  BY <1>2, <1>3 DEF Decisions, Sources
<1>5. /\ expecting \in Pages /\ SameQuestion(page, expecting)
      /\ expecting.currentAnswerEventId = a /\ expecting.feedbackState = page.feedbackState
  <2>. HIDE DEF a
  <2>. QED  BY <1>1, <1>3 DEF Pages, SameQuestion, Sources
<1>6. shown = [expecting EXCEPT !.feedbackState.source = a, !.feedbackState.local = local]
  <2>. HIDE DEF a, local
  <2>. QED  BY <1>1 DEF Pages
<1>7. PICK online \in BOOLEAN :
        IF page.feedbackState = None
        THEN page' = expecting /\ enqueuing' = Tail(enqueuing) /\ UNCHANGED saving
        ELSE IF ~online /\ IsRecorded(told, local)
        THEN /\ page' = Record(told, local)
             /\ enqueuing' = Append(Tail(enqueuing),
                                    PresentedPut(told, local, "recordedOffline"))
             /\ UNCHANGED saving
        ELSE /\ page' = told
             /\ enqueuing' = Tail(enqueuing)
             /\ saving' = Append(saving,
                            Persist(told, "feedback", IF online THEN "answer" ELSE "sync"))
  BY <1>6 DEF AfterAnswer
<1>. HIDE DEF a, local, expecting, told
<1>8. CASE page.feedbackState = None
  BY <1>2, <1>5, <1>7, <1>8 DEF Answered, a
<1>9. CASE page.feedbackState # None
  <2>1. /\ feedback \in Feedbacks /\ feedback.source = a /\ feedback.local = local
        /\ feedback.server = page.feedbackState.server
    BY <1>1, <1>3, <1>4, <1>9 DEF Pages, Feedbacks, Sources
  <2>2. /\ shown \in Pages /\ SameQuestion(page, shown)
        /\ shown.currentAnswerEventId = a /\ shown.feedbackState = feedback
    <3>. HIDE DEF feedback
    <3>. QED  BY <1>5, <2>1 DEF Pages, SameQuestion
  <2>. HIDE DEF shown, feedback
  <2>3. told \in Pages /\ SameScreen(shown, told)
    BY <2>2 DEF told, RenderAnswerFeedback, Pages, SameScreen, SameQuestion
  <2>4. SourceOf(told, local) = a
    BY <1>4, <2>2, <2>3 DEF SourceOf, SameScreen
  <2>5. /\ page' \in Pages /\ SameScreen(told, page')
        /\ \/ /\ saving' = saving
              /\ \E t : IsReport(t, a, told) /\ enqueuing' = Append(Tail(enqueuing), t)
           \/ enqueuing' = Tail(enqueuing) /\ SavesPage
    <3>1. CASE ~online /\ IsRecorded(told, local)
      BY <1>4, <1>7, <1>9, <2>3, <2>4, <3>1, ReportTyped
    <3>2. CASE ~(~online /\ IsRecorded(told, local))
      <4>1. /\ page' = told /\ enqueuing' = Tail(enqueuing)
            /\ saving' = Append(saving,
                          Persist(page', "feedback", IF online THEN "answer" ELSE "sync"))
        BY <1>7, <1>9, <3>2
      <4>2. SavesPage
        BY <2>3, <4>1, SavesPageTyped DEF Stages
      <4>. QED  BY <2>3, <4>1, <4>2 DEF SameScreen, SameQuestion
    <3>. QED  BY <3>1, <3>2
  <2>6. \A t : IsReport(t, a, told) => IsReport(t, a, page)
    BY <2>2, <2>3 DEF IsReport, SameScreen, SameQuestion
  <2>7. /\ page' \in Pages /\ SameQuestion(page, page') /\ page'.currentAnswerEventId = a
        /\ page'.feedbackState = feedback
    BY <2>2, <2>3, <2>5 DEF SameScreen, SameQuestion
  <2>8. Answered(a)
    BY <1>4, <1>9, <2>1, <2>5, <2>6, <2>7 DEF Answered
  <2>. QED  BY <1>2, <2>8 DEF a
<1>. QED  BY <1>8, <1>9

\* After a synchronization the page may report its own decision, or be kept.
Follows ==
    \/ UNCHANGED <<page, enqueuing, saving>>
    \/ /\ page.feedbackState # None /\ page.feedbackState.local # None
       /\ page' \in Pages /\ SameScreen(page, page') /\ saving' = saving
       /\ \E t : /\ IsReport(t, SourceOf(page, page.feedbackState.local), page)
                 /\ enqueuing' = Append(enqueuing, t)
    \/ page' = page /\ enqueuing' = enqueuing /\ SavesPage

LEMMA SyncedEffect ==
  ASSUME TypeOK, NEW task \in syncing, AnswerSynced(task)
  PROVE  Follows
<1>. DEFINE own == page.feedbackState.local
<1>1. page \in Pages
  BY DEF TypeOK
<1>2. CASE \/ page.currentAnswerEventId \in task.served
           \/ page.feedbackState = None
  BY <1>2 DEF AnswerSynced, Follows
<1>3. CASE /\ page.currentAnswerEventId \notin task.served
           /\ page.feedbackState # None /\ IsRecorded(page, own)
  <2>1. /\ page' = Record(page, own) /\ UNCHANGED saving
        /\ enqueuing' = Append(enqueuing, PresentedPut(page, own, "recordedUnsynced"))
    BY <1>3 DEF AnswerSynced
  <2>2. own \in Decisions /\ own # None
    BY <1>1, <1>3 DEF IsRecorded, Pages, Feedbacks
  <2>. QED  BY <1>1, <1>3, <2>1, <2>2, ReportTyped DEF Follows
<1>4. CASE /\ page.currentAnswerEventId \notin task.served
           /\ page.feedbackState # None /\ ~IsRecorded(page, own)
  <2>1. /\ saving' = Append(saving, Persist(page, "feedback", "none"))
        /\ UNCHANGED <<page, enqueuing>>
    BY <1>4 DEF AnswerSynced
  <2>2. SavesPage
    BY <1>1, <2>1, SavesPageTyped DEF Stages
  <2>. QED  BY <2>1, <2>2 DEF Follows
<1>. QED  BY <1>2, <1>3, <1>4

-----------------------------------------------------------------------------
(* Every step keeps the types. *)

\* What is put, kept and under way stays typed when tasks are added.
LEMMA TypeKept ==
  ASSUME TypeOK, page' \in Pages,
         \/ enqueuing' = enqueuing
         \/ enqueuing # <<>> /\ enqueuing' = Tail(enqueuing)
         \/ \E t : PutTask(t) /\ enqueuing' = Append(enqueuing, t)
         \/ \E t : PutTask(t) /\ enqueuing # <<>> /\ enqueuing' = Append(Tail(enqueuing), t),
         saving' = saving \/ SavesPage,
         syncing' \subseteq SyncTasks, active' \in Rows \cup {None},
         queue' \subseteq Events, stored' \subseteq Answers
  PROVE  TypeOK'
<1>1. enqueuing' \in Seq(PutTasks) /\ \A t \in Range(enqueuing') : PutTask(t)
  <2>1. CASE enqueuing' = enqueuing
    BY <2>1 DEF TypeOK
  <2>2. CASE enqueuing # <<>> /\ enqueuing' = Tail(enqueuing)
    BY <2>2, DequeuesTyped
  <2>3. CASE \E t : PutTask(t) /\ enqueuing' = Append(enqueuing, t)
    BY <2>3, EnqueuesTyped
  <2>4. CASE \E t : PutTask(t) /\ enqueuing # <<>> /\ enqueuing' = Append(Tail(enqueuing), t)
    <3>1. PICK t : PutTask(t) /\ enqueuing # <<>> /\ enqueuing' = Append(Tail(enqueuing), t)
      BY <2>4
    <3>2. PICK s : s = Tail(enqueuing)
      OBVIOUS
    <3>. QED  BY <3>1, <3>2, EnqueuesTyped
  <2>. QED  BY <2>1, <2>2, <2>3, <2>4
<1>2. saving' \in Seq(SaveTasks)
  BY SavesTyped DEF TypeOK
<1>. QED  BY <1>1, <1>2 DEF TypeOK

LEMMA ReportIsPut == ASSUME NEW t, NEW a, NEW p, IsReport(t, a, p) PROVE PutTask(t)
BY DEF IsReport

LEMMA OtherIsPut == ASSUME NEW t, IsOtherPut(t) PROVE PutTask(t)
BY DEF IsOtherPut

\* The steps that follow the put of an event.
LEMMA PutStepsTyped ==
  ASSUME TypeOK,
         AfterStarted \/ AfterPresented \/ AfterAnswer \/ AfterRecorded \/ AfterEnd
  PROVE  TypeOK'
<1>1. /\ page \in Pages /\ syncing \subseteq SyncTasks /\ active \in Rows \cup {None}
      /\ queue \subseteq Events /\ stored \subseteq Answers
  BY DEF TypeOK
<1>2. CASE AfterStarted
  <2>1. Awaited("started") /\ UNCHANGED <<page, saving, syncing, active, stored>>
    BY <1>2 DEF AfterStarted
  <2>2. PutTask(Head(enqueuing)) /\ Head(enqueuing).item \in Questions
    BY <2>1, AwaitedTyped DEF PutTask
  <2>3. PutTask(Put(ContentPresented(page.sessionId, Head(enqueuing).item), "presented"))
    BY <1>1, <2>2, PutsTyped, OtherIsPut DEF Pages
  <2>4. \E t : PutTask(t) /\ enqueuing # <<>> /\ enqueuing' = Append(Tail(enqueuing), t)
    BY <1>2, <2>1, <2>3, AwaitedTyped DEF AfterStarted
  <2>. QED  BY <1>1, <2>1, <2>4, AwaitedTyped, TypeKept
<1>3. CASE AfterPresented
  <2>1. /\ Awaited("presented") /\ UNCHANGED <<syncing, active, stored>>
        /\ page' = RenderQuestion(page) /\ enqueuing' = Tail(enqueuing)
        /\ saving' = Append(saving, Persist(page', "question_active", "none"))
    BY <1>3 DEF AfterPresented
  <2>2. page' \in Pages
    BY <1>1, <2>1 DEF RenderQuestion, Pages
  <2>3. SavesPage
    BY <2>1, <2>2, SavesPageTyped DEF Stages
  <2>. QED  BY <1>1, <2>1, <2>2, <2>3, AwaitedTyped, TypeKept
<1>4. CASE AfterAnswer
  <2>1. Awaited("answered") /\ UNCHANGED <<syncing, active, stored>>
    BY <1>4 DEF AfterAnswer
  <2>2. Answered(Head(enqueuing).event.id)
    BY <1>4, AnswerEffect
  <2>3. page' \in Pages /\ (saving' = saving \/ SavesPage)
    BY <2>2 DEF Answered
  <2>4. \/ enqueuing' = Tail(enqueuing)
        \/ \E t : PutTask(t) /\ enqueuing' = Append(Tail(enqueuing), t)
    BY <2>2, ReportIsPut DEF Answered
  <2>. QED  BY <1>1, <2>1, <2>3, <2>4, AwaitedTyped, TypeKept
<1>5. CASE AfterRecorded
  <2>1. /\ \E then : Awaited(then)
        /\ saving' = saving \/ SavesPage
        /\ syncing' \subseteq SyncTasks
    <3>1. CASE /\ Awaited("recordedOffline") /\ UNCHANGED syncing
               /\ saving' = Append(saving, Persist(page, "feedback", "sync"))
      BY <1>1, <1>5, <3>1, SavesPageTyped DEF AfterRecorded, Stages
    <3>2. CASE /\ Awaited("recordedUnsynced") /\ UNCHANGED syncing
               /\ saving' = Append(saving, Persist(page, "feedback", "none"))
      BY <1>1, <1>5, <3>2, SavesPageTyped DEF AfterRecorded, Stages
    <3>3. CASE Awaited("recordedServer") /\ Calls("none") /\ UNCHANGED saving
      BY <3>3, CallsTyped
    <3>. QED  BY <1>5, <3>1, <3>2, <3>3 DEF AfterRecorded
  <2>2. enqueuing' = Tail(enqueuing) /\ UNCHANGED <<page, active, stored>>
    BY <1>5 DEF AfterRecorded
  <2>. QED  BY <1>1, <2>1, <2>2, AwaitedTyped, TypeKept
<1>6. CASE AfterEnd
  <2>1. (\E then : Awaited(then)) /\ syncing' \subseteq SyncTasks
    BY <1>6, CallsTyped DEF AfterEnd
  <2>2. enqueuing' = Tail(enqueuing) /\ UNCHANGED <<page, saving, active, stored>>
    BY <1>6 DEF AfterEnd
  <2>. QED  BY <1>1, <2>1, <2>2, AwaitedTyped, TypeKept
<1>. QED  BY <1>2, <1>3, <1>4, <1>5, <1>6

\* The answers the server has, and the decisions that may come.
LEMMA ConsumesTyped ==
  ASSUME TypeOK, stored' \subseteq Answers, NEW details \in SUBSET (BOOLEAN \X BOOLEAN),
         NEW d \in ServerDecisions(details), Consume(page, d)
  PROVE  UNCHANGED <<page, enqueuing, saving>> \/ Consumes(d)
<1>1. d \in Decisions \cup {None}
  BY ServerDecisionsTyped
<1>. QED  BY <1>1, ConsumeEffect DEF TypeOK

LEMMA ConsumedTyped ==
  ASSUME TypeOK, NEW d, UNCHANGED <<page, enqueuing, saving>> \/ Consumes(d)
  PROVE  /\ page' \in Pages /\ (saving' = saving \/ SavesPage)
         /\ \/ enqueuing' = enqueuing
            \/ \E t : PutTask(t) /\ enqueuing' = Append(enqueuing, t)
BY ReportIsPut DEF Consumes, TypeOK

\* A decision comes with the answer of a batch, or with a snapshot.
LEMMA SyncOkEffect ==
  ASSUME TypeOK, NEW task \in syncing, SyncOk(task)
  PROVE  /\ stored' \subseteq Answers /\ syncing' \subseteq SyncTasks
         /\ UNCHANGED <<page, enqueuing, saving>> \/ \E d : Consumes(d)
<1>1. stored' \subseteq Answers
  BY AnswersTyped DEF SyncOk
<1>2. PICK d \in ServerDecisions(Details) :
        /\ Consume(page, d)
        /\ syncing' = Moved(task, "pull", IF d = None THEN {} ELSE {d.source})
  BY DEF SyncOk
<1>3. UNCHANGED <<page, enqueuing, saving>> \/ Consumes(d)
  <2>1. Details \in SUBSET (BOOLEAN \X BOOLEAN)
    BY PracticeConstants
  <2>. QED  BY <1>1, <1>2, <2>1, ConsumesTyped
<1>4. syncing' \subseteq SyncTasks
  <2>1. d = None \/ d.source \in Answers
    BY <1>1 DEF ServerDecisions, Decision
  <2>. QED  BY <1>2, <2>1, MovedTyped
<1>. QED  BY <1>1, <1>3, <1>4

LEMMA PullOkEffect ==
  ASSUME TypeOK, NEW task \in syncing, PullOk(task)
  PROVE  /\ syncing' \subseteq SyncTasks
         /\ UNCHANGED <<page, enqueuing, saving>> \/ \E d : Consumes(d)
<1>1. stored' \subseteq Answers /\ task.served \subseteq Answers
  BY DEF PullOk, TypeOK, SyncTasks
<1>2. syncing' \subseteq SyncTasks
  BY <1>1, MovedTyped DEF PullOk
<1>3. ASSUME NEW d \in ServerDecisions({<<FALSE, FALSE>>}), Consume(page, d)
      PROVE  UNCHANGED <<page, enqueuing, saving>> \/ Consumes(d)
  <2>1. {<<FALSE, FALSE>>} \in SUBSET (BOOLEAN \X BOOLEAN)
    <3>1. <<FALSE, FALSE>> \in BOOLEAN \X BOOLEAN
      <4>1. FALSE \in BOOLEAN
        OBVIOUS
      <4>. QED  BY <4>1
    <3>. QED  BY <3>1
  <2>. QED  BY <1>1, <1>3, <2>1, ConsumesTyped
<1>. QED  BY <1>2, <1>3 DEF PullOk

\* The steps of the calls of attemptSync and of their callers.
LEMMA SyncStepsTyped ==
  ASSUME TypeOK, NEW task \in syncing,
         \/ SyncFails(task) \/ SyncOk(task) \/ PullThrows(task) \/ PullOk(task)
         \/ AnswerSynced(task) \/ FinishSession(task) \/ CompleteDiagnostic(task)
  PROVE  TypeOK'
<1>1. /\ page \in Pages /\ syncing \subseteq SyncTasks /\ active \in Rows \cup {None}
      /\ queue \subseteq Events /\ stored \subseteq Answers
      /\ task.served \subseteq Answers /\ syncing \ {task} \subseteq SyncTasks
  BY DEF TypeOK, SyncTasks
<1>2. CASE SyncFails(task)
  <2>1. stored' \subseteq Answers /\ syncing' \subseteq SyncTasks
    BY <1>1, <1>2, AnswersTyped, MovedTyped DEF SyncFails
  <2>. QED  BY <1>1, <1>2, <2>1, TypeKept DEF SyncFails
<1>3. CASE SyncOk(task)
  BY <1>1, <1>3, SyncOkEffect, ConsumedTyped, TypeKept DEF SyncOk
<1>4. CASE PullThrows(task)
  <2>1. syncing' \subseteq SyncTasks
    BY <1>4, MovedTyped DEF PullThrows
  <2>. QED  BY <1>1, <1>4, <2>1, TypeKept DEF PullThrows
<1>5. CASE PullOk(task)
  BY <1>1, <1>5, PullOkEffect, ConsumedTyped, TypeKept DEF PullOk
<1>6. CASE AnswerSynced(task)
  <2>1. Follows
    BY <1>6, SyncedEffect
  <2>2. /\ page' \in Pages /\ (saving' = saving \/ SavesPage)
        /\ \/ enqueuing' = enqueuing
           \/ \E t : PutTask(t) /\ enqueuing' = Append(enqueuing, t)
    BY <1>1, <2>1, ReportIsPut DEF Follows
  <2>. QED  BY <1>1, <1>6, <2>2, TypeKept DEF AnswerSynced
<1>7. CASE FinishSession(task)
  <2>1. page' \in Pages
    BY <1>1, <1>7 DEF FinishSession, Pages
  <2>2. saving' \in Seq(SaveTasks)
    <3>1. [row |-> None, then |-> "none"] \in SaveTasks
      BY DEF SaveTasks
    <3>. QED  BY <1>7, <3>1, AppendTask DEF FinishSession, TypeOK
  <2>. QED  BY <1>1, <1>7, <2>1, <2>2 DEF FinishSession, TypeOK
<1>8. CASE CompleteDiagnostic(task)
  <2>1. page' \in Pages
    <3>1. NoFeedback \in Feedbacks
      BY DEF NoFeedback, Feedbacks, Sources
    <3>. QED  BY <1>1, <1>8, <3>1 DEF CompleteDiagnostic, Pages
  <2>2. SavesPage
    BY <1>8, <2>1, SavesPageTyped DEF CompleteDiagnostic, Stages
  <2>. QED  BY <1>1, <1>8, <2>1, <2>2, TypeKept DEF CompleteDiagnostic
<1>. QED  BY <1>2, <1>3, <1>4, <1>5, <1>6, <1>7, <1>8

LEMMA SavedTyped ==
  ASSUME TypeOK, Saved
  PROVE  TypeOK'
<1>1. saving # <<>> /\ active' = Head(saving).row /\ saving' = Tail(saving)
  BY DEF Saved
<1>2. saving' \in Seq(SaveTasks) /\ Head(saving) \in SaveTasks
  BY <1>1, HeadTask DEF TypeOK
<1>3. active' \in Rows \cup {None}
  BY <1>1, <1>2 DEF SaveTasks
<1>4. syncing' \subseteq SyncTasks
  <2>1. Head(saving).then \in {"none", "sync", "answer"}
    BY <1>2 DEF SaveTasks
  <2>2. syncing' = syncing \/ Calls("none") \/ Calls("answer")
    BY <2>1 DEF Saved
  <2>. QED  BY <2>2, CallsTyped DEF TypeOK
<1>. QED  BY <1>2, <1>3, <1>4 DEF Saved, TypeOK

LEMMA ReloadTyped ==
  ASSUME TypeOK, NEW session \in Sessions, Reload(session)
  PROVE  TypeOK'
<1>1. /\ saving' = <<>> /\ syncing' = {Call("none")}
      /\ UNCHANGED <<active, queue, stored>>
  BY DEF Reload
<1>2. syncing' \subseteq SyncTasks
  BY <1>1 DEF Call, SyncTasks
<1>3. /\ page' \in Pages /\ enqueuing' \in Seq(PutTasks)
      /\ \A t \in Range(enqueuing') : PutTask(t)
  <2>1. CASE active # None
    <3>1. active \in Rows /\ page' = Restored(active) /\ enqueuing' = <<>>
      BY <2>1 DEF Reload, TypeOK
    <3>2. enqueuing' \in Seq(PutTasks) /\ Range(enqueuing') = {}
      BY <3>1 DEF Range
    <3>. QED  BY <3>1, <3>2, RestoredTyped
  <2>2. CASE active = None
    <3>1. page' = StartPage(session) /\ enqueuing' = StartTasks(session)
      BY <2>2 DEF Reload
    <3>2. PICK t : IsOtherPut(t) /\ enqueuing' = <<t>>
      BY <3>1, StartTyped
    <3>3. t \in PutTasks /\ PutTask(t)
      BY <3>2 DEF IsOtherPut, PutTask
    <3>. QED  BY <3>1, <3>2, <3>3, OneTask, StartTyped
  <2>. QED  BY <2>1, <2>2
<1>4. saving' \in Seq(SaveTasks)
  BY <1>1
<1>. QED  BY <1>1, <1>2, <1>3, <1>4 DEF TypeOK

\* The clicks that put no answer.
LEMMA ClicksAsk ==
  ASSUME TypeOK, ClickNext \/ ClickEnd \/ \E session \in Sessions : ClickStart(session)
  PROVE  Asks /\ Room(enqueuing) /\ UNCHANGED <<saving, syncing, active, queue, stored>>
<1>1. page \in Pages
  BY DEF TypeOK
<1>2. IsOtherPut(FinishPut(page)) /\ IsOtherPut(DiagnosedPut(page))
  <2>1. PICK q \in Questions : TRUE
    BY PracticeConstants
  <2>. QED  BY <1>1, <2>1, PutsTyped DEF Pages
<1>3. CASE ClickNext
  <2>1. \/ page' = page /\ enqueuing' = Append(enqueuing, DiagnosedPut(page))
        \/ page' = page /\ enqueuing' = Append(enqueuing, FinishPut(page))
        \/ Exhausted(page) \/ PresentQuestion(page)
    BY <1>3 DEF ClickNext
  <2>2. Asks
    BY <1>1, <1>2, <2>1, ExhaustedAsks, PresentAsks DEF Asks
  <2>. QED  BY <1>3, <2>2 DEF ClickNext
<1>4. CASE ClickEnd
  BY <1>1, <1>2, <1>4 DEF ClickEnd, Asks
<1>5. ASSUME NEW session \in Sessions, ClickStart(session)
      PROVE  Asks /\ Room(enqueuing) /\ UNCHANGED <<saving, syncing, active, queue, stored>>
  <2>1. ResetSession(page, session, "practice") \in Pages
    BY <1>1, ResetTyped
  <2>. QED  BY <1>5, <2>1, PresentAsks DEF ClickStart
<1>. QED  BY <1>3, <1>4, <1>5

LEMMA TypeStep == TypeOK /\ [Next]_vars => TypeOK'
<1>. SUFFICES ASSUME TypeOK, [Next]_vars PROVE TypeOK'
  OBVIOUS
<1>1. CASE Task
  BY <1>1, PutStepsTyped, SavedTyped, SyncStepsTyped DEF Task
<1>2. ASSUME NEW answer \in Answers, SubmitAnswer(answer) PROVE TypeOK'
  <2>1. Submits /\ UNCHANGED <<saving, syncing, active, queue, stored>>
    BY <1>2, SubmitEffect DEF SubmitAnswer
  <2>2. page' \in Pages /\ \E t : PutTask(t) /\ enqueuing' = Append(enqueuing, t)
    BY <2>1 DEF Submits
  <2>. QED  BY <2>1, <2>2, TypeKept DEF TypeOK
<1>3. CASE ClickNext \/ ClickEnd \/ \E session \in Sessions : ClickStart(session)
  BY <1>3, ClicksAsk, AsksTyped
<1>4. CASE Online
  BY <1>4, CallsTyped, TypeKept DEF Online, TypeOK
<1>5. ASSUME NEW session \in Sessions, Reload(session) PROVE TypeOK'
  BY <1>5, ReloadTyped
<1>6. CASE UNCHANGED vars
  BY <1>6 DEF vars, TypeOK
<1>. QED  BY <1>1, <1>2, <1>3, <1>4, <1>5, <1>6 DEF Next

(* The variables keep their types through every step of the page, with any *)
(* number of tasks waiting for IndexedDB and of requests under way: also a *)
(* row restored by a reload is a page (app.js:330, restoreActiveSession).  *)
THEOREM PageTypeCorrect == Spec => []TypeOK
BY InitTyped, TypeStep, PTL DEF Spec

-----------------------------------------------------------------------------
(* A decision that was ranked stays. *)

\* Only the consumption of a decision and a reload bring another one.
KeepsServer ==
    page.feedbackState # None /\ page'.feedbackState # None =>
        \/ page'.feedbackState.server = None
        \/ page'.feedbackState.server = page.feedbackState.server

LEMMA ServerKept ==
  ASSUME TypeOK, Next, \A session \in Sessions : ~Reload(session)
  PROVE  KeepsServer \/ \E d : Consumes(d)
<1>1. CASE AfterStarted \/ AfterRecorded \/ AfterEnd \/ Saved \/ Online
  BY <1>1 DEF AfterStarted, AfterRecorded, AfterEnd, Saved, Online, KeepsServer
<1>2. CASE AfterPresented
  BY <1>2 DEF AfterPresented, RenderQuestion, TypeOK, Pages, KeepsServer
<1>3. CASE AfterAnswer
  BY <1>3, AnswerEffect DEF Answered, KeepsServer
<1>4. ASSUME NEW task \in syncing,
             \/ SyncFails(task) \/ SyncOk(task) \/ PullThrows(task) \/ PullOk(task)
             \/ AnswerSynced(task) \/ FinishSession(task) \/ CompleteDiagnostic(task)
      PROVE  KeepsServer \/ \E d : Consumes(d)
  <2>1. CASE SyncFails(task) \/ PullThrows(task)
    BY <2>1 DEF SyncFails, PullThrows, KeepsServer
  <2>2. CASE SyncOk(task)
    BY <2>2, SyncOkEffect DEF KeepsServer
  <2>3. CASE PullOk(task)
    BY <2>3, PullOkEffect DEF KeepsServer
  <2>4. CASE AnswerSynced(task)
    BY <2>4, SyncedEffect DEF Follows, SameScreen, KeepsServer
  <2>5. CASE FinishSession(task)
    BY <2>5 DEF FinishSession, TypeOK, Pages, KeepsServer
  <2>6. CASE CompleteDiagnostic(task)
    BY <2>6 DEF CompleteDiagnostic, NoFeedback, TypeOK, Pages, KeepsServer
  <2>. QED  BY <1>4, <2>1, <2>2, <2>3, <2>4, <2>5, <2>6
<1>5. ASSUME NEW answer \in Answers, SubmitAnswer(answer) PROVE KeepsServer
  BY <1>5, SubmitEffect DEF Submits, KeepsServer
<1>6. CASE ClickNext \/ ClickEnd \/ \E session \in Sessions : ClickStart(session)
  BY <1>6, ClicksAsk DEF Asks, KeepsServer
<1>. QED  BY <1>1, <1>2, <1>3, <1>4, <1>5, <1>6 DEF Next, Task

LEMMA RankStep ==
  ASSUME TypeOK, Next, \A session \in Sessions : ~Reload(session)
  PROVE  page.feedbackState # None /\ page'.feedbackState # None =>
            LET now == page.feedbackState.server
                after == page'.feedbackState.server
            IN  now # None /\ after # None /\ now.source = after.source =>
                    (now.ranked => after.ranked) /\ (now.validated => after.validated)
<1>1. CASE KeepsServer
  BY <1>1 DEF KeepsServer
<1>2. ASSUME NEW d, Consumes(d)
      PROVE  page'.feedbackState.server = d /\ ~Downgrades(page, d)
  BY <1>2 DEF Consumes, IsConsumed
<1>3. CASE \E d : Consumes(d)
  BY <1>2, <1>3 DEF Downgrades
<1>. QED  BY <1>1, <1>3, ServerKept

(* While the page is open, a decision that was ranked or tells of a        *)
(* validated episode is not replaced by a plain one on the same answer:    *)
(* for any number of tasks and requests under way (app.js:659).            *)
THEOREM RankedIsKept == Spec => RankedStays
<1>1. TypeOK /\ [Next]_vars =>
        [(\A session \in Sessions : ~Reload(session)) =>
            (page.feedbackState # None /\ page'.feedbackState # None =>
                LET now == page.feedbackState.server
                    after == page'.feedbackState.server
                IN  now # None /\ after # None /\ now.source = after.source =>
                        (now.ranked => after.ranked) /\ (now.validated => after.validated))]_vars
  <2>1. CASE Next
    BY <2>1, RankStep
  <2>2. CASE UNCHANGED vars
    BY <2>2
  <2>. QED  BY <2>1, <2>2
<1>. QED  BY <1>1, PageTypeCorrect, PTL DEF Spec, RankedStays

-----------------------------------------------------------------------------
(* What is shown is about the question on the screen. *)

\* More events in the queue take nothing away.
LEMMA OwnGrows ==
  ASSUME NEW Q, NEW R, Q \subseteq R
  PROVE  /\ \A a, r : AnsweredIn(a, r, Q) => AnsweredIn(a, r, R)
         /\ \A r : OwnsFeedback(r, Q) => OwnsFeedback(r, R)
         /\ \A p : PageOwns(p, Q) => PageOwns(p, R)
         /\ \A row : RowOwns(row, Q) => RowOwns(row, R)
         /\ \A e : IsPreceded(e, Q) => IsPreceded(e, R)
         /\ \A t, p : Pending(t, p, Q) => Pending(t, p, R)
<1>1. \A a, r : AnsweredIn(a, r, Q) => AnsweredIn(a, r, R)
  BY DEF AnsweredIn
<1>2. \A r : OwnsFeedback(r, Q) => OwnsFeedback(r, R)
  BY <1>1 DEF OwnsFeedback, OwnFeedback, Own
<1>3. \A p : PageOwns(p, Q) => PageOwns(p, R)
  BY <1>1, <1>2 DEF PageOwns, Own
<1>4. \A row : RowOwns(row, Q) => RowOwns(row, R)
  BY <1>2 DEF RowOwns
<1>5. \A e : IsPreceded(e, Q) => IsPreceded(e, R)
  BY DEF IsPreceded
<1>6. \A t, p : Pending(t, p, Q) => Pending(t, p, R)
  BY <1>5 DEF Pending
<1>. QED  BY <1>1, <1>2, <1>3, <1>4, <1>5, <1>6

LEMMA OwnedGrows ==
  ASSUME NEW Q, NEW R, Q \subseteq R, OwnedIn(Q)
  PROVE  OwnedIn(R)
BY OwnGrows DEF OwnedIn

\* It depends only on the question, the feedback and the answer expected.
LEMMA OwnMoves ==
  ASSUME NEW p, NEW q, SameQuestion(p, q), NEW Q
  PROVE  /\ \A a : AnsweredIn(a, p, Q) <=> AnsweredIn(a, q, Q)
         /\ \A f : OwnFeedback(f, p, Q) <=> OwnFeedback(f, q, Q)
         /\ \A t : Pending(t, p, Q) <=> Pending(t, q, Q)
<1>1. \A a : AnsweredIn(a, p, Q) <=> AnsweredIn(a, q, Q)
  BY DEF AnsweredIn, SameQuestion
<1>2. \A f : OwnFeedback(f, p, Q) <=> OwnFeedback(f, q, Q)
  BY <1>1 DEF OwnFeedback, Own
<1>3. \A t : Pending(t, p, Q) <=> Pending(t, q, Q)
  BY DEF Pending, SameQuestion
<1>. QED  BY <1>1, <1>2, <1>3

LEMMA SameScreenOwns ==
  ASSUME NEW p, NEW q, SameScreen(p, q), NEW Q, PageOwns(p, Q)
  PROVE  PageOwns(q, Q)
<1>1. SameQuestion(p, q) /\ q.feedbackState = p.feedbackState
      /\ q.currentAnswerEventId = p.currentAnswerEventId
  BY DEF SameScreen
<1>. QED  BY <1>1, OwnMoves DEF PageOwns, OwnsFeedback, Own

LEMMA RowOfPageOwns ==
  ASSUME NEW p, NEW row, IsRowOf(row, p), NEW Q, OwnsFeedback(p, Q)
  PROVE  RowOwns(row, Q)
<1>1. SameQuestion(p, row) /\ row.feedbackState = p.feedbackState
  BY DEF IsRowOf, SameQuestion
<1>. QED  BY <1>1, OwnMoves DEF RowOwns, OwnsFeedback

LEMMA NothingOwns ==
  ASSUME NEW p, p.feedbackState = None, p.currentAnswerEventId = None, NEW Q
  PROVE  PageOwns(p, Q)
BY DEF PageOwns, OwnsFeedback, Own

\* The report of a presentation waits behind its answer.
LEMMA ReportIsPending ==
  ASSUME NEW t, NEW a, NEW p, IsReport(t, a, p), NEW Q, AnsweredIn(a, p, Q), NEW q
  PROVE  Pending(t, q, Q)
<1>1. t.event.session = p.sessionId /\ t.event.source = a /\ t.then # "answered"
  BY DEF IsReport, PutTask, PutTasks, PresentationEvents, AnswerEvents, OtherEvents
<1>. QED  BY <1>1 DEF Pending, IsPreceded, AnsweredIn

\* What an event that has been put brings.
LEMMA PutBrings ==
  ASSUME TypeOK, Belonging, NEW then, Awaited(then)
  PROVE  /\ OwnedIn(queue') /\ PresentationsFollowAnswers'
         /\ Head(enqueuing).event \in AnswerEvents /\ then = "answered" =>
                AnsweredIn(Head(enqueuing).event.id, page, queue')
<1>. DEFINE task == Head(enqueuing)
<1>1. /\ enqueuing # <<>> /\ task.then = then
      /\ queue \subseteq queue' /\ queue' \subseteq queue \cup {task.event}
      /\ task.event \in AnswerEvents => task.event \in queue'
  BY AwaitedTyped
<1>2. PICK Q : Q = queue'
  OBVIOUS
<1>3. OwnedIn(Q)
  BY <1>1, <1>2, OwnedGrows DEF Belonging
<1>4. Pending(task, page, Q)
  BY <1>1, <1>3, DequeuesTyped DEF OwnedIn
<1>5. \A e \in Q : IsPreceded(e, Q)
  <2>1. \A e \in queue : IsPreceded(e, queue)
    BY DEF Belonging, PresentationsFollowAnswers, IsPreceded
  <2>2. \A e \in queue : IsPreceded(e, Q)
    BY <1>1, <1>2, <2>1, OwnGrows
  <2>. QED  BY <1>1, <1>2, <1>4, <2>2 DEF Pending
<1>6. PresentationsFollowAnswers'
  BY <1>2, <1>5 DEF PresentationsFollowAnswers, IsPreceded, IsAnswer
<1>7. ASSUME task.event \in AnswerEvents, then = "answered"
      PROVE  AnsweredIn(task.event.id, page, Q)
  <2>1. /\ task.event \in Q
        /\ task.event.session = page.sessionId /\ task.event.question = page.currentQuestion
    BY <1>1, <1>2, <1>4, <1>7 DEF Pending
  <2>2. IsAnswer(task.event)
    BY <1>7 DEF AnswerEvents, IsAnswer
  <2>. QED  BY <2>1, <2>2 DEF AnsweredIn
<1>. QED  BY <1>2, <1>3, <1>6, <1>7

\* What a step has to show: of the page, of a task it adds, of a row it saves.
LEMMA BelongingKept ==
  ASSUME TypeOK, NEW Q, Q = queue', OwnedIn(Q), PresentationsFollowAnswers', active' = active,
         PageOwns(page', Q),
         SameQuestion(page, page') \/ enqueuing = <<>>,
         \/ enqueuing' = enqueuing
         \/ enqueuing # <<>> /\ enqueuing' = Tail(enqueuing)
         \/ \E t : PutTask(t) /\ Pending(t, page', Q) /\ enqueuing' = Append(enqueuing, t)
         \/ \E t : /\ PutTask(t) /\ Pending(t, page', Q)
                   /\ enqueuing # <<>> /\ enqueuing' = Append(Tail(enqueuing), t),
         saving' = saving \/ SavesPage
  PROVE  Belonging'
<1>1. \A t \in Range(enqueuing) : Pending(t, page', Q)
  <2>1. PICK p : p = page'
    OBVIOUS
  <2>2. CASE SameQuestion(page, p)
    BY <2>1, <2>2, OwnMoves DEF OwnedIn
  <2>3. CASE enqueuing = <<>>
    BY <2>3 DEF Range
  <2>. QED  BY <2>1, <2>2, <2>3
<1>2. \A t \in Range(enqueuing') : Pending(t, page', Q)
  <2>1. CASE enqueuing' = enqueuing
    BY <1>1, <2>1
  <2>2. CASE enqueuing # <<>> /\ enqueuing' = Tail(enqueuing)
    BY <1>1, <2>2, DequeuesTyped
  <2>3. CASE \E t : PutTask(t) /\ Pending(t, page', Q) /\ enqueuing' = Append(enqueuing, t)
    BY <1>1, <2>3, EnqueuesTyped
  <2>4. CASE \E t : /\ PutTask(t) /\ Pending(t, page', Q)
                    /\ enqueuing # <<>> /\ enqueuing' = Append(Tail(enqueuing), t)
    <3>1. PICK t : /\ PutTask(t) /\ Pending(t, page', Q)
                   /\ enqueuing # <<>> /\ enqueuing' = Append(Tail(enqueuing), t)
      BY <2>4
    <3>2. PICK s : s = Tail(enqueuing)
      OBVIOUS
    <3>3. Range(Append(s, t)) = Range(s) \cup {t} /\ Range(s) \subseteq Range(enqueuing)
      BY <3>1, <3>2, EnqueuesTyped
    <3>. QED  BY <1>1, <3>1, <3>2, <3>3
  <2>. QED  BY <2>1, <2>2, <2>3, <2>4
<1>3. \A t \in Range(saving') : RowOwns(t.row, Q)
  <2>1. \A t \in Range(saving) : RowOwns(t.row, Q)
    BY DEF OwnedIn
  <2>2. CASE saving' = saving
    BY <2>1, <2>2
  <2>3. CASE SavesPage
    <3>1. PICK t \in SaveTasks : saving' = Append(saving, t) /\ IsRowOf(t.row, page')
      BY <2>3 DEF SavesPage
    <3>2. Range(saving') = Range(saving) \cup {t}
      BY <3>1, AppendTask DEF TypeOK
    <3>3. RowOwns(t.row, Q)
      BY <3>1, RowOfPageOwns DEF PageOwns
    <3>. QED  BY <2>1, <3>2, <3>3
  <2>. QED  BY <2>2, <2>3
<1>4. RowOwns(active', Q)
  BY DEF OwnedIn
<1>. QED  BY <1>2, <1>3, <1>4 DEF Belonging, OwnedIn

LEMMA InitBelongs == Init => Belonging
<1>. SUFFICES ASSUME Init PROVE Belonging
  OBVIOUS
<1>1. TypeOK
  BY InitTyped
<1>2. PICK session \in Sessions :
        \/ /\ page = StartPage(session)
           /\ enqueuing = StartTasks(session)
        \/ \E item \in Pickable(ResetSession(BlankPage, session, "practice")) :
             /\ page = [ResetSession(BlankPage, session, "practice")
                           EXCEPT !.currentQuestion = item, !.sessionStarted = TRUE]
             /\ enqueuing = <<Put(ContentPresented(session, item), "presented")>>
  BY DEF Init
<1>3. /\ page.feedbackState = None /\ page.currentAnswerEventId = None
      /\ \E t : IsOtherPut(t) /\ enqueuing = <<t>>
  <2>1. CASE page = StartPage(session) /\ enqueuing = StartTasks(session)
    BY <2>1, StartTyped
  <2>2. ASSUME NEW item \in Pickable(ResetSession(BlankPage, session, "practice")),
               page = [ResetSession(BlankPage, session, "practice")
                          EXCEPT !.currentQuestion = item, !.sessionStarted = TRUE],
               enqueuing = <<Put(ContentPresented(session, item), "presented")>>
        PROVE  /\ page.feedbackState = None /\ page.currentAnswerEventId = None
               /\ \E t : IsOtherPut(t) /\ enqueuing = <<t>>
    <3>1. item \in Questions
      <4>1. ResetSession(BlankPage, session, "practice").sessionPhase = "practice"
        BY BlankTyped DEF ResetSession, BlankPages
      <4>. QED  BY <4>1, PickableTyped DEF Phases
    <3>2. page.feedbackState = None /\ page.currentAnswerEventId = None
      BY <2>2, <3>1, FreshTyped DEF Phases
    <3>. QED  BY <1>1, <2>2, <3>1, <3>2, PutsTyped DEF TypeOK
  <2>. QED  BY <1>2, <2>1, <2>2
<1>4. \A t \in Range(enqueuing) : Pending(t, page, queue)
  <2>1. PICK t : IsOtherPut(t) /\ enqueuing = <<t>>
    BY <1>3
  <2>2. Range(enqueuing) = {t}
    BY <2>1, OneTask DEF IsOtherPut, PutTask
  <2>. QED  BY <2>1, <2>2, OtherIsPending
<1>5. /\ saving = <<>> /\ active = None /\ queue = {}
  BY DEF Init
<1>6. PageOwns(page, queue)
  BY <1>3, NothingOwns
<1>7. (\A t \in Range(saving) : RowOwns(t.row, queue)) /\ RowOwns(active, queue)
  BY <1>5 DEF Range, RowOwns
<1>. QED  BY <1>4, <1>5, <1>6, <1>7 DEF Belonging, OwnedIn, PresentationsFollowAnswers

\* The steps that follow the put of an event.
LEMMA PutStepsBelong ==
  ASSUME TypeOK, Belonging,
         AfterStarted \/ AfterPresented \/ AfterAnswer \/ AfterRecorded \/ AfterEnd
  PROVE  Belonging'
<1>. PICK Q : Q = queue'
  OBVIOUS
<1>0. page \in Pages
  BY DEF TypeOK
<1>1. ASSUME NEW then, Awaited(then)
      PROVE  /\ enqueuing # <<>> /\ OwnedIn(Q) /\ PageOwns(page, Q)
             /\ PresentationsFollowAnswers'
             /\ SameQuestion(page, page)
  BY <1>1, PutBrings, AwaitedTyped DEF OwnedIn, SameQuestion
<1>2. CASE AfterStarted
  <2>1. Awaited("started") /\ UNCHANGED <<page, saving, active>>
    BY <1>2 DEF AfterStarted
  <2>2. PICK t : t = Put(ContentPresented(page.sessionId, Head(enqueuing).item), "presented")
    OBVIOUS
  <2>3. IsOtherPut(t) /\ enqueuing' = Append(Tail(enqueuing), t)
    <3>1. Head(enqueuing).item \in Questions
      BY <2>1, AwaitedTyped DEF PutTask
    <3>. QED  BY <1>0, <1>2, <2>2, <3>1, PutsTyped DEF AfterStarted, Pages
  <2>4. PutTask(t) /\ Pending(t, page', Q)
    BY <2>3, OtherIsPending, OtherIsPut
  <2>. QED  BY <1>1, <2>1, <2>3, <2>4, BelongingKept
<1>3. CASE AfterPresented
  <2>1. /\ Awaited("presented") /\ UNCHANGED active
        /\ page' = RenderQuestion(page) /\ enqueuing' = Tail(enqueuing)
        /\ saving' = Append(saving, Persist(page', "question_active", "none"))
    BY <1>3 DEF AfterPresented
  <2>2. page' \in Pages /\ SameScreen(page, page')
    BY <1>0, <2>1 DEF RenderQuestion, Pages, SameScreen, SameQuestion
  <2>3. SavesPage
    BY <2>1, <2>2, SavesPageTyped DEF Stages
  <2>4. PageOwns(page', Q) /\ SameQuestion(page, page')
    BY <1>1, <2>1, <2>2, SameScreenOwns DEF SameScreen
  <2>. QED  BY <1>1, <2>1, <2>3, <2>4, BelongingKept
<1>4. CASE AfterAnswer
  <2>. DEFINE a == Head(enqueuing).event.id
  <2>1. Awaited("answered") /\ UNCHANGED active
    BY <1>4 DEF AfterAnswer
  <2>2. Answered(a) /\ AnsweredIn(a, page, Q)
    BY <1>4, <2>1, AnswerEffect, PutBrings
  <2>. HIDE DEF a
  <2>3. SameQuestion(page, page') /\ AnsweredIn(a, page', Q)
    <3>1. SameQuestion(page, page')
      BY <2>2 DEF Answered
    <3>2. PICK q : q = page'
      OBVIOUS
    <3>. QED  BY <2>2, <3>1, <3>2, OwnMoves
  <2>4. PageOwns(page', Q)
    <3>1. page'.currentAnswerEventId = a
      BY <2>2 DEF Answered
    <3>2. CASE page.feedbackState = None /\ page'.feedbackState = None
      BY <2>3, <3>1, <3>2 DEF PageOwns, OwnsFeedback, Own
    <3>3. CASE /\ page.feedbackState # None
               /\ page'.feedbackState.source = a
               /\ page'.feedbackState.local.source = a
               /\ page'.feedbackState.server = page.feedbackState.server
      <4>1. \A b : AnsweredIn(b, page, Q) => AnsweredIn(b, page', Q)
        <5>1. PICK q : q = page'
          OBVIOUS
        <5>. QED  BY <2>3, <5>1, OwnMoves
      <4>2. page.feedbackState.server # None => AnsweredIn(page.feedbackState.server.source, page, Q)
        BY <1>1, <2>1, <3>3 DEF PageOwns, OwnsFeedback, OwnFeedback
      <4>. QED  BY <2>3, <3>1, <3>3, <4>1, <4>2 DEF PageOwns, OwnsFeedback, OwnFeedback, Own
    <3>. QED  BY <2>2, <3>2, <3>3 DEF Answered
  <2>5. \/ enqueuing' = Tail(enqueuing)
        \/ \E t : PutTask(t) /\ Pending(t, page', Q) /\ enqueuing' = Append(Tail(enqueuing), t)
    <3>1. \A t : IsReport(t, a, page) => PutTask(t) /\ Pending(t, page', Q)
      BY <2>2, ReportIsPending, ReportIsPut
    <3>. QED  BY <2>2, <3>1 DEF Answered
  <2>6. saving' = saving \/ SavesPage
    BY <2>2 DEF Answered
  <2>. QED  BY <1>1, <2>1, <2>3, <2>4, <2>5, <2>6, BelongingKept
<1>5. CASE AfterRecorded
  <2>1. /\ \E then : Awaited(then)
        /\ saving' = saving \/ SavesPage
    BY <1>0, <1>5, SavesPageTyped DEF AfterRecorded, Stages
  <2>2. enqueuing' = Tail(enqueuing) /\ UNCHANGED <<page, active>>
    BY <1>5 DEF AfterRecorded
  <2>. QED  BY <1>1, <2>1, <2>2, BelongingKept
<1>6. CASE AfterEnd
  <2>1. \E then : Awaited(then)
    BY <1>6 DEF AfterEnd
  <2>2. enqueuing' = Tail(enqueuing) /\ UNCHANGED <<page, saving, active>>
    BY <1>6 DEF AfterEnd
  <2>. QED  BY <1>1, <2>1, <2>2, BelongingKept
<1>. QED  BY <1>2, <1>3, <1>4, <1>5, <1>6

\* A decision is taken only for the answer that the page expects.
LEMMA ConsumesBelong ==
  ASSUME TypeOK, Belonging, UNCHANGED <<active, queue>>,
         NEW d, UNCHANGED <<page, enqueuing, saving>> \/ Consumes(d)
  PROVE  Belonging'
<1>1. CASE UNCHANGED <<page, enqueuing, saving>>
  BY <1>1 DEF Belonging, OwnedIn, PresentationsFollowAnswers, IsAnswer
<1>2. CASE Consumes(d)
  <2>. PICK Q : Q = queue'
    OBVIOUS
  <2>0. OwnedIn(Q) /\ PageOwns(page, Q) /\ PresentationsFollowAnswers'
    BY DEF Belonging, OwnedIn, PresentationsFollowAnswers, IsAnswer
  <2>1. AnsweredIn(d.source, page, Q)
    <3>1. ExpectedSource(page) # None /\ d.source = ExpectedSource(page)
      BY <1>2 DEF Consumes, IsConsumed
    <3>. QED  BY <2>0, <3>1 DEF ExpectedSource, PageOwns, OwnsFeedback, OwnFeedback, Own
  <2>2. SameQuestion(page, page')
    BY <1>2 DEF Consumes
  <2>3. PageOwns(page', Q)
    <3>1. PICK q : q = page'
      OBVIOUS
    <3>2. \A a : AnsweredIn(a, page, Q) => AnsweredIn(a, q, Q)
      BY <2>2, <3>1, OwnMoves
    <3>3. /\ q.currentAnswerEventId = page.currentAnswerEventId
          /\ q.feedbackState.server = d
          /\ IF page.feedbackState = None
             THEN q.feedbackState.source = None /\ q.feedbackState.local = None
             ELSE /\ q.feedbackState.source = page.feedbackState.source
                  /\ q.feedbackState.local = page.feedbackState.local
      BY <1>2, <3>1 DEF Consumes
    <3>4. PageOwns(q, Q)
      BY <2>0, <2>1, <3>2, <3>3 DEF PageOwns, OwnsFeedback, OwnFeedback, Own
    <3>. QED  BY <3>1, <3>4
  <2>4. \A t : IsReport(t, d.source, page) => PutTask(t) /\ Pending(t, page', Q)
    BY <2>1, ReportIsPending, ReportIsPut
  <2>5. /\ SavesPage
        /\ \/ enqueuing' = enqueuing
           \/ \E t : PutTask(t) /\ Pending(t, page', Q) /\ enqueuing' = Append(enqueuing, t)
    BY <1>2, <2>4 DEF Consumes
  <2>. QED  BY <2>0, <2>2, <2>3, <2>5, BelongingKept
<1>. QED  BY <1>1, <1>2

LEMMA SyncStepsBelong ==
  ASSUME TypeOK, Belonging, NEW task \in syncing,
         \/ SyncFails(task) \/ SyncOk(task) \/ PullThrows(task) \/ PullOk(task)
         \/ AnswerSynced(task) \/ FinishSession(task) \/ CompleteDiagnostic(task)
  PROVE  Belonging'
<1>. PICK Q : Q = queue'
  OBVIOUS
<1>0. UNCHANGED <<active, queue>> /\ page \in Pages
  BY DEF SyncFails, SyncOk, PullThrows, PullOk, AnswerSynced, FinishSession,
         CompleteDiagnostic, TypeOK
<1>1. OwnedIn(Q) /\ PageOwns(page, Q) /\ PresentationsFollowAnswers'
  BY <1>0 DEF Belonging, OwnedIn, PresentationsFollowAnswers, IsAnswer
<1>2. CASE SyncFails(task) \/ PullThrows(task)
  <2>1. UNCHANGED <<page, enqueuing, saving>>
    BY <1>2 DEF SyncFails, PullThrows
  <2>. QED  BY <1>0, <2>1, ConsumesBelong
<1>3. CASE SyncOk(task)
  BY <1>0, <1>3, SyncOkEffect, ConsumesBelong
<1>4. CASE PullOk(task)
  BY <1>0, <1>4, PullOkEffect, ConsumesBelong
<1>5. CASE AnswerSynced(task)
  <2>1. CASE UNCHANGED <<page, enqueuing, saving>>
    BY <1>0, <2>1, ConsumesBelong
  <2>2. CASE /\ page.feedbackState # None /\ page.feedbackState.local # None
             /\ page' \in Pages /\ SameScreen(page, page') /\ saving' = saving
             /\ \E t : /\ IsReport(t, SourceOf(page, page.feedbackState.local), page)
                       /\ enqueuing' = Append(enqueuing, t)
    <3>. DEFINE a == SourceOf(page, page.feedbackState.local)
    <3>1. PICK t : IsReport(t, a, page) /\ enqueuing' = Append(enqueuing, t)
      BY <2>2
    <3>2. a # None
      <4>1. IsRecorded(page, page.feedbackState.local)
        BY <1>5, <2>2, <3>1 DEF AnswerSynced
      <4>. QED  BY <4>1 DEF IsRecorded
    <3>3. AnsweredIn(a, page, Q)
      BY <1>1, <2>2, <3>2 DEF SourceOf, PageOwns, OwnsFeedback, OwnFeedback, Own
    <3>4. PutTask(t) /\ Pending(t, page', Q)
      BY <3>1, <3>3, ReportIsPending, ReportIsPut
    <3>5. PageOwns(page', Q) /\ SameQuestion(page, page')
      BY <1>1, <2>2, SameScreenOwns DEF SameScreen
    <3>. QED  BY <1>0, <1>1, <2>2, <3>1, <3>4, <3>5, BelongingKept
  <2>3. CASE page' = page /\ enqueuing' = enqueuing /\ SavesPage
    <3>1. SameQuestion(page, page')
      BY <2>3 DEF SameQuestion
    <3>. QED  BY <1>0, <1>1, <2>3, <3>1, BelongingKept
  <2>. QED  BY <1>5, <2>1, <2>2, <2>3, SyncedEffect DEF Follows
<1>6. CASE FinishSession(task)
  <2>1. SameScreen(page, page') /\ SameQuestion(page, page')
    BY <1>0, <1>6 DEF FinishSession, Pages, SameScreen, SameQuestion
  <2>2. PageOwns(page', Q)
    BY <1>1, <2>1, SameScreenOwns
  <2>3. \A t \in Range(enqueuing') : Pending(t, page', Q)
    <3>1. enqueuing' = enqueuing
      BY <1>6 DEF FinishSession
    <3>2. PICK q : q = page'
      OBVIOUS
    <3>. QED  BY <1>1, <2>1, <3>1, <3>2, OwnMoves DEF OwnedIn
  <2>4. \A t \in Range(saving') : RowOwns(t.row, Q)
    <3>1. PICK t \in SaveTasks : t = [row |-> None, then |-> "none"]
      BY DEF SaveTasks
    <3>2. Range(saving') = Range(saving) \cup {t}
      BY <1>6, <3>1, AppendTask DEF FinishSession, TypeOK
    <3>. QED  BY <1>1, <3>1, <3>2 DEF OwnedIn, RowOwns
  <2>. QED  BY <1>0, <1>1, <2>2, <2>3, <2>4 DEF Belonging, OwnedIn
<1>7. CASE CompleteDiagnostic(task)
  <2>1. /\ page' \in Pages /\ SameQuestion(page, page')
        /\ page'.currentAnswerEventId = page.currentAnswerEventId
        /\ page'.feedbackState = NoFeedback
    <3>1. NoFeedback \in Feedbacks
      BY DEF NoFeedback, Feedbacks, Sources
    <3>. QED  BY <1>0, <1>7, <3>1 DEF CompleteDiagnostic, Pages, SameQuestion
  <2>2. SavesPage /\ enqueuing' = enqueuing
    BY <1>7, <2>1, SavesPageTyped DEF CompleteDiagnostic, Stages
  <2>3. PageOwns(page', Q)
    <3>1. PICK q : q = page'
      OBVIOUS
    <3>2. \A a : AnsweredIn(a, page, Q) => AnsweredIn(a, q, Q)
      BY <2>1, <3>1, OwnMoves
    <3>3. PageOwns(q, Q)
      BY <1>1, <2>1, <3>1, <3>2 DEF NoFeedback, PageOwns, OwnsFeedback, OwnFeedback, Own
    <3>. QED  BY <3>1, <3>3
  <2>. QED  BY <1>0, <1>1, <2>1, <2>2, <2>3, BelongingKept
<1>. QED  BY <1>2, <1>3, <1>4, <1>5, <1>6, <1>7

LEMMA SavedBelongs ==
  ASSUME TypeOK, Belonging, Saved
  PROVE  Belonging'
<1>1. /\ saving # <<>> /\ active' = Head(saving).row /\ saving' = Tail(saving)
      /\ UNCHANGED <<page, enqueuing, queue>>
  BY DEF Saved
<1>2. Head(saving) \in Range(saving) /\ Range(saving') \subseteq Range(saving)
  BY <1>1, HeadTask DEF TypeOK
<1>3. RowOwns(active', queue) /\ \A t \in Range(saving') : RowOwns(t.row, queue)
  BY <1>1, <1>2 DEF Belonging, OwnedIn
<1>. QED  BY <1>1, <1>3 DEF Belonging, OwnedIn, PresentationsFollowAnswers, IsAnswer

\* A row that is restored brings its own feedback with its question.
LEMMA ReloadBelongs ==
  ASSUME TypeOK, Belonging, NEW session \in Sessions, Reload(session)
  PROVE  Belonging'
<1>1. saving' = <<>> /\ UNCHANGED <<active, queue>>
  BY DEF Reload
<1>2. PageOwns(page', queue)
  <2>1. CASE active # None
    <3>1. /\ active \in Rows /\ page' = Restored(active)
      BY <2>1 DEF Reload, TypeOK
    <3>2. PICK q : q = Restored(active)
      OBVIOUS
    <3>3. /\ SameQuestion(active, q) /\ q.feedbackState = active.feedbackState
          /\ q.currentAnswerEventId = IF active.feedbackState = None THEN None
                                      ELSE active.feedbackState.source
      BY <3>1, <3>2, RestoredTyped DEF SameQuestion
    <3>4. OwnsFeedback(active, queue)
      BY <2>1 DEF Belonging, OwnedIn, RowOwns
    <3>5. \A a : AnsweredIn(a, active, queue) => AnsweredIn(a, q, queue)
      BY <3>3, OwnMoves
    <3>6. PageOwns(q, queue)
      BY <3>3, <3>4, <3>5 DEF PageOwns, OwnsFeedback, OwnFeedback, Own
    <3>. QED  BY <3>1, <3>2, <3>6
  <2>2. CASE active = None
    BY <2>2, StartTyped, NothingOwns DEF Reload
  <2>. QED  BY <2>1, <2>2
<1>3. \A t \in Range(enqueuing') : Pending(t, page', queue)
  <2>1. CASE active # None
    BY <2>1 DEF Reload, Range
  <2>2. CASE active = None
    <3>1. PICK t : IsOtherPut(t) /\ enqueuing' = <<t>>
      BY <2>2, StartTyped DEF Reload
    <3>2. Range(enqueuing') = {t}
      BY <3>1, OneTask DEF IsOtherPut, PutTask
    <3>. QED  BY <3>1, <3>2, OtherIsPending
  <2>. QED  BY <2>1, <2>2
<1>4. \A t \in Range(saving') : RowOwns(t.row, queue)
  BY <1>1 DEF Range
<1>. QED  BY <1>1, <1>2, <1>3, <1>4
     DEF Belonging, OwnedIn, PresentationsFollowAnswers, IsAnswer

\* Clicks: here a put that is over before the next click is needed.
LEMMA ClicksBelong ==
  ASSUME MaxTasks = 1, TypeOK, Belonging, Room(enqueuing),
         UNCHANGED <<saving, syncing, active, queue, stored>>, Asks \/ Submits
  PROVE  Belonging'
<1>. PICK Q : Q = queue'
  OBVIOUS
<1>1. OwnedIn(Q) /\ PageOwns(page, Q) /\ PresentationsFollowAnswers'
  BY DEF Belonging, OwnedIn, PresentationsFollowAnswers, IsAnswer
<1>2. enqueuing = <<>>
  BY RoomIsEmpty DEF TypeOK
<1>3. CASE Asks
  <2>1. PageOwns(page', Q)
    BY <1>1, <1>3, NothingOwns DEF Asks
  <2>2. \E t : PutTask(t) /\ Pending(t, page', Q) /\ enqueuing' = Append(enqueuing, t)
    BY <1>3, OtherIsPut, OtherIsPending DEF Asks
  <2>. QED  BY <1>1, <1>2, <2>1, <2>2, BelongingKept
<1>4. CASE Submits
  <2>1. PICK f \in Feedbacks :
          /\ page'.feedbackState = f
          /\ f.source = None /\ f.server = None /\ f.local.source = None
    BY <1>4 DEF Submits
  <2>2. SameQuestion(page, page') /\ page'.currentAnswerEventId = page.currentAnswerEventId
    BY <1>4 DEF Submits
  <2>3. PageOwns(page', Q)
    <3>1. PICK q : q = page'
      OBVIOUS
    <3>2. \A a : AnsweredIn(a, page, Q) => AnsweredIn(a, q, Q)
      BY <2>2, <3>1, OwnMoves
    <3>3. PageOwns(q, Q)
      BY <1>1, <2>1, <2>2, <3>1, <3>2 DEF PageOwns, OwnsFeedback, OwnFeedback, Own
    <3>. QED  BY <3>1, <3>3
  <2>4. PICK t : /\ PutTask(t) /\ t.event \in AnswerEvents
                 /\ t.event.session = page.sessionId /\ t.event.question = page.currentQuestion
                 /\ enqueuing' = Append(enqueuing, t)
    BY <1>4 DEF Submits
  <2>5. Pending(t, page', Q)
    BY <2>2, <2>4 DEF Pending, IsPreceded, AnswerEvents, SameQuestion
  <2>. QED  BY <1>1, <1>2, <2>3, <2>4, <2>5, BelongingKept
<1>. QED  BY <1>3, <1>4

LEMMA BelongingStep ==
  ASSUME MaxTasks = 1, TypeOK, Belonging, [Next]_vars
  PROVE  Belonging'
<1>1. CASE Task
  BY <1>1, PutStepsBelong, SavedBelongs, SyncStepsBelong DEF Task
<1>2. ASSUME NEW answer \in Answers, SubmitAnswer(answer) PROVE Belonging'
  <2>1. Submits /\ Room(enqueuing) /\ UNCHANGED <<saving, syncing, active, queue, stored>>
    BY <1>2, SubmitEffect DEF SubmitAnswer
  <2>. QED  BY <2>1, ClicksBelong
<1>3. CASE ClickNext \/ ClickEnd \/ \E session \in Sessions : ClickStart(session)
  BY <1>3, ClicksAsk, ClicksBelong
<1>4. CASE Online
  BY <1>4, ConsumesBelong DEF Online
<1>5. ASSUME NEW session \in Sessions, Reload(session) PROVE Belonging'
  BY <1>5, ReloadBelongs
<1>6. CASE UNCHANGED vars
  BY <1>6, ConsumesBelong DEF vars
<1>. QED  BY <1>1, <1>2, <1>3, <1>4, <1>5, <1>6 DEF Next

(* The page, the row kept for a reload, the rows and events on their way   *)
(* there and the decisions in all of them belong to answers that are in    *)
(* the queue, if a put is over before the next click.                      *)
THEOREM PracticeInvariant == MaxTasks = 1 => (Spec => [](TypeOK /\ Belonging))
<1>. SUFFICES ASSUME MaxTasks = 1 PROVE Spec => [](TypeOK /\ Belonging)
  OBVIOUS
<1>1. Init => TypeOK /\ Belonging
  BY InitTyped, InitBelongs
<1>2. TypeOK /\ Belonging /\ [Next]_vars => (TypeOK /\ Belonging)'
  BY TypeStep, BelongingStep
<1>. QED  BY <1>1, <1>2, PTL DEF Spec

(* A decision of the server on the screen is about an answer to the        *)
(* question on the screen, given in this session, also after a reload, for *)
(* any number of requests answered late and in any order (app.js:652).     *)
THEOREM FeedbackIsOwnAlways == MaxTasks = 1 => (Spec => []FeedbackIsOwn)
<1>1. Belonging => FeedbackIsOwn
  BY DEF Belonging, OwnedIn, PageOwns, OwnsFeedback, OwnFeedback, AnsweredIn, FeedbackIsOwn
<1>. QED  BY <1>1, PracticeInvariant, PTL

(* An intervention is reported as presented only for an answer that was    *)
(* queued before, in that answer's session (app.js:567).                   *)
THEOREM PresentationsFollowAlways == MaxTasks = 1 => (Spec => []PresentationsFollowAnswers)
<1>1. Belonging => PresentationsFollowAnswers
  BY DEF Belonging
<1>. QED  BY <1>1, PracticeInvariant, PTL

================================================================================
