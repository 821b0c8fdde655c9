------------------------------ MODULE SyncProofs ------------------------------
(***************************************************************************)
(* Proofs about SyncServer and OfflineSync, for any students, devices,     *)
(* events, sets of calls and bounds.  The server: its state is well typed  *)
(* and its safety properties hold.  Browser and server together: the       *)
(* composition is a behaviour of the server specification, no event is     *)
(* dropped, a final refusal is right, and what happens to each event is    *)
(* what EventDelivery allows.                                              *)
(***************************************************************************)
EXTENDS OfflineSync, TLAPS

(***************************************************************************)
(* The server.                                                             *)
(***************************************************************************)


\* An open transaction with events left to do names the device it checked.
TransactionsOpen == \A s \in Students : txn[s].todo # {} => txn[s].device_id \in Devices

Typed == ServerTypeOK /\ TransactionsOpen

LEMMA InitTyped == ServerInit => Typed
<1>. SUFFICES ASSUME ServerInit PROVE Typed
  OBVIOUS
<1>1. \A s \in Students : NewDevice(s) \in DeviceRow
  BY DEF NewDevice, DeviceRow
<1>2. Unregistered \in DeviceRow
  BY DEF Unregistered, DeviceRow
<1>3. NoTransaction \in Transaction
  BY DEF NoTransaction, Transaction
<1>4. devices \in [Devices -> DeviceRow]
  BY <1>1, <1>2 DEF ServerInit
<1>5. ServerTypeOK
  BY <1>3, <1>4 DEF ServerInit, ServerTypeOK
<1>6. TransactionsOpen
  BY DEF ServerInit, TransactionsOpen, NoTransaction
<1>. QED  BY <1>5, <1>6 DEF Typed

\* An answer that acknowledges nothing is a response.
LEMMA FailureTyped ==
  ASSUME NEW r, r.call \in Calls, r.student_id \in Students,
         NEW status \in Statuses
  PROVE  Failure(r, status) \in Response
BY DEF Failure, Response

LEMMA RefusalTyped ==
  ASSUME NEW r \in Request
  PROVE  Refusal(r) \in Response
BY DEF Refusal, Response, Request, Rejection, Statuses

LEMMA AnswerTyped ==
  ASSUME Typed, NEW r \in Request, NEW response \in Response, Answer(r, response)
  PROVE  Typed'
BY DEF Typed, ServerTypeOK, TransactionsOpen, Answer

\* Taking one event of an open transaction off the list keeps the types.
LEMMA EventDoneTyped ==
  ASSUME Typed, NEW s \in Students, NEW t \in Transaction,
         t.todo \subseteq txn[s].todo, t.device_id = txn[s].device_id,
         txn' = [txn EXCEPT ![s] = t],
         UNCHANGED <<students, devices, learning_events, requests, responses>>
  PROVE  Typed'
BY DEF Typed, ServerTypeOK, TransactionsOpen

LEMMA RejectTyped ==
  ASSUME Typed, NEW s \in Students, NEW e \in txn[s].todo, NEW retryable \in BOOLEAN,
         Reject(s, e, retryable)
  PROVE  Typed'
<1>. DEFINE x == [event_id |-> e.event_id, retryable |-> retryable]
            t == [txn[s] EXCEPT !.todo = @ \ {e}, !.rejected = @ \cup {x}]
<1>1. txn[s] \in Transaction
  BY DEF Typed, ServerTypeOK
<1>2. x \in Rejection
  BY <1>1 DEF Transaction, Envelope, Rejection
<1>3. t \in Transaction /\ t.todo \subseteq txn[s].todo /\ t.device_id = txn[s].device_id
  BY <1>1, <1>2 DEF Transaction
<1>4. txn' = [txn EXCEPT ![s] = t]
  BY DEF Reject
<1>. QED  BY <1>3, <1>4, EventDoneTyped DEF Reject

LEMMA SkipTyped ==
  ASSUME Typed, NEW s \in Students, NEW e \in txn[s].todo, SkipDuplicate(s, e)
  PROVE  Typed'
<1>. DEFINE t == [txn[s] EXCEPT !.todo = @ \ {e}, !.duplicates = @ \cup {e.event_id}]
<1>1. txn[s] \in Transaction
  BY DEF Typed, ServerTypeOK
<1>2. t \in Transaction /\ t.todo \subseteq txn[s].todo /\ t.device_id = txn[s].device_id
  BY <1>1 DEF Transaction, Envelope
<1>3. txn' = [txn EXCEPT ![s] = t]
  BY DEF SkipDuplicate
<1>. QED  BY <1>2, <1>3, EventDoneTyped DEF SkipDuplicate

\* The row StoreEvent inserts for an envelope.
RowOf(s, e) == [event_id |-> e.event_id, student_id |-> s, device_id |-> txn[s].device_id,
                device_sequence |-> e.device_sequence,
                depends_on_event_ids |-> e.depends_on_event_ids]

LEMMA StoreTyped ==
  ASSUME Typed, NEW s \in Students, NEW e \in txn[s].todo, StoreEvent(s, e)
  PROVE  Typed'
<1>. DEFINE t == [txn[s] EXCEPT !.todo = @ \ {e}, !.accepted = @ \cup {RowOf(s, e)},
                                !.accepted_max_sequence = e.device_sequence]
<1>1. txn[s] \in Transaction /\ txn[s].device_id \in Devices
  BY DEF Typed, ServerTypeOK, TransactionsOpen
<1>2. e \in Envelope
  BY <1>1 DEF Transaction
<1>3. RowOf(s, e) \in Row
  BY <1>1, <1>2 DEF Envelope, Row, RowOf
<1>4. t \in Transaction /\ t.todo \subseteq txn[s].todo /\ t.device_id = txn[s].device_id
  BY <1>1, <1>2, <1>3 DEF Transaction, Envelope
<1>5. txn' = [txn EXCEPT ![s] = t]
  BY DEF StoreEvent, Insert, RowOf
<1>. QED  BY <1>4, <1>5, EventDoneTyped DEF StoreEvent, Insert

LEMMA ProcessTyped ==
  ASSUME Typed, NEW s \in Students, ProcessEvent(s)
  PROVE  Typed'
<1>1. PICK e \in txn[s].todo :
         \/ RejectUnreadable(s, e) \/ SkipDuplicate(s, e) \/ RejectStale(s, e)
         \/ RejectDependency(s, e) \/ RejectInapplicable(s, e) \/ StoreEvent(s, e)
  BY DEF ProcessEvent
<1>2. CASE RejectUnreadable(s, e)
  BY <1>2, RejectTyped DEF RejectUnreadable
<1>3. CASE SkipDuplicate(s, e)
  BY <1>3, SkipTyped
<1>4. CASE RejectStale(s, e)
  BY <1>4, RejectTyped DEF RejectStale
<1>5. CASE RejectDependency(s, e)
  <2>1. PICK dep : Reject(s, e, ~OwnedElsewhere(s, dep))
    BY <1>5 DEF RejectDependency
  <2>2. CASE OwnedElsewhere(s, dep)
    <3>1. Reject(s, e, FALSE)
      BY <2>1, <2>2, Zenon DEF Reject
    <3>. QED  BY <3>1, RejectTyped
  <2>3. CASE ~OwnedElsewhere(s, dep)
    <3>1. Reject(s, e, TRUE)
      BY <2>1, <2>3, Zenon DEF Reject
    <3>. QED  BY <3>1, RejectTyped
  <2>. QED  BY <2>2, <2>3
<1>6. CASE RejectInapplicable(s, e)
  BY <1>6, RejectTyped DEF RejectInapplicable
<1>7. CASE StoreEvent(s, e)
  BY <1>7, StoreTyped
<1>. QED  BY <1>1, <1>2, <1>3, <1>4, <1>5, <1>6, <1>7

LEMMA NoTransactionTyped == NoTransaction \in Transaction /\ NoTransaction.todo = {}
BY DEF NoTransaction, Transaction

LEMMA CommitTyped ==
  ASSUME Typed, NEW s \in Students, Commit(s)
  PROVE  Typed'
<1>1. txn[s] \in Transaction /\ txn[s].call \in Calls
  BY DEF Commit, Advanced, LockFree, Typed, ServerTypeOK, Transaction
<1>2. BatchFailure(s) \in Response
  BY <1>1 DEF BatchFailure, Failure, Response, Statuses
<1>3. IdsOf(txn[s].accepted) \subseteq Events
  BY <1>1 DEF Transaction, IdsOf, Row
<1>4. BatchAnswer(s) \in Response
  BY <1>1, <1>3 DEF BatchAnswer, Response, Statuses, Transaction
<1>5. responses' \in SUBSET Response
  BY <1>2, <1>4 DEF Commit, Advanced, Typed, ServerTypeOK
<1>6. devices' \in [Devices -> DeviceRow]
  <2>1. devices \in [Devices -> DeviceRow] /\ txn[s].accepted_max_sequence \in Nat
    BY <1>1 DEF Typed, ServerTypeOK, Transaction
  <2>2. \A d \in Devices :
          [devices[d] EXCEPT !.last_device_sequence = txn[s].accepted_max_sequence]
             \in DeviceRow
    BY <2>1 DEF DeviceRow
  <2>. QED  BY <2>1, <2>2 DEF Commit, Advanced
<1>7. learning_events' \in SUBSET Row
  BY <1>1 DEF Commit, Advanced, Typed, ServerTypeOK, Transaction
<1>8. txn' \in [Students -> Transaction] /\ TransactionsOpen'
  BY NoTransactionTyped DEF Commit, Advanced, Typed, ServerTypeOK, TransactionsOpen
<1>. QED  BY <1>5, <1>6, <1>7, <1>8 DEF Commit, Advanced, Typed, ServerTypeOK

LEMMA AbortTyped ==
  ASSUME Typed, NEW s \in Students, AbortBatch(s)
  PROVE  Typed'
<1>1. txn[s].call \in Calls
  BY DEF AbortBatch, LockFree, Typed, ServerTypeOK, Transaction
<1>2. BatchFailure(s) \in Response
  BY <1>1 DEF BatchFailure, Failure, Response, Statuses
<1>. QED  BY <1>2, NoTransactionTyped DEF AbortBatch, Typed, ServerTypeOK, TransactionsOpen

LEMMA HandleTyped ==
  ASSUME Typed, NEW r \in requests, HandleRequest(r)
  PROVE  Typed'
<1>1. r \in Request
  BY DEF Typed, ServerTypeOK
<1>2. r.call \in Calls /\ r.student_id \in Students /\ r.device_id \in Devices
  BY <1>1 DEF Request
<1>3. CASE Authenticate(r)
  <2>1. [r EXCEPT !.authenticated = TRUE] \in Request
    BY <1>1 DEF Request
  <2>. QED  BY <2>1, <1>3 DEF Authenticate, Typed, ServerTypeOK, TransactionsOpen
<1>4. CASE RefuseToken(r)
  BY <1>1, <1>2, <1>4, FailureTyped, AnswerTyped DEF RefuseToken, Statuses
<1>5. CASE RefuseBatchSize(r)
  BY <1>1, <1>5, RefusalTyped, AnswerTyped DEF RefuseBatchSize
<1>6. CASE RefuseStudent(r)
  BY <1>1, <1>6, RefusalTyped, AnswerTyped DEF RefuseStudent
<1>7. CASE RefuseDevice(r)
  <2>1. PICK status \in Statuses : Answer(r, Failure(r, status))
    BY <1>7 DEF RefuseDevice, Statuses
  <2>. QED  BY <1>1, <1>2, <2>1, FailureTyped, AnswerTyped
<1>8. CASE BeginBatch(r)
  <2>. DEFINE t == [NoTransaction EXCEPT !.call = r.call, !.device_id = r.device_id,
                                         !.todo = r.events]
  <2>1. t \in Transaction /\ t.device_id \in Devices
    BY <1>1 DEF NoTransaction, Transaction, Request
  <2>2. txn' = [txn EXCEPT ![r.student_id] = t]
    BY <1>8 DEF BeginBatch
  <2>. QED
    BY <1>2, <1>8, <2>1, <2>2 DEF BeginBatch, Typed, ServerTypeOK, TransactionsOpen
<1>. QED  BY <1>3, <1>4, <1>5, <1>6, <1>7, <1>8 DEF HandleRequest

LEMMA AdministrationTyped == ASSUME Typed, Administration PROVE Typed'
<1>1. CASE \E s \in Students, d \in Devices : RegisterDevice(s, d)
  BY <1>1 DEF RegisterDevice, NewDevice, DeviceRow, Typed, ServerTypeOK, TransactionsOpen
<1>2. CASE \E s \in Students, d \in Devices : RevokeDevice(s, d)
  <2>1. PICK s \in Students, d \in Devices : RevokeDevice(s, d)
    BY <1>2
  <2>2. [devices[d] EXCEPT !.status = "revoked"] \in DeviceRow
    BY DEF Typed, ServerTypeOK, DeviceRow
  <2>. QED  BY <2>1, <2>2 DEF RevokeDevice, Typed, ServerTypeOK, TransactionsOpen
<1>3. CASE \E s \in Students : RequestDeletion(s)
  BY <1>3 DEF RequestDeletion, Typed, ServerTypeOK, TransactionsOpen
<1>. QED  BY <1>1, <1>2, <1>3 DEF Administration

LEMMA NetworkTyped ==
  ASSUME Typed,
         \/ Network
         \/ \E c \in Calls, s \in Students, d \in Devices, events \in SUBSET Envelope :
               SendRequest(c, s, d, events)
  PROVE  Typed'
<1>1. CASE \E c \in Calls, s \in Students, d \in Devices, events \in SUBSET Envelope :
             SendRequest(c, s, d, events)
  <2>1. PICK c \in Calls, s \in Students, d \in Devices, events \in SUBSET Envelope :
            SendRequest(c, s, d, events)
    BY <1>1
  <2>2. [call |-> c, student_id |-> s, device_id |-> d, events |-> events,
         authenticated |-> FALSE] \in Request
    BY DEF Request
  <2>. QED  BY <2>1, <2>2 DEF SendRequest, Typed, ServerTypeOK, TransactionsOpen
<1>2. CASE Network
  BY <1>2 DEF Network, LoseRequest, TakeResponse, Typed, ServerTypeOK, TransactionsOpen
<1>. QED  BY <1>1, <1>2

LEMMA StepTyped == Typed /\ [ServerNext]_serverVars => Typed'
<1>. SUFFICES ASSUME Typed, [ServerNext]_serverVars PROVE Typed'
  OBVIOUS
<1>1. CASE UNCHANGED serverVars
  BY <1>1 DEF serverVars, Typed, ServerTypeOK, TransactionsOpen
<1>2. CASE ServerStep
  BY <1>2, HandleTyped, ProcessTyped, CommitTyped, AbortTyped DEF ServerStep, RunBatch
<1>3. CASE ServerNext /\ ~ServerStep
  BY <1>3, NetworkTyped, AdministrationTyped DEF ServerNext
<1>. QED  BY <1>1, <1>2, <1>3

\* The server's state is always well typed: every row, request, transaction and
\* answer that process_batch and its router build has the fields they expect.
THEOREM ServerTypeCorrect == ServerSpec => []ServerTypeOK
<1>1. Typed => ServerTypeOK
  BY DEF Typed
<1>. QED  BY InitTyped, StepTyped, <1>1, PTL DEF ServerSpec

--------------------------------------------------------------------------------
(* The safety properties.  Most steps do not touch what they speak of: the  *)
(* steps that do are those named in Effects.                                 *)

\* Only requests, students' status and answers that acknowledge nothing change.
Quiet ==
    /\ UNCHANGED <<devices, learning_events, txn>>
    /\ \A r \in responses' : r \in responses \/ (r.accepted = {} /\ r.duplicates = {})

\* An event of s's batch is rejected, or found to be a duplicate.
PassedOver(s, t) ==
    /\ txn[s].todo # {}
    /\ txn' = [txn EXCEPT ![s] = t]
    /\ t.call = txn[s].call /\ t.device_id = txn[s].device_id
    /\ t.accepted = txn[s].accepted
    /\ t.accepted_max_sequence = txn[s].accepted_max_sequence
    /\ t.duplicates \subseteq txn[s].duplicates \cup Visible(s)
    /\ UNCHANGED <<devices, learning_events, responses>>

\* The student's lock is taken or given up without storing anything.
Resets(s, t) ==
    /\ txn' = [txn EXCEPT ![s] = t]
    /\ t.accepted = {} /\ t.duplicates = {} /\ t.accepted_max_sequence = 0
    /\ \/ t = NoTransaction
       \/ /\ t.device_id \in Devices
          /\ devices[t.device_id].student_id = s
    /\ UNCHANGED <<devices, learning_events>>
    /\ \A r \in responses' : r \in responses \/ (r.accepted = {} /\ r.duplicates = {})

\* A device is registered or revoked.
DeviceChanges(d) ==
    /\ \E row \in DeviceRow :
         /\ devices' = [devices EXCEPT ![d] = row]
         /\ row.last_device_sequence = devices[d].last_device_sequence
         /\ devices[d].student_id # None => row.student_id = devices[d].student_id
    /\ UNCHANGED <<learning_events, txn, responses>>

Effects ==
    \/ Quiet
    \/ \E s \in Students, t \in Transaction : PassedOver(s, t) \/ Resets(s, t)
    \/ \E s \in Students : \E e \in txn[s].todo : StoreEvent(s, e)
    \/ \E s \in Students : Commit(s)
    \/ \E d \in Devices : DeviceChanges(d)

LEMMA RejectEffect ==
  ASSUME Typed, NEW s \in Students, NEW e \in txn[s].todo, NEW retryable \in BOOLEAN,
         Reject(s, e, retryable)
  PROVE  \E t \in Transaction : PassedOver(s, t)
<1>. DEFINE x == [event_id |-> e.event_id, retryable |-> retryable]
            t == [txn[s] EXCEPT !.todo = @ \ {e}, !.rejected = @ \cup {x}]
<1>1. txn[s] \in Transaction
  BY DEF Typed, ServerTypeOK
<1>2. x \in Rejection
  BY <1>1 DEF Transaction, Envelope, Rejection
<1>3. /\ t \in Transaction
      /\ t.call = txn[s].call /\ t.device_id = txn[s].device_id
      /\ t.accepted = txn[s].accepted /\ t.duplicates = txn[s].duplicates
      /\ t.accepted_max_sequence = txn[s].accepted_max_sequence
  BY <1>1, <1>2 DEF Transaction
<1>4. txn' = [txn EXCEPT ![s] = t]
  BY DEF Reject
<1>5. PassedOver(s, t)
  BY <1>3, <1>4 DEF PassedOver, Reject
<1>. QED  BY <1>3, <1>5

LEMMA SkipEffect ==
  ASSUME Typed, NEW s \in Students, NEW e \in txn[s].todo, SkipDuplicate(s, e)
  PROVE  \E t \in Transaction : PassedOver(s, t)
<1>. DEFINE t == [txn[s] EXCEPT !.todo = @ \ {e}, !.duplicates = @ \cup {e.event_id}]
<1>1. txn[s] \in Transaction
  BY DEF Typed, ServerTypeOK
<1>2. /\ t \in Transaction
      /\ t.call = txn[s].call /\ t.device_id = txn[s].device_id
      /\ t.accepted = txn[s].accepted
      /\ t.duplicates = txn[s].duplicates \cup {e.event_id}
      /\ t.accepted_max_sequence = txn[s].accepted_max_sequence
  BY <1>1 DEF Transaction, Envelope
<1>3. txn' = [txn EXCEPT ![s] = t]
  BY DEF SkipDuplicate
<1>4. PassedOver(s, t)
  BY <1>2, <1>3 DEF PassedOver, SkipDuplicate
<1>. QED  BY <1>2, <1>4

LEMMA ProcessEffect == ASSUME Typed, NEW s \in Students, ProcessEvent(s) PROVE Effects
<1>1. PICK e \in txn[s].todo :
         \/ RejectUnreadable(s, e) \/ SkipDuplicate(s, e) \/ RejectStale(s, e)
         \/ RejectDependency(s, e) \/ RejectInapplicable(s, e) \/ StoreEvent(s, e)
  BY DEF ProcessEvent
<1>2. CASE StoreEvent(s, e)
  BY <1>2 DEF Effects
<1>3. CASE SkipDuplicate(s, e)
  BY <1>3, SkipEffect DEF Effects
<1>4. CASE Reject(s, e, FALSE) \/ Reject(s, e, TRUE)
  BY <1>4, RejectEffect DEF Effects
<1>5. CASE RejectDependency(s, e)
  <2>1. PICK dep : Reject(s, e, ~OwnedElsewhere(s, dep))
    BY <1>5 DEF RejectDependency
  <2>2. Reject(s, e, FALSE) \/ Reject(s, e, TRUE)
    <3>1. CASE OwnedElsewhere(s, dep)
      BY <2>1, <3>1, Zenon DEF Reject
    <3>2. CASE ~OwnedElsewhere(s, dep)
      BY <2>1, <3>2, Zenon DEF Reject
    <3>. QED  BY <3>1, <3>2
  <2>. QED  BY <2>2, <1>4
<1>. QED
  BY <1>1, <1>2, <1>3, <1>4, <1>5 DEF RejectUnreadable, RejectStale, RejectInapplicable

LEMMA HandleEffect == ASSUME Typed, NEW r \in requests, HandleRequest(r) PROVE Effects
<1>1. r \in Request
  BY DEF Typed, ServerTypeOK
<1>2. CASE Authenticate(r)
  BY <1>2 DEF Authenticate, Quiet, Effects
<1>3. CASE RefuseToken(r)
  BY <1>3 DEF RefuseToken, Answer, Failure, Quiet, Effects
<1>4. CASE RefuseBatchSize(r) \/ RefuseStudent(r)
  BY <1>4 DEF RefuseBatchSize, RefuseStudent, Answer, Refusal, Quiet, Effects
<1>5. CASE RefuseDevice(r)
  BY <1>5 DEF RefuseDevice, Answer, Failure, Quiet, Effects
<1>6. CASE BeginBatch(r)
  <2>. DEFINE s == r.student_id
              t == [NoTransaction EXCEPT !.call = r.call, !.device_id = r.device_id,
                                         !.todo = r.events]
  <2>1. /\ t \in Transaction /\ s \in Students
        /\ t.device_id = r.device_id /\ r.device_id \in Devices
        /\ t.accepted = {} /\ t.duplicates = {} /\ t.accepted_max_sequence = 0
    BY <1>1 DEF NoTransaction, Transaction, Request
  <2>2. txn' = [txn EXCEPT ![s] = t]
    BY <1>6 DEF BeginBatch
  <2>3. Resets(s, t)
    BY <1>6, <2>1, <2>2 DEF BeginBatch, Resets
  <2>. QED  BY <2>1, <2>3 DEF Effects
<1>. QED  BY <1>2, <1>3, <1>4, <1>5, <1>6 DEF HandleRequest

LEMMA DeviceEffect ==
  ASSUME Typed, NEW s \in Students, NEW d \in Devices,
         RegisterDevice(s, d) \/ RevokeDevice(s, d)
  PROVE  DeviceChanges(d)
<1>1. devices[d] \in DeviceRow
  BY DEF Typed, ServerTypeOK
<1>2. CASE RegisterDevice(s, d)
  <2>1. NewDevice(s) \in DeviceRow /\ NewDevice(s).last_device_sequence = 0
    BY DEF NewDevice, DeviceRow
  <2>2. devices[d].student_id = None /\ devices[d].last_device_sequence = 0
    BY <1>2 DEF RegisterDevice, Unregistered
  <2>. QED  BY <1>2, <2>1, <2>2 DEF RegisterDevice, DeviceChanges
<1>3. CASE RevokeDevice(s, d)
  <2>. DEFINE row == [devices[d] EXCEPT !.status = "revoked"]
  <2>1. /\ row \in DeviceRow /\ row.student_id = devices[d].student_id
        /\ row.last_device_sequence = devices[d].last_device_sequence
    BY <1>1 DEF DeviceRow
  <2>2. devices' = [devices EXCEPT ![d] = row]
    BY <1>3 DEF RevokeDevice
  <2>. QED  BY <1>3, <2>1, <2>2 DEF RevokeDevice, DeviceChanges
<1>. QED  BY <1>2, <1>3

\* Every step of the server has one of these effects, or none of them matters.
LEMMA StepEffect == ASSUME Typed, [ServerNext]_serverVars PROVE Effects
<1>1. CASE UNCHANGED serverVars
  BY <1>1 DEF serverVars, Quiet, Effects
<1>2. CASE \E r \in requests : HandleRequest(r)
  BY <1>2, HandleEffect
<1>3. CASE \E s \in Students : RunBatch(s)
  <2>1. PICK s \in Students : RunBatch(s)
    BY <1>3
  <2>2. CASE AbortBatch(s)
    <3>1. Resets(s, NoTransaction)
      BY <2>2 DEF AbortBatch, BatchFailure, Failure, NoTransaction, Resets
    <3>. QED  BY <3>1, NoTransactionTyped DEF Effects
  <2>. QED  BY <2>1, <2>2, ProcessEffect DEF RunBatch, Effects
<1>4. CASE Administration
  <2>1. CASE \E s \in Students : RequestDeletion(s)
    BY <2>1 DEF RequestDeletion, Quiet, Effects
  <2>. QED  BY <1>4, <2>1, DeviceEffect DEF Administration, Effects
<1>5. CASE Network
  BY <1>5 DEF Network, LoseRequest, TakeResponse, Quiet, Effects
<1>6. CASE \E c \in Calls, s \in Students, d \in Devices, events \in SUBSET Envelope :
             SendRequest(c, s, d, events)
  BY <1>6 DEF SendRequest, Quiet, Effects
<1>. QED  BY <1>1, <1>2, <1>3, <1>4, <1>5, <1>6 DEF ServerNext, ServerStep

--------------------------------------------------------------------------------
(* Rows, committed or held by an open transaction, have their ids and their
   device's sequence numbers to themselves.  The strengthening speaks of both:
   a commit then only moves rows. *)

Written == learning_events \cup UNION {txn[s].accepted : s \in Students}

\* A transaction and its rows belong to one device of its student; so two open
\* transactions never share a device.
Owned ==
    /\ \A row \in learning_events : devices[row.device_id].student_id = row.student_id
    /\ \A s \in Students :
         /\ \/ txn[s] = NoTransaction
            \/ /\ txn[s].device_id \in Devices
               /\ devices[txn[s].device_id].student_id = s
         /\ \A row \in txn[s].accepted :
              row.student_id = s /\ row.device_id = txn[s].device_id

IdsUnique == \A a, b \in Written : a.event_id = b.event_id => a = b

Sequenced ==
    /\ \A a, b \in Written :
         a.device_id = b.device_id /\ a.device_sequence = b.device_sequence => a = b
    /\ WatermarkExact
    /\ \A s \in Students :
         /\ \A row \in txn[s].accepted :
              /\ devices[txn[s].device_id].last_device_sequence < row.device_sequence
              /\ row.device_sequence <= txn[s].accepted_max_sequence
         /\ txn[s].accepted # {} =>
              \E row \in txn[s].accepted :
                 row.device_sequence = txn[s].accepted_max_sequence

DependenciesHeld ==
    /\ DependenciesStored
    /\ \A s \in Students : \A row \in txn[s].accepted :
         row.depends_on_event_ids \subseteq Visible(s)

AnswersWillBeHonest ==
    /\ AnswersHonest
    /\ \A s \in Students : txn[s].duplicates \subseteq Visible(s)

ServerInvariant ==
    /\ Typed /\ Owned /\ IdsUnique
    /\ Sequenced /\ DependenciesHeld /\ AnswersWillBeHonest

LEMMA InitInvariant == ServerInit => ServerInvariant
<1>. SUFFICES ASSUME ServerInit PROVE ServerInvariant
  OBVIOUS
<1>1. \A s \in Students :
        txn[s] = NoTransaction /\ txn[s].accepted = {} /\ txn[s].duplicates = {}
  BY DEF ServerInit, NoTransaction
<1>2. Written = {}
  BY <1>1 DEF Written, ServerInit
<1>3. Owned
  BY <1>1 DEF Owned, ServerInit
<1>4. \A d \in Devices : devices[d].last_device_sequence = 0
  BY DEF ServerInit, NewDevice, Unregistered
<1>5. Sequenced
  BY <1>1, <1>2, <1>4 DEF Sequenced, WatermarkExact, ServerInit
<1>6. DependenciesHeld /\ AnswersWillBeHonest
  BY <1>1 DEF DependenciesHeld, DependenciesStored, AnswersWillBeHonest, AnswersHonest,
              ServerInit
<1>7. IdsUnique
  BY <1>2 DEF IdsUnique
<1>. QED  BY <1>3, <1>5, <1>6, <1>7, InitTyped DEF ServerInvariant

\* The transaction StoreEvent leaves.
StoredIn(s, e) ==
    [txn[s] EXCEPT !.todo = @ \ {e}, !.accepted = @ \cup {RowOf(s, e)},
                   !.accepted_max_sequence = e.device_sequence]

LEMMA StoreFacts ==
  ASSUME ServerInvariant, NEW s \in Students, NEW e \in txn[s].todo, StoreEvent(s, e)
  PROVE  /\ txn' = [txn EXCEPT ![s] = StoredIn(s, e)]
         /\ StoredIn(s, e).accepted = txn[s].accepted \cup {RowOf(s, e)}
         /\ StoredIn(s, e).accepted_max_sequence = e.device_sequence
         /\ StoredIn(s, e).device_id = txn[s].device_id
         /\ StoredIn(s, e).duplicates = txn[s].duplicates
         /\ RowOf(s, e) \in Row /\ e \in Envelope
         /\ txn[s].device_id \in Devices /\ devices[txn[s].device_id].student_id = s
         /\ UNCHANGED <<devices, learning_events, responses>>
         /\ Written' = Written \cup {RowOf(s, e)}
<1>1. txn[s] \in Transaction /\ txn[s].device_id \in Devices
  BY DEF ServerInvariant, Typed, ServerTypeOK, TransactionsOpen
<1>2. e \in Envelope
  BY <1>1 DEF Transaction
<1>3. RowOf(s, e) \in Row
  BY <1>1, <1>2 DEF Envelope, Row, RowOf
<1>4. txn' = [txn EXCEPT ![s] = StoredIn(s, e)]
  BY DEF StoreEvent, Insert, RowOf, StoredIn
<1>5. /\ StoredIn(s, e).accepted = txn[s].accepted \cup {RowOf(s, e)}
      /\ StoredIn(s, e).accepted_max_sequence = e.device_sequence
      /\ StoredIn(s, e).device_id = txn[s].device_id
      /\ StoredIn(s, e).duplicates = txn[s].duplicates
  BY <1>1 DEF StoredIn, Transaction
<1>6. devices[txn[s].device_id].student_id = s
  BY DEF NoTransaction, ServerInvariant, Owned
<1>7. UNCHANGED <<devices, learning_events, responses>>
  BY DEF StoreEvent, Insert
<1>8. txn \in [Students -> Transaction]
  BY DEF ServerInvariant, Typed, ServerTypeOK
<1>9. txn'[s].accepted = txn[s].accepted \cup {RowOf(s, e)}
  BY <1>4, <1>5, <1>8
<1>10. \A o \in Students \ {s} : txn'[o] = txn[o]
  BY <1>4, <1>8
<1>11. Written' = Written \cup {RowOf(s, e)}
  BY <1>7, <1>9, <1>10 DEF Written
<1>. QED  BY <1>1, <1>2, <1>3, <1>4, <1>5, <1>6, <1>7, <1>11

\* What each other effect does to the transactions and the rows.
LEMMA CommitFacts ==
  ASSUME ServerInvariant, NEW s \in Students, Commit(s)
  PROVE  /\ learning_events' = learning_events \cup txn[s].accepted
         /\ txn'[s] = NoTransaction
         /\ \A o \in Students \ {s} : txn'[o] = txn[o]
         /\ txn[s].device_id \in Devices /\ devices[txn[s].device_id].student_id = s
         /\ Written' = Written
<1>1. txn \in [Students -> Transaction]
  BY DEF ServerInvariant, Typed, ServerTypeOK
<1>2. txn[s] # NoTransaction
  BY DEF Commit, Advanced, LockFree, NoTransaction
<1>3. txn[s].device_id \in Devices /\ devices[txn[s].device_id].student_id = s
  BY <1>2 DEF ServerInvariant, Owned
<1>4. learning_events' = learning_events \cup txn[s].accepted
  BY DEF Commit, Advanced
<1>5. txn'[s] = NoTransaction /\ \A o \in Students \ {s} : txn'[o] = txn[o]
  BY <1>1 DEF Commit, Advanced
<1>6. NoTransaction.accepted = {}
  BY DEF NoTransaction
<1>7. Written' = Written
  BY <1>4, <1>5, <1>6 DEF Written
<1>. QED  BY <1>3, <1>4, <1>5, <1>7

LEMMA ResetFacts ==
  ASSUME ServerInvariant, NEW s \in Students, NEW t \in Transaction, Resets(s, t)
  PROVE  /\ txn'[s] = t /\ t.accepted = {} /\ t.duplicates = {}
         /\ \A o \in Students \ {s} : txn'[o] = txn[o]
         /\ Written' \subseteq Written
<1>1. txn \in [Students -> Transaction]
  BY DEF ServerInvariant, Typed, ServerTypeOK
<1>2. txn'[s] = t /\ \A o \in Students \ {s} : txn'[o] = txn[o]
  BY <1>1 DEF Resets
<1>3. t.accepted = {} /\ t.duplicates = {}
  BY DEF Resets
<1>4. Written' \subseteq Written
  BY <1>2, <1>3 DEF Written, Resets
<1>. QED  BY <1>2, <1>3, <1>4

LEMMA PassFacts ==
  ASSUME ServerInvariant, NEW s \in Students, NEW t \in Transaction, PassedOver(s, t)
  PROVE  /\ \A o \in Students :
              /\ txn'[o].accepted = txn[o].accepted
              /\ txn'[o].accepted_max_sequence = txn[o].accepted_max_sequence
              /\ txn'[o].device_id = txn[o].device_id
         /\ txn'[s].duplicates \subseteq txn[s].duplicates \cup Visible(s)
         /\ \A o \in Students \ {s} : txn'[o] = txn[o]
         /\ txn[s] # NoTransaction
         /\ Written' = Written
<1>1. txn \in [Students -> Transaction]
  BY DEF ServerInvariant, Typed, ServerTypeOK
<1>2. txn'[s] = t /\ \A o \in Students \ {s} : txn'[o] = txn[o]
  BY <1>1 DEF PassedOver
<1>3. \A o \in Students :
              /\ txn'[o].accepted = txn[o].accepted
              /\ txn'[o].accepted_max_sequence = txn[o].accepted_max_sequence
              /\ txn'[o].device_id = txn[o].device_id
  BY <1>2 DEF PassedOver
<1>4. txn'[s].duplicates \subseteq txn[s].duplicates \cup Visible(s)
  BY <1>2 DEF PassedOver
<1>5. txn[s] # NoTransaction
  BY DEF PassedOver, NoTransaction
<1>6. Written' = Written
  BY <1>3 DEF Written, PassedOver
<1>. QED  BY <1>2, <1>3, <1>4, <1>5, <1>6

\* Whose a device is, once it is somebody's, does not change; nor does a change of
\* a device touch its watermark.
LEMMA DeviceFacts ==
  ASSUME ServerInvariant, NEW d \in Devices, DeviceChanges(d)
  PROVE  /\ \A c \in Devices :
              /\ devices'[c].last_device_sequence = devices[c].last_device_sequence
              /\ devices[c].student_id # None =>
                   devices'[c].student_id = devices[c].student_id
         /\ Written' = Written
<1>1. devices \in [Devices -> DeviceRow]
  BY DEF ServerInvariant, Typed, ServerTypeOK
<1>2. PICK row \in DeviceRow :
         /\ devices' = [devices EXCEPT ![d] = row]
         /\ row.last_device_sequence = devices[d].last_device_sequence
         /\ devices[d].student_id # None => row.student_id = devices[d].student_id
  BY DEF DeviceChanges
<1>3. \A c \in Devices : devices'[c] = IF c = d THEN row ELSE devices[c]
  BY <1>1, <1>2
<1>4. Written' = Written
  BY DEF DeviceChanges, Written
<1>. QED  BY <1>2, <1>3, <1>4

LEMMA StepOwned == ASSUME ServerInvariant, Typed', Effects PROVE Owned'
<1>. USE DEF ServerInvariant
<1>1. /\ txn \in [Students -> Transaction] /\ devices \in [Devices -> DeviceRow]
      /\ learning_events \subseteq Row
  BY DEF Typed, ServerTypeOK
<1>2. None \notin Students
  BY ProtocolConstants
<1>3. CASE Quiet
  BY <1>3 DEF Quiet, Owned
<1>4. ASSUME NEW s \in Students, NEW t \in Transaction, PassedOver(s, t) PROVE Owned'
  <2>1. devices' = devices /\ learning_events' = learning_events
    BY <1>4 DEF PassedOver
  <2>. QED  BY <1>4, <2>1, PassFacts DEF Owned
<1>5. ASSUME NEW s \in Students, NEW t \in Transaction, Resets(s, t) PROVE Owned'
  <2>1. devices' = devices /\ learning_events' = learning_events
    BY <1>5 DEF Resets
  <2>2. \/ t = NoTransaction
        \/ t.device_id \in Devices /\ devices[t.device_id].student_id = s
    BY <1>5 DEF Resets
  <2>. QED  BY <1>5, <2>1, <2>2, ResetFacts DEF Owned
<1>6. ASSUME NEW s \in Students, NEW e \in txn[s].todo, StoreEvent(s, e) PROVE Owned'
  <2>1. RowOf(s, e).student_id = s /\ RowOf(s, e).device_id = txn[s].device_id
    BY DEF RowOf
  <2>2. \A o \in Students : txn'[o] = IF o = s THEN StoredIn(s, e) ELSE txn[o]
    BY <1>1, <1>6, StoreFacts
  <2>3. devices' = devices /\ learning_events' = learning_events
    BY <1>6, StoreFacts
  <2>. QED  BY <1>6, <2>1, <2>2, <2>3, StoreFacts DEF Owned
<1>7. ASSUME NEW s \in Students, Commit(s) PROVE Owned'
  <2>1. \A d \in Devices : devices'[d].student_id = devices[d].student_id
    BY <1>1, <1>7 DEF Commit, Advanced, DeviceRow
  <2>2. NoTransaction.accepted = {}
    BY DEF NoTransaction
  <2>3. \A row \in learning_events' : devices'[row.device_id].student_id = row.student_id
    BY <1>1, <1>7, <2>1, CommitFacts DEF Owned, Row
  <2>. QED  BY <1>7, <2>1, <2>2, <2>3, CommitFacts DEF Owned
<1>8. ASSUME NEW d \in Devices, DeviceChanges(d) PROVE Owned'
  <2>1. learning_events' = learning_events /\ txn' = txn
    BY <1>8 DEF DeviceChanges
  <2>2. \A row \in learning_events : devices'[row.device_id].student_id = row.student_id
    BY <1>1, <1>2, <1>8, DeviceFacts DEF Owned, Row
  <2>. QED  BY <1>1, <1>2, <1>8, <2>1, <2>2, DeviceFacts DEF Owned
<1>. QED  BY <1>3, <1>4, <1>5, <1>6, <1>7, <1>8 DEF Effects

LEMMA StepIdsUnique == ASSUME ServerInvariant, Effects PROVE IdsUnique'
<1>1. CASE Written' \subseteq Written
  BY <1>1 DEF ServerInvariant, IdsUnique
<1>2. ASSUME NEW s \in Students, NEW e \in txn[s].todo, StoreEvent(s, e)
      PROVE  IdsUnique'
  <2>1. Written' = Written \cup {RowOf(s, e)}
    BY <1>2, StoreFacts
  <2>2. RowOf(s, e).event_id = e.event_id
    BY DEF RowOf
  <2>3. \A row \in learning_events : row.event_id # e.event_id
    BY <1>2 DEF StoreEvent, Applies, IsNew, Visible, IdsOf, RowsOfStudent, OwnedElsewhere
  <2>4. \A o \in Students : \A row \in txn[o].accepted : row.event_id # e.event_id
    BY <1>2 DEF StoreEvent, Applies, IsNew, Visible, IdsOf, HeldElsewhere
  <2>5. \A row \in Written : row.event_id # e.event_id
    BY <2>3, <2>4 DEF Written
  <2>. QED  BY <2>1, <2>2, <2>5 DEF ServerInvariant, IdsUnique
<1>3. CASE Quiet
  BY <1>1, <1>3 DEF Quiet, Written
<1>. QED  BY <1>1, <1>2, <1>3, PassFacts, ResetFacts, CommitFacts, DeviceFacts DEF Effects

\* Committing s's transaction moves the watermark of its device up, past every
\* sequence stored for it, to the last one accepted.
LEMMA CommitSequenced ==
  ASSUME ServerInvariant, NEW s \in Students, Commit(s)
  PROVE  Sequenced'
<1>. USE DEF ServerInvariant
<1>. DEFINE mine == txn[s].device_id
<1>1. /\ devices \in [Devices -> DeviceRow] /\ learning_events \subseteq Row
      /\ txn \in [Students -> Transaction]
  BY DEF Typed, ServerTypeOK
<1>2. /\ learning_events' = learning_events \cup txn[s].accepted
      /\ txn'[s] = NoTransaction /\ \A o \in Students \ {s} : txn'[o] = txn[o]
      /\ mine \in Devices /\ devices[mine].student_id = s
      /\ Written' = Written
  BY CommitFacts
<1>3. \A row \in txn[s].accepted : row \in Row /\ row.device_id = mine
  BY <1>1 DEF Owned, Transaction
<1>4. CASE txn[s].accepted = {}
  <2>1. devices' = devices /\ learning_events' = learning_events
    BY <1>2, <1>4 DEF Commit, Advanced
  <2>2. NoTransaction.accepted = {}
    BY DEF NoTransaction
  <2>. QED  BY <1>2, <2>1, <2>2 DEF Sequenced, WatermarkExact
<1>5. CASE txn[s].accepted # {}
  <2>. DEFINE max == txn[s].accepted_max_sequence
  <2>1. max \in Nat
    BY <1>1 DEF Transaction
  <2>2. \A d \in Devices : /\ devices'[d].last_device_sequence =
                                IF d = mine THEN max ELSE devices[d].last_device_sequence
                           /\ devices[d].last_device_sequence \in Nat
    BY <1>1, <1>2, <1>5 DEF Commit, Advanced, DeviceRow
  <2>3. PICK last \in txn[s].accepted : last.device_sequence = max
    BY <1>5 DEF Sequenced
  <2>4. devices[mine].last_device_sequence < max
    BY <2>3 DEF Sequenced
  <2>5. \A row \in learning_events' : row \in Row
    BY <1>1, <1>2, <1>3
  <2>6. \A row \in learning_events' :
          row.device_sequence <= devices'[row.device_id].last_device_sequence
    <3>. TAKE row \in learning_events'
    <3>1. row.device_id \in Devices /\ row.device_sequence \in Nat
      BY <2>5 DEF Row
    <3>2. CASE row \in txn[s].accepted
      BY <1>3, <3>1, <3>2, <2>2 DEF Sequenced
    <3>3. CASE row \in learning_events
      <4>1. row.device_sequence <= devices[row.device_id].last_device_sequence
        BY <3>3 DEF Sequenced, WatermarkExact
      <4>. QED  BY <3>1, <4>1, <2>1, <2>2, <2>4
    <3>. QED  BY <1>2, <3>2, <3>3
  <2>7. \A d \in Devices : devices'[d].last_device_sequence > 0 =>
          \E row \in learning_events' : /\ row.device_id = d
             /\ row.device_sequence = devices'[d].last_device_sequence
    <3>. TAKE d \in Devices
    <3>1. CASE d = mine
      BY <1>2, <1>3, <2>2, <2>3, <3>1
    <3>2. CASE d # mine
      BY <1>2, <2>2, <3>2 DEF Sequenced, WatermarkExact
    <3>. QED  BY <3>1, <3>2
  <2>8. \A a, b \in Written' :
          a.device_id = b.device_id /\ a.device_sequence = b.device_sequence => a = b
    BY <1>2 DEF Sequenced
  <2>9. learning_events' \subseteq Written'
    BY DEF Written
  <2>10. \A o \in Students \ {s} : \A row \in txn[o].accepted :
           devices'[txn[o].device_id] = devices[txn[o].device_id]
    <3>. TAKE o \in Students \ {s}
    <3>. TAKE row \in txn[o].accepted
    <3>1. txn[o] # NoTransaction
      BY DEF NoTransaction
    <3>2. txn[o].device_id \in Devices /\ txn[o].device_id # mine
      BY <1>2, <3>1 DEF Owned
    <3>. QED  BY <1>1, <1>5, <3>2 DEF Commit, Advanced
  <2>11. NoTransaction.accepted = {}
    BY DEF NoTransaction
  <2>12. WatermarkExact'
    BY <2>6, <2>7, <2>8, <2>9 DEF WatermarkExact
  <2>13. \A o \in Students :
         /\ \A row \in txn'[o].accepted :
              /\ devices'[txn'[o].device_id].last_device_sequence < row.device_sequence
              /\ row.device_sequence <= txn'[o].accepted_max_sequence
         /\ txn'[o].accepted # {} =>
              \E row \in txn'[o].accepted :
                 row.device_sequence = txn'[o].accepted_max_sequence
    BY <1>2, <2>10, <2>11 DEF Sequenced
  <2>. QED  BY <2>8, <2>12, <2>13 DEF Sequenced
<1>. QED  BY <1>4, <1>5

LEMMA StoreSequenced ==
  ASSUME ServerInvariant, NEW s \in Students, NEW e \in txn[s].todo, StoreEvent(s, e)
  PROVE  Sequenced'
<1>. USE DEF ServerInvariant
<1>. DEFINE row == RowOf(s, e)
            mine == txn[s].device_id
<1>1. /\ devices \in [Devices -> DeviceRow] /\ learning_events \subseteq Row
      /\ txn \in [Students -> Transaction]
  BY DEF Typed, ServerTypeOK
<1>2. /\ row.device_sequence = e.device_sequence /\ row.device_id = mine
      /\ row.student_id = s
  BY DEF RowOf
<1>3. /\ \A o \in Students : txn'[o] = IF o = s THEN StoredIn(s, e) ELSE txn[o]
      /\ StoredIn(s, e).accepted = txn[s].accepted \cup {row}
      /\ StoredIn(s, e).accepted_max_sequence = e.device_sequence
      /\ StoredIn(s, e).device_id = mine
      /\ mine \in Devices /\ devices[mine].student_id = s
      /\ UNCHANGED <<devices, learning_events>>
      /\ Written' = Written \cup {row}
      /\ e.device_sequence \in Nat
  BY <1>1, StoreFacts DEF Envelope
<1>4. /\ txn[s].accepted_max_sequence \in Nat
      /\ devices[mine].last_device_sequence \in Nat
  BY <1>1, <1>3 DEF Transaction, DeviceRow
<1>5. /\ txn[s].accepted_max_sequence < e.device_sequence
      /\ devices[mine].last_device_sequence < e.device_sequence
  BY <1>3, <1>4 DEF StoreEvent, Applies, IsStale
<1>6. \A old \in Written : old.device_id = mine => old.device_sequence < e.device_sequence
  <2>. TAKE old \in Written
  <2>. HAVE old.device_id = mine
  <2>1. old \in Row
    BY <1>1 DEF Written, Transaction
  <2>2. CASE old \in learning_events
    BY <1>3, <1>4, <1>5, <2>1, <2>2 DEF Sequenced, WatermarkExact, Row
  <2>3. ASSUME NEW o \in Students, old \in txn[o].accepted
        PROVE  old.device_sequence < e.device_sequence
    <3>1. txn[o] # NoTransaction
      BY <2>3 DEF NoTransaction
    <3>2. o = s
      BY <1>3, <2>3, <3>1 DEF Owned
    <3>. QED  BY <1>3, <1>4, <1>5, <2>1, <2>3, <3>2 DEF Sequenced, Row
  <2>. QED  BY <2>2, <2>3 DEF Written
<1>7. \A old \in Written : old \in Row
  BY <1>1 DEF Written, Transaction
<1>8. \A a, b \in Written' :
        a.device_id = b.device_id /\ a.device_sequence = b.device_sequence => a = b
  BY <1>2, <1>3, <1>6, <1>7 DEF Sequenced, Row
<1>9. WatermarkExact'
  BY <1>3 DEF Sequenced, WatermarkExact
<1>10. \A old \in txn[s].accepted : old \in Row /\ old.device_sequence <= e.device_sequence
  <2>1. \A old \in txn[s].accepted : old \in Written /\ old.device_id = mine
    BY DEF Owned, Written
  <2>. QED  BY <1>3, <1>6, <1>7, <2>1 DEF Row
<1>11. \A o \in Students :
         /\ \A r \in txn'[o].accepted :
              /\ devices'[txn'[o].device_id].last_device_sequence < r.device_sequence
              /\ r.device_sequence <= txn'[o].accepted_max_sequence
         /\ txn'[o].accepted # {} =>
              \E r \in txn'[o].accepted :
                 r.device_sequence = txn'[o].accepted_max_sequence
  <2>. TAKE o \in Students
  <2>1. CASE o = s
    BY <1>2, <1>3, <1>5, <1>10, <2>1 DEF Sequenced
  <2>2. CASE o # s
    BY <1>3, <2>2 DEF Sequenced
  <2>. QED  BY <2>1, <2>2
<1>. QED  BY <1>8, <1>9, <1>11 DEF Sequenced

LEMMA StepSequenced == ASSUME ServerInvariant, Effects PROVE Sequenced'
<1>. USE DEF ServerInvariant
<1>1. CASE Quiet
  BY <1>1 DEF Quiet, Written, Sequenced, WatermarkExact
<1>2. ASSUME NEW s \in Students, NEW t \in Transaction, PassedOver(s, t)
      PROVE  Sequenced'
  <2>1. devices' = devices /\ learning_events' = learning_events
    BY <1>2 DEF PassedOver
  <2>. QED  BY <1>2, <2>1, PassFacts DEF Sequenced, WatermarkExact
<1>3. ASSUME NEW s \in Students, NEW t \in Transaction, Resets(s, t) PROVE Sequenced'
  <2>1. devices' = devices /\ learning_events' = learning_events
    BY <1>3 DEF Resets
  <2>. QED  BY <1>3, <2>1, ResetFacts DEF Sequenced, WatermarkExact
<1>4. ASSUME NEW d \in Devices, DeviceChanges(d) PROVE Sequenced'
  <2>1. learning_events' = learning_events /\ txn' = txn
    BY <1>4 DEF DeviceChanges
  <2>2. learning_events \subseteq Row
    BY DEF Typed, ServerTypeOK
  <2>3. /\ Written' = Written
        /\ \A c \in Devices :
              devices'[c].last_device_sequence = devices[c].last_device_sequence
    BY <1>4, DeviceFacts
  <2>4. \A s \in Students : txn[s].accepted # {} => txn[s].device_id \in Devices
    BY DEF Owned, NoTransaction
  <2>5. WatermarkExact'
    BY <2>1, <2>2, <2>3 DEF Sequenced, WatermarkExact, Row
  <2>. QED  BY <2>1, <2>3, <2>4, <2>5 DEF Sequenced
<1>. QED  BY <1>1, <1>2, <1>3, <1>4, CommitSequenced, StoreSequenced DEF Effects

\* What a student's transaction can see only grows, as long as it is open; what it
\* has seen is committed with it.
LEMMA StaysVisible ==
  ASSUME ServerInvariant, Effects
  PROVE  /\ \A s \in Students : IdsOf(RowsOfStudent(s)) \subseteq IdsOf(RowsOfStudent(s)')
         /\ \A s \in Students :
              (txn'[s].accepted = {} /\ txn'[s].duplicates = {})
                 \/ Visible(s) \subseteq Visible(s)'
<1>. USE DEF ServerInvariant
<1>1. txn \in [Students -> Transaction]
  BY DEF Typed, ServerTypeOK
<1>2. learning_events \subseteq learning_events'
  <2>1. CASE \E s \in Students : \E e \in txn[s].todo : StoreEvent(s, e)
    BY <2>1, StoreFacts
  <2>. QED  BY <2>1, CommitFacts DEF Effects, Quiet, PassedOver, Resets, DeviceChanges
<1>3. \A s \in Students : IdsOf(RowsOfStudent(s)) \subseteq IdsOf(RowsOfStudent(s)')
  BY <1>2 DEF IdsOf, RowsOfStudent
<1>4. \A s \in Students :
        \/ txn'[s].accepted = {} /\ txn'[s].duplicates = {}
        \/ txn[s].accepted \subseteq txn'[s].accepted
  <2>1. CASE Quiet
    BY <2>1 DEF Quiet
  <2>2. ASSUME NEW s \in Students, NEW t \in Transaction, PassedOver(s, t)
        PROVE  \A o \in Students : txn'[o].accepted = txn[o].accepted
    BY <2>2, PassFacts
  <2>3. ASSUME NEW s \in Students, NEW t \in Transaction, Resets(s, t)
        PROVE  \A o \in Students :
                 \/ txn'[o].accepted = {} /\ txn'[o].duplicates = {}
                 \/ txn[o].accepted = txn'[o].accepted
    BY <2>3, ResetFacts
  <2>4. ASSUME NEW s \in Students, NEW e \in txn[s].todo, StoreEvent(s, e)
        PROVE  \A o \in Students : txn[o].accepted \subseteq txn'[o].accepted
    <3>1. \A o \in Students : txn'[o] = IF o = s THEN StoredIn(s, e) ELSE txn[o]
      BY <1>1, <2>4, StoreFacts
    <3>. QED  BY <2>4, <3>1, StoreFacts
  <2>5. ASSUME NEW s \in Students, Commit(s)
        PROVE  \A o \in Students :
                 \/ txn'[o].accepted = {} /\ txn'[o].duplicates = {}
                 \/ txn[o].accepted = txn'[o].accepted
    BY <2>5, CommitFacts DEF NoTransaction
  <2>6. CASE \E d \in Devices : DeviceChanges(d)
    BY <2>6 DEF DeviceChanges
  <2>. QED  BY <2>1, <2>2, <2>3, <2>4, <2>5, <2>6 DEF Effects
<1>5. \A s \in Students :
        \/ txn'[s].accepted = {} /\ txn'[s].duplicates = {}
        \/ Visible(s) \subseteq Visible(s)'
  BY <1>3, <1>4 DEF Visible, IdsOf
<1>. QED  BY <1>3, <1>5

\* When s commits, what it could see is what is stored for s.
LEMMA CommitVisible ==
  ASSUME ServerInvariant, NEW s \in Students, Commit(s)
  PROVE  Visible(s) = IdsOf(RowsOfStudent(s)')
<1>1. learning_events' = learning_events \cup txn[s].accepted
  BY CommitFacts
<1>2. \A row \in txn[s].accepted : row.student_id = s
  BY DEF ServerInvariant, Owned
<1>3. RowsOfStudent(s)' = RowsOfStudent(s) \cup txn[s].accepted
  BY <1>1, <1>2 DEF RowsOfStudent
<1>. QED  BY <1>3 DEF Visible, IdsOf

LEMMA StepDependencies == ASSUME ServerInvariant, Effects PROVE DependenciesHeld'
<1>. USE DEF ServerInvariant
<1>1. /\ txn \in [Students -> Transaction] /\ learning_events \subseteq Row
  BY DEF Typed, ServerTypeOK
<1>2. \A row \in learning_events : row.student_id \in Students
  BY <1>1 DEF Row
<1>3. \A row \in learning_events :
        row.depends_on_event_ids \subseteq IdsOf(RowsOfStudent(row.student_id)')
  BY <1>2, StaysVisible DEF DependenciesHeld, DependenciesStored
<1>4. ASSUME learning_events' = learning_events,
             \A s \in Students : txn'[s].accepted \subseteq txn[s].accepted
      PROVE  DependenciesHeld'
  <2>1. DependenciesStored'
    BY <1>3, <1>4 DEF DependenciesStored, RowsOfStudent
  <2>2. \A s \in Students : \A row \in txn'[s].accepted :
          row.depends_on_event_ids \subseteq Visible(s)'
    BY <1>4, StaysVisible DEF DependenciesHeld
  <2>. QED  BY <2>1, <2>2 DEF DependenciesHeld
<1>5. CASE Quiet
  BY <1>4, <1>5 DEF Quiet
<1>6. ASSUME NEW s \in Students, NEW t \in Transaction, PassedOver(s, t)
      PROVE  DependenciesHeld'
  BY <1>4, <1>6, PassFacts DEF PassedOver
<1>7. ASSUME NEW s \in Students, NEW t \in Transaction, Resets(s, t)
      PROVE  DependenciesHeld'
  <2>1. \A o \in Students : txn'[o].accepted \subseteq txn[o].accepted
    BY <1>7, ResetFacts
  <2>. QED  BY <1>4, <1>7, <2>1 DEF Resets
<1>8. ASSUME NEW d \in Devices, DeviceChanges(d) PROVE DependenciesHeld'
  BY <1>4, <1>8 DEF DeviceChanges
<1>9. ASSUME NEW s \in Students, NEW e \in txn[s].todo, StoreEvent(s, e)
      PROVE  DependenciesHeld'
  <2>1. /\ \A o \in Students : txn'[o] = IF o = s THEN StoredIn(s, e) ELSE txn[o]
        /\ StoredIn(s, e).accepted = txn[s].accepted \cup {RowOf(s, e)}
        /\ learning_events' = learning_events
    BY <1>1, <1>9, StoreFacts
  <2>2. RowOf(s, e).depends_on_event_ids \subseteq Visible(s)
    BY <1>9 DEF StoreEvent, Applies, MissingDependencies, RowOf
  <2>3. RowOf(s, e) \in txn'[s].accepted
    BY <2>1
  <2>4. Visible(s) \subseteq Visible(s)'
    BY <2>3, StaysVisible
  <2>5. DependenciesStored'
    BY <1>3, <2>1 DEF DependenciesStored, RowsOfStudent
  <2>6. \A o \in Students : \A row \in txn'[o].accepted :
          row.depends_on_event_ids \subseteq Visible(o)
    BY <2>1, <2>2 DEF DependenciesHeld
  <2>7. \A o \in Students : \A row \in txn'[o].accepted :
          row.depends_on_event_ids \subseteq Visible(o)'
    BY <2>6, StaysVisible
  <2>. QED  BY <2>5, <2>7 DEF DependenciesHeld
<1>10. ASSUME NEW s \in Students, Commit(s) PROVE DependenciesHeld'
  <2>1. /\ learning_events' = learning_events \cup txn[s].accepted
        /\ txn'[s].accepted = {}
        /\ \A o \in Students \ {s} : txn'[o] = txn[o]
    BY <1>10, CommitFacts DEF NoTransaction
  <2>2. \A row \in txn[s].accepted :
          row.depends_on_event_ids \subseteq IdsOf(RowsOfStudent(row.student_id)')
    BY <1>10, CommitVisible DEF DependenciesHeld, Owned
  <2>3. \A row \in learning_events' :
          row.depends_on_event_ids \subseteq IdsOf(RowsOfStudent(row.student_id)')
    BY <1>3, <2>1, <2>2
  <2>4. DependenciesStored'
    BY <2>3 DEF DependenciesStored, RowsOfStudent
  <2>5. \A o \in Students : \A row \in txn'[o].accepted :
          row.depends_on_event_ids \subseteq Visible(o)'
    BY <2>1, StaysVisible DEF DependenciesHeld
  <2>. QED  BY <2>4, <2>5 DEF DependenciesHeld
<1>. QED  BY <1>5, <1>6, <1>7, <1>8, <1>9, <1>10 DEF Effects

LEMMA StepAnswers == ASSUME ServerInvariant, Effects PROVE AnswersWillBeHonest'
<1>. USE DEF ServerInvariant
<1>1. /\ txn \in [Students -> Transaction] /\ responses \subseteq Response
  BY DEF Typed, ServerTypeOK
<1>2. \A r \in responses :
        r.accepted \cup r.duplicates \subseteq IdsOf(RowsOfStudent(r.student_id)')
  BY <1>1, StaysVisible DEF AnswersWillBeHonest, AnswersHonest, Response
<1>3. ASSUME \A r \in responses' : r \in responses \/ (r.accepted = {} /\ r.duplicates = {})
      PROVE  AnswersHonest'
  BY <1>2, <1>3 DEF AnswersHonest, RowsOfStudent
<1>4. ASSUME \A s \in Students : txn'[s].duplicates \subseteq txn[s].duplicates \cup Visible(s)
      PROVE  \A s \in Students : txn'[s].duplicates \subseteq Visible(s)'
  BY <1>4, StaysVisible DEF AnswersWillBeHonest
<1>5. CASE Quiet
  BY <1>3, <1>4, <1>5 DEF Quiet, AnswersWillBeHonest
<1>6. ASSUME NEW s \in Students, NEW t \in Transaction, PassedOver(s, t)
      PROVE  AnswersWillBeHonest'
  <2>1. \A o \in Students : txn'[o].duplicates \subseteq txn[o].duplicates \cup Visible(o)
    BY <1>6, PassFacts
  <2>. QED  BY <1>3, <1>4, <1>6, <2>1 DEF PassedOver, AnswersWillBeHonest
<1>7. ASSUME NEW s \in Students, NEW t \in Transaction, Resets(s, t)
      PROVE  AnswersWillBeHonest'
  <2>1. \A o \in Students : txn'[o].duplicates \subseteq txn[o].duplicates \cup Visible(o)
    BY <1>7, ResetFacts
  <2>. QED  BY <1>3, <1>4, <1>7, <2>1 DEF Resets, AnswersWillBeHonest
<1>8. ASSUME NEW d \in Devices, DeviceChanges(d) PROVE AnswersWillBeHonest'
  BY <1>3, <1>4, <1>8 DEF DeviceChanges, AnswersWillBeHonest
<1>9. ASSUME NEW s \in Students, NEW e \in txn[s].todo, StoreEvent(s, e)
      PROVE  AnswersWillBeHonest'
  <2>1. /\ \A o \in Students : txn'[o] = IF o = s THEN StoredIn(s, e) ELSE txn[o]
        /\ StoredIn(s, e).duplicates = txn[s].duplicates
        /\ responses' = responses
    BY <1>1, <1>9, StoreFacts
  <2>. QED  BY <1>3, <1>4, <2>1 DEF AnswersWillBeHonest
<1>10. ASSUME NEW s \in Students, Commit(s) PROVE AnswersWillBeHonest'
  <2>1. \A o \in Students : txn'[o].duplicates \subseteq txn[o].duplicates \cup Visible(o)
    BY <1>10, CommitFacts DEF NoTransaction
  <2>2. PICK answer \in {BatchAnswer(s), BatchFailure(s)} :
            responses' = responses \cup {answer}
    BY <1>10 DEF Commit, Advanced
  <2>3. /\ answer.student_id = s
        /\ answer.accepted \cup answer.duplicates \subseteq Visible(s)
    BY DEF BatchAnswer, BatchFailure, Failure, AnswersWillBeHonest, Visible
  <2>4. answer.accepted \cup answer.duplicates
          \subseteq IdsOf(RowsOfStudent(answer.student_id)')
    BY <1>10, <2>3, CommitVisible
  <2>5. \A r \in responses' :
          r.accepted \cup r.duplicates \subseteq IdsOf(RowsOfStudent(r.student_id)')
    BY <1>2, <2>2, <2>4
  <2>6. AnswersHonest'
    BY <2>5 DEF AnswersHonest, RowsOfStudent
  <2>. QED  BY <1>4, <2>1, <2>6 DEF AnswersWillBeHonest
<1>. QED  BY <1>5, <1>6, <1>7, <1>8, <1>9, <1>10 DEF Effects

LEMMA StepInvariant == ServerInvariant /\ [ServerNext]_serverVars => ServerInvariant'
<1>. SUFFICES ASSUME ServerInvariant, [ServerNext]_serverVars PROVE ServerInvariant'
  OBVIOUS
<1>1. Typed' /\ Effects
  BY StepTyped, StepEffect DEF ServerInvariant
<1>. QED
  BY <1>1, StepOwned, StepIdsUnique, StepSequenced, StepDependencies, StepAnswers
  DEF ServerInvariant

LEMMA ServerInvariantHolds == ServerSpec => []ServerInvariant
BY InitInvariant, StepInvariant, PTL DEF ServerSpec

\* An event id is stored once, however often and by whomever it is sent: also two
\* students' concurrent batches cannot both store it.
THEOREM EventsStoredOnce == ServerSpec => []StoredOnce
<1>1. ServerInvariant => StoredOnce
  BY DEF ServerInvariant, IdsUnique, StoredOnce, Written
<1>. QED  BY <1>1, ServerInvariantHolds, PTL

\* last_device_sequence of a device is exactly the highest sequence stored for it, and
\* no two rows of a device share a sequence.
THEOREM WatermarkIsExact == ServerSpec => []WatermarkExact
<1>1. ServerInvariant => WatermarkExact
  BY DEF ServerInvariant, Sequenced
<1>. QED  BY <1>1, ServerInvariantHolds, PTL

\* An event is stored only with, or after, everything it depends on.
THEOREM DependenciesAreStored == ServerSpec => []DependenciesStored
<1>1. ServerInvariant => DependenciesStored
  BY DEF ServerInvariant, DependenciesHeld
<1>. QED  BY <1>1, ServerInvariantHolds, PTL

\* Every id in an answer's accepted or duplicate list is committed for that student,
\* whatever aborts, crashes and late requests there were.
THEOREM AnswersAreHonest == ServerSpec => []AnswersHonest
<1>1. ServerInvariant => AnswersHonest
  BY DEF ServerInvariant, AnswersWillBeHonest
<1>. QED  BY <1>1, ServerInvariantHolds, PTL

\* Stored events are never changed, and a device's history only grows at its end.
THEOREM HistoryGrows == ServerSpec => HistoryOnlyGrows
<1>. DEFINE Grows ==
       /\ learning_events \subseteq learning_events'
       /\ \A new \in learning_events' \ learning_events, old \in learning_events :
             new.device_id = old.device_id => old.device_sequence < new.device_sequence
<1>1. ServerInvariant /\ [ServerNext]_serverVars => [Grows]_serverVars
  <2>. SUFFICES ASSUME ServerInvariant, [ServerNext]_serverVars PROVE Grows
    OBVIOUS
  <2>1. CASE learning_events' = learning_events
    BY <2>1
  <2>2. ASSUME NEW s \in Students, Commit(s) PROVE Grows
    <3>1. learning_events' = learning_events \cup txn[s].accepted
      BY <2>2, CommitFacts
    <3>2. /\ devices \in [Devices -> DeviceRow] /\ learning_events \subseteq Row
          /\ txn[s] \in Transaction
      BY DEF ServerInvariant, Typed, ServerTypeOK
    <3>3. ASSUME NEW new \in txn[s].accepted, NEW old \in learning_events,
                 new.device_id = old.device_id
          PROVE  old.device_sequence < new.device_sequence
      <4>1. /\ old.device_sequence \in Nat /\ new.device_sequence \in Nat
            /\ old.device_id \in Devices
        BY <3>2 DEF Row, Transaction
      <4>2. old.device_sequence <= devices[old.device_id].last_device_sequence
        BY DEF ServerInvariant, Sequenced, WatermarkExact
      <4>3. /\ new.device_id = txn[s].device_id
            /\ devices[txn[s].device_id].last_device_sequence < new.device_sequence
        BY DEF ServerInvariant, Owned, Sequenced
      <4>4. devices[old.device_id].last_device_sequence \in Nat
        BY <3>2, <4>1 DEF DeviceRow
      <4>. QED  BY <3>3, <4>1, <4>2, <4>3, <4>4
    <3>. QED  BY <3>1, <3>3
  <2>3. Effects
    BY StepEffect DEF ServerInvariant
  <2>. QED
    BY <2>1, <2>2, <2>3, StoreFacts
    DEF Effects, Quiet, PassedOver, Resets, DeviceChanges
<1>. QED  BY <1>1, ServerInvariantHolds, PTL DEF ServerSpec, HistoryOnlyGrows

(***************************************************************************)
(* Browser and server.                                                     *)
(***************************************************************************)

\* A record of the store has a sequence number, so its copy is a Copy.
ClientTyped ==
    /\ ClientTypeOK
    /\ \A e \in Events : pending_events[e].status # "absent" =>
                            pending_events[e].device_sequence # 0

LEMMA AbsentTyped == Absent \in PendingRecord
BY DEF Absent, PendingRecord

LEMMA IdleTyped == Idle \in SyncRun
BY DEF Idle, SyncRun

LEMMA ClientInitTyped == ClientInit => ClientTyped
<1>. SUFFICES ASSUME ClientInit PROVE ClientTyped
  OBVIOUS
<1>1. ClientTypeOK
  BY AbsentTyped, IdleTyped DEF ClientInit, ClientTypeOK
<1>2. \A e \in Events : pending_events[e].status = "absent"
  BY DEF ClientInit, Absent
<1>. QED  BY <1>1, <1>2 DEF ClientTyped

LEMMA CopyTyped ==
  ASSUME ClientTyped, NEW e \in Events, pending_events[e].status # "absent"
  PROVE  CopyOf(e) \in Copy
<1>1. pending_events[e] \in PendingRecord
  BY DEF ClientTyped, ClientTypeOK
<1>. QED  BY <1>1 DEF ClientTyped, CopyOf, Copy, PendingRecord

LEMMA WithStatusTyped ==
  ASSUME ClientTyped, NEW status, status # "absent"
  PROVE  WithStatus(status) \subseteq Copy
BY CopyTyped DEF WithStatus

LEMMA ReadyTyped == ASSUME ClientTyped PROVE Ready \subseteq Copy
BY WithStatusTyped DEF Ready

LEMMA EnvelopesTyped ==
  ASSUME NEW batch \in SUBSET Copy
  PROVE  {EnvelopeOf(copy) : copy \in batch} \in SUBSET Envelope
BY ClientConstants DEF EnvelopeOf, Envelope, Copy

\* Putting a copy back, or acknowledging an event, keeps the store typed.
LEMMA PutTyped ==
  ASSUME ClientTyped, NEW c \in Copy, NEW due \in BOOLEAN,
         NEW status \in {"pending", "in_flight", "failed"}, Put(c, status, due)
  PROVE  /\ pending_events' \in [Events -> PendingRecord]
         /\ \A e \in Events : pending_events'[e].status # "absent" =>
                                pending_events'[e].device_sequence # 0
         /\ \A e \in Events : pending_events[e].status # "absent" =>
                                pending_events'[e].status # "absent"
<1>. DEFINE r == [status |-> status, device_sequence |-> c.device_sequence,
                  attempts |-> c.attempts, due |-> due]
<1>1. r \in PendingRecord /\ r.device_sequence # 0 /\ r.status # "absent"
  BY DEF Copy, PendingRecord
<1>2. pending_events \in [Events -> PendingRecord]
  BY DEF ClientTyped, ClientTypeOK
<1>3. pending_events' = [pending_events EXCEPT ![c.event_id] = r]
  BY DEF Put
<1>. QED  BY <1>1, <1>2, <1>3 DEF ClientTyped

--------------------------------------------------------------------------------
(* What one step of the page does: types, and what it may remove. *)

\* The page keeps every record of an event whose acknowledgement it is not putting
\* down, and acknowledges and creates nothing but what the step says.
Keeps ==
    /\ InStore \ sync.acks \subseteq InStore'
    /\ created' \subseteq created \cup InStore'
    /\ acknowledged_events' \subseteq acknowledged_events \cup ({sync.recording} \ {None})

\* Where the acknowledgements in progress come from.
AcksKept ==
    /\ sync'.acks \subseteq sync.acks
    /\ sync'.recording \in sync.acks \cup {sync.recording, None}

LEMMA RunTyped ==
  ASSUME ClientTyped
  PROVE  /\ pending_events \in [Events -> PendingRecord] /\ sync \in SyncRun
         /\ restoring \subseteq Copy /\ Idle \in SyncRun
         /\ Idle.acks = {} /\ Idle.recording = None
BY IdleTyped DEF ClientTyped, ClientTypeOK, Idle

LEMMA EnqueueStep ==
  ASSUME ClientTyped, NEW e \in Events, Enqueue(e)
  PROVE  ClientTyped' /\ Keeps /\ AcksKept
<1>. DEFINE r == [status |-> "pending", device_sequence |-> deviceSeq + 1,
                  attempts |-> 0, due |-> TRUE]
<1>1. deviceSeq \in Nat /\ pending_events \in [Events -> PendingRecord]
  BY DEF ClientTyped, ClientTypeOK
<1>2. r \in PendingRecord /\ r.device_sequence # 0 /\ r.status # "absent"
  BY <1>1 DEF PendingRecord
<1>3. pending_events' = [pending_events EXCEPT ![e] = r]
  BY DEF Enqueue
<1>4. ClientTyped'
  BY <1>1, <1>2, <1>3 DEF Enqueue, ClientTyped, ClientTypeOK
<1>5. Keeps
  BY <1>1, <1>2, <1>3 DEF Enqueue, Keeps, InStore
<1>. QED  BY <1>4, <1>5 DEF Enqueue, AcksKept

LEMMA StoreUntouched ==
  ASSUME ClientTyped, UNCHANGED <<storeVars, created>>
  PROVE  Keeps
BY DEF storeVars, Keeps, InStore

\* Steps that leave the stores alone.
LEMMA AttemptSyncStep == ASSUME ClientTyped, AttemptSync PROVE ClientTyped' /\ Keeps /\ AcksKept
<1>1. Keeps
  BY StoreUntouched DEF AttemptSync
<1>2. CASE UNCHANGED sync
  BY <1>1, <1>2 DEF AttemptSync, storeVars, ClientTyped, ClientTypeOK, AcksKept
<1>3. ASSUME NEW batch \in SUBSET Ready,
             sync' = [Idle EXCEPT !.phase = "dequeuing", !.batch = batch, !.unmarked = batch]
      PROVE  ClientTyped' /\ AcksKept
  <2>1. batch \subseteq Copy
    BY ReadyTyped
  <2>2. sync' \in SyncRun /\ sync'.acks = {} /\ sync'.recording = None
    BY <1>3, <2>1 DEF Idle, SyncRun
  <2>. QED  BY <2>2 DEF AttemptSync, storeVars, ClientTyped, ClientTypeOK, AcksKept
<1>. QED  BY <1>1, <1>2, <1>3 DEF AttemptSync

LEMMA MarkStep ==
  ASSUME ClientTyped, NEW c \in sync.unmarked, MarkInFlight(c)
  PROVE  ClientTyped' /\ Keeps /\ AcksKept
<1>1. c \in Copy
  BY RunTyped DEF SyncRun
<1>2. sync' \in SyncRun /\ sync'.acks = sync.acks /\ sync'.recording = sync.recording
  BY RunTyped DEF MarkInFlight, SyncRun
<1>3. /\ pending_events' \in [Events -> PendingRecord]
      /\ \A e \in Events : pending_events'[e].status # "absent" =>
                              pending_events'[e].device_sequence # 0
      /\ InStore \subseteq InStore'
  BY <1>1, PutTyped DEF MarkInFlight, InStore
<1>4. ClientTyped'
  BY <1>2, <1>3 DEF MarkInFlight, ClientTyped, ClientTypeOK
<1>. QED  BY <1>2, <1>3, <1>4 DEF MarkInFlight, Keeps, AcksKept

LEMMA AckDeleteStep ==
  ASSUME ClientTyped, NEW e \in sync.acks, AckDelete(e)
  PROVE  ClientTyped' /\ Keeps /\ AcksKept
<1>1. e \in Events
  BY RunTyped DEF SyncRun
<1>2. sync' \in SyncRun /\ sync'.acks = sync.acks \ {e} /\ sync'.recording = e
  BY <1>1, RunTyped DEF AckDelete, SyncRun
<1>3. /\ pending_events' = [pending_events EXCEPT ![e] = Absent]
      /\ Absent.status = "absent"
  BY DEF AckDelete, Absent
<1>4. ClientTyped'
  BY <1>1, <1>2, <1>3, AbsentTyped DEF AckDelete, ClientTyped, ClientTypeOK
<1>5. Keeps
  BY <1>3, RunTyped DEF AckDelete, Keeps, InStore
<1>. QED  BY <1>2, <1>4, <1>5 DEF AcksKept

LEMMA AckRecordStep == ASSUME ClientTyped, AckRecord PROVE ClientTyped' /\ Keeps /\ AcksKept
<1>1. /\ sync' \in SyncRun /\ sync'.acks = sync.acks /\ sync'.recording = None
      /\ sync.recording \in Events
  BY RunTyped DEF AckRecord, SyncRun
<1>. QED
  BY <1>1 DEF AckRecord, ClientTyped, ClientTypeOK, Keeps, InStore, AcksKept

LEMMA MarkRejectedStep ==
  ASSUME ClientTyped, NEW x \in sync.rejects, MarkRejected(x)
  PROVE  ClientTyped' /\ Keeps /\ AcksKept
<1>. DEFINE read == {[event_id |-> e, device_sequence |-> pending_events[e].device_sequence,
                      retryable |-> x.retryable] : e \in InStore \cap {x.event_id}}
<1>1. Keeps
  BY StoreUntouched DEF MarkRejected
<1>2. x.retryable \in BOOLEAN
  BY RunTyped DEF SyncRun, Rejection
<1>3. \A e \in InStore : e \in Events /\ pending_events[e].device_sequence \in Nat \ {0}
  BY RunTyped DEF InStore, ClientTyped, PendingRecord
<1>4. read \subseteq Marking
  BY <1>2, <1>3 DEF Marking
<1>5. sync' \in SyncRun /\ sync'.acks = sync.acks /\ sync'.recording = sync.recording
  BY <1>4, RunTyped DEF MarkRejected, SyncRun
<1>. QED
  BY <1>1, <1>5 DEF MarkRejected, storeVars, ClientTyped, ClientTypeOK, AcksKept

LEMMA RejectedTyped ==
  ASSUME NEW m \in Marking
  PROVE  /\ Rejected(m) \in PendingRecord
         /\ Rejected(m).status # "absent"
         /\ Rejected(m).device_sequence # 0
<1>1. m.device_sequence \in Nat /\ m.device_sequence # 0 /\ 0 \in 0..1 /\ 1 \in 0..1
  BY DEF Marking
<1>. QED  BY <1>1 DEF Rejected, PendingRecord

LEMMA PutRejectedStep ==
  ASSUME ClientTyped, NEW m \in sync.marking, PutRejected(m)
  PROVE  ClientTyped' /\ Keeps /\ AcksKept
<1>. DEFINE new == Rejected(m)
<1>1. m \in Marking /\ m.event_id \in Events
  BY RunTyped DEF SyncRun, Marking
<1>2. new \in PendingRecord /\ new.status # "absent" /\ new.device_sequence # 0
  BY <1>1, RejectedTyped
<1>3. pending_events' = [pending_events EXCEPT ![m.event_id] = new]
  BY DEF PutRejected
<1>4. sync' \in SyncRun /\ sync'.acks = sync.acks /\ sync'.recording = sync.recording
  BY RunTyped DEF PutRejected, SyncRun
<1>. HIDE DEF new
<1>5. ClientTyped'
  BY <1>1, <1>2, <1>3, <1>4 DEF PutRejected, ClientTyped, ClientTypeOK
<1>6. Keeps
  BY <1>1, <1>2, <1>3, RunTyped DEF PutRejected, Keeps, InStore
<1>. QED  BY <1>4, <1>5, <1>6 DEF AcksKept

LEMMA FinishSyncStep == ASSUME ClientTyped, FinishSync PROVE ClientTyped' /\ Keeps /\ AcksKept
<1>1. Keeps
  BY StoreUntouched DEF FinishSync
<1>2. sync.synced \in BOOLEAN
  BY RunTyped DEF SyncRun
<1>. QED
  BY <1>1, <1>2, RunTyped DEF FinishSync, storeVars, ClientTyped, ClientTypeOK, AcksKept

LEMMA SettleStep ==
  ASSUME ClientTyped, NEW acks \in SUBSET Events, NEW rejects \in SUBSET Rejection,
         NEW synced \in BOOLEAN, Settle(acks, rejects, synced)
  PROVE  /\ ClientTyped' /\ Keeps
         /\ sync'.acks = acks /\ sync'.recording = None
<1>1. Keeps
  BY StoreUntouched DEF Settle
<1>2. sync' \in SyncRun /\ sync'.acks = acks /\ sync'.recording = None
  BY DEF Settle, Idle, SyncRun
<1>. QED  BY <1>1, <1>2 DEF Settle, storeVars, ClientTyped, ClientTypeOK

LEMMA RejectAllTyped ==
  ASSUME ClientTyped, NEW retryable \in BOOLEAN
  PROVE  RejectAll(retryable) \in SUBSET Rejection
BY RunTyped DEF RejectAll, Rejection, SyncRun, Copy

LEMMA RejectAllStep ==
  ASSUME ClientTyped, NEW retryable \in BOOLEAN, Settle({}, RejectAll(retryable), FALSE)
  PROVE  /\ ClientTyped' /\ Keeps
         /\ sync'.acks = {} /\ sync'.recording = None
<1>. DEFINE rejects == RejectAll(retryable)
<1>1. rejects \in SUBSET Rejection /\ {} \in SUBSET Events /\ FALSE \in BOOLEAN
  BY RejectAllTyped
<1>2. Settle({}, rejects, FALSE)
  OBVIOUS
<1>. HIDE DEF rejects
<1>. QED  BY <1>1, <1>2, SettleStep

LEMMA RestoreStepKeeps ==
  ASSUME ClientTyped, RestoreStep
  PROVE  ClientTyped' /\ Keeps /\ AcksKept
<1>1. ASSUME NEW c \in restoring, RestoreRecord(c)
      PROVE  ClientTyped' /\ Keeps /\ AcksKept
  <2>1. c \in Copy /\ (c.attempts = 0) \in BOOLEAN
    BY RunTyped
  <2>2. /\ pending_events' \in [Events -> PendingRecord]
        /\ \A e \in Events : pending_events'[e].status # "absent" =>
                                pending_events'[e].device_sequence # 0
        /\ InStore \subseteq InStore'
    BY <1>1, <2>1, PutTyped DEF RestoreRecord, InStore
  <2>3. ClientTyped'
    BY <1>1, <2>2 DEF RestoreRecord, ClientTyped, ClientTypeOK
  <2>. QED  BY <1>1, <2>2, <2>3 DEF RestoreRecord, Keeps, AcksKept
<1>2. CASE Boot
  <2>1. Keeps
    BY <1>2, StoreUntouched DEF Boot
  <2>2. WithStatus("in_flight") \subseteq Copy
    BY WithStatusTyped
  <2>. QED
    BY <1>2, <2>1, <2>2 DEF Boot, storeVars, ClientTyped, ClientTypeOK, AcksKept
<1>3. CASE FinishBoot
  <2>1. Keeps
    BY <1>3, StoreUntouched DEF FinishBoot
  <2>. QED  BY <1>3, <2>1 DEF FinishBoot, storeVars, ClientTyped, ClientTypeOK, AcksKept
<1>. QED  BY <1>1, <1>2, <1>3 DEF RestoreStep

LEMMA BackoffStep ==
  ASSUME ClientTyped, NEW e \in Events, BackoffElapses(e)
  PROVE  ClientTyped' /\ Keeps /\ AcksKept
<1>. DEFINE r == [pending_events[e] EXCEPT !.due = TRUE]
<1>1. pending_events \in [Events -> PendingRecord]
  BY DEF ClientTyped, ClientTypeOK
<1>2. /\ r \in PendingRecord
      /\ r.status = pending_events[e].status
      /\ r.device_sequence = pending_events[e].device_sequence
  BY <1>1 DEF PendingRecord
<1>3. pending_events' = [pending_events EXCEPT ![e] = r]
  BY DEF BackoffElapses
<1>4. ClientTyped'
  BY <1>1, <1>2, <1>3 DEF BackoffElapses, ClientTyped, ClientTypeOK
<1>5. Keeps
  BY <1>1, <1>2, <1>3 DEF BackoffElapses, Keeps, InStore
<1>. QED  BY <1>4, <1>5 DEF BackoffElapses, AcksKept

LEMMA PageStepKeeps ==
  ASSUME ClientTyped, PageStep \/ PageEvent
  PROVE  ClientTyped' /\ Keeps /\ AcksKept
<1>1. CASE SyncStep
  BY <1>1, MarkStep, AckDeleteStep, AckRecordStep, MarkRejectedStep,
     PutRejectedStep, FinishSyncStep
  DEF SyncStep
<1>2. CASE RestoreStep
  BY <1>2, RestoreStepKeeps
<1>3. CASE SaveSequence
  BY <1>3 DEF SaveSequence, ClientTyped, ClientTypeOK, Keeps, InStore, AcksKept
<1>4. CASE PullSnapshot
  <2>1. Keeps
    BY <1>4, StoreUntouched DEF PullSnapshot
  <2>. QED  BY <1>4, <2>1 DEF PullSnapshot, storeVars, ClientTyped, ClientTypeOK, AcksKept
<1>5. CASE \E e \in Events : Enqueue(e) \/ BackoffElapses(e)
  BY <1>5, EnqueueStep, BackoffStep
<1>6. CASE AttemptSync
  BY <1>6, AttemptSyncStep
<1>7. CASE NetworkError
  BY <1>7, RejectAllStep DEF NetworkError, AcksKept
<1>8. CASE PullFails
  <2>1. Keeps
    BY <1>8, StoreUntouched DEF PullFails
  <2>2. WithStatus("in_flight") \subseteq Copy
    BY WithStatusTyped
  <2>. QED
    BY <1>8, <2>1, <2>2 DEF PullFails, storeVars, ClientTyped, ClientTypeOK, AcksKept
<1>9. CASE Reload
  <2>1. Keeps
    BY <1>9, StoreUntouched DEF Reload
  <2>. QED
    BY <1>9, <2>1, RunTyped DEF Reload, storeVars, ClientTyped, ClientTypeOK, AcksKept
<1>. QED
  BY <1>1, <1>2, <1>3, <1>4, <1>5, <1>6, <1>7, <1>8, <1>9 DEF PageStep, PageEvent

LEMMA SendKeeps ==
  ASSUME ClientTyped, NEW c \in Calls, Send(c)
  PROVE  ClientTyped' /\ Keeps /\ AcksKept
<1>1. Keeps
  BY StoreUntouched DEF Send, Post
<1>2. sync' \in SyncRun /\ sync'.acks = sync.acks /\ sync'.recording = sync.recording
  BY RunTyped DEF Send, Post, SyncRun
<1>. QED
  BY <1>1, <1>2 DEF Send, Post, storeVars, ClientTyped, ClientTypeOK, AcksKept

\* The page takes over the acknowledgements of an answer, or none.
LEMMA ReceiveKeeps ==
  ASSUME ClientTyped, ServerTypeOK, NEW r \in responses, Receive(r)
  PROVE  /\ ClientTyped' /\ Keeps
         /\ sync'.acks \subseteq r.accepted \cup r.duplicates
         /\ sync'.recording = None
<1>1. /\ r.accepted \cup r.duplicates \in SUBSET Events
      /\ r.rejected \in SUBSET Rejection
  BY DEF ServerTypeOK, Response
<1>2. CASE ReceiveOk(r)
  BY <1>1, <1>2, SettleStep DEF ReceiveOk
<1>3. CASE ReceiveError(r)
  <2>1. PICK retryable \in BOOLEAN : Settle({}, RejectAll(retryable), FALSE)
    BY <1>3 DEF ReceiveError
  <2>. QED  BY <2>1, RejectAllStep
<1>4. CASE BodyUnreadable(r)
  <2>1. Keeps
    BY <1>4, StoreUntouched DEF BodyUnreadable
  <2>2. WithStatus("in_flight") \subseteq Copy
    BY WithStatusTyped
  <2>. QED
    BY <1>4, <2>1, <2>2, RunTyped DEF BodyUnreadable, storeVars, ClientTyped, ClientTypeOK
<1>. QED  BY <1>2, <1>3, <1>4 DEF Receive

--------------------------------------------------------------------------------
(* The browser and the server together. *)

\* Every step of the composition is a step of the server specification.
LEMMA StepOfServer == ClientTyped /\ [Next]_vars => [ServerNext]_serverVars
<1>. SUFFICES ASSUME ClientTyped, [Next]_vars PROVE [ServerNext]_serverVars
  OBVIOUS
<1>1. CASE UNCHANGED vars
  BY <1>1 DEF vars
<1>2. ASSUME NEW c \in Calls, Send(c) PROVE ServerNext
  <2>1. {EnvelopeOf(copy) : copy \in sync.batch} \in SUBSET Envelope
    BY EnvelopesTyped, RunTyped DEF SyncRun
  <2>2. Student \in Students /\ Device \in Devices
    BY BrowserConstants
  <2>. QED  BY <1>2, <2>1, <2>2 DEF Send, ServerNext
<1>3. ASSUME NEW r \in responses, Receive(r) PROVE ServerNext
  BY <1>3 DEF Receive, ServerNext, Network
<1>4. CASE RevokeDevice(Student, Device) \/ RequestDeletion(Student)
  BY <1>4, BrowserConstants DEF ServerNext, Administration
<1>. QED  BY <1>1, <1>2, <1>3, <1>4 DEF Next, ServerNext

\* Only the browser's student calls the server.
Mine ==
    /\ \A r \in requests : r.student_id = Student
    /\ \A s \in Students : txn[s].call # None => s = Student
    /\ \A r \in responses : r.student_id = Student

\* What the page is acknowledging, and what it has acknowledged, is stored.
Acknowledging ==
    /\ sync.acks \subseteq Stored
    /\ sync.recording \in Stored \cup {None}
    /\ AcknowledgedIsStored
    /\ NothingDropped

SyncInvariant == ClientTyped /\ ServerInvariant /\ Mine /\ Acknowledging

LEMMA InitSync == Init => SyncInvariant
<1>. SUFFICES ASSUME Init PROVE SyncInvariant
  OBVIOUS
<1>1. ClientTyped /\ ServerInvariant
  BY ClientInitTyped, InitInvariant DEF Init
<1>2. Mine
  BY DEF Init, ServerInit, Mine, NoTransaction
<1>3. Acknowledging
  BY DEF Init, ClientInit, Idle, Acknowledging, AcknowledgedIsStored, NothingDropped
<1>. QED  BY <1>1, <1>2, <1>3 DEF SyncInvariant

LEMMA ProcessKeepsCalls ==
  ASSUME Typed, NEW s \in Students, ProcessEvent(s)
  PROVE  /\ \A o \in Students : txn'[o].call = txn[o].call
         /\ UNCHANGED <<requests, responses>>
<1>1. txn \in [Students -> Transaction]
  BY DEF Typed, ServerTypeOK
<1>2. PICK e \in txn[s].todo :
         \/ RejectUnreadable(s, e) \/ SkipDuplicate(s, e) \/ RejectStale(s, e)
         \/ RejectDependency(s, e) \/ RejectInapplicable(s, e) \/ StoreEvent(s, e)
  BY DEF ProcessEvent
<1>3. CASE SkipDuplicate(s, e)
  BY <1>1, <1>3 DEF SkipDuplicate, Transaction
<1>4. CASE StoreEvent(s, e)
  BY <1>1, <1>4 DEF StoreEvent, Insert, Transaction
<1>5. ASSUME NEW retryable, Reject(s, e, retryable)
      PROVE  /\ \A o \in Students : txn'[o].call = txn[o].call
             /\ UNCHANGED <<requests, responses>>
  BY <1>1, <1>5 DEF Reject, Transaction
<1>. QED
  BY <1>2, <1>3, <1>4, <1>5
  DEF RejectUnreadable, RejectStale, RejectDependency, RejectInapplicable

LEMMA StepMine == ASSUME SyncInvariant, [Next]_vars PROVE Mine'
<1>. USE DEF SyncInvariant, ServerInvariant
<1>1. /\ txn \in [Students -> Transaction] /\ requests \subseteq Request
      /\ NoTransaction.call = None
  BY DEF Typed, ServerTypeOK, NoTransaction
<1>2. CASE UNCHANGED <<requests, responses, txn>>
  BY <1>2 DEF Mine
<1>3. ASSUME NEW c \in Calls, Send(c) PROVE Mine'
  BY <1>3 DEF Send, SendRequest, Mine
<1>4. CASE Network \/ \E r \in responses : Receive(r)
  BY <1>4 DEF Network, Receive, LoseRequest, TakeResponse, Mine
<1>5. ASSUME NEW r \in requests, HandleRequest(r) PROVE Mine'
  <2>1. r.student_id = Student
    BY DEF Mine
  <2>2. CASE Authenticate(r)
    <3>1. [r EXCEPT !.authenticated = TRUE].student_id = Student
      BY <1>1, <2>1 DEF Request
    <3>. QED  BY <2>2, <3>1 DEF Authenticate, Mine
  <2>3. CASE \E response : response.student_id = Student /\ Answer(r, response)
    BY <2>3 DEF Answer, Mine
  <2>4. Refusal(r).student_id = Student
    BY <2>1 DEF Refusal
  <2>5. \A status : Failure(r, status).student_id = Student
    BY <2>1 DEF Failure
  <2>6. CASE BeginBatch(r)
    <3>1. \A s \in Students : s # Student => txn'[s] = txn[s]
      BY <1>1, <2>1, <2>6 DEF BeginBatch
    <3>. QED  BY <2>6, <3>1 DEF BeginBatch, Mine
  <2>. QED
    BY <1>5, <2>2, <2>3, <2>4, <2>5, <2>6
    DEF HandleRequest, RefuseToken, RefuseBatchSize, RefuseStudent, RefuseDevice
<1>6. ASSUME NEW s \in Students, RunBatch(s) PROVE Mine'
  <2>1. CASE ProcessEvent(s)
    BY <2>1, ProcessKeepsCalls DEF Mine
  <2>2. CASE Commit(s) \/ AbortBatch(s)
    <3>1. s = Student
      BY <2>2 DEF Commit, AbortBatch, LockFree, Mine
    <3>2. BatchAnswer(s).student_id = s /\ BatchFailure(s).student_id = s
      BY DEF BatchAnswer, BatchFailure, Failure
    <3>. QED  BY <1>1, <2>2, <3>1, <3>2 DEF Commit, AbortBatch, Mine
  <2>. QED  BY <1>6, <2>1, <2>2 DEF RunBatch
<1>7. CASE RevokeDevice(Student, Device) \/ RequestDeletion(Student)
  BY <1>2, <1>7 DEF RevokeDevice, RequestDeletion
<1>8. CASE UNCHANGED vars \/ UNCHANGED serverVars
  BY <1>2, <1>8 DEF vars, serverVars
<1>. QED  BY <1>3, <1>4, <1>5, <1>6, <1>7, <1>8 DEF Next, ServerStep

LEMMA StepClient ==
  ASSUME SyncInvariant, [Next]_vars
  PROVE  /\ ClientTyped' /\ Keeps
         /\ sync'.acks \subseteq Stored
         /\ sync'.recording \in Stored \cup {None}
<1>. USE DEF SyncInvariant
<1>1. CASE PageStep \/ PageEvent
  BY <1>1, PageStepKeeps DEF AcksKept, Acknowledging
<1>2. ASSUME NEW c \in Calls, Send(c)
      PROVE  /\ ClientTyped' /\ Keeps
             /\ sync'.acks \subseteq Stored
             /\ sync'.recording \in Stored \cup {None}
  BY <1>2, SendKeeps DEF AcksKept, Acknowledging
<1>3. ASSUME NEW r \in responses, Receive(r)
      PROVE  /\ ClientTyped' /\ Keeps
             /\ sync'.acks \subseteq Stored
             /\ sync'.recording \in Stored \cup {None}
  <2>1. r.accepted \cup r.duplicates \subseteq Stored
    BY DEF ServerInvariant, AnswersWillBeHonest, AnswersHonest, Mine, Stored
  <2>. QED  BY <1>3, <2>1, ReceiveKeeps DEF ServerInvariant, Typed
<1>4. CASE UNCHANGED clientVars
  <2>1. Keeps
    BY <1>4, StoreUntouched DEF clientVars, storeVars
  <2>. QED
    BY <1>4, <2>1 DEF clientVars, ClientTyped, ClientTypeOK, Acknowledging
<1>5. CASE UNCHANGED vars
  BY <1>4, <1>5 DEF vars, clientVars
<1>6. Next => \/ PageStep \/ PageEvent \/ UNCHANGED clientVars
              \/ \E c \in Calls : Send(c)
              \/ \E r \in responses : Receive(r)
  BY DEF Next
<1>. QED  BY <1>1, <1>2, <1>3, <1>4, <1>5, <1>6

LEMMA StepSync == SyncInvariant /\ [Next]_vars => SyncInvariant'
<1>. SUFFICES ASSUME SyncInvariant, [Next]_vars PROVE SyncInvariant'
  OBVIOUS
<1>. USE DEF SyncInvariant
<1>1. [ServerNext]_serverVars
  BY StepOfServer
<1>2. ServerInvariant'
  BY <1>1, StepInvariant
<1>3. Stored \subseteq Stored'
  <2>1. Effects
    BY <1>1, StepEffect DEF ServerInvariant
  <2>2. Student \in Students
    BY BrowserConstants
  <2>. QED  BY <2>1, <2>2, StaysVisible DEF Stored, RowsOfStudent
<1>4. /\ ClientTyped' /\ Keeps
      /\ sync'.acks \subseteq Stored
      /\ sync'.recording \in Stored \cup {None}
  BY StepClient
<1>5. AcknowledgedIsStored'
  BY <1>3, <1>4 DEF Keeps, Acknowledging, AcknowledgedIsStored
<1>6. NothingDropped'
  BY <1>3, <1>4 DEF Keeps, Acknowledging, NothingDropped
<1>7. Acknowledging'
  BY <1>3, <1>4, <1>5, <1>6 DEF Acknowledging
<1>. QED  BY <1>2, <1>4, <1>7, StepMine

LEMMA SyncInvariantHolds == Spec => []SyncInvariant
BY InitSync, StepSync, PTL DEF Spec

\* The browser, the network and the server's own steps make up a behaviour of the
\* server specification: what is proved of any clients holds with this browser.
THEOREM BrowserIsAClient == Spec => ServerSpec
<1>1. Init => ServerInit
  BY DEF Init
<1>2. SyncInvariant /\ [Next]_vars => [ServerNext]_serverVars
  BY StepOfServer DEF SyncInvariant
<1>. QED  BY <1>1, <1>2, SyncInvariantHolds, PTL DEF Spec, ServerSpec

\* The state of browser, network and server is always well typed.
THEOREM TypeCorrect == Spec => []TypeOK
<1>1. SyncInvariant => TypeOK
  BY DEF SyncInvariant, ServerInvariant, Typed, ClientTyped, TypeOK
<1>. QED  BY <1>1, SyncInvariantHolds, PTL

\* The browser moves an event to acknowledged_events only when the server has it.
THEOREM AcknowledgedStored == Spec => []AcknowledgedIsStored
<1>1. SyncInvariant => AcknowledgedIsStored
  BY DEF SyncInvariant, Acknowledging
<1>. QED  BY <1>1, SyncInvariantHolds, PTL

\* An event once created is never in neither place, whatever is lost, reloaded,
\* aborted, restored late or answered twice.
THEOREM NoEventDropped == Spec => []NothingDropped
<1>1. SyncInvariant => NothingDropped
  BY DEF SyncInvariant, Acknowledging
<1>. QED  BY <1>1, SyncInvariantHolds, PTL
--------------------------------------------------------------------------------
(* A refusal that is final stays right.  An event that is not a presentation is    *)
(* created once, so every copy of it, wherever it is, has one sequence number n;   *)
(* what the server refuses for good is wrong, or not stored and at or below the    *)
(* watermark of the device, and a device's watermark never falls.                  *)

Fits(n, e, k) == e \in created /\ (e \in Presented \/ k = n[e])

\* The records in IndexedDB, in the sync run and in restore(), for the numbers n
\* and a set D of events that may be refused for good.
StoreRight(n, D) ==
    \A e \in Events :
        /\ pending_events[e].status # "absent" =>
              Fits(n, e, pending_events[e].device_sequence)
        /\ pending_events[e].status = "failed" => e \in D

RunRight(n, D) ==
    /\ \A c \in sync.batch \cup sync.unmarked \cup sync.marking :
          Fits(n, c.event_id, c.device_sequence)
    /\ \A x \in sync.rejects \cup sync.marking : x.retryable \/ x.event_id \in D

RestoringRight(n) == \A c \in restoring : Fits(n, c.event_id, c.device_sequence)

PageRight(n, D) == StoreRight(n, D) /\ RunRight(n, D) /\ RestoringRight(n)

LEMMA IdleRight ==
  ASSUME NEW n, NEW D, sync' = Idle
  PROVE  RunRight(n, D)'
BY DEF RunRight, Idle

\* A record the code writes back is right when what it was read from is.
LEMMA WriteRight ==
  ASSUME ClientTyped, NEW n, NEW D, StoreRight(n, D), UNCHANGED created,
         NEW e \in Events, NEW r, pending_events' = [pending_events EXCEPT ![e] = r],
         r.status # "absent" => Fits(n, e, r.device_sequence),
         r.status = "failed" => e \in D
  PROVE  StoreRight(n, D)'
<1>1. pending_events \in [Events -> PendingRecord]
  BY RunTyped
<1>. QED  BY <1>1 DEF StoreRight, Fits

LEMMA PutRight ==
  ASSUME ClientTyped, NEW n, NEW D, StoreRight(n, D), UNCHANGED created,
         NEW c \in Copy, NEW due \in BOOLEAN, NEW status \in {"pending", "in_flight"},
         Put(c, status, due), Fits(n, c.event_id, c.device_sequence)
  PROVE  StoreRight(n, D)'
<1>. DEFINE r == [status |-> status, device_sequence |-> c.device_sequence,
                  attempts |-> c.attempts, due |-> due]
<1>1. c.event_id \in Events
  BY DEF Copy
<1>2. pending_events' = [pending_events EXCEPT ![c.event_id] = r]
  BY DEF Put
<1>3. r.status # "failed" /\ r.device_sequence = c.device_sequence
  OBVIOUS
<1>. HIDE DEF r
<1>. QED  BY <1>1, <1>2, <1>3, WriteRight

\* What is read from the store fits.
LEMMA ReadRight ==
  ASSUME NEW n, NEW D, StoreRight(n, D), NEW status, status # "absent"
  PROVE  \A c \in WithStatus(status) : Fits(n, c.event_id, c.device_sequence)
BY DEF WithStatus, CopyOf, StoreRight

LEMMA EnqueueRight ==
  ASSUME ClientTyped, NEW n \in [Events -> Nat], NEW D, PageRight(n, D),
         NEW e \in Events, Enqueue(e)
  PROVE  \E m \in [Events -> Nat] :
            /\ PageRight(m, D)'
            /\ \A f \in created : m[f] = n[f] \/ f \in Presented
<1>. DEFINE r == [status |-> "pending", device_sequence |-> deviceSeq + 1,
                  attempts |-> 0, due |-> TRUE]
<1>1. deviceSeq + 1 \in Nat /\ pending_events \in [Events -> PendingRecord]
  BY DEF ClientTyped, ClientTypeOK
<1>2. PICK m \in [Events -> Nat] :
         m[e] = deviceSeq + 1 /\ \A f \in Events \ {e} : m[f] = n[f]
  <2>1. [n EXCEPT ![e] = deviceSeq + 1] \in [Events -> Nat]
    BY <1>1
  <2>. QED  BY <2>1
<1>4. e \notin created \/ e \in Presented
  BY DEF Enqueue, Buildable
<1>5. created' = created \cup {e} /\ created \subseteq Events
  BY DEF Enqueue, ClientTyped, ClientTypeOK
<1>6. pending_events' = [pending_events EXCEPT ![e] = r]
  BY DEF Enqueue
<1>7. /\ r.status = "pending" /\ r.device_sequence = deviceSeq + 1
  OBVIOUS
<1>. HIDE DEF r
<1>8. \A f, k : Fits(n, f, k) => Fits(m, f, k)'
  BY <1>2, <1>4, <1>5 DEF Fits
<1>9. Fits(m, e, m[e])'
  BY <1>5 DEF Fits
<1>10. StoreRight(m, D)'
  <2>. SUFFICES ASSUME NEW f \in Events
                PROVE  /\ pending_events'[f].status # "absent" =>
                             Fits(m, f, pending_events[f].device_sequence)'
                       /\ pending_events'[f].status = "failed" => f \in D
    BY DEF StoreRight
  <2>1. CASE f = e
    BY <1>1, <1>6, <1>7, <1>2, <1>5, <2>1 DEF Fits
  <2>2. CASE f # e
    <3>1. pending_events'[f] = pending_events[f]
      BY <1>1, <1>6, <2>2
    <3>2. pending_events[f].status # "absent" => Fits(n, f, pending_events[f].device_sequence)
      BY DEF PageRight, StoreRight
    <3>. QED  BY <1>2, <1>5, <2>2, <3>1, <3>2 DEF Fits, PageRight, StoreRight
  <2>. QED  BY <2>1, <2>2
<1>11. RunRight(m, D)' /\ RestoringRight(m)'
  BY <1>2, <1>4, <1>5 DEF Fits, PageRight, RunRight, RestoringRight, Enqueue
<1>12. \A f \in created : m[f] = n[f] \/ f \in Presented
  BY <1>2, <1>4, <1>5
<1>. QED  BY <1>2, <1>10, <1>11, <1>12 DEF PageRight

LEMMA SettleRight ==
  ASSUME ClientTyped, NEW n, NEW D, PageRight(n, D),
         NEW acks, NEW rejects, NEW synced, Settle(acks, rejects, synced),
         \A x \in rejects : x.retryable \/ x.event_id \in D
  PROVE  PageRight(n, D)'
<1>1. /\ sync'.batch = {} /\ sync'.unmarked = {} /\ sync'.marking = {}
      /\ sync'.rejects = rejects
  BY DEF Settle, Idle
<1>2. StoreRight(n, D)' /\ RestoringRight(n)'
  BY DEF PageRight, StoreRight, RestoringRight, Fits, Settle, storeVars
<1>3. RunRight(n, D)'
  BY <1>1 DEF RunRight
<1>. QED  BY <1>2, <1>3 DEF PageRight

\* Steps of the sync run.
LEMMA SyncStepRight ==
  ASSUME ClientTyped, NEW n, NEW D, PageRight(n, D), SyncStep
  PROVE  PageRight(n, D)'
<1>. USE DEF PageRight
<1>1. ASSUME NEW c \in sync.unmarked, MarkInFlight(c) PROVE PageRight(n, D)'
  <2>1. c \in Copy /\ Fits(n, c.event_id, c.device_sequence)
    BY RunTyped DEF SyncRun, RunRight
  <2>2. StoreRight(n, D)'
    BY <1>1, <2>1, PutRight DEF MarkInFlight
  <2>3. /\ sync'.batch = sync.batch /\ sync'.unmarked \subseteq sync.unmarked
        /\ sync'.marking = sync.marking /\ sync'.rejects = sync.rejects
    BY <1>1, RunTyped DEF MarkInFlight, SyncRun
  <2>. QED  BY <1>1, <2>2, <2>3 DEF MarkInFlight, RunRight, RestoringRight, Fits
<1>2. ASSUME NEW e \in sync.acks, AckDelete(e) PROVE PageRight(n, D)'
  <2>1. e \in Events /\ Absent.status = "absent"
    BY RunTyped DEF SyncRun, Absent
  <2>2. StoreRight(n, D)'
    BY <1>2, <2>1, WriteRight DEF AckDelete
  <2>3. /\ sync'.batch = sync.batch /\ sync'.unmarked = sync.unmarked
        /\ sync'.marking = sync.marking /\ sync'.rejects = sync.rejects
    BY <1>2, RunTyped DEF AckDelete, SyncRun
  <2>. QED  BY <1>2, <2>2, <2>3 DEF AckDelete, RunRight, RestoringRight, Fits
<1>3. CASE AckRecord
  <2>1. /\ sync'.batch = sync.batch /\ sync'.unmarked = sync.unmarked
        /\ sync'.marking = sync.marking /\ sync'.rejects = sync.rejects
    BY <1>3, RunTyped DEF AckRecord, SyncRun
  <2>. QED  BY <1>3, <2>1 DEF AckRecord, StoreRight, RunRight, RestoringRight, Fits
<1>4. ASSUME NEW x \in sync.rejects, MarkRejected(x) PROVE PageRight(n, D)'
  <2>1. \A m \in sync'.marking :
          /\ m.event_id = x.event_id /\ m.retryable = x.retryable
          /\ m.event_id \in InStore
          /\ m.device_sequence = pending_events[m.event_id].device_sequence
    BY <1>4, RunTyped DEF MarkRejected, SyncRun
  <2>2. /\ sync'.batch = sync.batch /\ sync'.unmarked = sync.unmarked
        /\ sync'.rejects \subseteq sync.rejects
    BY <1>4, RunTyped DEF MarkRejected, SyncRun
  <2>3. \A m \in sync'.marking :
          /\ Fits(n, m.event_id, m.device_sequence)
          /\ m.retryable \/ m.event_id \in D
    BY <2>1 DEF StoreRight, RunRight, InStore
  <2>. QED
    BY <1>4, <2>2, <2>3
    DEF MarkRejected, storeVars, StoreRight, RunRight, RestoringRight, Fits
<1>5. ASSUME NEW m \in sync.marking, PutRejected(m) PROVE PageRight(n, D)'
  <2>. DEFINE r == Rejected(m)
  <2>1. /\ m.event_id \in Events
        /\ Fits(n, m.event_id, m.device_sequence)
        /\ m.retryable \/ m.event_id \in D
    BY RunTyped DEF SyncRun, Marking, RunRight
  <2>2. /\ r.device_sequence = m.device_sequence
        /\ r.status = "failed" => ~m.retryable
    BY DEF Rejected
  <2>3. pending_events' = [pending_events EXCEPT ![m.event_id] = r]
    BY <1>5 DEF PutRejected
  <2>. HIDE DEF r
  <2>4. StoreRight(n, D)'
    <3>1. StoreRight(n, D) /\ UNCHANGED created
      BY <1>5 DEF PutRejected
    <3>2. /\ r.status # "absent" => Fits(n, m.event_id, r.device_sequence)
          /\ r.status = "failed" => m.event_id \in D
      BY <2>1, <2>2
    <3>. QED  BY <2>1, <2>3, <3>1, <3>2, WriteRight
  <2>5. /\ sync'.batch = sync.batch /\ sync'.unmarked = sync.unmarked
        /\ sync'.marking = {} /\ sync'.rejects = sync.rejects
    BY <1>5, RunTyped DEF PutRejected, SyncRun
  <2>. QED  BY <1>5, <2>4, <2>5 DEF PutRejected, RunRight, RestoringRight, Fits
<1>6. CASE FinishSync
  BY <1>6, IdleRight DEF FinishSync, storeVars, StoreRight, RestoringRight, Fits
<1>. QED  BY <1>1, <1>2, <1>3, <1>4, <1>5, <1>6 DEF SyncStep

\* Every other step of the page that creates nothing.
LEMMA PageStepRight ==
  ASSUME ClientTyped, NEW n, NEW D, PageRight(n, D), PageStep \/ PageEvent,
         ~\E e \in Events : Enqueue(e)
  PROVE  PageRight(n, D)'
<1>. USE DEF PageRight
<1>1. CASE SyncStep
  BY <1>1, SyncStepRight
<1>2. ASSUME NEW c \in restoring, RestoreRecord(c) PROVE PageRight(n, D)'
  <2>1. /\ c \in Copy /\ (c.attempts = 0) \in BOOLEAN
        /\ Fits(n, c.event_id, c.device_sequence)
    BY RunTyped DEF RestoringRight
  <2>2. StoreRight(n, D)'
    BY <1>2, <2>1, PutRight DEF RestoreRecord
  <2>. QED  BY <1>2, <2>2 DEF RestoreRecord, RunRight, RestoringRight, Fits
<1>3. ASSUME restoring' = WithStatus("in_flight"), UNCHANGED <<storeVars, created>>,
             UNCHANGED sync \/ sync' = Idle
      PROVE  PageRight(n, D)'
  <2>1. RestoringRight(n)'
    BY <1>3, ReadRight DEF RestoringRight, Fits
  <2>. QED  BY <1>3, <2>1, IdleRight DEF storeVars, StoreRight, RunRight, Fits
<1>4. ASSUME restoring' = {} \/ UNCHANGED restoring, UNCHANGED <<storeVars, created>>,
             UNCHANGED sync \/ sync' = Idle
      PROVE  PageRight(n, D)'
  BY <1>4, IdleRight DEF storeVars, StoreRight, RunRight, RestoringRight, Fits
<1>5. CASE RestoreStep \/ PullSnapshot \/ PullFails \/ Reload
  BY <1>2, <1>3, <1>4, <1>5 DEF RestoreStep, Boot, FinishBoot, PullSnapshot, PullFails, Reload
<1>6. CASE SaveSequence
  BY <1>6 DEF SaveSequence, StoreRight, RunRight, RestoringRight, Fits
<1>7. ASSUME NEW e \in Events, BackoffElapses(e) PROVE PageRight(n, D)'
  <2>. DEFINE r == [pending_events[e] EXCEPT !.due = TRUE]
  <2>1. /\ r.status = pending_events[e].status
        /\ r.device_sequence = pending_events[e].device_sequence
        /\ pending_events' = [pending_events EXCEPT ![e] = r]
    BY <1>7, RunTyped DEF PendingRecord, BackoffElapses
  <2>. HIDE DEF r
  <2>3. r.status # "failed" /\ Fits(n, e, r.device_sequence) /\ UNCHANGED created
    BY <1>7, <2>1 DEF StoreRight, BackoffElapses
  <2>2. StoreRight(n, D)'
    BY <2>1, <2>3, WriteRight
  <2>. QED  BY <1>7, <2>2 DEF BackoffElapses, RunRight, RestoringRight, Fits
<1>8. CASE AttemptSync
  <2>1. \A c \in Ready : Fits(n, c.event_id, c.device_sequence)
    BY ReadRight DEF Ready
  <2>2. UNCHANGED <<pending_events, restoring, created>>
    BY <1>8, Zenon DEF AttemptSync, storeVars
  <2>3. StoreRight(n, D)' /\ RestoringRight(n)'
    BY <2>2 DEF storeVars, StoreRight, RestoringRight, Fits
  <2>4. ASSUME UNCHANGED sync PROVE RunRight(n, D)'
    BY <2>2, <2>4 DEF RunRight, Fits
  <2>5. ASSUME NEW batch \in SUBSET Ready,
               sync' = [Idle EXCEPT !.phase = "dequeuing", !.batch = batch, !.unmarked = batch]
        PROVE  RunRight(n, D)'
    <3>1. /\ sync'.batch = batch /\ sync'.unmarked = batch
          /\ sync'.marking = {} /\ sync'.rejects = {}
      BY <2>5 DEF Idle
    <3>. QED  BY <2>1, <2>2, <3>1 DEF RunRight, Fits
  <2>6. \/ UNCHANGED sync
        \/ \E batch \in SUBSET Ready :
              sync' = [Idle EXCEPT !.phase = "dequeuing", !.batch = batch, !.unmarked = batch]
    BY <1>8, Zenon DEF AttemptSync
  <2>7. RunRight(n, D)'
    BY <2>4, <2>5, <2>6, Zenon
  <2>. QED  BY <2>3, <2>7
<1>9. CASE NetworkError
  <2>1. \A x \in RejectAll(TRUE) : x.retryable
    BY DEF RejectAll
  <2>. QED  BY <1>9, <2>1, SettleRight DEF NetworkError
<1>. QED  BY <1>1, <1>5, <1>6, <1>7, <1>8, <1>9 DEF PageStep, PageEvent

--------------------------------------------------------------------------------
(* The server's side of it: only this browser writes here. *)

\* The events on their way to the store.
Sent == txn[Student].todo \cup UNION {r.events : r \in requests}

OneBrowser ==
    /\ devices[Device].student_id = Student
    /\ \A r \in requests : r.device_id = Device
    /\ \A s \in Students \ {Student} : txn[s] = NoTransaction
    /\ \/ txn[Student] = NoTransaction
       \/ txn[Student].device_id = Device
    /\ txn[Student].accepted = {} => txn[Student].accepted_max_sequence = 0
    /\ \A row \in Written : row.student_id = Student /\ FaultOf[row.event_id] = "none"
    /\ \A v \in Sent : v.fault = FaultOf[v.event_id]
    /\ \A r \in responses : r.status # "http_403_unregistered"

SentRight(n) == \A v \in Sent : Fits(n, v.event_id, v.device_sequence)

\* What may be refused for good: wrong, or overtaken.  Of a presentation nothing is
\* claimed, and a refusal of the whole batch names no event.
Doomed(n) ==
    Presented \cup {None} \cup {e \in Events : FaultOf[e] # "none"} \cup
    {e \in created : /\ e \notin IdsOf(Written)
                     /\ n[e] <= devices[Device].last_device_sequence}

\* Overtaken by what the open transaction has stored already.
PassedBy(n) ==
    {e \in created : /\ e \notin IdsOf(Written)
                     /\ n[e] <= txn[Student].accepted_max_sequence}

AnswersRight(n) ==
    /\ \A r \in responses : \A x \in r.rejected : x.retryable \/ x.event_id \in Doomed(n)
    /\ \A x \in txn[Student].rejected :
          x.retryable \/ x.event_id \in Doomed(n) \cup PassedBy(n)

LEMMA ServerTyped ==
  ASSUME SyncInvariant
  PROVE  /\ txn \in [Students -> Transaction] /\ requests \subseteq Request
         /\ responses \subseteq Response /\ devices \in [Devices -> DeviceRow]
         /\ learning_events \subseteq Row
         /\ Student \in Students /\ Device \in Devices /\ txn[Student] \in Transaction
BY BrowserConstants DEF SyncInvariant, ServerInvariant, Typed, ServerTypeOK

LEMMA RejectFacts ==
  ASSUME SyncInvariant, NEW e \in txn[Student].todo, NEW retryable \in BOOLEAN,
         Reject(Student, e, retryable)
  PROVE  /\ txn'[Student].todo \subseteq txn[Student].todo
         /\ txn'[Student].rejected = txn[Student].rejected \cup
              {[event_id |-> e.event_id, retryable |-> retryable]}
         /\ txn'[Student].accepted = txn[Student].accepted
         /\ txn'[Student].accepted_max_sequence = txn[Student].accepted_max_sequence
         /\ txn'[Student].device_id = txn[Student].device_id
         /\ \A s \in Students \ {Student} : txn'[s] = txn[s]
         /\ Written' = Written
         /\ UNCHANGED <<devices, learning_events, requests, responses>>
<1>1. /\ txn'[Student].todo \subseteq txn[Student].todo
      /\ txn'[Student].rejected = txn[Student].rejected \cup
           {[event_id |-> e.event_id, retryable |-> retryable]}
      /\ txn'[Student].accepted = txn[Student].accepted
      /\ txn'[Student].accepted_max_sequence = txn[Student].accepted_max_sequence
      /\ txn'[Student].device_id = txn[Student].device_id
      /\ \A s \in Students \ {Student} : txn'[s] = txn[s]
  BY ServerTyped DEF Reject, Transaction
<1>2. UNCHANGED <<devices, learning_events, requests, responses>>
  BY DEF Reject
<1>3. \A s \in Students : txn'[s].accepted = txn[s].accepted
  BY <1>1
<1>4. Written' = Written
  BY <1>2, <1>3 DEF Written
<1>. QED  BY <1>1, <1>2, <1>4

LEMMA SkipFacts ==
  ASSUME SyncInvariant, NEW e \in txn[Student].todo, SkipDuplicate(Student, e)
  PROVE  /\ txn'[Student].todo \subseteq txn[Student].todo
         /\ txn'[Student].rejected = txn[Student].rejected
         /\ txn'[Student].accepted = txn[Student].accepted
         /\ txn'[Student].accepted_max_sequence = txn[Student].accepted_max_sequence
         /\ txn'[Student].device_id = txn[Student].device_id
         /\ \A s \in Students \ {Student} : txn'[s] = txn[s]
         /\ Written' = Written
         /\ UNCHANGED <<devices, learning_events, requests, responses>>
<1>1. /\ txn'[Student].todo \subseteq txn[Student].todo
      /\ txn'[Student].rejected = txn[Student].rejected
      /\ txn'[Student].accepted = txn[Student].accepted
      /\ txn'[Student].accepted_max_sequence = txn[Student].accepted_max_sequence
      /\ txn'[Student].device_id = txn[Student].device_id
      /\ \A s \in Students \ {Student} : txn'[s] = txn[s]
  BY ServerTyped DEF SkipDuplicate, Transaction
<1>2. UNCHANGED <<devices, learning_events, requests, responses>>
  BY DEF SkipDuplicate
<1>3. \A s \in Students : txn'[s].accepted = txn[s].accepted
  BY <1>1
<1>4. Written' = Written
  BY <1>2, <1>3 DEF Written
<1>. QED  BY <1>1, <1>2, <1>4

\* What is new about a stored event: it is above everything of the device.
LEMMA InsertFacts ==
  ASSUME SyncInvariant, NEW e \in txn[Student].todo, StoreEvent(Student, e)
  PROVE  /\ txn'[Student].todo \subseteq txn[Student].todo
         /\ txn'[Student].rejected = txn[Student].rejected
         /\ txn'[Student].accepted # {}
         /\ txn'[Student].accepted_max_sequence = e.device_sequence
         /\ txn'[Student].device_id = txn[Student].device_id
         /\ \A s \in Students \ {Student} : txn'[s] = txn[s]
         /\ Written' = Written \cup {RowOf(Student, e)}
         /\ IdsOf(Written)' = IdsOf(Written) \cup {e.event_id}
         /\ UNCHANGED <<devices, learning_events, requests, responses>>
         /\ e.fault = "none"
         /\ e.device_sequence > txn[Student].accepted_max_sequence
         /\ e.device_sequence > devices[txn[Student].device_id].last_device_sequence
<1>1. /\ txn' = [txn EXCEPT ![Student] = StoredIn(Student, e)]
      /\ StoredIn(Student, e).accepted = txn[Student].accepted \cup {RowOf(Student, e)}
      /\ StoredIn(Student, e).accepted_max_sequence = e.device_sequence
      /\ StoredIn(Student, e).device_id = txn[Student].device_id
      /\ e \in Envelope /\ txn[Student].device_id \in Devices
      /\ UNCHANGED <<devices, learning_events, responses>>
      /\ Written' = Written \cup {RowOf(Student, e)}
  BY ServerTyped, StoreFacts DEF SyncInvariant
<1>2. /\ StoredIn(Student, e).todo \subseteq txn[Student].todo
      /\ StoredIn(Student, e).rejected = txn[Student].rejected
  BY ServerTyped DEF StoredIn, Transaction
<1>3. /\ txn'[Student] = StoredIn(Student, e)
      /\ \A s \in Students \ {Student} : txn'[s] = txn[s]
  BY <1>1, ServerTyped
<1>4. IdsOf(Written)' = IdsOf(Written) \cup {e.event_id}
  <2>1. RowOf(Student, e).event_id = e.event_id
    BY DEF RowOf
  <2>. QED  BY <1>1, <2>1 DEF IdsOf
<1>5. e.fault = "none" /\ ~IsStale(Student, e) /\ UNCHANGED requests
  BY DEF StoreEvent, Applies, Insert
<1>6. /\ e.device_sequence \in Nat /\ txn[Student].accepted_max_sequence \in Nat
      /\ devices[txn[Student].device_id].last_device_sequence \in Nat
  BY <1>1, ServerTyped DEF Envelope, Transaction, DeviceRow
<1>7. /\ e.device_sequence > txn[Student].accepted_max_sequence
      /\ e.device_sequence > devices[txn[Student].device_id].last_device_sequence
  BY <1>5, <1>6 DEF IsStale
<1>8. /\ txn'[Student].todo \subseteq txn[Student].todo
      /\ txn'[Student].rejected = txn[Student].rejected
      /\ txn'[Student].accepted # {}
      /\ txn'[Student].accepted_max_sequence = e.device_sequence
      /\ txn'[Student].device_id = txn[Student].device_id
  BY <1>1, <1>2, <1>3
<1>. QED  BY <1>1, <1>3, <1>4, <1>5, <1>7, <1>8

\* What a step of the server is, when only this student calls it.
LEMMA OnlyStudent ==
  ASSUME SyncInvariant, OneBrowser, NEW s \in Students, RunBatch(s)
  PROVE  s = Student
BY DEF OneBrowser, RunBatch, ProcessEvent, Commit, AbortBatch, LockFree, NoTransaction

LEMMA RunFacts ==
  ASSUME SyncInvariant, Commit(Student) \/ AbortBatch(Student)
  PROVE  /\ txn'[Student] = NoTransaction
         /\ \A s \in Students \ {Student} : txn'[s] = txn[s]
         /\ Written' \subseteq Written
         /\ UNCHANGED requests
         /\ NoTransaction.todo = {} /\ NoTransaction.rejected = {}
         /\ NoTransaction.accepted = {} /\ NoTransaction.accepted_max_sequence = 0
<1>1. /\ txn'[Student] = NoTransaction
      /\ \A s \in Students \ {Student} : txn'[s] = txn[s]
      /\ UNCHANGED requests
  BY ServerTyped DEF Commit, AbortBatch
<1>2. /\ NoTransaction.todo = {} /\ NoTransaction.rejected = {}
      /\ NoTransaction.accepted = {} /\ NoTransaction.accepted_max_sequence = 0
  BY DEF NoTransaction
<1>3. CASE Commit(Student)
  <2>1. Written' = Written
    BY <1>3, ServerTyped, CommitFacts DEF SyncInvariant
  <2>. QED  BY <1>1, <1>2, <2>1
<1>4. CASE AbortBatch(Student)
  <2>1. learning_events' = learning_events
    BY <1>4 DEF AbortBatch
  <2>2. \A s \in Students : txn'[s].accepted \subseteq txn[s].accepted
    BY <1>1, <1>2
  <2>3. Written' \subseteq Written
    BY <2>1, <2>2 DEF Written
  <2>. QED  BY <1>1, <1>2, <2>3
<1>. QED  BY <1>3, <1>4

LEMMA BeginFacts ==
  ASSUME SyncInvariant, OneBrowser, NEW r \in requests, BeginBatch(r)
  PROVE  /\ txn'[Student].todo = r.events /\ txn'[Student].rejected = {}
         /\ txn'[Student].accepted = {} /\ txn'[Student].accepted_max_sequence = 0
         /\ txn'[Student].device_id = Device
         /\ \A s \in Students \ {Student} : txn'[s] = txn[s]
         /\ Written' \subseteq Written
         /\ requests' \subseteq requests
         /\ UNCHANGED <<devices, learning_events, responses>>
<1>1. r.student_id = Student /\ r.device_id = Device
  BY DEF SyncInvariant, Mine, OneBrowser
<1>2. /\ txn'[Student].todo = r.events /\ txn'[Student].rejected = {}
      /\ txn'[Student].accepted = {} /\ txn'[Student].accepted_max_sequence = 0
      /\ txn'[Student].device_id = Device
      /\ \A s \in Students \ {Student} : txn'[s] = txn[s]
  BY <1>1, ServerTyped DEF BeginBatch, NoTransaction
<1>3. requests' \subseteq requests /\ UNCHANGED <<devices, learning_events, responses>>
  BY DEF BeginBatch
<1>4. \A s \in Students : txn'[s].accepted \subseteq txn[s].accepted
  BY <1>2
<1>5. Written' \subseteq Written
  BY <1>3, <1>4 DEF Written
<1>. QED  BY <1>2, <1>3, <1>5

\* Nothing is on its way to the store but what was, or the batch just posted.
LEMMA SentFrom ==
  ASSUME SyncInvariant, OneBrowser, [Next]_vars
  PROVE  \/ Sent' \subseteq Sent
         \/ /\ Sent' \subseteq Sent \cup {EnvelopeOf(copy) : copy \in sync.batch}
            /\ \E c \in Calls : Send(c)
<1>1. CASE UNCHANGED <<requests, txn>>
  BY <1>1 DEF Sent
<1>2. ASSUME requests' \subseteq requests, UNCHANGED txn PROVE Sent' \subseteq Sent
  BY <1>2 DEF Sent
<1>3. ASSUME NEW c \in Calls, Send(c)
      PROVE  Sent' \subseteq Sent \cup {EnvelopeOf(copy) : copy \in sync.batch}
  BY <1>3 DEF Send, SendRequest, Sent
<1>4. ASSUME NEW r \in requests, HandleRequest(r) PROVE Sent' \subseteq Sent
  <2>1. CASE Authenticate(r)
    <3>1. [r EXCEPT !.authenticated = TRUE].events = r.events
      BY ServerTyped DEF Request
    <3>2. UNCHANGED txn /\ \A q \in requests' : \E o \in requests : q.events = o.events
      BY <2>1, <3>1 DEF Authenticate
    <3>. QED  BY <3>2 DEF Sent
  <2>2. ASSUME NEW response, Answer(r, response) PROVE Sent' \subseteq Sent
    BY <1>2, <2>2 DEF Answer
  <2>3. CASE BeginBatch(r)
    BY <2>3, BeginFacts DEF Sent
  <2>. QED
    BY <1>4, <2>1, <2>2, <2>3
    DEF HandleRequest, RefuseToken, RefuseBatchSize, RefuseStudent, RefuseDevice
<1>5. ASSUME NEW s \in Students, RunBatch(s) PROVE Sent' \subseteq Sent
  <2>1. s = Student
    BY <1>5, OnlyStudent
  <2>2. CASE Commit(s) \/ AbortBatch(s)
    BY <2>1, <2>2, RunFacts DEF Sent
  <2>3. CASE ProcessEvent(s)
    <3>1. txn'[Student].todo \subseteq txn[Student].todo
      BY <2>1, <2>3, RejectFacts, SkipFacts, InsertFacts
      DEF ProcessEvent, RejectUnreadable, RejectStale, RejectDependency, RejectInapplicable
    <3>2. UNCHANGED requests
      BY <2>1, <2>3, ProcessKeepsCalls DEF SyncInvariant, ServerInvariant
    <3>. QED  BY <3>1, <3>2 DEF Sent
  <2>. QED  BY <1>5, <2>2, <2>3 DEF RunBatch
<1>6. CASE Network \/ \E r \in responses : Receive(r)
  BY <1>2, <1>6 DEF Network, LoseRequest, TakeResponse, Receive
<1>7. CASE RevokeDevice(Student, Device) \/ RequestDeletion(Student)
  BY <1>1, <1>7 DEF RevokeDevice, RequestDeletion
<1>8. CASE UNCHANGED vars \/ UNCHANGED serverVars
  BY <1>1, <1>8 DEF vars, serverVars
<1>. QED  BY <1>3, <1>4, <1>5, <1>6, <1>7, <1>8 DEF Next, ServerStep

\* The browser's device stays registered to its student, and its watermark rises
\* only when the student's batch is committed.
LEMMA DeviceStep ==
  ASSUME SyncInvariant, OneBrowser, [Next]_vars
  PROVE  /\ devices'[Device].student_id = Student
         /\ devices'[Device].last_device_sequence >= devices[Device].last_device_sequence
<1>. USE DEF SyncInvariant
<1>1. Effects
  BY StepOfServer, StepEffect DEF ServerInvariant
<1>2. /\ devices[Device].last_device_sequence \in Nat
      /\ Student # None
  BY ServerTyped, ProtocolConstants DEF DeviceRow
<1>3. CASE UNCHANGED devices
  BY <1>2, <1>3 DEF OneBrowser
<1>4. ASSUME NEW d \in Devices, DeviceChanges(d)
      PROVE  /\ devices'[Device].student_id = Student
             /\ devices'[Device].last_device_sequence >= devices[Device].last_device_sequence
  <2>1. /\ devices'[Device].last_device_sequence = devices[Device].last_device_sequence
        /\ devices[Device].student_id # None =>
             devices'[Device].student_id = devices[Device].student_id
    BY <1>4, ServerTyped, DeviceFacts
  <2>. QED  BY <1>2, <2>1 DEF OneBrowser
<1>5. ASSUME NEW s \in Students, Commit(s)
      PROVE  /\ devices'[Device].student_id = Student
             /\ devices'[Device].last_device_sequence >= devices[Device].last_device_sequence
  <2>1. CASE txn[s].accepted = {}
    BY <1>3, <1>5, <2>1 DEF Commit
  <2>2. CASE txn[s].accepted # {}
    <3>1. devices' = [devices EXCEPT ![txn[s].device_id].last_device_sequence =
                                        txn[s].accepted_max_sequence]
      BY <1>5, <2>2 DEF Commit, Advanced
    <3>2. PICK row \in txn[s].accepted : row.device_sequence = txn[s].accepted_max_sequence
      BY <2>2 DEF ServerInvariant, Sequenced
    <3>3. devices[txn[s].device_id].last_device_sequence < txn[s].accepted_max_sequence
      BY <3>2 DEF ServerInvariant, Sequenced
    <3>4. txn[s].accepted_max_sequence \in Nat
      BY ServerTyped DEF Transaction
    <3>5. /\ devices'[Device].student_id = devices[Device].student_id
          /\ \/ devices'[Device].last_device_sequence = devices[Device].last_device_sequence
             \/ /\ Device = txn[s].device_id
                /\ devices'[Device].last_device_sequence = txn[s].accepted_max_sequence
      BY <3>1, ServerTyped DEF DeviceRow
    <3>. QED  BY <1>2, <3>3, <3>4, <3>5 DEF OneBrowser
  <2>. QED  BY <2>1, <2>2
<1>6. ASSUME NEW s \in Students, NEW e \in txn[s].todo, StoreEvent(s, e)
      PROVE  UNCHANGED devices
  BY <1>6 DEF StoreEvent, Insert
<1>. QED
  BY <1>1, <1>3, <1>4, <1>5, <1>6 DEF Effects, Quiet, PassedOver, Resets

LEMMA StepRows ==
  ASSUME SyncInvariant, OneBrowser, [Next]_vars
  PROVE  \/ Written' \subseteq Written
         \/ \E e \in txn[Student].todo : StoreEvent(Student, e)
<1>. USE DEF SyncInvariant
<1>1. Effects
  BY StepOfServer, StepEffect DEF ServerInvariant
<1>2. CASE Quiet
  BY <1>2 DEF Quiet, Written
<1>3. ASSUME NEW s \in Students, NEW e \in txn[s].todo, StoreEvent(s, e)
      PROVE  s = Student
  BY <1>3 DEF OneBrowser, NoTransaction
<1>. QED
  BY <1>1, <1>2, <1>3, PassFacts, ResetFacts, CommitFacts, DeviceFacts DEF Effects

LEMMA StepOneBrowser == ASSUME SyncInvariant, OneBrowser, [Next]_vars PROVE OneBrowser'
<1>. DEFINE Alone == /\ \A s \in Students \ {Student} : txn[s] = NoTransaction
                     /\ \/ txn[Student] = NoTransaction
                        \/ txn[Student].device_id = Device
                     /\ txn[Student].accepted = {} =>
                           txn[Student].accepted_max_sequence = 0
            Calling == \A r \in requests : r.device_id = Device
            Known == \A r \in responses : r.status # "http_403_unregistered"
<1>1. Alone /\ Calling /\ Known
  BY DEF OneBrowser
<1>2. \A v \in Sent' : v.fault = FaultOf[v.event_id]
  BY SentFrom DEF OneBrowser, EnvelopeOf
<1>3. \A row \in Written' : row.student_id = Student /\ FaultOf[row.event_id] = "none"
  <2>1. ASSUME NEW e \in txn[Student].todo, StoreEvent(Student, e)
        PROVE  \A row \in Written' : row.student_id = Student /\ FaultOf[row.event_id] = "none"
    <3>1. e \in Sent /\ e.fault = "none" /\ Written' = Written \cup {RowOf(Student, e)}
      BY <2>1, InsertFacts DEF Sent
    <3>. QED  BY <3>1 DEF OneBrowser, RowOf
  <2>. QED  BY <2>1, StepRows DEF OneBrowser
<1>4. (Alone /\ Calling /\ Known)'
  <2>1. ASSUME UNCHANGED txn, requests' \subseteq requests, responses' \subseteq responses
        PROVE  (Alone /\ Calling /\ Known)'
    BY <1>1, <2>1
  <2>2. ASSUME NEW c \in Calls, Send(c) PROVE (Alone /\ Calling /\ Known)'
    BY <1>1, <2>2 DEF Send, SendRequest
  <2>3. ASSUME NEW r \in requests, HandleRequest(r) PROVE (Alone /\ Calling /\ Known)'
    <3>1. CASE Authenticate(r)
      <4>1. [r EXCEPT !.authenticated = TRUE].device_id = r.device_id
        BY ServerTyped DEF Request
      <4>. QED  BY <1>1, <3>1, <4>1 DEF Authenticate
    <3>2. ASSUME NEW response, Answer(r, response),
                 response.status # "http_403_unregistered"
          PROVE  (Alone /\ Calling /\ Known)'
      BY <1>1, <3>2 DEF Answer
    <3>3. CASE BeginBatch(r)
      <4>1. (Calling /\ Known)'
        BY <1>1, <3>3, BeginFacts
      <4>2. Alone'
        BY <1>1, <3>3, BeginFacts
      <4>. QED  BY <4>1, <4>2
    <3>4. Refusal(r).status = "ok"
      BY DEF Refusal
    <3>5. \A status : Failure(r, status).status = status
      BY DEF Failure
    <3>6. devices[r.device_id].student_id = r.student_id
      BY DEF SyncInvariant, Mine, OneBrowser
    <3>. HIDE DEF Alone, Calling, Known
    <3>7. CASE RefuseToken(r)
      BY <3>2, <3>5, <3>7 DEF RefuseToken
    <3>8. CASE RefuseBatchSize(r) \/ RefuseStudent(r)
      BY <3>2, <3>4, <3>8 DEF RefuseBatchSize, RefuseStudent
    <3>9. CASE RefuseDevice(r)
      BY <3>2, <3>5, <3>6, <3>9 DEF RefuseDevice
    <3>. QED  BY <2>3, <3>1, <3>3, <3>7, <3>8, <3>9 DEF HandleRequest
  <2>4. ASSUME NEW s \in Students, RunBatch(s) PROVE (Alone /\ Calling /\ Known)'
    <3>1. s = Student
      BY <2>4, OnlyStudent
    <3>2. CASE Commit(Student) \/ AbortBatch(Student)
      <4>1. BatchAnswer(Student).status = "ok" /\ BatchFailure(Student).status = "http_500"
        BY DEF BatchAnswer, BatchFailure, Failure
      <4>2. Known'
        BY <1>1, <3>2, <4>1 DEF Commit, AbortBatch
      <4>3. (Alone /\ Calling)'
        BY <1>1, <3>2, RunFacts
      <4>. QED  BY <4>2, <4>3
    <3>3. CASE ProcessEvent(Student)
      <4>1. PICK e \in txn[Student].todo :
              \/ SkipDuplicate(Student, e) \/ StoreEvent(Student, e)
              \/ \E retryable \in BOOLEAN : Reject(Student, e, retryable)
        BY <3>3 DEF ProcessEvent, RejectUnreadable, RejectStale, RejectDependency,
                    RejectInapplicable
      <4>2. txn[Student] # NoTransaction
        BY DEF NoTransaction
      <4>3. /\ UNCHANGED <<requests, responses>>
            /\ \A o \in Students \ {Student} : txn'[o] = txn[o]
            /\ txn'[Student].device_id = txn[Student].device_id
        BY <4>1, RejectFacts, SkipFacts, InsertFacts
      <4>4. txn'[Student].accepted = {} => txn'[Student].accepted_max_sequence = 0
        BY <1>1, <4>1, RejectFacts, SkipFacts, InsertFacts
      <4>. QED  BY <1>1, <4>2, <4>3, <4>4
    <3>. QED  BY <2>4, <3>1, <3>2, <3>3 DEF RunBatch
  <2>. HIDE DEF Alone, Calling, Known
  <2>5. CASE Network \/ \E r \in responses : Receive(r)
    BY <2>1, <2>5 DEF Network, LoseRequest, TakeResponse, Receive
  <2>6. CASE RevokeDevice(Student, Device) \/ RequestDeletion(Student)
    BY <2>1, <2>6 DEF RevokeDevice, RequestDeletion
  <2>7. CASE UNCHANGED vars \/ UNCHANGED serverVars
    BY <2>1, <2>7 DEF vars, serverVars
  <2>. QED  BY <2>2, <2>3, <2>4, <2>5, <2>6, <2>7 DEF Next, ServerStep
<1>. QED  BY <1>2, <1>3, <1>4, DeviceStep DEF OneBrowser

--------------------------------------------------------------------------------
(* What is doomed stays doomed. *)

LEMMA CreatedGrows ==
  ASSUME SyncInvariant, [Next]_vars
  PROVE  /\ created \subseteq created' /\ created \subseteq Events
         /\ created' # created =>
              /\ UNCHANGED serverVars
              /\ \E e \in Events : Enqueue(e)
<1>1. created \subseteq Events
  BY DEF SyncInvariant, ClientTyped, ClientTypeOK
<1>2. CASE (PageStep \/ PageEvent) /\ UNCHANGED serverVars
  <2>1. CASE \E e \in Events : Enqueue(e)
    BY <1>1, <1>2, <2>1 DEF Enqueue
  <2>2. CASE ~\E e \in Events : Enqueue(e)
    <3>1. created' = created
      BY <1>2, <2>2
      DEF PageStep, PageEvent, SyncStep, RestoreStep, MarkInFlight, AckDelete, AckRecord,
          MarkRejected, PutRejected, FinishSync, RestoreRecord, Boot, FinishBoot,
          SaveSequence, PullSnapshot, BackoffElapses, AttemptSync, NetworkError, Settle,
          PullFails, Reload
    <3>. QED  BY <1>1, <3>1
  <2>. QED  BY <1>2, <2>1, <2>2
<1>3. CASE UNCHANGED created
  BY <1>1, <1>3
<1>4. CASE \/ \E c \in Calls : Send(c)
           \/ \E r \in responses : Receive(r)
  BY <1>3, <1>4
  DEF Send, Post, Receive, ReceiveOk, ReceiveError, BodyUnreadable, Settle
<1>5. CASE UNCHANGED clientVars \/ UNCHANGED vars
  BY <1>3, <1>5 DEF clientVars, vars
<1>. QED  BY <1>2, <1>3, <1>4, <1>5 DEF Next

\* An event that is stored now was neither refused by rights nor overtaken.
LEMMA StoredNotDoomed ==
  ASSUME SyncInvariant, OneBrowser, NEW n \in [Events -> Nat], SentRight(n),
         NEW e \in txn[Student].todo, StoreEvent(Student, e)
  PROVE  e.event_id \in Presented \/ e.event_id \notin Doomed(n) \cup PassedBy(n)
<1>1. /\ e \in Sent /\ e \in Envelope /\ txn[Student].device_id = Device
  BY ServerTyped DEF Sent, OneBrowser, NoTransaction, Transaction
<1>2. /\ FaultOf[e.event_id] = "none"
      /\ e.event_id \in Presented \/ e.device_sequence = n[e.event_id]
      /\ e.event_id \in Events /\ e.event_id # None
  BY <1>1, InsertFacts, ProtocolConstants DEF OneBrowser, SentRight, Fits, Envelope
<1>3. /\ e.device_sequence > txn[Student].accepted_max_sequence
      /\ e.device_sequence > devices[Device].last_device_sequence
  BY <1>1, InsertFacts
<1>4. /\ e.device_sequence \in Nat /\ txn[Student].accepted_max_sequence \in Nat
      /\ devices[Device].last_device_sequence \in Nat
  BY <1>1, ServerTyped DEF Envelope, Transaction, DeviceRow
<1>. QED  BY <1>2, <1>3, <1>4 DEF Doomed, PassedBy

\* The numbers m of the next state extend those of this one.
LEMMA DoomedStays ==
  ASSUME SyncInvariant, OneBrowser, [Next]_vars,
         NEW n \in [Events -> Nat], NEW m \in [Events -> Nat], SentRight(n),
         \A f \in created : m[f] = n[f] \/ f \in Presented
  PROVE  Doomed(n) \subseteq Doomed(m)'
<1>. SUFFICES ASSUME NEW f \in created, f \notin Presented, f \notin IdsOf(Written),
                     n[f] <= devices[Device].last_device_sequence
              PROVE  f \in Doomed(m)'
  BY DEF Doomed
<1>1. f \in created' /\ f \in Events /\ m[f] = n[f] /\ n[f] \in Nat
  BY CreatedGrows
<1>2. f \notin IdsOf(Written)'
  <2>1. CASE Written' \subseteq Written
    BY <2>1 DEF IdsOf
  <2>2. ASSUME NEW e \in txn[Student].todo, StoreEvent(Student, e)
        PROVE  f \notin IdsOf(Written)'
    <3>1. IdsOf(Written)' = IdsOf(Written) \cup {e.event_id}
      BY <2>2, InsertFacts
    <3>2. f \in Doomed(n)
      BY DEF Doomed
    <3>. QED  BY <2>2, <3>1, <3>2, StoredNotDoomed
  <2>. QED  BY <2>1, <2>2, StepRows
<1>3. devices'[Device].last_device_sequence >= devices[Device].last_device_sequence
  BY DeviceStep
<1>4. /\ devices[Device].last_device_sequence \in Nat
      /\ devices'[Device].last_device_sequence \in Nat
  <2>1. ServerInvariant'
    BY StepOfServer, StepInvariant DEF SyncInvariant
  <2>. QED
    BY <2>1, ServerTyped DEF ServerInvariant, Typed, ServerTypeOK, DeviceRow
<1>5. m[f] <= devices'[Device].last_device_sequence
  BY <1>1, <1>3, <1>4
<1>. QED  BY <1>1, <1>2, <1>5 DEF Doomed

\* Refusals in a batch are right when it is committed.
LEMMA CommitDooms ==
  ASSUME SyncInvariant, OneBrowser, [Next]_vars, NEW n \in [Events -> Nat], SentRight(n),
         Commit(Student)
  PROVE  PassedBy(n) \subseteq Doomed(n)'
<1>. SUFFICES ASSUME NEW f \in created, f \notin IdsOf(Written),
                     n[f] <= txn[Student].accepted_max_sequence
              PROVE  f \in Doomed(n)'
  BY DEF PassedBy
<1>1. f \in created' /\ f \in Events /\ n[f] \in Nat
  BY CreatedGrows
<1>2. Written' = Written
  BY CommitFacts, ServerTyped DEF SyncInvariant
<1>3. n[f] <= devices'[Device].last_device_sequence
  <2>1. CASE txn[Student].accepted = {}
    <3>1. /\ txn[Student].accepted_max_sequence = 0 /\ devices' = devices
          /\ devices[Device].last_device_sequence \in Nat
      BY <2>1, ServerTyped DEF OneBrowser, Commit, DeviceRow
    <3>. QED  BY <1>1, <3>1
  <2>2. CASE txn[Student].accepted # {}
    <3>1. txn[Student].device_id = Device
      BY <2>2 DEF OneBrowser, NoTransaction
    <3>2. devices' = [devices EXCEPT ![Device].last_device_sequence =
                                        txn[Student].accepted_max_sequence]
      BY <2>2, <3>1 DEF Commit, Advanced
    <3>3. devices'[Device].last_device_sequence = txn[Student].accepted_max_sequence
      BY <3>2, ServerTyped DEF DeviceRow
    <3>. QED  BY <3>3
  <2>. QED  BY <2>1, <2>2
<1>. QED  BY <1>1, <1>2, <1>3 DEF Doomed, IdsOf

\* Why an event of a batch is refused for good.
LEMMA RefusedForGood ==
  ASSUME SyncInvariant, OneBrowser, NEW n \in [Events -> Nat], SentRight(n),
         NEW e \in txn[Student].todo,
         \/ RejectUnreadable(Student, e) \/ RejectStale(Student, e)
         \/ RejectDependency(Student, e) \/ RejectInapplicable(Student, e)
  PROVE  \E retryable \in BOOLEAN :
            /\ Reject(Student, e, retryable)
            /\ retryable \/ e.event_id \in Doomed(n) \cup PassedBy(n)
<1>1. /\ e \in Sent /\ e \in Envelope /\ e.event_id \in Events
  BY ServerTyped DEF Sent, Transaction, Envelope
<1>2. /\ e.fault = FaultOf[e.event_id]
      /\ e.event_id \in created
      /\ e.event_id \in Presented \/ n[e.event_id] = e.device_sequence
  BY <1>1 DEF OneBrowser, SentRight, Fits
<1>3. \A id : ~OwnedElsewhere(Student, id)
  BY DEF OneBrowser, OwnedElsewhere, Written
<1>4. CASE RejectUnreadable(Student, e)
  <2>1. e.event_id \in Doomed(n)
    BY <1>1, <1>2, <1>4 DEF RejectUnreadable, Readable, Doomed
  <2>. QED  BY <1>4, <2>1 DEF RejectUnreadable
<1>5. CASE RejectInapplicable(Student, e)
  <2>1. e.event_id \in Doomed(n)
    BY <1>1, <1>2, <1>3, <1>5 DEF RejectInapplicable, Doomed
  <2>. QED  BY <1>5, <2>1 DEF RejectInapplicable
<1>6. CASE RejectDependency(Student, e)
  <2>1. Reject(Student, e, TRUE)
    BY <1>3, <1>6, Zenon DEF RejectDependency
  <2>. QED  BY <2>1
<1>7. CASE RejectStale(Student, e)
  <2>1. e.event_id \notin Visible(Student) /\ IsStale(Student, e)
    BY <1>7 DEF RejectStale, IsNew
  <2>2. txn[Student].device_id = Device
    BY DEF OneBrowser, NoTransaction
  <2>3. e.event_id \notin IdsOf(Written)
    <3>1. \A row \in Written : row \in RowsOfStudent(Student) \cup txn[Student].accepted
      BY DEF OneBrowser, Written, RowsOfStudent, NoTransaction
    <3>. QED  BY <2>1, <3>1 DEF Visible, IdsOf
  <2>4. e.event_id \in Doomed(n) \cup PassedBy(n)
    BY <1>2, <2>1, <2>2, <2>3 DEF IsStale, Doomed, PassedBy
  <2>. QED  BY <1>7, <2>4 DEF RejectStale
<1>. QED  BY <1>4, <1>5, <1>6, <1>7

LEMMA AnswersStep ==
  ASSUME SyncInvariant, OneBrowser, [Next]_vars,
         NEW n \in [Events -> Nat], SentRight(n), AnswersRight(n),
         NEW m \in [Events -> Nat], m = n \/ UNCHANGED serverVars,
         \A f \in created : m[f] = n[f] \/ f \in Presented
  PROVE  AnswersRight(m)'
<1>1. Doomed(n) \subseteq Doomed(m)' /\ created \subseteq created'
  BY DoomedStays, CreatedGrows
<1>2. ASSUME UNCHANGED <<txn, learning_events>>,
             \A r \in responses' : r \in responses \/ \A x \in r.rejected :
                                      x.retryable \/ x.event_id = None
      PROVE  AnswersRight(m)'
  <2>1. Written' = Written
    BY <1>2 DEF Written
  <2>2. PassedBy(n) \subseteq PassedBy(m)' \cup Presented
    BY <1>1, <1>2, <2>1 DEF PassedBy
  <2>3. None \in Doomed(m)' /\ Presented \subseteq Doomed(m)'
    BY DEF Doomed
  <2>. QED  BY <1>1, <1>2, <2>2, <2>3 DEF AnswersRight
<1>3. CASE UNCHANGED serverVars
  BY <1>2, <1>3 DEF serverVars
<1>4. ASSUME NEW r \in requests, HandleRequest(r) PROVE AnswersRight(m)'
  <2>1. Refusal(r).rejected = {[event_id |-> None, retryable |-> FALSE]}
    BY DEF Refusal
  <2>2. \A status : Failure(r, status).rejected = {}
    BY DEF Failure
  <2>3. ASSUME NEW response, Answer(r, response),
               \A x \in response.rejected : x.retryable \/ x.event_id = None
        PROVE  AnswersRight(m)'
    BY <1>2, <2>3 DEF Answer
  <2>4. CASE Authenticate(r)
    BY <1>2, <2>4 DEF Authenticate
  <2>5. CASE BeginBatch(r)
    BY <1>1, <2>5, BeginFacts DEF AnswersRight
  <2>6. CASE RefuseToken(r) \/ RefuseDevice(r)
    BY <2>2, <2>3, <2>6 DEF RefuseToken, RefuseDevice
  <2>7. CASE RefuseBatchSize(r) \/ RefuseStudent(r)
    BY <2>1, <2>3, <2>7 DEF RefuseBatchSize, RefuseStudent
  <2>. QED  BY <1>4, <2>4, <2>5, <2>6, <2>7 DEF HandleRequest
<1>5. ASSUME NEW s \in Students, RunBatch(s) PROVE AnswersRight(m)'
  <2>1. s = Student
    BY <1>5, OnlyStudent
  <2>2. CASE UNCHANGED serverVars
    BY <1>3, <2>2
  <2>3. CASE m = n /\ Commit(Student)
    <3>1. \A x \in txn[Student].rejected : x.retryable \/ x.event_id \in Doomed(m)'
      BY <1>1, <2>3, CommitDooms DEF AnswersRight
    <3>2. /\ BatchAnswer(Student).rejected = txn[Student].rejected
          /\ BatchFailure(Student).rejected = {}
      BY DEF BatchAnswer, BatchFailure, Failure
    <3>3. /\ txn'[Student].rejected = {}
          /\ responses' \subseteq responses \cup {BatchAnswer(Student), BatchFailure(Student)}
      BY <2>3, RunFacts DEF Commit
    <3>. QED  BY <1>1, <3>1, <3>2, <3>3 DEF AnswersRight
  <2>4. CASE m = n /\ AbortBatch(Student)
    <3>1. BatchFailure(Student).rejected = {}
      BY DEF BatchFailure, Failure
    <3>2. txn'[Student].rejected = {} /\ responses' = responses \cup {BatchFailure(Student)}
      BY <2>4, RunFacts DEF AbortBatch
    <3>. QED  BY <1>1, <3>1, <3>2 DEF AnswersRight
  <2>5. CASE m = n /\ ProcessEvent(Student)
    <3>1. PICK e \in txn[Student].todo :
            \/ SkipDuplicate(Student, e) \/ StoreEvent(Student, e)
            \/ RejectUnreadable(Student, e) \/ RejectStale(Student, e)
            \/ RejectDependency(Student, e) \/ RejectInapplicable(Student, e)
      BY <2>5 DEF ProcessEvent
    <3>2. CASE SkipDuplicate(Student, e)
      <4>1. PassedBy(n) \subseteq PassedBy(m)'
        BY <1>1, <2>5, <3>2, SkipFacts DEF PassedBy
      <4>. QED  BY <1>1, <3>2, <4>1, SkipFacts DEF AnswersRight
    <3>3. CASE StoreEvent(Student, e)
      <4>1. \A f \in PassedBy(n) : f \in PassedBy(m)' \/ f \in Presented
        <5>. SUFFICES ASSUME NEW f \in PassedBy(n), f \notin Presented
                      PROVE  f \in PassedBy(m)'
          OBVIOUS
        <5>1. f # e.event_id
          BY <3>3, StoredNotDoomed
        <5>2. f \in created' /\ f \notin IdsOf(Written)'
          BY <1>1, <3>3, <5>1, InsertFacts DEF PassedBy
        <5>3. /\ n[f] \in Nat /\ e.device_sequence \in Nat
              /\ txn[Student].accepted_max_sequence \in Nat
          BY CreatedGrows, ServerTyped DEF PassedBy, Transaction, Envelope
        <5>4. n[f] <= txn'[Student].accepted_max_sequence
          BY <3>3, <5>3, InsertFacts DEF PassedBy
        <5>. QED  BY <2>5, <5>2, <5>4 DEF PassedBy
      <4>2. Presented \subseteq Doomed(m)'
        BY DEF Doomed
      <4>. QED  BY <1>1, <3>3, <4>1, <4>2, InsertFacts DEF AnswersRight
    <3>4. CASE \/ RejectUnreadable(Student, e) \/ RejectStale(Student, e)
               \/ RejectDependency(Student, e) \/ RejectInapplicable(Student, e)
      <4>1. PICK retryable \in BOOLEAN :
              /\ Reject(Student, e, retryable)
              /\ retryable \/ e.event_id \in Doomed(n) \cup PassedBy(n)
        BY <3>4, RefusedForGood
      <4>2. PassedBy(n) \subseteq PassedBy(m)'
        BY <1>1, <2>5, <4>1, RejectFacts DEF PassedBy
      <4>3. /\ txn'[Student].rejected = txn[Student].rejected \cup
                 {[event_id |-> e.event_id, retryable |-> retryable]}
            /\ responses' = responses
        BY <4>1, RejectFacts
      <4>. QED  BY <1>1, <4>1, <4>2, <4>3 DEF AnswersRight
    <3>. QED  BY <3>1, <3>2, <3>3, <3>4
  <2>. QED  BY <1>5, <2>1, <2>2, <2>3, <2>4, <2>5 DEF RunBatch
<1>6. CASE \/ Network \/ \E r \in responses : Receive(r)
           \/ \E c \in Calls : Send(c)
  BY <1>2, <1>6 DEF Network, LoseRequest, TakeResponse, Receive, Send, SendRequest
<1>7. CASE RevokeDevice(Student, Device) \/ RequestDeletion(Student)
  BY <1>2, <1>7 DEF RevokeDevice, RequestDeletion
<1>8. CASE UNCHANGED vars
  BY <1>3, <1>8 DEF vars, serverVars
<1>. QED  BY <1>3, <1>4, <1>5, <1>6, <1>7, <1>8 DEF Next, ServerStep

--------------------------------------------------------------------------------
(* Browser, network and server again, with the refusals. *)

RowsRight(n) == \A row \in Written : Fits(n, row.event_id, row.device_sequence)

RefusalsRight(n) ==
    SentRight(n) /\ RowsRight(n) /\ AnswersRight(n) /\ PageRight(n, Doomed(n))

RefusalInvariant ==
    /\ SyncInvariant /\ OneBrowser
    /\ \E n \in [Events -> Nat] : RefusalsRight(n)

LEMMA InitRefusals == Init => RefusalInvariant
<1>. SUFFICES ASSUME Init PROVE RefusalInvariant
  OBVIOUS
<1>1. /\ \A s \in Students : txn[s] = NoTransaction
      /\ requests = {} /\ responses = {} /\ learning_events = {}
      /\ Student \in Students
  BY BrowserConstants DEF Init, ServerInit
<1>2. /\ NoTransaction.accepted = {} /\ NoTransaction.todo = {}
      /\ NoTransaction.rejected = {} /\ NoTransaction.accepted_max_sequence = 0
  BY DEF NoTransaction
<1>3. Sent = {} /\ Written = {}
  BY <1>1, <1>2 DEF Sent, Written
<1>4. devices[Device].student_id = Student
  BY DEF Init, NewDevice
<1>5. OneBrowser
  BY <1>1, <1>2, <1>3, <1>4 DEF OneBrowser
<1>6. PICK n \in [Events -> Nat] : n = [e \in Events |-> 0]
  OBVIOUS
<1>7. SentRight(n) /\ RowsRight(n) /\ AnswersRight(n)
  BY <1>1, <1>2, <1>3 DEF SentRight, RowsRight, AnswersRight
<1>8. PageRight(n, Doomed(n))
  BY DEF Init, ClientInit, Absent, Idle, PageRight, StoreRight, RunRight, RestoringRight
<1>9. RefusalsRight(n)
  BY <1>7, <1>8 DEF RefusalsRight
<1>. QED  BY <1>5, <1>9, InitSync DEF RefusalInvariant

LEMMA ReceiveRight ==
  ASSUME SyncInvariant, OneBrowser, NEW n, AnswersRight(n),
         NEW D, D = Doomed(n), PageRight(n, D), NEW r \in responses, Receive(r)
  PROVE  PageRight(n, D)'
<1>. USE DEF SyncInvariant
<1>1. CASE ReceiveOk(r)
  <2>1. \A x \in r.rejected : x.retryable \/ x.event_id \in D
    BY DEF AnswersRight
  <2>. QED  BY <1>1, <2>1, SettleRight DEF ReceiveOk
<1>2. CASE ReceiveError(r)
  <2>1. Settle({}, RejectAll(TRUE), FALSE)
    <3>1. (r.status # "http_403_unregistered") = TRUE
      BY DEF OneBrowser
    <3>. QED  BY <1>2, <3>1 DEF ReceiveError
  <2>2. \A x \in RejectAll(TRUE) : x.retryable
    BY DEF RejectAll
  <2>. QED  BY <2>1, <2>2, SettleRight
<1>3. CASE BodyUnreadable(r)
  <2>1. \A c \in restoring' : Fits(n, c.event_id, c.device_sequence)
    BY <1>3, ReadRight DEF BodyUnreadable, PageRight
  <2>2. UNCHANGED <<storeVars, created>> /\ sync' = Idle
    BY <1>3 DEF BodyUnreadable, storeVars
  <2>3. StoreRight(n, D)' /\ RestoringRight(n)'
    BY <2>1, <2>2 DEF PageRight, StoreRight, RestoringRight, Fits, storeVars
  <2>. QED  BY <2>2, <2>3, IdleRight DEF PageRight
<1>. QED  BY <1>1, <1>2, <1>3 DEF Receive

\* The numbers of the next state are those of this one and, perhaps, that of an event
\* created now.
LEMMA StepNumbers ==
  ASSUME SyncInvariant, OneBrowser, [Next]_vars,
         NEW n \in [Events -> Nat], RefusalsRight(n)
  PROVE  \E m \in [Events -> Nat] :
            /\ RefusalsRight(m)'
            /\ \A f \in created : m[f] = n[f] \/ f \in Presented
<1>. DEFINE Extended == \E m \in [Events -> Nat] :
                          /\ RefusalsRight(m)'
                          /\ \A f \in created : m[f] = n[f] \/ f \in Presented
<1>1. PICK D : D = Doomed(n)
  OBVIOUS
<1>2. PageRight(n, D) /\ SentRight(n) /\ RowsRight(n) /\ AnswersRight(n)
  BY <1>1 DEF RefusalsRight
\* It is enough to know the page's half, and the numbers of what is sent.
<1>3. ASSUME NEW m \in [Events -> Nat], PageRight(m, D)', SentRight(m)',
             m = n \/ UNCHANGED serverVars,
             \A f \in created : m[f] = n[f] \/ f \in Presented
      PROVE  Extended
  <2>1. AnswersRight(m)' /\ D \subseteq Doomed(m)'
    BY <1>1, <1>2, <1>3, AnswersStep, DoomedStays
  <2>2. PageRight(m, Doomed(m))'
    BY <1>3, <2>1 DEF PageRight, StoreRight, RunRight
  <2>3. \A id, k : Fits(n, id, k) => Fits(m, id, k)'
    BY <1>3, CreatedGrows DEF Fits
  <2>4. \A row \in Written' : Fits(n, row.event_id, row.device_sequence)
    <3>1. ASSUME NEW e \in txn[Student].todo, StoreEvent(Student, e)
          PROVE  \A row \in Written' : Fits(n, row.event_id, row.device_sequence)
      <4>1. e \in Sent /\ Written' = Written \cup {RowOf(Student, e)}
        BY <3>1, InsertFacts DEF Sent
      <4>. QED  BY <1>2, <4>1 DEF SentRight, RowsRight, RowOf
    <3>. QED  BY <1>2, <3>1, StepRows DEF RowsRight
  <2>5. RowsRight(m)'
    BY <2>3, <2>4 DEF RowsRight
  <2>6. RefusalsRight(m)'
    BY <1>3, <2>1, <2>2, <2>5 DEF RefusalsRight
  <2>. QED  BY <1>3, <2>6
<1>. HIDE DEF Extended
<1>4. ASSUME Sent' \subseteq Sent, PageRight(n, D)' PROVE Extended
  <2>1. SentRight(n)'
    BY <1>2, <1>4, CreatedGrows DEF SentRight, Fits
  <2>. QED  BY <1>3, <1>4, <2>1
<1>5. ASSUME NEW e \in Events, Enqueue(e), UNCHANGED serverVars PROVE Extended
  <2>1. PICK m \in [Events -> Nat] :
           /\ PageRight(m, D)'
           /\ \A f \in created : m[f] = n[f] \/ f \in Presented
    BY <1>2, <1>5, EnqueueRight DEF SyncInvariant
  <2>2. Sent' = Sent
    BY <1>5 DEF serverVars, Sent
  <2>3. SentRight(m)'
    BY <1>2, <2>1, <2>2, CreatedGrows DEF SentRight, Fits
  <2>. QED  BY <1>3, <1>5, <2>1, <2>3
<1>6. ASSUME PageStep \/ PageEvent, UNCHANGED serverVars PROVE Extended
  <2>1. CASE ~\E e \in Events : Enqueue(e)
    <3>1. PageRight(n, D)'
      BY <1>2, <1>6, <2>1, PageStepRight DEF SyncInvariant
    <3>2. Sent' \subseteq Sent
      BY <1>6 DEF serverVars, Sent
    <3>. QED  BY <1>4, <3>1, <3>2
  <2>. QED  BY <1>5, <1>6, <2>1
<1>7. ASSUME NEW c \in Calls, Send(c) PROVE Extended
  <2>1. /\ UNCHANGED <<storeVars, created, restoring>>
        /\ sync' = [sync EXCEPT !.phase = "waiting", !.call = c]
    BY <1>7 DEF Send, Post
  <2>2. /\ sync'.batch = sync.batch /\ sync'.unmarked = sync.unmarked
        /\ sync'.marking = sync.marking /\ sync'.rejects = sync.rejects
    BY <2>1, RunTyped DEF SyncRun, SyncInvariant
  <2>3. PageRight(n, D)'
    BY <1>2, <2>1, <2>2 DEF PageRight, StoreRight, RunRight, RestoringRight, Fits, storeVars
  <2>4. \A v \in Sent' : v \in Sent \/ \E copy \in sync.batch :
            v.event_id = copy.event_id /\ v.device_sequence = copy.device_sequence
    BY SentFrom DEF EnvelopeOf
  <2>5. SentRight(n)'
    BY <1>2, <2>1, <2>4 DEF SentRight, PageRight, RunRight, Fits
  <2>. QED  BY <1>3, <2>3, <2>5
<1>8. ASSUME UNCHANGED clientVars, ~\E c \in Calls : Send(c) PROVE Extended
  <2>1. PageRight(n, D)'
    BY <1>2, <1>8
    DEF clientVars, PageRight, StoreRight, RunRight, RestoringRight, Fits
  <2>. QED  BY <1>4, <1>8, <2>1, SentFrom
<1>9. ASSUME NEW r \in responses, Receive(r) PROVE Extended
  <2>1. PageRight(n, D)'
    BY <1>1, <1>2, <1>9, ReceiveRight
  <2>2. Sent' \subseteq Sent
    BY <1>9 DEF Receive, TakeResponse, Sent
  <2>. QED  BY <1>4, <2>1, <2>2
<1>10. UNCHANGED vars => UNCHANGED clientVars
  BY DEF vars
<1>11. Extended
  BY <1>6, <1>7, <1>8, <1>9, <1>10 DEF Next
<1>. QED  BY <1>11 DEF Extended

LEMMA StepRefusals == RefusalInvariant /\ [Next]_vars => RefusalInvariant'
BY StepSync, StepOneBrowser, StepNumbers DEF RefusalInvariant

\* What the browser reports as failed for good the server does not have and will not
\* take: also when a request the browser gave up on is processed late.
THEOREM FailedNotStored == Spec => []FailedIsNotStored
<1>1. RefusalInvariant => FailedIsNotStored
  <2>. SUFFICES ASSUME RefusalInvariant, NEW e \in Events \ Presented,
                       pending_events[e].status = "failed"
                PROVE  e \notin Stored
    BY DEF FailedIsNotStored
  <2>1. PICK n \in [Events -> Nat] : RefusalsRight(n)
    BY DEF RefusalInvariant
  <2>2. e \in Doomed(n) /\ e # None
    BY <2>1, ProtocolConstants DEF RefusalsRight, PageRight, StoreRight
  <2>3. FaultOf[e] # "none" \/ e \notin IdsOf(Written)
    BY <2>2 DEF Doomed
  <2>4. FaultOf[e] # "none" => e \notin IdsOf(Written)
    BY DEF RefusalInvariant, OneBrowser, IdsOf
  <2>5. Stored \subseteq IdsOf(Written)
    BY DEF Stored, RowsOfStudent, IdsOf, Written
  <2>. QED  BY <2>3, <2>4, <2>5
<1>. QED  BY <1>1, InitRefusals, StepRefusals, PTL DEF Spec

--------------------------------------------------------------------------------
(* The composition implements EventDelivery.  The phase of an event is a matter    *)
(* of what is created, stored and acknowledged, of its number and of the device's  *)
(* watermark; of the steps only Enqueue, AckRecord and Commit change any of these. *)
(* (A presentation built again gets a second number, so none is allowed here.)     *)

Missed(n) == {e \in created : \/ FaultOf[e] # "none"
                              \/ n[e] <= devices[Device].last_device_sequence}

PhaseRight(n) ==
    /\ acknowledged_events \subseteq Stored /\ Stored \subseteq created
    /\ \A e \in Events :
         /\ e \in acknowledged_events => Phase(e) = "acknowledged"
         /\ e \in Stored \ acknowledged_events => Phase(e) = "stored"
         /\ e \in created \ Stored =>
              Phase(e) = IF e \in Missed(n) THEN "lost" ELSE "queued"
         /\ e \notin created => Phase(e) = "new"

LEMMA CreatedTyped == SyncInvariant => created \subseteq Events
BY DEF SyncInvariant, ClientTyped, ClientTypeOK

PhasesFit ==
    \A n \in [Events -> Nat] :
        SyncInvariant /\ OneBrowser /\ RefusalsRight(n) => PhaseRight(n)

LEMMA PhaseIs ==
  ASSUME Presented = {}
  PROVE  PhasesFit
<1>. SUFFICES ASSUME SyncInvariant, OneBrowser,
                     NEW n \in [Events -> Nat], RefusalsRight(n)
              PROVE  PhaseRight(n)
  BY DEF PhasesFit
<1>1. acknowledged_events \subseteq Stored /\ NothingDropped
  BY DEF SyncInvariant, Acknowledging, AcknowledgedIsStored
<1>2. Stored \subseteq created
  <2>1. Stored \subseteq IdsOf(Written)
    BY DEF Stored, RowsOfStudent, IdsOf, Written
  <2>. QED  BY <2>1 DEF RefusalsRight, RowsRight, Fits, IdsOf
<1>3. \A e \in Stored : e \in created /\ e \in Events
  BY <1>2, CreatedTyped
<1>4. \A e \in created \ Stored : Lost(e) <=> e \in Missed(n)
  <2>. SUFFICES ASSUME NEW e \in created \ Stored
                PROVE  Lost(e) <=> e \in Missed(n)
    OBVIOUS
  <2>1. e \in InStore /\ e \in Events /\ e # None
    BY <1>1, CreatedTyped, ProtocolConstants DEF NothingDropped
  <2>2. pending_events[e].device_sequence = n[e]
    BY <2>1 DEF RefusalsRight, PageRight, StoreRight, Fits, InStore
  <2>3. pending_events[e].status = "failed" => e \in Missed(n)
    BY <2>1 DEF RefusalsRight, PageRight, StoreRight, Doomed, Missed
  <2>. QED  BY <2>2, <2>3 DEF Lost, Missed
<1>5. \A e \in Events : Lost(e) => e \in created \ Stored
  BY DEF Lost
<1>. HIDE DEF Lost
<1>6. ASSUME NEW e \in Events
      PROVE  /\ e \in acknowledged_events => Phase(e) = "acknowledged"
             /\ e \in Stored \ acknowledged_events => Phase(e) = "stored"
             /\ e \in created \ Stored =>
                  Phase(e) = IF e \in Missed(n) THEN "lost" ELSE "queued"
             /\ e \notin created => Phase(e) = "new"
  BY <1>1, <1>2, <1>4, <1>5 DEF Phase
<1>. QED  BY <1>1, <1>2, <1>6 DEF PhaseRight

LEMMA PhaseMoves ==
  ASSUME SyncInvariant, OneBrowser, [Next]_vars
  PROVE  \/ \E e \in Events : Enqueue(e) /\ UNCHANGED serverVars
         \/ AckRecord /\ UNCHANGED serverVars
         \/ Commit(Student) /\ UNCHANGED clientVars
         \/ /\ UNCHANGED <<created, acknowledged_events, learning_events>>
            /\ devices'[Device].last_device_sequence = devices[Device].last_device_sequence
<1>. DEFINE Still ==
       /\ UNCHANGED <<created, acknowledged_events, learning_events>>
       /\ devices'[Device].last_device_sequence = devices[Device].last_device_sequence
<1>1. CASE (PageStep \/ PageEvent) /\ UNCHANGED serverVars
  <2>1. CASE ~AckRecord /\ ~\E e \in Events : Enqueue(e)
    <3>1. UNCHANGED <<created, acknowledged_events>>
      BY <1>1, <2>1
      DEF PageStep, PageEvent, SyncStep, RestoreStep, MarkInFlight, AckDelete,
          MarkRejected, PutRejected, FinishSync, RestoreRecord, Boot, FinishBoot,
          SaveSequence, PullSnapshot, BackoffElapses, AttemptSync, NetworkError, Settle,
          PullFails, Reload, storeVars
    <3>2. UNCHANGED <<learning_events, devices>>
      BY <1>1 DEF serverVars
    <3>. QED  BY <3>1, <3>2
  <2>. QED  BY <1>1, <2>1
<1>2. ASSUME NEW c \in Calls, Send(c) PROVE Still
  BY <1>2 DEF Send, Post, SendRequest, storeVars
<1>3. ASSUME NEW r \in responses, Receive(r) PROVE Still
  BY <1>3 DEF Receive, ReceiveOk, ReceiveError, BodyUnreadable, Settle, TakeResponse, storeVars
<1>4. ASSUME UNCHANGED clientVars PROVE UNCHANGED <<created, acknowledged_events>>
  BY <1>4 DEF clientVars
<1>5. ASSUME UNCHANGED <<learning_events, devices>>, UNCHANGED clientVars PROVE Still
  BY <1>4, <1>5
<1>6. CASE UNCHANGED vars
  BY <1>5, <1>6 DEF vars, serverVars
<1>7. ASSUME NEW r \in requests, HandleRequest(r), UNCHANGED clientVars PROVE Still
  <2>1. UNCHANGED <<learning_events, devices>>
    BY <1>7 DEF HandleRequest, Authenticate, RefuseToken, RefuseBatchSize, RefuseStudent,
                RefuseDevice, BeginBatch, Answer
  <2>. QED  BY <1>5, <1>7, <2>1
<1>8. ASSUME NEW s \in Students, ProcessEvent(s) \/ AbortBatch(s), UNCHANGED clientVars
      PROVE  Still
  <2>1. UNCHANGED <<learning_events, devices>>
    BY <1>8 DEF ProcessEvent, RejectUnreadable, SkipDuplicate, RejectStale,
                RejectDependency, RejectInapplicable, Reject, StoreEvent, Insert, AbortBatch
  <2>. QED  BY <1>5, <1>8, <2>1
<1>9. ASSUME NEW s \in Students, Commit(s) PROVE Commit(Student)
  BY <1>9, OnlyStudent DEF RunBatch
<1>10. ASSUME Network, UNCHANGED clientVars PROVE Still
  BY <1>5, <1>10 DEF Network, LoseRequest, TakeResponse
<1>11. ASSUME RevokeDevice(Student, Device) \/ RequestDeletion(Student), UNCHANGED clientVars
       PROVE  Still
  <2>1. learning_events' = learning_events
    BY <1>11 DEF RevokeDevice, RequestDeletion
  <2>2. devices'[Device].last_device_sequence = devices[Device].last_device_sequence
    BY <1>11, ServerTyped DEF RevokeDevice, RequestDeletion, DeviceRow
  <2>. QED  BY <1>4, <1>11, <2>1, <2>2
<1>. HIDE DEF Still
<1>12. \/ \E e \in Events : Enqueue(e) /\ UNCHANGED serverVars
       \/ AckRecord /\ UNCHANGED serverVars
       \/ Commit(Student) /\ UNCHANGED clientVars
       \/ Still
  BY <1>1, <1>2, <1>3, <1>6, <1>7, <1>8, <1>9, <1>10, <1>11
  DEF Next, ServerStep, RunBatch, Still
<1>. QED  BY <1>12 DEF Still

LEMMA DeliveryStep ==
  ASSUME Presented = {}, RefusalInvariant, [Next]_vars, PhasesFit, PhasesFit'
  PROVE  [Delivery!DeliveryNext]_([e \in Events |-> Phase(e)])
<1>. USE DEF RefusalInvariant
<1>. DEFINE phase == [e \in Events |-> Phase(e)]
<1>1. PICK n \in [Events -> Nat] : RefusalsRight(n)
  OBVIOUS
<1>2. PICK m \in [Events -> Nat] :
         RefusalsRight(m)' /\ \A f \in created : m[f] = n[f]
  BY <1>1, StepNumbers
<1>3. PhaseRight(n)
  BY <1>1 DEF PhasesFit
<1>4. PhaseRight(m)'
  <2>1. SyncInvariant' /\ OneBrowser'
    BY StepSync, StepOneBrowser
  <2>. QED  BY <1>2, <2>1 DEF PhasesFit
<1>5. created \subseteq Events /\ created \subseteq created'
  BY CreatedTyped, CreatedGrows
<1>0. SyncInvariant /\ OneBrowser /\ ServerInvariant
  BY DEF SyncInvariant
<1>. HIDE DEF RefusalInvariant
\* An event keeps its phase when nothing of what decides it changes.
<1>6. ASSUME UNCHANGED <<created, acknowledged_events, learning_events>>,
             devices'[Device].last_device_sequence = devices[Device].last_device_sequence
      PROVE  phase' = phase
  <2>1. Stored' = Stored
    BY <1>6 DEF Stored, RowsOfStudent
  <2>2. Missed(m)' = Missed(n)
    BY <1>2, <1>6 DEF Missed
  <2>3. \A e \in Events : Phase(e)' = Phase(e)
    BY <1>3, <1>4, <1>6, <2>1, <2>2 DEF PhaseRight
  <2>. QED  BY <2>3
<1>7. ASSUME NEW e \in Events, Enqueue(e), UNCHANGED serverVars
      PROVE  Delivery!Create(e)
  <2>1. /\ e \notin created /\ created' = created \cup {e}
        /\ acknowledged_events' = acknowledged_events
    BY <1>7 DEF Enqueue, Buildable
  <2>2. Stored' = Stored /\ devices' = devices
    BY <1>7 DEF serverVars, Stored, RowsOfStudent
  <2>3. \A f \in created : f \in Missed(m)' <=> f \in Missed(n)
    BY <1>2, <2>1, <2>2 DEF Missed
  <2>4. \A f \in Events \ {e} : Phase(f)' = Phase(f)
    BY <1>3, <1>4, <2>1, <2>2, <2>3 DEF PhaseRight
  <2>5. Phase(e) = "new" /\ Phase(e)' \in {"queued", "lost"}
    BY <1>3, <1>4, <2>1, <2>2 DEF PhaseRight
  <2>. QED  BY <2>4, <2>5 DEF Delivery!Create
<1>8. ASSUME AckRecord, UNCHANGED serverVars
      PROVE  phase' = phase \/ \E e \in Events : Delivery!Acknowledge(e)
  <2>0. PICK e : e = sync.recording
    OBVIOUS
  <2>1. /\ e \in Stored /\ e # None /\ created' = created
        /\ acknowledged_events' = acknowledged_events \cup {e}
    BY <1>0, <1>8, <2>0 DEF AckRecord, SyncInvariant, Acknowledging
  <2>2. Stored' = Stored /\ devices' = devices
    BY <1>8 DEF serverVars, Stored, RowsOfStudent
  <2>3. Missed(m)' = Missed(n)
    BY <1>2, <2>1, <2>2 DEF Missed
  <2>4. CASE e \in acknowledged_events
    <3>1. UNCHANGED <<created, acknowledged_events, learning_events>>
      BY <1>8, <2>1, <2>4 DEF serverVars
    <3>. QED  BY <1>6, <2>2, <3>1
  <2>5. CASE e \notin acknowledged_events
    <3>1. e \in Events
      BY <1>3, <1>5, <2>1 DEF PhaseRight
    <3>2. \A f \in Events \ {e} : Phase(f)' = Phase(f)
      BY <1>3, <1>4, <2>1, <2>2, <2>3 DEF PhaseRight
    <3>3. Phase(e) = "stored" /\ Phase(e)' = "acknowledged"
      BY <1>3, <1>4, <2>1, <2>5, <3>1 DEF PhaseRight
    <3>4. Delivery!Acknowledge(e)
      BY <3>1, <3>2, <3>3 DEF Delivery!Acknowledge
    <3>. QED  BY <3>1, <3>4
  <2>. QED  BY <2>4, <2>5
<1>9. ASSUME Commit(Student), UNCHANGED clientVars
      PROVE  \/ phase' = phase
             \/ \E batch \in (SUBSET Delivery!Queued) \ {{}} :
                   \E overtaken \in SUBSET (Delivery!Queued \ batch) :
                      Delivery!Store(batch, overtaken)
  <2>. DEFINE batch == IdsOf(txn[Student].accepted)
              overtaken == {e \in (created \ Stored) \ batch :
                              e \notin Missed(n) /\ e \in Missed(m)'}
  <2>1. UNCHANGED <<created, acknowledged_events>>
    BY <1>9 DEF clientVars
  <2>2. CASE txn[Student].accepted = {}
    <3>1. learning_events' = learning_events /\ devices' = devices
      BY <1>9, <2>2 DEF Commit
    <3>. QED  BY <1>6, <2>1, <3>1
  <2>3. CASE txn[Student].accepted # {}
    <3>1. Stored' = Stored \cup batch
      BY <1>0, <1>9, ServerTyped, CommitVisible
      DEF Stored, Visible, IdsOf, RowsOfStudent
    <3>2. batch # {}
      BY <2>3 DEF IdsOf
    <3>3. ASSUME NEW row \in txn[Student].accepted
          PROVE  /\ row.event_id \in created \ Stored
                 /\ row.event_id \notin Missed(n)
      <4>1. row \in Written /\ row.device_id = Device /\ FaultOf[row.event_id] = "none"
        BY <1>0, <2>3, ServerTyped
        DEF Written, ServerInvariant, Owned, OneBrowser, NoTransaction
      <4>2. /\ row.event_id \in created /\ n[row.event_id] = row.device_sequence
        BY <1>1, <4>1 DEF RefusalsRight, RowsRight, Fits
      <4>3. devices[Device].last_device_sequence < row.device_sequence
        BY <1>0, <2>3, ServerTyped DEF ServerInvariant, Sequenced, OneBrowser, NoTransaction
      <4>4. /\ devices[Device].last_device_sequence \in Nat
            /\ row.device_sequence \in Nat
        BY <1>0, ServerTyped DEF DeviceRow, Transaction, Row
      <4>5. row.event_id \notin Stored
        <5>1. \A old \in learning_events : old.event_id = row.event_id => old = row
          BY <1>0, <4>1 DEF ServerInvariant, IdsUnique, Written
        <5>2. row \notin learning_events
          BY <1>0, <4>1, <4>3, <4>4 DEF ServerInvariant, Sequenced, WatermarkExact
        <5>. QED  BY <5>1, <5>2 DEF Stored, IdsOf, RowsOfStudent
      <4>. QED  BY <4>1, <4>2, <4>3, <4>4, <4>5 DEF Missed
    <3>4. \A e \in batch : e \in created \ Stored /\ e \notin Missed(n)
      BY <3>3 DEF IdsOf
    <3>5. \A e \in Missed(n) : e \in Missed(m)'
      <4>1. /\ devices[Device].last_device_sequence \in Nat
            /\ devices'[Device].last_device_sequence \in Nat
            /\ devices'[Device].last_device_sequence >= devices[Device].last_device_sequence
        BY <1>0, DeviceStep, StepTyped, StepOfServer, BrowserConstants
        DEF SyncInvariant, ServerInvariant, Typed, ServerTypeOK, DeviceRow
      <4>. QED  BY <1>2, <1>5, <2>1, <4>1 DEF Missed
    <3>. HIDE DEF batch
    <3>6. batch \in SUBSET Delivery!Queued
      BY <1>3, <1>5, <3>4 DEF PhaseRight, Delivery!Queued
    <3>7. overtaken \in SUBSET (Delivery!Queued \ batch)
      BY <1>3, <1>5 DEF PhaseRight, Delivery!Queued
    <3>8. \A e \in Events :
            Phase(e)' = CASE e \in batch -> "stored"
                          [] e \in overtaken -> "lost"
                          [] OTHER -> Phase(e)
      <4>. SUFFICES ASSUME NEW e \in Events
                    PROVE  Phase(e)' = CASE e \in batch -> "stored"
                                         [] e \in overtaken -> "lost"
                                         [] OTHER -> Phase(e)
        OBVIOUS
      <4>1. CASE e \in batch
        <5>1. Phase(e)' = "stored"
          BY <1>3, <1>4, <2>1, <3>1, <3>4, <4>1 DEF PhaseRight
        <5>. QED  BY <4>1, <5>1
      <4>2. CASE e \notin batch /\ e \in created \ Stored
        <5>1. e \in created' \ Stored'
          BY <2>1, <3>1, <4>2
        <5>. QED  BY <1>3, <1>4, <3>5, <4>2, <5>1 DEF PhaseRight
      <4>3. CASE e \notin batch /\ e \notin created \ Stored
        <5>1. Phase(e)' = Phase(e)
          BY <1>3, <1>4, <2>1, <3>1, <4>3 DEF PhaseRight
        <5>. QED  BY <4>3, <5>1
      <4>. QED  BY <4>1, <4>2, <4>3
    <3>. HIDE DEF overtaken
    <3>9. Delivery!Store(batch, overtaken)
      BY <3>8 DEF Delivery!Store
    <3>10. batch \in (SUBSET Delivery!Queued) \ {{}}
      BY <3>2, <3>6
    <3>. HIDE DEF phase
    <3>. QED  BY <3>7, <3>9, <3>10
  <2>. QED  BY <2>2, <2>3
<1>. HIDE DEF phase
<1>10. phase' = phase \/ Delivery!DeliveryNext
  <2>1. CASE \E e \in Events : Enqueue(e) /\ UNCHANGED serverVars
    BY <1>7, <2>1 DEF Delivery!DeliveryNext
  <2>2. CASE AckRecord /\ UNCHANGED serverVars
    BY <1>8, <2>2 DEF Delivery!DeliveryNext
  <2>3. CASE Commit(Student) /\ UNCHANGED clientVars
    BY <1>9, <2>3 DEF Delivery!DeliveryNext
  <2>. QED  BY <1>0, <1>6, <2>1, <2>2, <2>3, PhaseMoves
<1>. QED  BY <1>10 DEF phase

\* For every event the browser, the network and the server do what EventDelivery
\* allows: it is stored at most once, acknowledged only then, and once lost stays lost.
THEOREM DeliveryImplemented ==
  ASSUME Presented = {}
  PROVE  Spec => ImplementsDelivery
<1>1. Init => Delivery!DeliveryInit
  <2>. SUFFICES ASSUME Init, NEW e \in Events PROVE Phase(e) = "new"
    BY DEF Delivery!DeliveryInit
  <2>1. created = {} /\ acknowledged_events = {} /\ learning_events = {}
    BY DEF Init, ClientInit, ServerInit
  <2>2. Stored = {} /\ ~Lost(e)
    BY <2>1 DEF Stored, IdsOf, RowsOfStudent, Lost
  <2>. QED  BY <2>1, <2>2 DEF Phase
<1>2. RefusalInvariant /\ [Next]_vars /\ PhasesFit /\ PhasesFit' =>
        [Delivery!DeliveryNext]_([e \in Events |-> Phase(e)])
  BY DeliveryStep
<1>3. PhasesFit
  BY PhaseIs
<1>. QED
  BY <1>1, <1>2, <1>3, InitRefusals, StepRefusals, PTL
  DEF Spec, ImplementsDelivery, Delivery!DeliverySpec

================================================================================
