------------------------------ MODULE SyncServer ------------------------------
(***************************************************************************)
(* The server half of the offline synchronisation protocol:                *)
(* app/sync/service.py SyncService.process_batch and the router above it.  *)
(*                                                                         *)
(* A batch is processed under the student's advisory lock, in one database *)
(* transaction.  The transaction is modelled one event at a time, so that  *)
(* a request of another student, an administrative change or a crash can   *)
(* fall between any two events; nothing it did is visible before Commit.   *)
(*                                                                         *)
(* What an accepted event does to sessions, attempts and mastery is left   *)
(* to the modules about the projection: here an event is applicable or not.*)
(***************************************************************************)
EXTENDS SyncProtocol

\* A row of learning_events; the dependencies are kept only to speak of them.
Row == [event_id: Events, student_id: Students, device_id: Devices,
        device_sequence: Nat \ {0}, depends_on_event_ids: SUBSET Events]

Request == [call: Calls, student_id: Students, device_id: Devices,
            events: SUBSET Envelope, authenticated: BOOLEAN]

\* The open transaction of the holder of a student's lock; call = None: no holder.
Transaction == [call: Calls \cup {None}, device_id: Devices \cup {None},
                todo: SUBSET Envelope, accepted: SUBSET Row,
                duplicates: SUBSET Events, rejected: SUBSET Rejection,
                accepted_max_sequence: Nat]

NoTransaction == [call |-> None, device_id |-> None, todo |-> {}, accepted |-> {},
                  duplicates |-> {}, rejected |-> {}, accepted_max_sequence |-> 0]

VARIABLES
    students,         \* students.status
    devices,          \* devices rows: owner, status, last_device_sequence
    learning_events,  \* committed rows
    requests,         \* requests under way or waiting for the student's lock
    txn,              \* per student, the transaction of the lock's holder
    responses         \* answers on their way back

serverVars == <<students, devices, learning_events, requests, txn, responses>>

DeviceRow == [student_id: Students \cup {None},
              status: {"unregistered", "active", "revoked"},
              last_device_sequence: Nat]

ServerTypeOK ==
    /\ students \in [Students -> {"active", "deletion_pending"}]
    /\ devices \in [Devices -> DeviceRow]
    /\ learning_events \in SUBSET Row
    /\ requests \in SUBSET Request
    /\ txn \in [Students -> Transaction]
    /\ responses \in SUBSET Response

Unregistered == [student_id |-> None, status |-> "unregistered",
                 last_device_sequence |-> 0]

NewDevice(s) == [student_id |-> s, status |-> "active", last_device_sequence |-> 0]

ServerInit ==
    /\ students = [s \in Students |-> "active"]
    /\ devices \in [Devices -> {Unregistered} \cup {NewDevice(s) : s \in Students}]
    /\ learning_events = {}
    /\ requests = {}
    /\ txn = [s \in Students |-> NoTransaction]
    /\ responses = {}

--------------------------------------------------------------------------------
IdsOf(rows) == {row.event_id : row \in rows}

RowsOfStudent(s) == {row \in learning_events : row.student_id = s}

VisibleAnywhere(s) == IdsOf(learning_events) \cup IdsOf(txn[s].accepted)

\* Event ids learning_event_exists finds for a student inside its transaction.
Visible(s) == IdsOf(RowsOfStudent(s)) \cup IdsOf(txn[s].accepted)

\* learning_event_owner: a committed row of another student has this id.
OwnedElsewhere(s, id) == \E row \in learning_events : row.event_id = id /\ row.student_id # s

\* Mutant: a SELECT before the INSERT, and no unique key.
NeverHeld(s, id) == FALSE

\* Another student's open transaction inserted this id: the INSERT waits for it.
HeldElsewhere(s, id) == \E o \in Students \ {s} : id \in IdsOf(txn[o].accepted)

LockFree(s) == txn[s].call = None

CallInUse(c) == \/ \E r \in requests : r.call = c
                \/ \E s \in Students : txn[s].call = c
                \/ \E r \in responses : r.call = c

Failure(r, status) ==
    [call |-> r.call, student_id |-> r.student_id, status |-> status,
     accepted |-> {}, duplicates |-> {}, rejected |-> {}]

\* An answer with HTTP 200 that names no event: event_id "" and not retryable.
Refusal(r) ==
    [call |-> r.call, student_id |-> r.student_id, status |-> "ok",
     accepted |-> {}, duplicates |-> {},
     rejected |-> {[event_id |-> None, retryable |-> FALSE]}]

BatchAnswer(s) ==
    [call |-> txn[s].call, student_id |-> s, status |-> "ok",
     accepted |-> IdsOf(txn[s].accepted), duplicates |-> txn[s].duplicates,
     rejected |-> txn[s].rejected]

BatchFailure(s) == Failure([call |-> txn[s].call, student_id |-> s], "http_500")

Answer(r, response) ==
    /\ requests' = requests \ {r}
    /\ responses' = responses \cup {response}
    /\ UNCHANGED <<students, devices, learning_events, txn>>

--------------------------------------------------------------------------------
(* The network as the server sees it. *)

\* A POST /v1/sync/events leaves a client.
SendRequest(c, s, d, events) ==
    /\ ~CallInUse(c)
    /\ requests' = requests \cup {[call |-> c, student_id |-> s, device_id |-> d,
                                   events |-> events, authenticated |-> FALSE]}
    /\ UNCHANGED <<students, devices, learning_events, txn, responses>>

\* A request that has not reached the server is lost.
LoseRequest(r) ==
    /\ r \in requests /\ ~r.authenticated
    /\ requests' = requests \ {r}
    /\ UNCHANGED <<students, devices, learning_events, txn, responses>>

\* A response reaches a client, or is lost.
TakeResponse(r) ==
    /\ r \in responses
    /\ responses' = responses \ {r}
    /\ UNCHANGED <<students, devices, learning_events, requests, txn>>

--------------------------------------------------------------------------------
(* Router: the bearer token.  request_deletion revokes the student's tokens. *)

Authenticate(r) ==
    /\ r \in requests /\ ~r.authenticated
    /\ students[r.student_id] = "active"
    /\ requests' = (requests \ {r}) \cup {[r EXCEPT !.authenticated = TRUE]}
    /\ UNCHANGED <<students, devices, learning_events, txn, responses>>

RefuseToken(r) ==
    /\ r \in requests /\ ~r.authenticated
    /\ students[r.student_id] # "active"
    /\ Answer(r, Failure(r, "http_401"))

(* process_batch, before and just after it takes the student's lock. *)

RefuseBatchSize(r) ==
    /\ r \in requests /\ r.authenticated
    /\ Cardinality(r.events) > MaxBatch
    /\ Answer(r, Refusal(r))

ReadyForLock(r) ==
    /\ r \in requests /\ r.authenticated
    /\ Cardinality(r.events) <= MaxBatch
    /\ LockFree(r.student_id)

RefuseStudent(r) ==
    /\ ReadyForLock(r)
    /\ students[r.student_id] # "active"
    /\ Answer(r, Refusal(r))

RefuseDevice(r) ==
    /\ ReadyForLock(r)
    /\ students[r.student_id] = "active"
    /\ \/ /\ devices[r.device_id].student_id # r.student_id
          /\ Answer(r, Failure(r, "http_403_unregistered"))
       \/ /\ devices[r.device_id].student_id = r.student_id
          /\ devices[r.device_id].status # "active"
          /\ Answer(r, Failure(r, "http_403_revoked"))

BeginBatch(r) ==
    /\ ReadyForLock(r)
    /\ students[r.student_id] = "active"
    /\ devices[r.device_id].student_id = r.student_id
    /\ devices[r.device_id].status = "active"
    /\ requests' = requests \ {r}
    /\ txn' = [txn EXCEPT ![r.student_id] =
                 [NoTransaction EXCEPT !.call = r.call, !.device_id = r.device_id,
                                       !.todo = r.events]]
    /\ UNCHANGED <<students, devices, learning_events, responses>>

--------------------------------------------------------------------------------
(* _process_batch_locked: one event of the batch, in device_sequence order
   (events with equal sequences in an arbitrary order, by id in the code). *)

IsNext(s, e) ==
    /\ e \in txn[s].todo
    /\ \A f \in txn[s].todo : e.device_sequence <= f.device_sequence

Readable(e) == e.fault \notin {"integrity", "too_large"}

\* Mutants: the batch's own watermark is left out; the stored one is.
StaleInStore(s, e) ==
    e.device_sequence <= devices[txn[s].device_id].last_device_sequence
StaleInBatch(s, e) == e.device_sequence <= txn[s].accepted_max_sequence

\* At or below what this batch or an earlier one accepted from the device.
IsStale(s, e) ==
    \/ e.device_sequence <= txn[s].accepted_max_sequence
    \/ e.device_sequence <= devices[txn[s].device_id].last_device_sequence

\* Mutant: the row of any student will do.
MissingAnywhere(s, e) == e.depends_on_event_ids \ VisibleAnywhere(s)

MissingDependencies(s, e) == e.depends_on_event_ids \ Visible(s)

Reject(s, e, retryable) ==
    /\ txn' = [txn EXCEPT ![s].todo = @ \ {e},
                          ![s].rejected = @ \cup {[event_id |-> e.event_id,
                                                   retryable |-> retryable]}]
    /\ UNCHANGED <<students, devices, learning_events, requests, responses>>

RejectUnreadable(s, e) ==
    /\ IsNext(s, e)
    /\ ~Readable(e)
    /\ Reject(s, e, FALSE)

SkipDuplicate(s, e) ==
    /\ IsNext(s, e)
    /\ Readable(e)
    /\ e.event_id \in Visible(s)
    /\ txn' = [txn EXCEPT ![s].todo = @ \ {e}, ![s].duplicates = @ \cup {e.event_id}]
    /\ UNCHANGED <<students, devices, learning_events, requests, responses>>

\* What gets past the checks for integrity, size and duplicates.
IsNew(s, e) == IsNext(s, e) /\ Readable(e) /\ e.event_id \notin Visible(s)

\* Mutant: the sequence is looked at before the id.
RejectStaleFirst(s, e) ==
    /\ IsNext(s, e) /\ Readable(e)
    /\ IsStale(s, e)
    /\ Reject(s, e, FALSE)

RejectStale(s, e) ==
    /\ IsNew(s, e)
    /\ IsStale(s, e)
    /\ Reject(s, e, FALSE)

\* The first missing dependency decides: unknown is retryable, another
\* student's is not.
RejectDependency(s, e) ==
    /\ IsNew(s, e)
    /\ ~IsStale(s, e)
    /\ \E dep \in MissingDependencies(s, e) : Reject(s, e, ~OwnedElsewhere(s, dep))

Applies(s, e) ==
    /\ IsNew(s, e)
    /\ ~IsStale(s, e)
    /\ MissingDependencies(s, e) = {}

\* EventValidationError, or a UniqueViolation on an id of another student:
\* the savepoint is rolled back.
RejectInapplicable(s, e) ==
    /\ Applies(s, e)
    /\ e.fault = "inapplicable" \/ OwnedElsewhere(s, e.event_id)
    /\ Reject(s, e, FALSE)

\* The INSERT into learning_events.
Insert(s, e) ==
    /\ txn' = [txn EXCEPT
         ![s].todo = @ \ {e},
         ![s].accepted = @ \cup {[event_id |-> e.event_id, student_id |-> s,
                                  device_id |-> txn[s].device_id,
                                  device_sequence |-> e.device_sequence,
                                  depends_on_event_ids |-> e.depends_on_event_ids]},
         ![s].accepted_max_sequence = e.device_sequence]
    /\ UNCHANGED <<students, devices, learning_events, requests, responses>>

StoreEvent(s, e) ==
    /\ Applies(s, e)
    /\ e.fault = "none"
    /\ ~OwnedElsewhere(s, e.event_id)
    /\ ~HeldElsewhere(s, e.event_id)
    /\ Insert(s, e)

\* _advance_device_sequence
Advanced(device, sequence) == [devices EXCEPT ![device].last_device_sequence = sequence]

\* The rows and the device's new last_device_sequence become visible together.
\* Releasing the lock, or the work on the response that follows it, may still
\* fail: then the client is told 500 of a batch that is stored.
Commit(s) ==
    /\ ~LockFree(s)
    /\ txn[s].todo = {}
    /\ learning_events' = learning_events \cup txn[s].accepted
    /\ devices' = IF txn[s].accepted = {} THEN devices
                  ELSE Advanced(txn[s].device_id, txn[s].accepted_max_sequence)
    /\ \E answer \in {BatchAnswer(s), BatchFailure(s)} : responses' = responses \cup {answer}
    /\ txn' = [txn EXCEPT ![s] = NoTransaction]
    /\ UNCHANGED <<students, requests>>

\* Mutant: the answer was built before the rollback.
AbortBatchAnswered(s) ==
    /\ ~LockFree(s)
    /\ responses' = responses \cup {BatchAnswer(s)}
    /\ txn' = [txn EXCEPT ![s] = NoTransaction]
    /\ UNCHANGED <<students, devices, learning_events, requests>>

\* An exception no handler knows, a database error, a deadlock victim or the
\* death of the process: the whole batch is rolled back, the lock released.
AbortBatch(s) ==
    /\ ~LockFree(s)
    /\ responses' = responses \cup {BatchFailure(s)}
    /\ txn' = [txn EXCEPT ![s] = NoTransaction]
    /\ UNCHANGED <<students, devices, learning_events, requests>>

ProcessEvent(s) ==
    \E e \in txn[s].todo :
        \/ RejectUnreadable(s, e)
        \/ SkipDuplicate(s, e)
        \/ RejectStale(s, e)
        \/ RejectDependency(s, e)
        \/ RejectInapplicable(s, e)
        \/ StoreEvent(s, e)

--------------------------------------------------------------------------------
(* Devices and the start of a deletion, each under the student's lock. *)

RegisterDevice(s, d) ==
    /\ LockFree(s)
    /\ students[s] = "active"
    /\ devices[d] = Unregistered
    /\ devices' = [devices EXCEPT ![d] = NewDevice(s)]
    /\ UNCHANGED <<students, learning_events, requests, txn, responses>>

RevokeDevice(s, d) ==
    /\ LockFree(s)
    /\ students[s] = "active"
    /\ devices[d].student_id = s
    /\ devices' = [devices EXCEPT ![d].status = "revoked"]
    /\ UNCHANGED <<students, learning_events, requests, txn, responses>>

RequestDeletion(s) ==
    /\ LockFree(s)
    /\ students[s] = "active"
    /\ students' = [students EXCEPT ![s] = "deletion_pending"]
    /\ UNCHANGED <<devices, learning_events, requests, txn, responses>>

Administration ==
    \E s \in Students : \/ \E d \in Devices : RegisterDevice(s, d) \/ RevokeDevice(s, d)
                        \/ RequestDeletion(s)

--------------------------------------------------------------------------------
HandleRequest(r) == \/ Authenticate(r) \/ RefuseToken(r)
                    \/ RefuseBatchSize(r) \/ RefuseStudent(r) \/ RefuseDevice(r)
                    \/ BeginBatch(r)

RunBatch(s) == ProcessEvent(s) \/ Commit(s) \/ AbortBatch(s)

Network == \/ \E r \in requests : LoseRequest(r)
           \/ \E r \in responses : TakeResponse(r)

ServerStep == \/ \E r \in requests : HandleRequest(r)
              \/ \E s \in Students : RunBatch(s)

ServerNext ==
    \/ \E c \in Calls, s \in Students, d \in Devices, events \in SUBSET Envelope :
          SendRequest(c, s, d, events)
    \/ ServerStep
    \/ Network
    \/ Administration

ServerSpec == ServerInit /\ [][ServerNext]_serverVars

--------------------------------------------------------------------------------
(* Properties *)

\* The primary key of learning_events: whatever was retried, sent twice or sent
\* by two students at once, an event id is stored in one row only.
StoredOnce ==
    \A a, b \in learning_events : a.event_id = b.event_id => a = b

\* Per device the stored sequences are distinct and none is above the watermark
\* devices.last_device_sequence; a watermark above 0 is a stored sequence.
\* (_sequence_increases and _advance_device_sequence agree.)
WatermarkExact ==
    /\ \A a, b \in learning_events :
         a.device_id = b.device_id /\ a.device_sequence = b.device_sequence => a = b
    /\ \A row \in learning_events :
         row.device_sequence <= devices[row.device_id].last_device_sequence
    /\ \A d \in Devices : devices[d].last_device_sequence > 0 =>
         \E row \in learning_events :
            row.device_id = d /\ row.device_sequence = devices[d].last_device_sequence

\* "It is not projected early": every dependency of a stored event is stored,
\* and belongs to the same student.
DependenciesStored ==
    \A row \in learning_events :
        row.depends_on_event_ids \subseteq IdsOf(RowsOfStudent(row.student_id))

\* What an answer acknowledges is committed under that student: a client may
\* delete its only copy.
AnswersHonest ==
    \A r \in responses :
        r.accepted \cup r.duplicates \subseteq IdsOf(RowsOfStudent(r.student_id))

\* Rows are never changed or removed here, and a device's new rows are above
\* everything stored for it: history is not rewritten by a late or replayed batch.
HistoryOnlyGrows ==
    [][/\ learning_events \subseteq learning_events'
       /\ \A new \in learning_events' \ learning_events, old \in learning_events :
             new.device_id = old.device_id => old.device_sequence < new.device_sequence
      ]_serverVars
================================================================================
