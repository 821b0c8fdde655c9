----------------------------- MODULE OfflineClient -----------------------------
(***************************************************************************)
(* The browser half of offline synchronisation: PendingEventQueue and      *)
(* OfflineSyncClient of web/offline-core.js, and the parts of web/app.js   *)
(* that create events, call sync(), and restart after a page load.         *)
(*                                                                         *)
(* Every IndexedDB put or delete is a step of its own, because the code    *)
(* awaits it: a reload, or the restore() of another attemptSync, can fall  *)
(* between any two of them.  The stores survive a reload, the page's       *)
(* variables do not.                                                       *)
(***************************************************************************)
EXTENDS SyncProtocol

CONSTANTS
    DependsOn,   \* depends_on_event_ids of each event
    FaultOf,     \* what the server will find wrong with each event, if anything
    Presented,   \* evt_presented_*: the id is derived, and may be built again
    MaxSequence  \* bound on deviceSeq (the app has none)

ASSUME ClientConstants ==
    /\ DependsOn \in [Events -> SUBSET Events]
    /\ FaultOf \in [Events -> Faults]
    /\ Presented \subseteq Events
    /\ MaxSequence \in Nat

VARIABLES
    (* IndexedDB *)
    pending_events,       \* store "pending_events"
    acknowledged_events,  \* store "acknowledged_events"
    saved_sequence,       \* last_device_sequence in store "sync_state"
    (* page memory *)
    page,                 \* start of the page: "reading", "restoring", then "up"
    deviceSeq,            \* app.js deviceSeq
    unsaved,              \* an enqueueEvent has not yet saved sync_state
    presented,            \* presentedInterventionSources
    sync,                 \* the run of _syncOnce in progress
    restoring,            \* records read by a restore() and not yet put back
    pulling,              \* an attemptSync is in pullSnapshot()
    (* history *)
    created               \* events ever enqueued

storeVars == <<pending_events, acknowledged_events, saved_sequence>>
clientVars == <<pending_events, acknowledged_events, saved_sequence, page, deviceSeq,
                unsaved, presented, sync, restoring, pulling, created>>

(* attempts is kept as 0 or 1: RETRY_SCHEDULE_MS is 0 for no failure and a real
   delay for one or more.  due: next_retry_at <= now.  A failed record is never
   retried: its attempts and due are cleared, though the code leaves them. *)
PendingRecord == [status: {"absent", "pending", "in_flight", "failed"},
                  device_sequence: Nat, attempts: 0..1, due: BOOLEAN]

Absent == [status |-> "absent", device_sequence |-> 0, attempts |-> 0, due |-> FALSE]

\* A record as an earlier all() read it, to be put back with another status.
Copy == [event_id: Events, device_sequence: Nat \ {0}, attempts: 0..1]

\* A record markRejected has read, to be put back as rejected.
Marking == [event_id: Events, device_sequence: Nat \ {0}, retryable: BOOLEAN]

SyncRun == [phase: {"idle", "dequeuing", "waiting", "settling"},
            call: Calls \cup {None}, batch: SUBSET Copy, unmarked: SUBSET Copy,
            acks: SUBSET Events, recording: Events \cup {None},
            rejects: SUBSET Rejection, marking: SUBSET Marking, synced: BOOLEAN]

Idle == [phase |-> "idle", call |-> None, batch |-> {}, unmarked |-> {}, acks |-> {},
         recording |-> None, rejects |-> {}, marking |-> {}, synced |-> FALSE]

ClientTypeOK ==
    /\ pending_events \in [Events -> PendingRecord]
    /\ acknowledged_events \in SUBSET Events
    /\ saved_sequence \in Nat
    /\ page \in {"reading", "restoring", "up"}
    /\ deviceSeq \in Nat
    /\ unsaved \in BOOLEAN
    /\ presented \in SUBSET Presented
    /\ sync \in SyncRun
    /\ restoring \in SUBSET Copy
    /\ pulling \in BOOLEAN
    /\ created \in SUBSET Events

\* createProfile has registered the device and saved an empty sync_state.
ClientInit ==
    /\ pending_events = [e \in Events |-> Absent]
    /\ acknowledged_events = {}
    /\ saved_sequence = 0
    /\ page = "up"
    /\ deviceSeq = 0
    /\ unsaved = FALSE
    /\ presented = {}
    /\ sync = Idle
    /\ restoring = {}
    /\ pulling = FALSE
    /\ created = {}

--------------------------------------------------------------------------------
CopyOf(e) == [event_id |-> e, device_sequence |-> pending_events[e].device_sequence,
              attempts |-> pending_events[e].attempts]

WithStatus(status) == {CopyOf(e) : e \in {f \in Events : pending_events[f].status = status}}

InStore == {e \in Events : pending_events[e].status # "absent"}

Ready == {c \in WithStatus("pending") : pending_events[c.event_id].due}

\* store.put of a record read earlier, with a new status.
Put(c, status, due) ==
    pending_events' = [pending_events EXCEPT ![c.event_id] =
        [status |-> status, device_sequence |-> c.device_sequence,
         attempts |-> c.attempts, due |-> due]]

EnvelopeOf(c) == [event_id |-> c.event_id, device_sequence |-> c.device_sequence,
                  depends_on_event_ids |-> DependsOn[c.event_id],
                  fault |-> FaultOf[c.event_id]]

--------------------------------------------------------------------------------
(* app.js: creating an event *)

(* Event ids are fresh, except those of presentations: they are derived from the
   answer and the lesson, and only presentedInterventionSources, lost on reload,
   keeps them from being built again. *)
Buildable(e) == e \notin created \/ e \in Presented \ presented

\* enqueueEvent up to the put of the record, which replaces what the store has
\* under that id.
Enqueue(e) ==
    /\ page = "up"
    /\ deviceSeq < MaxSequence
    /\ Buildable(e)
    /\ DependsOn[e] \subseteq created
    /\ deviceSeq' = deviceSeq + 1
    /\ pending_events' = [pending_events EXCEPT ![e] =
         [status |-> "pending", device_sequence |-> deviceSeq + 1,
          attempts |-> 0, due |-> TRUE]]
    /\ created' = created \cup {e}
    /\ unsaved' = TRUE
    /\ presented' = presented \cup ({e} \cap Presented)
    /\ UNCHANGED <<acknowledged_events, saved_sequence, page, sync, restoring, pulling>>

\* The second put of enqueueEvent writes the deviceSeq of the moment it starts.
SaveSequence ==
    /\ unsaved
    /\ saved_sequence' = deviceSeq
    /\ unsaved' = FALSE
    /\ UNCHANGED <<pending_events, acknowledged_events, page, deviceSeq, presented,
                   sync, restoring, pulling, created>>

--------------------------------------------------------------------------------
(* OfflineSyncClient.sync and _syncOnce *)

(* What dequeue() takes: the first MaxBatch records that are due, by
   device_sequence. *)
FirstReady(batch) ==
    /\ batch # {} /\ batch \subseteq Ready
    /\ batch = Ready \/ Cardinality(batch) = MaxBatch
    /\ Cardinality(batch) <= MaxBatch
    /\ \A in \in batch, out \in Ready \ batch : in.device_sequence <= out.device_sequence

(* attemptSync: after an answer, at the end of a session, on "online" and at page
   load.  sync() runs one _syncOnce at a time: a call made while one runs waits
   for its end.  With nothing due it returns "empty". *)
AttemptSync ==
    /\ page # "reading"
    /\ sync = Idle
    /\ \/ Ready = {} /\ UNCHANGED sync
       \/ \E batch \in SUBSET Ready :
            /\ FirstReady(batch)
            /\ sync' = [Idle EXCEPT !.phase = "dequeuing", !.batch = batch,
                                    !.unmarked = batch]
    /\ UNCHANGED <<storeVars, page, deviceSeq, unsaved, presented, restoring,
                   pulling, created>>

MarkInFlight(c) ==
    /\ sync.phase = "dequeuing"
    /\ c \in sync.unmarked
    /\ \A d \in sync.unmarked : c.device_sequence <= d.device_sequence
    /\ Put(c, "in_flight", TRUE)
    /\ sync' = [sync EXCEPT !.unmarked = @ \ {c}]
    /\ UNCHANGED <<acknowledged_events, saved_sequence, page, deviceSeq, unsaved,
                   presented, restoring, pulling, created>>

\* The POST of the batch; the request itself is the network's.
Post(c) ==
    /\ sync.phase = "dequeuing"
    /\ sync.unmarked = {}
    /\ sync' = [sync EXCEPT !.phase = "waiting", !.call = c]
    /\ UNCHANGED <<storeVars, page, deviceSeq, unsaved, presented, restoring,
                   pulling, created>>

RejectAll(retryable) ==
    {[event_id |-> c.event_id, retryable |-> retryable] : c \in sync.batch}

Settle(acks, rejects, synced) ==
    /\ sync' = [Idle EXCEPT !.phase = "settling", !.acks = acks, !.rejects = rejects,
                            !.synced = synced]
    /\ UNCHANGED <<storeVars, page, deviceSeq, unsaved, presented, restoring,
                   pulling, created>>

\* The transport throws: no connection, or it broke while waiting.
NetworkError ==
    /\ sync.phase = "waiting"
    /\ Settle({}, RejectAll(TRUE), FALSE)

\* Mutant: a batch answered with 200 is acknowledged as a whole.
ReceiveOkAsAll(r) ==
    /\ sync.phase = "waiting" /\ r.call = sync.call
    /\ r.status = "ok"
    /\ Settle({c.event_id : c \in sync.batch}, {}, TRUE)

ReceiveOk(r) ==
    /\ sync.phase = "waiting" /\ r.call = sync.call
    /\ r.status = "ok"
    /\ Settle(r.accepted \cup r.duplicates, r.rejected, TRUE)

\* Mutant: an HTTP error is final.
ReceiveErrorAsFinal(r) ==
    /\ sync.phase = "waiting" /\ r.call = sync.call
    /\ r.status # "ok"
    /\ Settle({}, RejectAll(FALSE), FALSE)

ReceiveError(r) ==
    /\ sync.phase = "waiting" /\ r.call = sync.call
    /\ r.status # "ok"
    /\ Settle({}, RejectAll(r.status # "http_403_unregistered"), FALSE)

\* response.json() throws: attemptSync catches and calls restore().
BodyUnreadable(r) ==
    /\ sync.phase = "waiting" /\ r.call = sync.call
    /\ r.status = "ok"
    /\ restoring = {}
    /\ sync' = Idle
    /\ restoring' = WithStatus("in_flight")
    /\ UNCHANGED <<storeVars, page, deviceSeq, unsaved, presented, pulling, created>>

\* markAcknowledged deletes the record, then puts the acknowledgement.
AckDelete(e) ==
    /\ sync.phase = "settling"
    /\ sync.recording = None
    /\ e \in sync.acks
    /\ pending_events' = [pending_events EXCEPT ![e] = Absent]
    /\ sync' = [sync EXCEPT !.acks = @ \ {e}, !.recording = e]
    /\ UNCHANGED <<acknowledged_events, saved_sequence, page, deviceSeq, unsaved,
                   presented, restoring, pulling, created>>

AckRecord ==
    /\ sync.recording # None
    /\ acknowledged_events' = acknowledged_events \cup {sync.recording}
    /\ sync' = [sync EXCEPT !.recording = None]
    /\ UNCHANGED <<pending_events, saved_sequence, page, deviceSeq, unsaved, presented,
                   restoring, pulling, created>>

(* markRejected, once every acknowledgement is in, reads the record: a rejection
   of "" or of an event no longer in the store changes nothing. *)
MarkRejected(x) ==
    /\ sync.phase = "settling"
    /\ sync.acks = {} /\ sync.recording = None /\ sync.marking = {}
    /\ x \in sync.rejects
    /\ sync' = [sync EXCEPT
         !.rejects = @ \ {x},
         !.marking = {[event_id |-> e, device_sequence |-> pending_events[e].device_sequence,
                       retryable |-> x.retryable] : e \in InStore \cap {x.event_id}}]
    /\ UNCHANGED <<storeVars, page, deviceSeq, unsaved, presented, restoring,
                   pulling, created>>

\* Mutants: the record is dropped; it stays in flight.
RejectedDropped(m) ==
    IF m.retryable THEN [status |-> "pending", device_sequence |-> m.device_sequence,
                         attempts |-> 1, due |-> FALSE]
    ELSE Absent
RejectedInFlight(m) ==
    [status |-> IF m.retryable THEN "in_flight" ELSE "failed",
     device_sequence |-> m.device_sequence,
     attempts |-> IF m.retryable THEN 1 ELSE 0, due |-> FALSE]

\* What markRejected makes of the record it has read.
Rejected(m) ==
    [status |-> IF m.retryable THEN "pending" ELSE "failed",
     device_sequence |-> m.device_sequence,
     attempts |-> IF m.retryable THEN 1 ELSE 0, due |-> FALSE]

\* It puts the record, whatever has become of it since it was read.
PutRejected(m) ==
    /\ m \in sync.marking
    /\ pending_events' = [pending_events EXCEPT ![m.event_id] = Rejected(m)]
    /\ sync' = [sync EXCEPT !.marking = {}]
    /\ UNCHANGED <<acknowledged_events, saved_sequence, page, deviceSeq, unsaved,
                   presented, restoring, pulling, created>>

\* _syncOnce returns; attemptSync goes on to pull the snapshot if it synced.
FinishSync ==
    /\ sync.phase = "settling"
    /\ sync.acks = {} /\ sync.recording = None
    /\ sync.rejects = {} /\ sync.marking = {}
    /\ sync' = Idle
    /\ pulling' = (pulling \/ sync.synced)
    /\ UNCHANGED <<storeVars, page, deviceSeq, unsaved, presented, restoring, created>>

--------------------------------------------------------------------------------
(* restore(), the snapshot, timers and page loads *)

\* pullSnapshot returns.
PullSnapshot ==
    /\ pulling
    /\ pulling' = FALSE
    /\ UNCHANGED <<storeVars, page, deviceSeq, unsaved, presented, sync,
                   restoring, created>>

\* pullSnapshot throws: attemptSync catches and calls restore(), while the next
\* sync() may already be under way.  (Bound: one restore() at a time.)
PullFails ==
    /\ pulling
    /\ restoring = {}
    /\ pulling' = FALSE
    /\ restoring' = WithStatus("in_flight")
    /\ UNCHANGED <<storeVars, page, deviceSeq, unsaved, presented, sync, created>>

\* One put of restore(): the record as all() read it, pending again.
RestoreRecord(c) ==
    /\ c \in restoring
    /\ Put(c, "pending", c.attempts = 0)
    /\ restoring' = restoring \ {c}
    /\ UNCHANGED <<acknowledged_events, saved_sequence, page, deviceSeq, unsaved,
                   presented, sync, pulling, created>>

BackoffElapses(e) ==
    /\ pending_events[e].status = "pending"
    /\ ~pending_events[e].due
    /\ pending_events' = [pending_events EXCEPT ![e].due = TRUE]
    /\ UNCHANGED <<acknowledged_events, saved_sequence, page, deviceSeq, unsaved,
                   presented, sync, restoring, pulling, created>>

\* The page is closed, reloaded or killed, and opened again.
Reload ==
    /\ page' = "reading"
    /\ deviceSeq' = 0
    /\ unsaved' = FALSE
    /\ presented' = {}
    /\ sync' = Idle
    /\ restoring' = {}
    /\ pulling' = FALSE
    /\ UNCHANGED <<storeVars, created>>

\* init() loads sync_state and starts restore().
Boot ==
    /\ page = "reading"
    /\ page' = "restoring"
    /\ deviceSeq' = saved_sequence
    /\ restoring' = WithStatus("in_flight")
    /\ UNCHANGED <<storeVars, unsaved, presented, sync, pulling, created>>

\* The rest of init(); the attemptSync at its end may find no connection.
FinishBoot ==
    /\ page = "restoring"
    /\ restoring = {}
    /\ page' = "up"
    /\ UNCHANGED <<storeVars, deviceSeq, unsaved, presented, sync, restoring, pulling, created>>

--------------------------------------------------------------------------------
\* The chain of awaits of one _syncOnce.
SyncStep ==
    \/ \E c \in sync.unmarked : MarkInFlight(c)
    \/ \E e \in sync.acks : AckDelete(e)
    \/ AckRecord
    \/ \E x \in sync.rejects : MarkRejected(x)
    \/ \E m \in sync.marking : PutRejected(m)
    \/ FinishSync

RestoreStep ==
    \/ \E c \in restoring : RestoreRecord(c)
    \/ Boot
    \/ FinishBoot

\* What the page does by itself.
PageStep == SyncStep \/ RestoreStep \/ SaveSequence \/ PullSnapshot

\* What the learner, the clock and the network do to it.
PageEvent ==
    \/ \E e \in Events : Enqueue(e) \/ BackoffElapses(e)
    \/ AttemptSync
    \/ NetworkError
    \/ PullFails
    \/ Reload
================================================================================
