----------------------------- MODULE SyncProtocol -----------------------------
(***************************************************************************)
(* What the two halves of offline synchronisation exchange:                *)
(* app/sync/protocol.py and the envelopes web/offline-core.js builds.      *)
(***************************************************************************)
EXTENDS Integers, FiniteSets

CONSTANTS
    Students,  \* student ids
    Devices,   \* device ids
    Events,    \* learning event ids (global)
    Calls,     \* names for the HTTP calls in progress at one time
    None,      \* no student, no call, and the empty event id ""
    MaxBatch   \* MAX_EVENTS_PER_BATCH, and what dequeue() takes at most

ASSUME ProtocolConstants ==
    /\ None \notin Students \cup Devices \cup Events \cup Calls
    /\ MaxBatch \in Nat \ {0}

(* What is wrong with an event, if anything: its hash does not match, its
   payload is above MAX_PAYLOAD_BYTES, or _apply_event refuses it (unknown
   event type, unknown question version, an EventValidationError). *)
Faults == {"none", "integrity", "too_large", "inapplicable"}

Envelope == [event_id: Events, device_sequence: Nat \ {0},
             depends_on_event_ids: SUBSET Events, fault: Faults]

Rejection == [event_id: Events \cup {None}, retryable: BOOLEAN]

Statuses == {"ok", "http_401", "http_403_unregistered", "http_403_revoked", "http_500"}

Response == [call: Calls, student_id: Students, status: Statuses,
             accepted: SUBSET Events, duplicates: SUBSET Events,
             rejected: SUBSET Rejection]
================================================================================
