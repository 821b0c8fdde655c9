----------------------------- MODULE MCSyncServer -----------------------------
(***************************************************************************)
(* SyncServer for TLC.  The batches are drawn from a small set of          *)
(* envelopes chosen so that duplicates, ties, gaps, missing and foreign    *)
(* dependencies and bad events all occur; one batch is too large.          *)
(***************************************************************************)
EXTENDS SyncServer, TLC

CONSTANTS e1, e2, e3

Event(id, seq, deps, fault) ==
    [event_id |-> id, device_sequence |-> seq, depends_on_event_ids |-> deps, fault |-> fault]

\* Two students use the same ids: ties, a gap, a dependency that may be the
\* other's.  One that cannot be applied comes in front of one that can, one that
\* cannot be read comes alone.
Sound == {Event(e1, 1, {}, "none"), Event(e2, 2, {e1}, "none"), Event(e3, 2, {}, "none")}
Unreadable == Event(e2, 2, {e1}, "integrity")
Inapplicable == Event(e3, 1, {}, "inapplicable")
Envelopes == Sound \cup {Unreadable, Inapplicable}

Batches == {b \in SUBSET Sound : Cardinality(b) \in 1..MaxBatch} \cup
           {{Inapplicable, Event(e2, 2, {e1}, "none")}, {Unreadable}, Envelopes}

MCNext ==
    \/ \E c \in Calls, s \in Students, d \in Devices, events \in Batches :
          SendRequest(c, s, d, events)
    \/ ServerStep
    \/ Network
    \/ Administration

MCSpec == ServerInit /\ [][MCNext]_serverVars

Symmetry == Permutations(Students) \cup Permutations(Devices) \cup Permutations(Calls)
================================================================================
