------------------------------ MODULE OfflineSync ------------------------------
(***************************************************************************)
(* One browser (OfflineClient) and the server (SyncServer) over a network  *)
(* that loses requests and responses, and lets a request the browser has   *)
(* given up on arrive late, next to its retry.                             *)
(***************************************************************************)
EXTENDS SyncServer, OfflineClient

CONSTANTS
    Student, Device,  \* the browser's token and registration
    Administered      \* whether its device may be revoked, its data deleted

ASSUME BrowserConstants ==
    /\ Student \in Students /\ Device \in Devices
    /\ Administered \in BOOLEAN

vars == <<serverVars, clientVars>>

TypeOK == ServerTypeOK /\ ClientTypeOK

Init ==
    /\ ServerInit
    /\ devices[Device] = NewDevice(Student)
    /\ ClientInit

Send(c) ==
    /\ Post(c)
    /\ SendRequest(c, Student, Device, {EnvelopeOf(copy) : copy \in sync.batch})

Receive(r) ==
    /\ ReceiveOk(r) \/ ReceiveError(r) \/ BodyUnreadable(r)
    /\ TakeResponse(r)

Next ==
    \/ (PageStep \/ PageEvent) /\ UNCHANGED serverVars
    \/ \E c \in Calls : Send(c)
    \/ \E r \in responses : Receive(r)
    \/ (ServerStep \/ Network) /\ UNCHANGED clientVars
    \/ /\ Administered
       /\ RevokeDevice(Student, Device) \/ RequestDeletion(Student)
       /\ UNCHANGED clientVars

Spec == Init /\ [][Next]_vars

(* Without reloads, for what needs the page to stay open.  Fairness: a task of
   the page, a handler of the server and a timer that can run do run; a broken
   connection is noticed and what nobody waits for leaves the network.  Of the
   network, the database and the server's process: they do not fail for ever.
   Nothing is said of the learner: events and attemptSync need not happen. *)
SteadyNext == Next /\ page' = "up"

Outage ==
    \/ NetworkError \/ PullFails
    \/ \E r \in requests : LoseRequest(r)
    \/ \E r \in responses : BodyUnreadable(r)
    \/ \E r \in responses : r.call = sync.call /\ TakeResponse(r) /\ UNCHANGED sync
    \/ \E s \in Students : AbortBatch(s)
    \/ \E s \in Students : Commit(s) /\ BatchFailure(s) \in responses'

Fairness ==
    /\ WF_vars(SyncStep /\ UNCHANGED serverVars)
    /\ WF_vars(RestoreStep /\ UNCHANGED serverVars)
    /\ WF_vars((SaveSequence \/ PullSnapshot) /\ UNCHANGED serverVars)
    /\ \A e \in Events : WF_vars(BackoffElapses(e) /\ UNCHANGED serverVars)
    /\ WF_vars(\E c \in Calls : Send(c))
    /\ WF_vars(NetworkError /\ UNCHANGED serverVars)
    /\ WF_vars((\E r \in responses : r.call # sync.call /\ TakeResponse(r))
                 /\ UNCHANGED clientVars)
    /\ WF_vars(ServerStep /\ UNCHANGED clientVars)
    /\ WF_vars(\E r \in responses : Receive(r))
    /\ <>[][~Outage]_vars

SteadySpec == Init /\ [][SteadyNext]_vars /\ Fairness

\* The same while the learner keeps using the app: each answer, and each return
\* of the connection, calls attemptSync.
ActiveSpec == SteadySpec /\ WF_vars(AttemptSync /\ UNCHANGED serverVars)

--------------------------------------------------------------------------------
Stored == IdsOf(RowsOfStudent(Student))

\* The browser counts an event as acknowledged only if the server has it.
AcknowledgedIsStored == acknowledged_events \subseteq Stored

\* "Do not delete local events until acknowledged": at every moment, through
\* reloads, half-done puts and late restores, an event the learner produced is
\* in the browser's queue or in the server's store.
NothingDropped ==
    created \subseteq InStore \cup Stored

\* The browser never reports as failed an event the server has: a refusal that is
\* not retryable stays right, also when a request the browser had given up on is
\* processed after it.  (Events with ids of their own; a presentation built again
\* after a reload has a second sequence number for the same id.)
FailedIsNotStored ==
    \A e \in Events \ Presented : pending_events[e].status = "failed" => e \notin Stored

\* The queue drains: while the app is used, every event ends up acknowledged or
\* reported as failed, except that one whose dependency failed is retried for ever.
EverySettled ==
    \A e \in Events :
        e \in created ~> \/ e \in acknowledged_events
                        \/ pending_events[e].status = "failed"
                        \/ \E d \in DependsOn[e] : pending_events[d].status = "failed"

DueForRetry(e) ==
    LET r == pending_events[e] IN r.status = "pending" /\ r.attempts > 0 /\ r.due

\* The retry schedule of the protocol: when the delay after a failed attempt is
\* over, the event is tried again, learner or no learner.
RetriesWhileOpen ==
    \A e \in Events :
        DueForRetry(e) ~> ~DueForRetry(e)

\* A connection that broke costs nothing but time: an event with nothing wrong in
\* it is never refused for good.
SoundEventNotFailed ==
    \A e \in Events : FaultOf[e] = "none" => pending_events[e].status # "failed"

\* device_sequence strictly increases per device: no two queued events share one.
SequencesDistinct ==
    \A e, f \in InStore :
        pending_events[e].device_sequence = pending_events[f].device_sequence => e = f

--------------------------------------------------------------------------------
(* What the protocol promises of one event: EventDelivery. *)

\* Neither stored nor going to be: wrong, reported as failed, or at or below the
\* device's watermark.
Lost(e) ==
    /\ e \in created \ Stored
    /\ \/ FaultOf[e] # "none"
       \/ pending_events[e].status = "failed"
       \/ pending_events[e].device_sequence <= devices[Device].last_device_sequence

Phase(e) ==
    CASE e \in acknowledged_events -> "acknowledged"
      [] e \in Stored \ acknowledged_events -> "stored"
      [] Lost(e) /\ e \notin acknowledged_events -> "lost"
      [] e \in created /\ ~Lost(e) /\ e \notin Stored \cup acknowledged_events -> "queued"
      [] OTHER -> "new"

Delivery == INSTANCE EventDelivery WITH phase <- [e \in Events |-> Phase(e)]

\* Every step of the browser, the network and the server is, for each event, a
\* step of its delivery or no step at all.
ImplementsDelivery == Delivery!DeliverySpec
================================================================================
