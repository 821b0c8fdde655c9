------------------------------ MODULE MCMemory ------------------------------
(***************************************************************************)
(* MemoryOutbox and MemoryDeletion for TLC.                                *)
(***************************************************************************)
EXTENDS MemoryDeletion, TLC

CONSTANTS s1, s2, m1, m2, w1, w2

\* One student's memories, or one of each of two students.
OneOwner == [m \in Memories |-> s1]
TwoOwners == [m \in Memories |-> IF m = m1 THEN s1 ELSE s2]

\* Delays of the first failures, in ticks; the next failure is the last.
OneRetry == <<1>>

\* The outbox alone.
OutboxOnly == OutboxInit /\ job = [w \in Workers |-> NoJob]
MCOutboxSpec == OutboxOnly /\ [][OutboxNext /\ UNCHANGED job]_deletionVars
MCFairOutboxSpec == MCOutboxSpec /\ OutboxFairness

(* Around deletions: w1 dispatches, w2 is the process of whoever completes,
   rebuilds or replays (two dispatchers are the outbox's business). *)
OperatorStep == (WorkerStep(w2) /\ UNCHANGED job) \/ JobStep(w2)
MCDeletionNext ==
    \/ Tick /\ UNCHANGED job
    \/ \E m \in Memories : WriteMemory(m) /\ UNCHANGED job
    \/ \E s \in Students : RequestDeletion(s) \/ ExecuteDeletion(s)
    \/ Dispatch(w1) \/ OperatorStep
    \/ Completion(w2) \/ Rebuild(w2) \/ Replay(w2)
    \/ JobCrash(w1) \/ JobCrash(w2)

\* Somebody asks for the completion of a deletion until it is decided.
MCDeletionSpec ==
    /\ DeletionInit /\ [][MCDeletionNext]_deletionVars
    /\ WF_deletionVars(Tick /\ UNCHANGED job)
    /\ WF_deletionVars(Dispatch(w1))
    /\ WF_deletionVars(OperatorStep)
    /\ \A s \in Students : SF_deletionVars(BeginCompletion(w2, s) \/ CompleteLocally(w2, s))

Symmetry == Permutations(Workers)
=============================================================================
