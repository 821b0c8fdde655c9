---------------------------- MODULE MemoryDeletion ----------------------------
(***************************************************************************)
(* The operations around the outbox of a student: the deletion protocol    *)
(* (app/memory/deletion.py), the rebuild of one student's index entries    *)
(* (scripts/rebuild_memory_index.py) and the replay of dead letters        *)
(* (scripts/replay_dead_letter.py).  Completion and rebuild hold the       *)
(* student's advisory lock over their runs of the worker; a replay holds   *)
(* none over its own.                                                      *)
(***************************************************************************)
EXTENDS MemoryOutbox

CONSTANT MaxAttempts    \* replay's --max-attempts

ASSUME ReplayConstants ==
    MaxAttempts \in Nat /\ IsFiniteSet(Students) /\ IsFiniteSet(Memories)

VARIABLE job    \* per worker, the operation its runs belong to

deletionVars == <<outboxVars, job>>

Job == [task: {"none", "completion", "rebuild", "replay"},
        phase: {"", "delete", "upsert"}, student: Students \cup {None},
        candidates: SUBSET Students, reset_ids: SUBSET Keys,
        virtual_now: 0..MaxTime, rounds: 0..MaxAttempts]

NoJob == [task |-> "none", phase |-> "", student |-> None, candidates |-> {},
          reset_ids |-> {}, virtual_now |-> 0, rounds |-> 0]

DeletionTypeOK ==
    /\ OutboxTypeOK
    /\ job \in [Workers -> Job]
    /\ \A w \in Workers :
          /\ outer[w] = IF job[w].task \in {"completion", "rebuild"} THEN job[w].student ELSE None
          /\ outer[w] # None => lock[outer[w]] = w

DeletionInit == OutboxInit /\ job = [w \in Workers |-> NoJob]

IsIdle(w) == job[w].task = "none" /\ ~run[w].running

\* The operation's worker has returned from run_pending.
IsBack(w, task) == job[w].task = task /\ ~run[w].running

Owned(s) == {m \in Memories : Owner[m] = s}

Cleared(box, s) == [k \in Keys |-> IF k \in RowsOf(s) THEN NoRow ELSE box[k]]

\* Mutant: the outbox row is taken for the index.
NotDead(s) == outbox[DeleteKey(s)].status # "dead_letter"

\* verify_not_retrievable.
NotRetrievable(s) == \A m \in Owned(s) : docs[m] = 0

\* _ALLOWED_TRANSITIONS.
Allowed(state) ==
    CASE state = "none" -> {"requested"}
      [] state = "requested" -> {"requested", "sqlite_deleted"}
      [] state = "sqlite_deleted" -> {"sqlite_deleted", "index_deletion_pending", "verified", "failed"}
      [] state = "index_deletion_pending" -> {"index_deletion_pending", "verified", "failed"}
      [] OTHER -> {state}

\* _set_state: a transition that is not allowed raises, and nothing changes.
SetState(s, state) ==
    /\ state \in Allowed(deletions[s])
    /\ deletions' = [deletions EXCEPT ![s] = state]

--------------------------------------------------------------------------------
RequestDeletion(s) ==
    /\ LockFree(s)
    /\ students[s] = "active"
    /\ SetState(s, "requested")
    /\ students' = [students EXCEPT ![s] = "deletion_pending"]
    /\ UNCHANGED <<now, memories, outbox, lock, outer, run, docs, seen, job>>

ExecuteDeletion(s) ==
    /\ LockFree(s)
    /\ SetState(s, "sqlite_deleted")
    /\ memories' = [m \in Memories |-> IF m \in Owned(s) THEN 0 ELSE memories[m]]
    /\ outbox' = Enqueued(Cleared(outbox, s), {DeleteKey(s)}, now)
    /\ UNCHANGED <<now, students, lock, outer, run, docs, seen, job>>

\* _finalize_verified: no verified deletion of a student who is not pending.
FinalizeVerified(s) ==
    /\ students[s] = "deletion_pending"
    /\ SetState(s, "verified")
    /\ students' = [students EXCEPT ![s] = "deleted"]

\* An operation takes the student's lock and calls its worker.
Begin(w, s, newJob) ==
    /\ IsIdle(w) /\ LockFree(s)
    /\ lock' = [lock EXCEPT ![s] = w]
    /\ outer' = [outer EXCEPT ![w] = s]
    /\ job' = [job EXCEPT ![w] = newJob]
    /\ run' = [run EXCEPT ![w] = RunOf(now, s, Keys)]

\* It returns, and lets the lock go.
Finish(w) ==
    /\ lock' = [lock EXCEPT ![job[w].student] = None]
    /\ outer' = [outer EXCEPT ![w] = None]
    /\ job' = [job EXCEPT ![w] = NoJob]
    /\ run' = [run EXCEPT ![w] = NoRun]

\* Mutant: a completion that did not verify is not taken up again.
CanCompleteOnce(s) == deletions[s] = "sqlite_deleted"

CanComplete(s) == deletions[s] \in {"sqlite_deleted", "index_deletion_pending"}

\* complete_index_deletion, up to the worker's run.
BeginCompletion(w, s) ==
    /\ HasIndex /\ CanComplete(s)
    /\ Begin(w, s, [NoJob EXCEPT !.task = "completion", !.student = s])
    /\ UNCHANGED <<now, students, deletions, memories, outbox, docs, seen>>

\* ... in local mode, where there is nothing to run or to verify.
CompleteLocally(w, s) ==
    /\ ~HasIndex /\ CanComplete(s)
    /\ IsIdle(w) /\ LockFree(s)
    /\ FinalizeVerified(s)
    /\ UNCHANGED <<now, memories, outbox, lock, outer, run, docs, seen, job>>

\* ... after the run: verified, failed, or to be tried again.
FinishCompletion(w) ==
    /\ IsBack(w, "completion")
    /\ LET s == job[w].student IN
          \/ NotRetrievable(s) /\ FinalizeVerified(s)
          \/ /\ ~NotRetrievable(s)
             /\ SetState(s, IF outbox[DeleteKey(s)].status = "dead_letter" THEN "failed"
                            ELSE "index_deletion_pending")
             /\ UNCHANGED students
    /\ Finish(w)
    /\ UNCHANGED <<now, memories, outbox, docs, seen>>

--------------------------------------------------------------------------------
\* Mutant: the rows already delivered stay.
BeginRebuildKeeping(w, s) ==
    /\ HasIndex /\ IsActive(s)
    /\ Begin(w, s, [NoJob EXCEPT !.task = "rebuild", !.phase = "delete", !.student = s])
    /\ outbox' = Enqueued([outbox EXCEPT ![DeleteKey(s)] = NoRow], {DeleteKey(s)}, now)
    /\ UNCHANGED <<now, students, deletions, memories, docs, seen>>

\* rebuild_student, first transaction: the delete row only, delivered alone.
BeginRebuild(w, s) ==
    /\ HasIndex /\ IsActive(s)
    /\ Begin(w, s, [NoJob EXCEPT !.task = "rebuild", !.phase = "delete", !.student = s])
    /\ outbox' = Enqueued(Cleared(outbox, s), {DeleteKey(s)}, now)
    /\ UNCHANGED <<now, students, deletions, memories, docs, seen>>

\* Second transaction, after a successful delete: a row for every memory.
EnqueueMemories(w) ==
    /\ IsBack(w, "rebuild") /\ job[w].phase = "delete"
    /\ LET s == job[w].student IN
          /\ outbox[DeleteKey(s)].status = "deleted"
          /\ outbox' = Enqueued(outbox, {UpsertKey(m, memories[m]) :
                                   m \in {n \in Owned(s) : memories[n] > 0}}, now)
          /\ run' = [run EXCEPT ![w] = RunOf(now, s, Keys)]
    /\ job' = [job EXCEPT ![w].phase = "upsert"]
    /\ UNCHANGED <<now, students, deletions, memories, lock, outer, docs, seen>>

\* _drain_worker: until a batch claims nothing.
NextBatch(w) ==
    /\ IsBack(w, "rebuild") /\ job[w].phase = "upsert"
    /\ run[w].room < BatchSize
    /\ run' = [run EXCEPT ![w] = RunOf(now, job[w].student, Keys)]
    /\ UNCHANGED <<now, students, deletions, memories, outbox, lock, outer, docs, seen, job>>

RebuildOver(w) ==
    /\ IsBack(w, "rebuild")
    /\ \/ job[w].phase = "delete" /\ outbox[DeleteKey(job[w].student)].status # "deleted"
       \/ job[w].phase = "upsert" /\ run[w].room = BatchSize

FinishRebuild(w) ==
    /\ RebuildOver(w)
    /\ Finish(w)
    /\ UNCHANGED <<now, students, deletions, memories, outbox, docs, seen>>

--------------------------------------------------------------------------------
\* replay: the students with dead letters, read before any lock is taken.
BeginReplay(w) ==
    /\ IsIdle(w)
    /\ LET candidates == {k.student_id : k \in {j \in Keys :
              /\ outbox[j].status = "dead_letter"
              /\ deletions[j.student_id] \notin
                    {"requested", "sqlite_deleted", "index_deletion_pending"}
              /\ students[j.student_id] = "active"}}
       IN  /\ candidates # {}
           /\ job' = [job EXCEPT ![w] = [NoJob EXCEPT !.task = "replay",
                         !.candidates = candidates, !.virtual_now = now]]
    /\ UNCHANGED outboxVars

\* A student's dead letters back to pending, under the lock.
ResetStudent(w, s) ==
    /\ job[w].task = "replay" /\ s \in job[w].candidates
    /\ LockFree(s)
    /\ LET dead == {k \in RowsOf(s) : outbox[k].status = "dead_letter"} IN
          /\ outbox' = [k \in Keys |-> IF k \in dead
                THEN [outbox[k] EXCEPT !.status = "pending", !.attempt_count = 0,
                         !.next_attempt_at = job[w].virtual_now]
                ELSE outbox[k]]
          /\ job' = [job EXCEPT ![w].candidates = @ \ {s}, ![w].reset_ids = @ \cup dead]
    /\ UNCHANGED <<now, students, deletions, memories, lock, outer, run, docs, seen>>

\* _next_attempt_at.
NextAttempts(w) ==
    {outbox[k].next_attempt_at : k \in {j \in job[w].reset_ids : outbox[j].status \in OpenStatuses}}

\* A round of the worker over the reset rows, its clock set to the first due.
ReplayRound(w) ==
    /\ IsBack(w, "replay") /\ job[w].candidates = {}
    /\ HasIndex /\ job[w].rounds < MaxAttempts
    /\ \E first \in NextAttempts(w) :
          /\ \A t \in NextAttempts(w) : first <= t
          /\ LET virtual_now == IF first > job[w].virtual_now THEN first ELSE job[w].virtual_now
             IN  /\ job' = [job EXCEPT ![w].virtual_now = virtual_now, ![w].rounds = @ + 1]
                 /\ run' = [run EXCEPT ![w] =
                       [RunOf(virtual_now, None, job[w].reset_ids)
                           EXCEPT !.room = Cardinality(job[w].reset_ids)]]
    /\ UNCHANGED <<now, students, deletions, memories, outbox, lock, outer, docs, seen>>

FinishReplay(w) ==
    /\ IsBack(w, "replay") /\ job[w].candidates = {}
    /\ ~HasIndex \/ job[w].rounds = MaxAttempts \/ NextAttempts(w) = {}
    /\ job' = [job EXCEPT ![w] = NoJob]
    /\ UNCHANGED outboxVars

--------------------------------------------------------------------------------
\* The dispatcher and the writers of MemoryOutbox.
Dispatch(w) ==
    \/ job[w].task = "none" /\ StartRun(w) /\ UNCHANGED job
    \/ WorkerStep(w) /\ UNCHANGED job

\* The process that runs the operation dies.
JobCrash(w) == ~IsIdle(w) /\ Dies(w) /\ job' = [job EXCEPT ![w] = NoJob]

Completion(w) == FinishCompletion(w) \/ \E s \in Students : BeginCompletion(w, s) \/ CompleteLocally(w, s)

Rebuild(w) ==
    \/ EnqueueMemories(w) \/ NextBatch(w) \/ FinishRebuild(w)
    \/ \E s \in Students : BeginRebuild(w, s)

Replay(w) ==
    \/ BeginReplay(w) \/ ReplayRound(w) \/ FinishReplay(w)
    \/ \E s \in Students : ResetStudent(w, s)

DeletionNext ==
    \/ Tick /\ UNCHANGED job
    \/ \E m \in Memories : WriteMemory(m) /\ UNCHANGED job
    \/ \E s \in Students : RequestDeletion(s) \/ ExecuteDeletion(s)
    \/ \E w \in Workers :
          Dispatch(w) \/ Completion(w) \/ Rebuild(w) \/ Replay(w) \/ JobCrash(w)

DeletionSpec == DeletionInit /\ [][DeletionNext]_deletionVars

\* With connections that are lost in a call of the index.
FaultyNext == DeletionNext \/ \E w \in Workers : LoseConnection(w) /\ UNCHANGED job

FaultySpec == DeletionInit /\ [][FaultyNext]_deletionVars

\* What an operation under way does next.
JobStep(w) ==
    \/ FinishCompletion(w) \/ EnqueueMemories(w) \/ NextBatch(w) \/ FinishRebuild(w)
    \/ ReplayRound(w) \/ FinishReplay(w) \/ \E s \in Students : ResetStudent(w, s)

\* Somebody asks for the completion of a deletion until it is decided.
DeletionFairness ==
    /\ WF_deletionVars(Tick /\ UNCHANGED job)
    /\ \A w \in Workers : WF_deletionVars(Dispatch(w)) /\ WF_deletionVars(JobStep(w))
    /\ \A w \in Workers, s \in Students :
          SF_deletionVars(BeginCompletion(w, s) \/ CompleteLocally(w, s))

FairDeletionSpec == DeletionSpec /\ DeletionFairness

--------------------------------------------------------------------------------
\* Once a student's rows are deleted no memory is written, no upsert waits for
\* delivery and no worker has one in hand, whoever was at work before.
DeletedStudentHasNoWork ==
    \A s \in Students : deletions[s] \notin {"none", "requested"} =>
        /\ \A m \in Owned(s) : memories[m] = 0
        /\ \A k \in RowsOf(s) : k.operation = "upsert" => outbox[k].status = "absent"
        /\ \A w \in Workers : \A i \in DOMAIN run[w].rows :
              run[w].rows[i].student_id = s => run[w].rows[i].operation = "delete_student"

\* A verified deletion leaves nothing to recall, then and for ever after.
VerifiedMeansEmpty ==
    \A s \in Students : deletions[s] = "verified" =>
        students[s] = "deleted" /\ \A m \in Owned(s) : docs[m] = 0

\* A rebuild whose rows were all indexed leaves every memory in the index as
\* it is in the store (docs/MEMORY_CONSISTENCY.md, acceptance).
RebuildRestores ==
    \A w \in Workers : RebuildOver(w) /\ job[w].phase = "upsert" =>
        \A m \in Owned(job[w].student) :
            memories[m] > 0 /\ outbox[UpsertKey(m, memories[m])].status = "indexed"
                => docs[m] = memories[m]

\* Processes stop dying and nobody executes a deletion once more.
OperatorsSettle ==
    /\ <>[][\A w \in Workers : JobCrash(w) => Dispatch(w) \/ JobStep(w)]_deletionVars
    /\ <>[][\A s \in Students : ~ExecuteDeletion(s)]_deletionVars

\* A deletion that was carried out in the store is decided in the end, when
\* its completion is retried, with an index and in local mode.
DeletionIsDecided ==
    OperatorsSettle => \A s \in Students : deletions[s] = "sqlite_deleted"
                                            ~> deletions[s] \in {"verified", "failed"}
================================================================================
