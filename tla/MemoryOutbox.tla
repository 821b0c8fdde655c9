----------------------------- MODULE MemoryOutbox -----------------------------
(***************************************************************************)
(* The memory outbox and its workers: app/memory/outbox.py, worker.py and  *)
(* the index they deliver to (app/memory/mnemis_stub.py).                  *)
(*                                                                         *)
(* A memory (an episode or a fact) is written with an outbox row in one    *)
(* transaction.  A worker's run selects a student, takes the student's     *)
(* advisory lock, claims due rows and delivers them one after the other; a *)
(* delivery and the update of its row are two steps, and the process or    *)
(* its connection may die between any two.                                 *)
(*                                                                         *)
(* `outer` is the student whose lock an operation around a run holds; the  *)
(* dispatcher's runs have none (MemoryDeletion has others).                *)
(***************************************************************************)
EXTENDS Integers, Sequences, FiniteSets

CONSTANTS
    Students,    \* student ids of one tenant
    Memories,    \* ids of episodes and facts
    Owner,       \* Owner[m]: the student a memory is about
    Workers,     \* processes with a database connection
    None,
    MaxVersion,  \* bound: how often a memory is written
    RetryDelay,  \* RETRY_DELAY_SECONDS, in ticks
    Lease,       \* CLAIM_LEASE_SECONDS, in ticks
    BatchSize,   \* batch_size of a run
    MaxTime,     \* bound: the clock stops here, and delays end here
    RemembersKeys \* the index knows a key after its document is gone (the stub
                 \* does; the LLM transport forgets it with the row)

ASSUME OutboxConstants ==
    /\ None \notin Students \cup Memories \cup Workers
    /\ Owner \in [Memories -> Students]
    /\ MaxVersion \in Nat /\ MaxTime \in Nat /\ Lease \in Nat
    /\ RetryDelay \in Seq(Nat)
    /\ BatchSize \in Nat \ {0}
    /\ RemembersKeys \in BOOLEAN

MAX_ATTEMPTS == Len(RetryDelay)

\* outbox_idempotency_key: one row for each.
UpsertKey(m, v) == [student_id |-> Owner[m], operation |-> "upsert",
                    aggregate |-> m, version |-> v]
DeleteKey(s) == [student_id |-> s, operation |-> "delete_student",
                 aggregate |-> None, version |-> 1]
UpsertKeys == {UpsertKey(m, v) : m \in Memories, v \in 1..MaxVersion}
Keys == UpsertKeys \cup {DeleteKey(s) : s \in Students}

ASSUME NoneIsNoSet == \A K \in SUBSET Keys : K # None

OpenStatuses == {"pending", "retrying", "processing"}

OutboxRow == [status: {"absent", "indexed", "deleted", "dead_letter"} \cup OpenStatuses,
              attempt_count: Nat, next_attempt_at: 0..MaxTime, created_at: 0..MaxTime,
              claim_token: Workers \cup {None}]

NoRow == [status |-> "absent", attempt_count |-> 0, next_attempt_at |-> 0,
          created_at |-> 0, claim_token |-> None]

\* A run of OutboxWorker.run_pending: its arguments, and where it is.
Run == [running: BOOLEAN, timestamp: 0..MaxTime, room: Nat,
        only: Students \cup {None}, outbox_ids: SUBSET Keys,
        processed_students: SUBSET Students, student: Students \cup {None},
        rows: Seq(Keys), applied: BOOLEAN]

NoRun == [running |-> FALSE, timestamp |-> 0, room |-> BatchSize, only |-> None,
          outbox_ids |-> {}, processed_students |-> {}, student |-> None,
          rows |-> <<>>, applied |-> FALSE]

VARIABLES
    now,        \* the clock
    students,   \* students.status
    deletions,  \* student_deletions.state; "none": no row
    memories,   \* version of each committed episode or fact, 0: none
    outbox,     \* memory_outbox
    lock,       \* the advisory lock of each student
    outer,      \* per worker, the student an operation around its run has locked
    run,        \* per worker, the run in progress
    docs,       \* the index: version indexed of each memory, 0: none
    seen        \* the index: upsert_keys_seen; None: local mode, index = None

outboxVars == <<now, students, deletions, memories, outbox, lock, outer, run, docs, seen>>

DeletionStates == {"none", "requested", "sqlite_deleted", "index_deletion_pending",
                   "verified", "failed"}

OutboxTypeOK ==
    /\ now \in 0..MaxTime
    /\ students \in [Students -> {"active", "deletion_pending", "deleted"}]
    /\ deletions \in [Students -> DeletionStates]
    /\ memories \in [Memories -> 0..MaxVersion]
    /\ outbox \in [Keys -> OutboxRow]
    /\ \A k \in Keys : outbox[k].claim_token # None <=> outbox[k].status = "processing"
    /\ lock \in [Students -> Workers \cup {None}]
    /\ outer \in [Workers -> Students \cup {None}]
    /\ run \in [Workers -> Run]
    /\ docs \in [Memories -> 0..MaxVersion]
    /\ seen = None \/ seen \in SUBSET Keys

OutboxInit ==
    /\ now = 0
    /\ students = [s \in Students |-> "active"]
    /\ deletions = [s \in Students |-> "none"]
    /\ memories = [m \in Memories |-> 0]
    /\ outbox = [k \in Keys |-> NoRow]
    /\ lock = [s \in Students |-> None]
    /\ outer = [w \in Workers |-> None]
    /\ run = [w \in Workers |-> NoRun]
    /\ docs = [m \in Memories |-> 0]
    /\ seen \in {{}, None}

--------------------------------------------------------------------------------
\* A deployment has an index, or it is in local mode.
HasIndex == seen # None

RowsOf(s) == {k \in Keys : k.student_id = s}

After(t, delay) == IF t + delay < MaxTime THEN t + delay ELSE MaxTime

\* OutboxRepository.enqueue: a key that has a row keeps it.
Enqueued(box, K, t) ==
    [k \in Keys |-> IF k \in K /\ box[k].status = "absent"
                    THEN [NoRow EXCEPT !.status = "pending", !.next_attempt_at = t,
                                       !.created_at = t]
                    ELSE box[k]]

\* Mutant: a student on the way to deletion passes.
IsActiveUntilDeleted(s) == students[s] # "deleted"

\* ensure_active_student.
IsActive(s) == students[s] = "active" /\ deletions[s] = "none"

\* Mutant: no lease for a dead worker's row.
IsDueUnclaimed(k, t) ==
    outbox[k].status \in {"pending", "retrying"} /\ outbox[k].next_attempt_at <= t

\* What claim_due and due_student_id take as due.
IsDue(k, t) == outbox[k].status \in OpenStatuses /\ outbox[k].next_attempt_at <= t

\* ORDER BY next_attempt_at, created_at; a tick hides what versions keep apart.
Before(j, k) ==
    \/ outbox[j].next_attempt_at < outbox[k].next_attempt_at
    \/ /\ outbox[j].next_attempt_at = outbox[k].next_attempt_at
       /\ \/ outbox[j].created_at < outbox[k].created_at
          \/ /\ outbox[j].created_at = outbox[k].created_at
             /\ j.aggregate = k.aggregate /\ j.version < k.version

DueFor(w) ==
    {k \in run[w].outbox_ids :
        /\ IsDue(k, run[w].timestamp)
        /\ run[w].only \in {None, k.student_id}
        /\ k.student_id \notin run[w].processed_students}

\* Mutant: no advisory lock.
CanLockAnyway(w, s) == TRUE

\* The lock of s can be taken by w: free, or held by the operation around its run.
CanLock(w, s) == lock[s] = None \/ (lock[s] = w /\ outer[w] = s)

\* The lock after a run's `with student_advisory_lock`: an outer holder keeps it.
Unlocked(w, s) == IF outer[w] = s THEN lock ELSE [lock EXCEPT ![s] = None]

\* next_retry_delay_seconds, with the count after incrementing; -1: None.
NextRetryDelay(attempts) ==
    IF attempts > MAX_ATTEMPTS THEN -1 ELSE RetryDelay[attempts]

\* student_advisory_lock around a transaction.
LockFree(s) == lock[s] = None

--------------------------------------------------------------------------------
Tick ==
    /\ now < MaxTime
    /\ now' = now + 1
    /\ UNCHANGED <<students, deletions, memories, outbox, lock, outer, run, docs, seen>>

\* An episode is validated or a fact gets a version, with its row.
WriteMemory(m) ==
    /\ LockFree(Owner[m])
    /\ IsActive(Owner[m])
    /\ memories[m] < MaxVersion
    /\ memories' = [memories EXCEPT ![m] = @ + 1]
    /\ outbox' = Enqueued(outbox, {UpsertKey(m, memories[m] + 1)}, now)
    /\ UNCHANGED <<now, students, deletions, lock, outer, run, docs, seen>>

RunOf(timestamp, only, ids) ==
    [running |-> TRUE, timestamp |-> timestamp, room |-> BatchSize, only |-> only,
     outbox_ids |-> ids, processed_students |-> {}, student |-> None, rows |-> <<>>,
     applied |-> FALSE]

\* The dispatcher starts a run over the tenant's students.
StartRun(w) ==
    /\ HasIndex
    /\ ~run[w].running /\ outer[w] = None
    /\ \E k \in Keys : outbox[k].status \in OpenStatuses
    /\ run' = [run EXCEPT ![w] = RunOf(now, None, Keys)]
    /\ UNCHANGED <<now, students, deletions, memories, outbox, lock, outer, docs, seen>>

\* due_student_id: the student of the first due row, not seen in this run.
SelectStudent(w) ==
    /\ run[w].running /\ run[w].student = None /\ run[w].room > 0
    /\ \E k \in DueFor(w) :
          /\ \A j \in DueFor(w) : ~Before(j, k)
          /\ run' = [run EXCEPT ![w].student = k.student_id,
                                ![w].processed_students = @ \cup {k.student_id}]
    /\ UNCHANGED <<now, students, deletions, memories, outbox, lock, outer, docs, seen>>

EndRun(w) ==
    /\ run[w].running /\ run[w].student = None
    /\ run[w].room = 0 \/ DueFor(w) = {}
    /\ run' = [run EXCEPT ![w] = [NoRun EXCEPT !.room = run[w].room]]
    /\ UNCHANGED <<now, students, deletions, memories, outbox, lock, outer, docs, seen>>

Claimable(w) ==
    {k \in run[w].outbox_ids : k.student_id = run[w].student /\ IsDue(k, run[w].timestamp)}

\* The first `room` due rows of the student in their order (ties: any order).
IsClaim(w, rows) ==
    LET K == Claimable(w)
        taken == {rows[i] : i \in DOMAIN rows}
    IN  /\ \A i, j \in DOMAIN rows : i < j => rows[i] # rows[j] /\ ~Before(rows[j], rows[i])
        /\ \A k \in K \ taken : \A j \in taken : ~Before(k, j)
        /\ taken # K => Len(rows) = run[w].room

\* claim_due under the student's lock.
Claim(w) ==
    /\ run[w].student # None /\ run[w].rows = <<>>
    /\ CanLock(w, run[w].student)
    /\ \E n \in 1..run[w].room : \E rows \in [1..n -> Claimable(w)] :
          /\ IsClaim(w, rows)
          /\ outbox' = [k \in Keys |->
                IF \E i \in 1..n : rows[i] = k
                THEN [outbox[k] EXCEPT !.status = "processing", !.claim_token = w,
                         !.next_attempt_at = After(run[w].timestamp, Lease)]
                ELSE outbox[k]]
          /\ run' = [run EXCEPT ![w].rows = rows, ![w].room = @ - n]
    /\ lock' = [lock EXCEPT ![run[w].student] = w]
    /\ UNCHANGED <<now, students, deletions, memories, outer, docs, seen>>

\* Another worker was first: nothing to claim, on to the next student.
ClaimNothing(w) ==
    /\ run[w].student # None /\ run[w].rows = <<>>
    /\ CanLock(w, run[w].student)
    /\ Claimable(w) = {}
    /\ run' = [run EXCEPT ![w].student = None]
    /\ UNCHANGED <<now, students, deletions, memories, outbox, lock, outer, docs, seen>>

\* The index applies the call for the first row, once per idempotency key.
IndexApplies(w) ==
    /\ run[w].rows # <<>> /\ ~run[w].applied
    /\ LET k == Head(run[w].rows) IN
          /\ docs' = IF k \in seen THEN docs
                     ELSE IF k.operation = "upsert"
                     THEN [docs EXCEPT ![k.aggregate] = k.version]
                     ELSE [m \in Memories |-> IF Owner[m] = k.student_id THEN 0 ELSE docs[m]]
          /\ seen' = IF RemembersKeys THEN seen \cup {k}
                     ELSE IF k.operation = "upsert" THEN seen \cup {k}
                     ELSE seen \ RowsOf(k.student_id)
    /\ run' = [run EXCEPT ![w].applied = TRUE]
    /\ UNCHANGED <<now, students, deletions, memories, outbox, lock, outer>>

OwnsClaim(w, k) == outbox[k].status = "processing" /\ outbox[k].claim_token = w

\* On to the next row; after the last one the student's lock is released.
NextRow(w) ==
    /\ run' = [run EXCEPT ![w].rows = Tail(@), ![w].applied = FALSE,
                          ![w].student = IF Len(run[w].rows) = 1 THEN None ELSE @]
    /\ lock' = IF Len(run[w].rows) = 1 THEN Unlocked(w, run[w].student) ELSE lock

\* Mutant: the row is settled before its delivery.
CompleteFirst(w) ==
    /\ run[w].rows # <<>>
    /\ lock[run[w].student] = w
    /\ LET k == Head(run[w].rows) IN
          outbox' = [outbox EXCEPT ![k].claim_token = None, ![k].status =
                        IF k.operation = "upsert" THEN "indexed" ELSE "deleted"]
    /\ NextRow(w)
    /\ UNCHANGED <<now, students, deletions, memories, outer, docs, seen>>

\* complete and mark_deleted; a stale claim changes nothing.
Complete(w) ==
    /\ run[w].rows # <<>> /\ run[w].applied
    /\ lock[run[w].student] = w
    /\ LET k == Head(run[w].rows) IN
          outbox' = IF OwnsClaim(w, k)
                    THEN [outbox EXCEPT ![k].claim_token = None,
                             ![k].status = IF k.operation = "upsert" THEN "indexed"
                                           ELSE "deleted"]
                    ELSE outbox
    /\ NextRow(w)
    /\ UNCHANGED <<now, students, deletions, memories, outer, docs, seen>>

\* mark_failed after an error of the call, which the index may have applied.
MarkFailed(w) ==
    /\ run[w].rows # <<>>
    /\ lock[run[w].student] = w
    /\ LET k == Head(run[w].rows)
           attempts == outbox[k].attempt_count + 1
           delay == NextRetryDelay(attempts)
       IN  outbox' = IF OwnsClaim(w, k)
                     THEN [outbox EXCEPT ![k].claim_token = None,
                              ![k].attempt_count = attempts,
                              ![k].status = IF delay < 0 THEN "dead_letter" ELSE "retrying",
                              ![k].next_attempt_at =
                                 After(run[w].timestamp, IF delay < 0 THEN 0 ELSE delay)]
                     ELSE outbox
    /\ NextRow(w)
    /\ UNCHANGED <<now, students, deletions, memories, outer, docs, seen>>

\* The process dies, or its connection does: locks are freed, claims stay.
Dies(w) ==
    /\ run' = [run EXCEPT ![w] = NoRun]
    /\ lock' = [s \in Students |-> IF lock[s] = w THEN None ELSE lock[s]]
    /\ outer' = [outer EXCEPT ![w] = None]
    /\ UNCHANGED <<now, students, deletions, memories, outbox, docs, seen>>

Crash(w) == run[w].running /\ Dies(w)

\* The connection is lost in a call of the index: the server frees the locks,
\* the call goes on, and the error ends the run (Crash) afterwards.
LoseConnection(w) ==
    /\ run[w].rows # <<>> /\ lock[run[w].student] = w
    /\ lock' = [s \in Students |-> IF lock[s] = w THEN None ELSE lock[s]]
    /\ outer' = [outer EXCEPT ![w] = None]
    /\ UNCHANGED <<now, students, deletions, memories, outbox, run, docs, seen>>

WorkerStep(w) ==
    \/ SelectStudent(w) \/ Claim(w) \/ ClaimNothing(w)
    \/ IndexApplies(w) \/ Complete(w) \/ MarkFailed(w) \/ EndRun(w)

OutboxNext ==
    \/ Tick
    \/ \E m \in Memories : WriteMemory(m)
    \/ \E w \in Workers : StartRun(w) \/ WorkerStep(w) \/ Crash(w)

OutboxSpec == OutboxInit /\ [][OutboxNext]_outboxVars

\* The dispatcher polls, a run goes on, time passes.
OutboxFairness ==
    /\ WF_outboxVars(Tick)
    /\ \A w \in Workers : WF_outboxVars(StartRun(w)) /\ WF_outboxVars(WorkerStep(w))

FairOutboxSpec == OutboxSpec /\ OutboxFairness

--------------------------------------------------------------------------------
\* A worker owns the claim of every row it has still to deliver: no other takes
\* it after the lease, and none is removed under its hands.
ClaimsHold ==
    \A w \in Workers : \A i \in DOMAIN run[w].rows :
        LET row == outbox[run[w].rows[i]]
        IN  row.status = "processing" /\ row.claim_token = w

\* A row is indexed or deleted only after the index applied its call, through
\* crashes between the delivery and complete(), retries and second workers.
SettledWasApplied ==
    \A k \in Keys : outbox[k].status \in {"indexed", "deleted"} => k \in seen

\* A run that claimed nothing ends like a crash: that is none.
CrashesEnd == <>[][\A w \in Workers : Crash(w) => EndRun(w)]_outboxVars

\* Where there is an index every row is delivered or dead-lettered when workers
\* stop dying.
EveryRowSettles ==
    HasIndex /\ CrashesEnd => \A k \in Keys : outbox[k].status \in OpenStatuses
                     ~> outbox[k].status \in {"indexed", "deleted", "dead_letter"}

\* docs/MEMORY_CONSISTENCY.md: after the fifth attempt a row is a dead letter.
AttemptsWithinPolicy ==
    \A k \in Keys : outbox[k].attempt_count <= MAX_ATTEMPTS
================================================================================
