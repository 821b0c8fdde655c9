------------------------------ MODULE MemoryProofs ------------------------------
(***************************************************************************)
(* Proofs about MemoryOutbox and MemoryDeletion, for any students,         *)
(* memories and workers: claims hold, what is settled was delivered, a     *)
(* deleted student has no work and nothing to recall, and a rebuild gives  *)
(* an index that keeps no keys what the store has.                         *)
(***************************************************************************)
EXTENDS MemoryDeletion, FiniteSetTheorems, TLAPS

LEMMA KeyFacts ==
  ASSUME NEW k \in Keys
  PROVE  /\ k.student_id \in Students /\ k.operation \in {"upsert", "delete_student"}
         /\ k.operation = "upsert" => /\ k.aggregate \in Memories /\ k.version \in 1..MaxVersion
                                      /\ Owner[k.aggregate] = k.student_id
                                      /\ k = UpsertKey(k.aggregate, k.version)
         /\ k.operation = "delete_student" => k = DeleteKey(k.student_id)
<1>1. ASSUME NEW m \in Memories, NEW v \in 1..MaxVersion, k = UpsertKey(m, v)
      PROVE  /\ k.student_id \in Students /\ k.operation = "upsert"
             /\ k.aggregate = m /\ k.version = v /\ Owner[k.aggregate] = k.student_id
  BY <1>1, OutboxConstants DEF UpsertKey
<1>2. ASSUME NEW s \in Students, k = DeleteKey(s)
      PROVE  k.student_id = s /\ k.operation = "delete_student"
  BY <1>2 DEF DeleteKey
<1>. QED  BY <1>1, <1>2 DEF Keys, UpsertKeys

LEMMA KeysTyped ==
  /\ \A s \in Students : DeleteKey(s) \in Keys
  /\ \A m \in Memories, v \in 1..MaxVersion : UpsertKey(m, v) \in Keys
BY DEF Keys, UpsertKeys

LEMMA NoRowTyped == NoRow \in OutboxRow /\ NoRow.claim_token = None /\ NoRow.status = "absent"
BY OutboxConstants DEF NoRow, OutboxRow, OpenStatuses

LEMMA NoRunTyped ==
  NoRun \in Run /\ NoRun.rows = <<>> /\ ~NoRun.running /\ ~NoRun.applied /\ NoRun.student = None
BY OutboxConstants DEF NoRun, Run

LEMMA AfterTyped ==
  ASSUME NEW t \in 0..MaxTime, NEW d \in Nat
  PROVE  After(t, d) \in 0..MaxTime
BY OutboxConstants DEF After

LEMMA RunOfTyped ==
  ASSUME NEW t \in 0..MaxTime, NEW only \in Students \cup {None}, NEW ids \in SUBSET Keys
  PROVE  /\ RunOf(t, only, ids) \in Run /\ RunOf(t, only, ids).rows = <<>>
         /\ ~RunOf(t, only, ids).applied /\ RunOf(t, only, ids).student = None
BY OutboxConstants DEF RunOf, Run

\* What is proved of a table of rows wherever one is changed.
Box(box) ==
    /\ box \in [Keys -> OutboxRow]
    /\ \A k \in Keys : box[k].claim_token # None <=> box[k].status = "processing"

LEMMA EnqueuedTyped ==
  ASSUME NEW box, Box(box), NEW K, NEW t \in 0..MaxTime
  PROVE  /\ Box(Enqueued(box, K, t))
         /\ \A k \in Keys : /\ box[k].status # "absent" => Enqueued(box, K, t)[k] = box[k]
                            /\ k \notin K => Enqueued(box, K, t)[k] = box[k]
                            /\ Enqueued(box, K, t)[k].status \in {box[k].status, "pending"}
<1>. DEFINE row == [NoRow EXCEPT !.status = "pending", !.next_attempt_at = t, !.created_at = t]
<1>1. row \in OutboxRow /\ row.claim_token = None /\ row.status = "pending"
  BY OutboxConstants DEF NoRow, OutboxRow, OpenStatuses
<1>. HIDE DEF row
<1>2. Enqueued(box, K, t) =
        [k \in Keys |-> IF k \in K /\ box[k].status = "absent" THEN row ELSE box[k]]
  BY DEF Enqueued, row
<1>. QED  BY <1>1, <1>2 DEF Box

LEMMA ClearedTyped ==
  ASSUME NEW box, Box(box), NEW s
  PROVE  /\ Box(Cleared(box, s))
         /\ \A k \in Keys : Cleared(box, s)[k] = IF k.student_id = s THEN NoRow ELSE box[k]
BY NoRowTyped DEF Box, Cleared, RowsOf

LEMMA InitTyped == OutboxInit => OutboxTypeOK
BY OutboxConstants, NoRowTyped, NoRunTyped DEF OutboxInit, OutboxTypeOK, DeletionStates

--------------------------------------------------------------------------------
\* What the steps of a worker and its run rely on, besides their types: the rows
\* in hand are distinct rows of one student whose lock the worker holds.
Holding ==
    /\ \A w \in Workers : /\ run[w].student # None => run[w].running
                          /\ run[w].running => HasIndex
    /\ \A w \in Workers : run[w].rows # <<>> =>
          /\ run[w].student \in Students /\ lock[run[w].student] = w
          /\ \A i \in DOMAIN run[w].rows : run[w].rows[i].student_id = run[w].student
          /\ \A i, j \in DOMAIN run[w].rows : run[w].rows[i] = run[w].rows[j] => i = j

Handling == OutboxTypeOK /\ Holding /\ ClaimsHold

LEMMA InitHandling == OutboxInit => Handling
BY InitTyped, NoRunTyped DEF OutboxInit, Handling, Holding, ClaimsHold

\* A step that leaves the workers and their locks alone, and the rows they hold.
LEMMA HandlingKept ==
  ASSUME Handling, OutboxTypeOK', UNCHANGED <<lock, run, seen>>,
         \A w \in Workers : \A i \in DOMAIN run[w].rows :
            LET k == run[w].rows[i] IN outbox'[k] = outbox[k]
  PROVE  Handling'
BY DEF Handling, Holding, ClaimsHold, HasIndex

\* Of a student whose lock is free nobody has a row in hand.
LEMMA FreeMeansIdle ==
  ASSUME Handling, NEW s \in Students, LockFree(s), NEW w \in Workers,
         NEW i \in DOMAIN run[w].rows
  PROVE  run[w].rows[i] \in Keys /\ run[w].rows[i].student_id # s
<1>1. run[w] \in Run /\ run[w].rows \in Seq(Keys)
  BY DEF Handling, OutboxTypeOK, Run
<1>2. run[w].rows # <<>> /\ run[w].rows[i] \in Keys
  BY <1>1
<1>. QED  BY <1>2, OutboxConstants DEF Handling, Holding, LockFree

LEMMA TickHandling == ASSUME Handling, Tick PROVE Handling'
<1>1. OutboxTypeOK'
  BY OutboxConstants DEF Tick, Handling, OutboxTypeOK
<1>. QED  BY <1>1, HandlingKept DEF Tick

LEMMA WriteHandling ==
  ASSUME Handling, NEW m \in Memories, WriteMemory(m)
  PROVE  Handling'
<1>. DEFINE K == {UpsertKey(m, memories[m] + 1)}
<1>1. Box(outbox) /\ now \in 0..MaxTime /\ memories[m] \in 0..MaxVersion
  BY DEF Handling, OutboxTypeOK, Box
<1>2. /\ Box(outbox')
      /\ \A k \in Keys : outbox[k].status # "absent" => outbox'[k] = outbox[k]
  BY <1>1, EnqueuedTyped DEF WriteMemory
<1>3. memories' \in [Memories -> 0..MaxVersion]
  BY <1>1, OutboxConstants DEF WriteMemory, Handling, OutboxTypeOK
<1>4. OutboxTypeOK'
  BY <1>2, <1>3 DEF WriteMemory, Handling, OutboxTypeOK, Box
<1>5. \A w \in Workers : \A i \in DOMAIN run[w].rows :
         /\ run[w].rows[i] \in Keys /\ outbox[run[w].rows[i]].status = "processing"
  BY DEF Handling, OutboxTypeOK, Run, ClaimsHold
<1>. QED  BY <1>2, <1>4, <1>5, HandlingKept DEF WriteMemory

\* A worker without rows moves on in its run.
LEMMA RunHandling ==
  ASSUME Handling, NEW w \in Workers, NEW r \in Run, r.rows = <<>>,
         r.student # None => r.running, r.running => HasIndex,
         run' = [run EXCEPT ![w] = r],
         UNCHANGED <<now, students, deletions, memories, outbox, lock, outer, docs, seen>>
  PROVE  Handling'
<1>1. OutboxTypeOK'
  BY DEF Handling, OutboxTypeOK
<1>2. \A v \in Workers : run'[v].rows # <<>> => v # w /\ run'[v] = run[v]
  BY DEF Handling, OutboxTypeOK
<1>3. Holding'
  BY <1>2 DEF Handling, Holding, OutboxTypeOK, HasIndex
<1>4. \A v \in Workers : \A i \in DOMAIN run'[v].rows : run'[v] = run[v]
  BY <1>2 DEF Handling, OutboxTypeOK, Run
<1>5. ClaimsHold'
  BY <1>4 DEF Handling, ClaimsHold
<1>. QED  BY <1>1, <1>3, <1>5 DEF Handling

LEMMA StartHandling ==
  ASSUME Handling, NEW w \in Workers, StartRun(w)
  PROVE  Handling'
<1>1. now \in 0..MaxTime
  BY DEF Handling, OutboxTypeOK
<1>2. /\ RunOf(now, None, Keys) \in Run /\ RunOf(now, None, Keys).rows = <<>>
      /\ RunOf(now, None, Keys).student = None
  BY <1>1, RunOfTyped
<1>. QED  BY <1>2, RunHandling DEF StartRun

\* A worker with a student or without one, that has no rows.
LEMMA NoRowsYet ==
  ASSUME Handling, NEW w \in Workers, run[w].student = None \/ ~run[w].running
  PROVE  run[w].rows = <<>>
BY OutboxConstants DEF Handling, Holding

LEMMA SelectHandling ==
  ASSUME Handling, NEW w \in Workers, SelectStudent(w)
  PROVE  Handling'
<1>1. PICK k \in DueFor(w) : run' = [run EXCEPT ![w].student = k.student_id,
                                  ![w].processed_students = @ \cup {k.student_id}]
  BY DEF SelectStudent
<1>2. run \in [Workers -> Run] /\ run[w] \in Run /\ run[w].outbox_ids \subseteq Keys
  BY DEF Handling, OutboxTypeOK, Run
<1>3. k.student_id \in Students
  BY <1>2, KeyFacts DEF DueFor
<1>. DEFINE r == [run[w] EXCEPT !.student = k.student_id,
                                !.processed_students = @ \cup {k.student_id}]
<1>4. run' = [run EXCEPT ![w] = r] /\ (run[w].running => HasIndex)
  BY <1>1, <1>2 DEF Run, Handling, Holding
<1>5. r \in Run /\ r.rows = run[w].rows /\ r.running = run[w].running
  BY <1>2, <1>3 DEF Run
<1>6. run[w].rows = <<>>
  BY NoRowsYet DEF SelectStudent
<1>. HIDE DEF r
<1>. QED  BY <1>4, <1>5, <1>6, RunHandling DEF SelectStudent

LEMMA EndHandling ==
  ASSUME Handling, NEW w \in Workers, EndRun(w)
  PROVE  Handling'
<1>1. run[w] \in Run
  BY DEF Handling, OutboxTypeOK
<1>2. run[w].room \in Nat
  BY <1>1 DEF Run
<1>. DEFINE r == [NoRun EXCEPT !.room = run[w].room]
<1>3. r \in Run /\ r.rows = <<>> /\ r.student = None /\ ~r.running
  BY <1>2, NoRunTyped DEF Run
<1>. QED  BY <1>3, RunHandling DEF EndRun

LEMMA NothingHandling ==
  ASSUME Handling, NEW w \in Workers, ClaimNothing(w)
  PROVE  Handling'
<1>1. run \in [Workers -> Run] /\ run[w] \in Run
  BY DEF Handling, OutboxTypeOK
<1>. DEFINE r == [run[w] EXCEPT !.student = None]
<1>2. r \in Run /\ r.rows = <<>> /\ r.student = None /\ r.running = run[w].running
  BY <1>1, OutboxConstants DEF Run, ClaimNothing
<1>3. run[w].running => HasIndex
  BY DEF Handling, Holding
<1>. HIDE DEF r
<1>4. run' = [run EXCEPT ![w] = r]
  BY <1>1 DEF ClaimNothing, Run, r
<1>. QED  BY <1>2, <1>3, <1>4, RunHandling DEF ClaimNothing

\* What a claim does: rows of one student, in processing for its worker.
ClaimStep(w, n, rows, r) ==
    /\ n \in Nat \ {0} /\ rows \in [1..n -> Claimable(w)] /\ r \in Run
    /\ \A i, j \in 1..n : rows[i] = rows[j] => i = j
    /\ outbox' = [k \in Keys |->
          IF \E i \in 1..n : rows[i] = k
          THEN [outbox[k] EXCEPT !.status = "processing", !.claim_token = w,
                   !.next_attempt_at = After(run[w].timestamp, Lease)]
          ELSE outbox[k]]
    /\ run' = [run EXCEPT ![w] = r]
    /\ r.rows = rows /\ r.student = run[w].student /\ r.running = run[w].running
    /\ r.applied = run[w].applied

LEMMA ClaimFacts ==
  ASSUME Handling, NEW w \in Workers, Claim(w)
  PROVE  \E n, rows, r : ClaimStep(w, n, rows, r)
<1>1. PICK n \in 1..run[w].room : \E rows \in [1..n -> Claimable(w)] :
          /\ IsClaim(w, rows)
          /\ outbox' = [k \in Keys |->
                IF \E i \in 1..n : rows[i] = k
                THEN [outbox[k] EXCEPT !.status = "processing", !.claim_token = w,
                         !.next_attempt_at = After(run[w].timestamp, Lease)]
                ELSE outbox[k]]
          /\ run' = [run EXCEPT ![w].rows = rows, ![w].room = @ - n]
  BY DEF Claim
<1>2. PICK rows \in [1..n -> Claimable(w)] :
          /\ IsClaim(w, rows)
          /\ outbox' = [k \in Keys |->
                IF \E i \in 1..n : rows[i] = k
                THEN [outbox[k] EXCEPT !.status = "processing", !.claim_token = w,
                         !.next_attempt_at = After(run[w].timestamp, Lease)]
                ELSE outbox[k]]
          /\ run' = [run EXCEPT ![w].rows = rows, ![w].room = @ - n]
  BY <1>1
<1>3. run \in [Workers -> Run] /\ run[w] \in Run /\ run[w].room \in Nat
  BY DEF Handling, OutboxTypeOK, Run
<1>4. Claimable(w) \subseteq Keys
  BY <1>3 DEF Claimable, Run
<1>5. n \in Nat \ {0} /\ n <= run[w].room
  BY <1>3
<1>6. rows \in Seq(Keys) /\ DOMAIN rows = 1..n
  BY <1>4, <1>5
<1>. DEFINE r == [run[w] EXCEPT !.rows = rows, !.room = @ - n]
<1>7. /\ r \in Run /\ r.rows = rows /\ r.student = run[w].student
      /\ r.running = run[w].running /\ r.applied = run[w].applied
  <2>1. run[w].room - n \in Nat
    BY <1>3, <1>5
  <2>. QED  BY <1>3, <1>6, <2>1 DEF Run
<1>8. run' = [run EXCEPT ![w] = r]
  BY <1>2, <1>3 DEF Run
<1>9. \A i, j \in 1..n : rows[i] = rows[j] => i = j
  <2>1. \A i, j \in 1..n : i < j => rows[i] # rows[j]
    BY <1>2, <1>6 DEF IsClaim
  <2>. QED  BY <2>1, <1>5
<1>. HIDE DEF r
<1>10. ClaimStep(w, n, rows, r)
  BY <1>2, <1>5, <1>7, <1>8, <1>9 DEF ClaimStep
<1>. QED  BY <1>10

LEMMA ClaimHandling ==
  ASSUME Handling, NEW w \in Workers, Claim(w)
  PROVE  Handling'
<1>1. PICK n, rows, r : ClaimStep(w, n, rows, r)
  BY ClaimFacts
<1>. DEFINE taken == {rows[i] : i \in 1..n}
            s == run[w].student
<1>2. /\ run \in [Workers -> Run] /\ run[w] \in Run /\ outbox \in [Keys -> OutboxRow]
      /\ lock \in [Students -> Workers \cup {None}]
      /\ \A k \in Keys : outbox[k].claim_token # None <=> outbox[k].status = "processing"
  BY DEF Handling, OutboxTypeOK
<1>3. s \in Students /\ run[w].running
  BY <1>2 DEF Claim, Run, Handling, Holding
<1>4. /\ taken \subseteq Keys /\ rows # <<>> /\ DOMAIN rows = 1..n
      /\ \A k \in taken : k.student_id = s
      /\ \A i \in 1..n : rows[i] \in taken
  <2>1. n \in Nat \ {0} /\ rows \in [1..n -> Claimable(w)]
    BY <1>1 DEF ClaimStep
  <2>2. 1 \in DOMAIN rows /\ DOMAIN rows = 1..n
    BY <2>1
  <2>3. rows # <<>>
    BY <2>1, <2>2 DEF ClaimStep
  <2>4. Claimable(w) \subseteq Keys /\ \A k \in Claimable(w) : k.student_id = s
    BY <1>2 DEF Claimable, Run
  <2>. QED  BY <2>1, <2>2, <2>3, <2>4
<1>5. /\ run' = [run EXCEPT ![w] = r] /\ r \in Run /\ r.rows = rows
      /\ r.student = s /\ r.running
      /\ \A i, j \in 1..n : rows[i] = rows[j] => i = j
  BY <1>1, <1>3 DEF ClaimStep
<1>6. lock' = [lock EXCEPT ![s] = w] /\ (lock[s] = None \/ lock[s] = w)
  BY DEF Claim, CanLock
<1>7. After(run[w].timestamp, Lease) \in 0..MaxTime
  BY <1>2, AfterTyped, OutboxConstants DEF Run
<1>8. /\ \A k \in taken : /\ outbox'[k] \in OutboxRow
                          /\ outbox'[k].status = "processing"
                          /\ outbox'[k].claim_token = w
      /\ \A k \in Keys \ taken : outbox'[k] = outbox[k]
  <2>1. \A k \in Keys : outbox'[k] =
           IF k \in taken
           THEN [outbox[k] EXCEPT !.status = "processing", !.claim_token = w,
                    !.next_attempt_at = After(run[w].timestamp, Lease)]
           ELSE outbox[k]
    BY <1>1 DEF ClaimStep
  <2>3. ASSUME NEW k \in taken
        PROVE  /\ outbox'[k] \in OutboxRow
               /\ outbox'[k].status = "processing"
               /\ outbox'[k].claim_token = w
    <3>1. k \in Keys
      BY <1>4
    <3>2. outbox'[k] = [outbox[k] EXCEPT !.status = "processing", !.claim_token = w,
                           !.next_attempt_at = After(run[w].timestamp, Lease)]
      BY <2>1, <3>1
    <3>3. outbox[k] \in OutboxRow
      BY <1>2, <3>1
    <3>. QED  BY <1>7, <3>2, <3>3 DEF OutboxRow, OpenStatuses
  <2>4. \A k \in Keys \ taken : outbox'[k] = outbox[k]
    BY <2>1
  <2>. QED  BY <2>3, <2>4
<1>. HIDE DEF taken
<1>9. OutboxTypeOK'
  <2>1. outbox' \in [Keys -> OutboxRow]
    <3>1. outbox' = [k \in Keys |-> outbox'[k]]
      BY <1>1 DEF ClaimStep
    <3>. QED  BY <1>2, <1>8, <3>1
  <2>2. \A k \in Keys : outbox'[k].claim_token # None <=> outbox'[k].status = "processing"
    <3>1. w # None
      BY OutboxConstants
    <3>. QED  BY <1>2, <1>8, <3>1
  <2>3. run' \in [Workers -> Run] /\ lock' \in [Students -> Workers \cup {None}]
    BY <1>2, <1>3, <1>5, <1>6
  <2>4. UNCHANGED <<now, students, deletions, memories, outer, docs, seen>>
    BY DEF Claim
  <2>. QED  BY <2>1, <2>2, <2>3, <2>4 DEF Handling, OutboxTypeOK
<1>10. \A v \in Workers \ {w} :
         run'[v] = run[v] /\ (run[v].rows # <<>> => run[v].student # s)
  BY <1>2, <1>5, <1>6, OutboxConstants DEF Handling, Holding
<1>11. Holding'
  <2>1. \A i \in DOMAIN rows : rows[i].student_id = s
    BY <1>4
  <2>2. \A v \in Workers : /\ run'[v].student # None => run'[v].running
                           /\ run'[v].running => HasIndex'
    <3>1. UNCHANGED seen /\ run[w].running
      BY <1>3 DEF Claim
    <3>. QED  BY <1>2, <1>5, <1>10, <3>1 DEF Handling, Holding, HasIndex
  <2>3. /\ run'[w].student = s /\ lock'[s] = w /\ run'[w].rows = rows
    BY <1>2, <1>3, <1>5, <1>6
  <2>4. ASSUME NEW v \in Workers \ {w}, run[v].rows # <<>>
        PROVE  run[v].student \in Students /\ lock'[run[v].student] = v
    BY <2>4, <1>2, <1>6, <1>10 DEF Handling, Holding
  <2>5. ASSUME NEW v \in Workers, run'[v].rows # <<>>
        PROVE  /\ run'[v].student \in Students /\ lock'[run'[v].student] = v
               /\ \A i \in DOMAIN run'[v].rows : run'[v].rows[i].student_id = run'[v].student
               /\ \A i, j \in DOMAIN run'[v].rows : run'[v].rows[i] = run'[v].rows[j] => i = j
    <3>1. CASE v = w
      <4>1. /\ run'[v].rows = rows /\ run'[v].student = s /\ lock'[s] = v
            /\ DOMAIN rows = 1..n
        BY <1>4, <2>3, <3>1
      <4>2. \A i \in DOMAIN rows : rows[i].student_id = s
        BY <2>1
      <4>3. \A i, j \in DOMAIN rows : rows[i] = rows[j] => i = j
        BY <1>5, <4>1
      <4>4. run'[v].student \in Students /\ lock'[run'[v].student] = v
        BY <1>3, <4>1
      <4>. HIDE DEF s
      <4>. QED  BY <4>1, <4>2, <4>3, <4>4
    <3>2. CASE v # w
      BY <2>5, <1>10, <2>4, <3>2 DEF Handling, Holding
    <3>. QED  BY <3>1, <3>2
  <2>. QED  BY <2>2, <2>5 DEF Holding
<1>12. ClaimsHold'
  <2>1. ASSUME NEW v \in Workers \ {w}, NEW i \in DOMAIN run[v].rows
        PROVE  run[v].rows[i] \in Keys \ taken
    <3>1. run[v].rows \in Seq(Keys)
      BY <1>2 DEF Run
    <3>2. run[v].rows # <<>> /\ run[v].rows[i] \in Keys
      BY <3>1
    <3>. QED  BY <1>4, <1>10, <3>2 DEF Handling, Holding
  <2>2. ASSUME NEW v \in Workers \ {w}, NEW i \in DOMAIN run'[v].rows
        PROVE  LET row == outbox'[run'[v].rows[i]]
               IN  row.status = "processing" /\ row.claim_token = v
    BY <1>8, <1>10, <2>1 DEF Handling, ClaimsHold
  <2>3. ASSUME NEW i \in DOMAIN run'[w].rows
        PROVE  LET row == outbox'[run'[w].rows[i]]
               IN  row.status = "processing" /\ row.claim_token = w
    BY <1>2, <1>4, <1>5, <1>8
  <2>. QED  BY <2>2, <2>3 DEF ClaimsHold
<1>. QED  BY <1>9, <1>11, <1>12 DEF Handling

\* The row at the head of a worker's rows.
LEMMA HeadFacts ==
  ASSUME Handling, NEW w \in Workers, run[w].rows # <<>>
  PROVE  /\ run[w].rows \in Seq(Keys) /\ Len(run[w].rows) \in Nat \ {0}
         /\ 1 \in DOMAIN run[w].rows /\ DOMAIN run[w].rows = 1..Len(run[w].rows)
         /\ Head(run[w].rows) = run[w].rows[1] /\ Head(run[w].rows) \in Keys
         /\ Head(run[w].rows).student_id = run[w].student /\ run[w].student \in Students
         /\ lock[run[w].student] = w /\ HasIndex
<1>1. run[w] \in Run
  BY DEF Handling, OutboxTypeOK
<1>2. run[w].rows \in Seq(Keys)
  BY <1>1 DEF Run
<1>3. /\ Len(run[w].rows) \in Nat \ {0} /\ 1 \in DOMAIN run[w].rows
      /\ DOMAIN run[w].rows = 1..Len(run[w].rows)
      /\ Head(run[w].rows) = run[w].rows[1] /\ Head(run[w].rows) \in Keys
  BY <1>2
<1>. QED  BY <1>2, <1>3, OutboxConstants DEF Handling, Holding

LEMMA ApplyHandling ==
  ASSUME Handling, NEW w \in Workers, IndexApplies(w)
  PROVE  Handling'
<1>. DEFINE k == Head(run[w].rows)
<1>1. /\ k \in Keys /\ HasIndex /\ run[w].rows # <<>>
  BY HeadFacts DEF IndexApplies
<1>2. /\ docs \in [Memories -> 0..MaxVersion] /\ seen \in SUBSET Keys
      /\ run \in [Workers -> Run]
  BY <1>1 DEF Handling, OutboxTypeOK, HasIndex
<1>3. docs' \in [Memories -> 0..MaxVersion]
  <2>1. k.operation = "upsert" => k.aggregate \in Memories /\ k.version \in 0..MaxVersion
    BY <1>1, KeyFacts, OutboxConstants
  <2>2. docs' = IF k \in seen THEN docs
                ELSE IF k.operation = "upsert" THEN [docs EXCEPT ![k.aggregate] = k.version]
                ELSE [m \in Memories |-> IF Owner[m] = k.student_id THEN 0 ELSE docs[m]]
    BY DEF IndexApplies
  <2>3. 0 \in 0..MaxVersion
    BY OutboxConstants
  <2>. HIDE DEF k
  <2>. QED  BY <1>2, <2>1, <2>2, <2>3
<1>4. seen' \in SUBSET Keys
  BY <1>1, <1>2 DEF IndexApplies, RowsOf
<1>5. run' = [run EXCEPT ![w].applied = TRUE]
  BY DEF IndexApplies
<1>6. /\ run' \in [Workers -> Run]
      /\ \A v \in Workers : /\ run'[v].rows = run[v].rows /\ run'[v].student = run[v].student
                            /\ run'[v].running = run[v].running
  <2>. DEFINE r == [run[w] EXCEPT !.applied = TRUE]
  <2>1. /\ r \in Run /\ r.rows = run[w].rows /\ r.student = run[w].student
        /\ r.running = run[w].running
    BY <1>2 DEF Run
  <2>2. run' = [run EXCEPT ![w] = r]
    BY <1>5
  <2>. HIDE DEF r
  <2>. QED  BY <1>2, <2>1, <2>2
<1>7. UNCHANGED <<now, students, deletions, memories, outbox, lock, outer>>
  BY DEF IndexApplies
<1>8. OutboxTypeOK'
  BY <1>3, <1>4, <1>6, <1>7 DEF Handling, OutboxTypeOK
<1>9. HasIndex'
  BY <1>4, NoneIsNoSet DEF HasIndex
<1>10. Holding'
  BY <1>6, <1>7, <1>9 DEF Handling, Holding
<1>11. ClaimsHold'
  BY <1>6, <1>7 DEF Handling, ClaimsHold
<1>. QED  BY <1>8, <1>10, <1>11 DEF Handling

\* On to the next row, whatever became of the one in hand.
LEMMA NextRowMoves ==
  ASSUME run \in [Workers -> Run], NEW w \in Workers, NextRow(w)
  PROVE  ~run'[w].applied /\ \A v \in Workers \ {w} : run'[v] = run[v]
<1>. DEFINE r == [run[w] EXCEPT !.rows = Tail(@), !.applied = FALSE,
                                !.student = IF Len(run[w].rows) = 1 THEN None ELSE @]
<1>1. ~r.applied
  BY DEF Run
<1>2. run' = [run EXCEPT ![w] = r]
  BY DEF NextRow, Run
<1>. HIDE DEF r
<1>. QED  BY <1>1, <1>2

LEMMA NextRowHandling ==
  ASSUME Handling, NEW w \in Workers, run[w].rows # <<>>, NextRow(w), Box(outbox'),
         \A k \in Keys : k # Head(run[w].rows) => outbox'[k] = outbox[k],
         UNCHANGED <<now, students, deletions, memories, outer, docs, seen>>
  PROVE  Handling'
<1>. DEFINE rows == run[w].rows
            s == run[w].student
<1>1. /\ rows \in Seq(Keys) /\ Len(rows) \in Nat \ {0} /\ DOMAIN rows = 1..Len(rows)
      /\ Head(rows) = rows[1] /\ s \in Students /\ lock[s] = w
  BY HeadFacts
<1>2. /\ Tail(rows) \in Seq(Keys) /\ Len(Tail(rows)) = Len(rows) - 1
      /\ DOMAIN Tail(rows) = 1..(Len(rows) - 1)
      /\ \A i \in DOMAIN Tail(rows) : Tail(rows)[i] = rows[i + 1] /\ i + 1 \in DOMAIN rows
      /\ Tail(rows) # <<>> => Len(rows) # 1
  <2>. HIDE DEF rows
  <2>1. /\ Tail(rows) \in Seq(Keys) /\ Len(Tail(rows)) = Len(rows) - 1
        /\ DOMAIN Tail(rows) = 1..(Len(rows) - 1)
    BY <1>1
  <2>2. \A i \in DOMAIN Tail(rows) : Tail(rows)[i] = rows[i + 1] /\ i + 1 \in DOMAIN rows
    BY <1>1, <2>1
  <2>3. Len(rows) = 1 => Tail(rows) = <<>>
    BY <1>1, <2>1
  <2>. QED  BY <2>1, <2>2, <2>3
<1>3. run \in [Workers -> Run] /\ run[w] \in Run /\ run[w].student \in Students
  BY <1>1 DEF Handling, OutboxTypeOK
<1>. DEFINE r == [run[w] EXCEPT !.rows = Tail(@), !.applied = FALSE,
                                !.student = IF Len(run[w].rows) = 1 THEN None ELSE @]
<1>4. run' = [run EXCEPT ![w] = r]
  BY <1>3 DEF NextRow, Run
<1>5. /\ r \in Run /\ r.rows = Tail(rows) /\ r.running = run[w].running
      /\ r.student = (IF Len(rows) = 1 THEN None ELSE s)
  BY <1>2, <1>3 DEF Run
<1>. HIDE DEF r
<1>6. lock' \in [Students -> Workers \cup {None}]
  BY <1>1 DEF NextRow, Unlocked, Handling, OutboxTypeOK
<1>7. OutboxTypeOK'
  BY <1>3, <1>4, <1>5, <1>6 DEF Handling, OutboxTypeOK, Box
<1>8. \A v \in Workers \ {w} :
         /\ run'[v] = run[v]
         /\ run[v].rows # <<>> => run[v].student # s /\ lock'[run[v].student] = v
  <2>1. \A v \in Workers \ {w} : run'[v] = run[v]
    BY <1>3, <1>4
  <2>2. ASSUME NEW v \in Workers \ {w}, run[v].rows # <<>>
        PROVE  run[v].student # s /\ lock'[run[v].student] = v
    <3>1. run[v].student \in Students /\ lock[run[v].student] = v
      BY <2>2 DEF Handling, Holding
    <3>2. run[v].student # s
      BY <1>1, <3>1
    <3>. QED  BY <3>1, <3>2 DEF NextRow, Unlocked, Handling, OutboxTypeOK
  <2>. QED  BY <2>1, <2>2
<1>9. /\ run'[w] = r /\ (r.student # None => run[w].running)
      /\ Tail(rows) # <<>> => r.student = s /\ lock'[s] = w
  <2>1. run'[w] = r
    BY <1>3, <1>4
  <2>2. r.student # None => run[w].running
    BY <1>5 DEF Handling, Holding
  <2>3. Tail(rows) # <<>> => r.student = s /\ lock' = lock
    BY <1>2, <1>5 DEF NextRow
  <2>. QED  BY <1>1, <2>1, <2>2, <2>3
<1>10. Holding'
  <2>1. \A v \in Workers : /\ run'[v].student # None => run'[v].running
                           /\ run'[v].running => HasIndex'
    BY <1>5, <1>8, <1>9 DEF Handling, Holding, HasIndex
  <2>2. ASSUME NEW v \in Workers, run'[v].rows # <<>>
        PROVE  /\ run'[v].student \in Students /\ lock'[run'[v].student] = v
               /\ \A i \in DOMAIN run'[v].rows : run'[v].rows[i].student_id = run'[v].student
               /\ \A i, j \in DOMAIN run'[v].rows : run'[v].rows[i] = run'[v].rows[j] => i = j
    <3>1. CASE v = w
      <4>1. /\ run'[v].rows = Tail(rows) /\ run'[v].student = s /\ lock'[s] = v
        BY <1>5, <1>9, <2>2, <3>1
      <4>2. \A i \in DOMAIN Tail(rows) : Tail(rows)[i].student_id = s
        BY <1>2, <2>2 DEF Handling, Holding
      <4>3. ASSUME NEW i \in DOMAIN Tail(rows), NEW j \in DOMAIN Tail(rows),
                   Tail(rows)[i] = Tail(rows)[j]
            PROVE  i = j
        <5>1. i + 1 = j + 1
          BY <1>2, <4>3 DEF Handling, Holding
        <5>. QED  BY <1>2, <5>1
      <4>4. s \in Students
        BY <1>1
      <4>. HIDE DEF s, rows
      <4>. QED  BY <4>1, <4>2, <4>3, <4>4
    <3>2. CASE v # w
      BY <1>8, <2>2, <3>2 DEF Handling, Holding
    <3>. QED  BY <3>1, <3>2
  <2>. QED  BY <2>1, <2>2 DEF Holding
<1>11. ASSUME NEW v \in Workers, NEW i \in DOMAIN run'[v].rows
       PROVE  LET row == outbox'[run'[v].rows[i]]
              IN  row.status = "processing" /\ row.claim_token = v
  <2>1. CASE v = w
    <3>1. /\ i \in DOMAIN Tail(rows) /\ run'[v].rows[i] = rows[i + 1]
          /\ i + 1 \in DOMAIN rows /\ 1 \in DOMAIN rows /\ i + 1 # 1
      <4>1. run'[v].rows = Tail(rows) /\ i \in DOMAIN Tail(rows)
        BY <1>5, <1>9, <1>11, <2>1
      <4>2. i \in 1..(Len(rows) - 1)
        BY <1>2, <4>1
      <4>3. i + 1 # 1 /\ 1 \in DOMAIN rows
        BY <1>1, <4>2
      <4>. HIDE DEF rows
      <4>. QED  BY <1>2, <4>1, <4>3
    <3>2. rows[i + 1] # Head(rows) /\ rows[i + 1] \in Keys
      BY <1>1, <3>1 DEF Handling, Holding
    <3>. QED  BY <2>1, <3>1, <3>2 DEF Handling, ClaimsHold
  <2>2. CASE v # w
    <3>1. run[v].rows \in Seq(Keys) /\ run'[v] = run[v] /\ i \in DOMAIN run[v].rows
      BY <1>3, <1>8, <1>11, <2>2 DEF Run
    <3>2. run[v].rows # <<>> /\ run[v].rows[i] \in Keys
      BY <3>1
    <3>3. run[v].rows[i].student_id # s /\ Head(rows).student_id = s
      BY <1>8, <2>2, <3>1, <3>2, HeadFacts DEF Handling, Holding
    <3>4. outbox'[run[v].rows[i]] = outbox[run[v].rows[i]]
      BY <3>2, <3>3
    <3>. QED  BY <3>1, <3>4 DEF Handling, ClaimsHold
  <2>. QED  BY <2>1, <2>2
<1>. QED  BY <1>7, <1>10, <1>11 DEF Handling, ClaimsHold

LEMMA CompleteHandling ==
  ASSUME Handling, NEW w \in Workers, Complete(w)
  PROVE  Handling'
<1>. DEFINE k == Head(run[w].rows)
<1>1. run[w].rows # <<>> /\ k \in Keys
  BY HeadFacts DEF Complete
<1>2. outbox \in [Keys -> OutboxRow] /\ Box(outbox)
  BY DEF Handling, OutboxTypeOK, Box
<1>3. outbox' = IF OwnsClaim(w, k)
                THEN [outbox EXCEPT ![k].claim_token = None,
                         ![k].status = IF k.operation = "upsert" THEN "indexed" ELSE "deleted"]
                ELSE outbox
  BY DEF Complete
<1>. HIDE DEF k
<1>4. \A j \in Keys : j # k => outbox'[j] = outbox[j]
  BY <1>1, <1>2, <1>3
<1>5. /\ outbox'[k] \in OutboxRow
      /\ outbox'[k].claim_token # None <=> outbox'[k].status = "processing"
  <2>. DEFINE row == [outbox[k] EXCEPT !.claim_token = None,
                        !.status = IF k.operation = "upsert" THEN "indexed" ELSE "deleted"]
  <2>1. outbox[k] \in OutboxRow
    BY <1>1, <1>2
  <2>2. row \in OutboxRow /\ row.claim_token = None /\ row.status # "processing"
    BY <2>1 DEF OutboxRow, OpenStatuses
  <2>3. outbox'[k] = row \/ outbox'[k] = outbox[k]
    BY <1>1, <1>2, <1>3
  <2>. HIDE DEF row
  <2>. QED  BY <1>1, <1>2, <2>1, <2>2, <2>3 DEF Box
<1>6. Box(outbox')
  <2>1. outbox' = [j \in Keys |-> outbox'[j]]
    BY <1>2, <1>3
  <2>. QED  BY <1>2, <1>4, <1>5, <2>1 DEF Box
<1>. QED  BY <1>1, <1>4, <1>6, NextRowHandling DEF Complete, k

LEMMA FailHandling ==
  ASSUME Handling, NEW w \in Workers, MarkFailed(w)
  PROVE  Handling'
<1>. DEFINE k == Head(run[w].rows)
            attempts == outbox[k].attempt_count + 1
            delay == NextRetryDelay(attempts)
<1>1. run[w].rows # <<>> /\ k \in Keys
  BY HeadFacts DEF MarkFailed
<1>2. /\ outbox \in [Keys -> OutboxRow] /\ Box(outbox) /\ outbox[k] \in OutboxRow
      /\ run[w] \in Run
  BY <1>1 DEF Handling, OutboxTypeOK, Box
<1>3. attempts \in Nat \ {0} /\ run[w].timestamp \in 0..MaxTime
  <2>1. outbox[k].attempt_count \in Nat
    BY <1>2 DEF OutboxRow
  <2>2. run[w].timestamp \in 0..MaxTime
    BY <1>2 DEF Run
  <2>. QED  BY <2>1, <2>2
<1>4. (IF delay < 0 THEN 0 ELSE delay) \in Nat
  BY <1>3, OutboxConstants DEF NextRetryDelay, MAX_ATTEMPTS
<1>. DEFINE row == [outbox[k] EXCEPT !.claim_token = None, !.attempt_count = attempts,
                      !.status = IF delay < 0 THEN "dead_letter" ELSE "retrying",
                      !.next_attempt_at =
                         After(run[w].timestamp, IF delay < 0 THEN 0 ELSE delay)]
<1>5. row \in OutboxRow /\ row.claim_token = None /\ row.status # "processing"
  <2>1. After(run[w].timestamp, IF delay < 0 THEN 0 ELSE delay) \in 0..MaxTime
    BY <1>3, <1>4, AfterTyped
  <2>. HIDE DEF attempts, delay
  <2>. QED  BY <1>2, <1>3, <2>1 DEF OutboxRow, OpenStatuses
<1>6. outbox' = IF OwnsClaim(w, k) THEN [outbox EXCEPT ![k] = row] ELSE outbox
  BY <1>2 DEF MarkFailed, OutboxRow
<1>. HIDE DEF k, row
<1>7. /\ Box(outbox') /\ \A j \in Keys : j # k => outbox'[j] = outbox[j]
  BY <1>1, <1>2, <1>5, <1>6 DEF Box
<1>. QED  BY <1>1, <1>7, NextRowHandling DEF MarkFailed, k

LEMMA DiesHandling ==
  ASSUME Handling, NEW w \in Workers, Dies(w)
  PROVE  Handling'
<1>1. /\ run \in [Workers -> Run] /\ outer \in [Workers -> Students \cup {None}]
      /\ lock \in [Students -> Workers \cup {None}]
  BY DEF Handling, OutboxTypeOK
<1>2. /\ run' = [run EXCEPT ![w] = NoRun] /\ outer' = [outer EXCEPT ![w] = None]
      /\ lock' = [s \in Students |-> IF lock[s] = w THEN None ELSE lock[s]]
      /\ UNCHANGED <<now, students, deletions, memories, outbox, docs, seen>>
  BY DEF Dies
<1>3. OutboxTypeOK'
  BY <1>1, <1>2, NoRunTyped DEF Handling, OutboxTypeOK
<1>4. run'[w] = NoRun /\ \A v \in Workers \ {w} : run'[v] = run[v]
  BY <1>1, <1>2
<1>5. Holding'
  <2>1. \A v \in Workers : /\ run'[v].student # None => run'[v].running
                           /\ run'[v].running => HasIndex'
    BY <1>2, <1>4, NoRunTyped DEF Handling, Holding, HasIndex
  <2>2. ASSUME NEW v \in Workers, run'[v].rows # <<>>
        PROVE  v # w /\ run'[v] = run[v] /\ lock'[run[v].student] = v
    BY <1>2, <1>4, <2>2, NoRunTyped DEF Handling, Holding
  <2>. QED  BY <2>1, <2>2 DEF Handling, Holding
<1>6. ClaimsHold'
  <2>1. ASSUME NEW v \in Workers, NEW i \in DOMAIN run'[v].rows PROVE run'[v] = run[v]
    BY <1>4, <2>1, NoRunTyped
  <2>. QED  BY <1>2, <2>1 DEF Handling, ClaimsHold
<1>. QED  BY <1>3, <1>5, <1>6 DEF Handling

LEMMA WorkerHandling ==
  ASSUME Handling, NEW w \in Workers, WorkerStep(w)
  PROVE  Handling'
BY SelectHandling, ClaimHandling, NothingHandling, ApplyHandling, CompleteHandling,
   FailHandling, EndHandling DEF WorkerStep

LEMMA StepHandling == Handling /\ [OutboxNext]_outboxVars => Handling'
<1>. SUFFICES ASSUME Handling, [OutboxNext]_outboxVars PROVE Handling'
  OBVIOUS
<1>1. ASSUME NEW w \in Workers, Crash(w) PROVE Handling'
  BY <1>1, DiesHandling DEF Crash
<1>2. CASE UNCHANGED outboxVars
  <2>1. OutboxTypeOK'
    BY <1>2 DEF outboxVars, Handling, OutboxTypeOK
  <2>. QED  BY <1>2, <2>1, HandlingKept DEF outboxVars
<1>. QED
  BY <1>1, <1>2, TickHandling, WriteHandling, StartHandling, WorkerHandling DEF OutboxNext

\* A worker keeps the claims of the rows it has in hand, whoever else is at work,
\* however long it takes and whatever dies.
THEOREM ClaimsAreHeld == OutboxSpec => []ClaimsHold
<1>1. Handling => ClaimsHold
  BY DEF Handling
<1>. QED  BY <1>1, InitHandling, StepHandling, PTL DEF OutboxSpec

--------------------------------------------------------------------------------
\* A call that the worker takes for applied was applied, and so was every call of
\* a row that is settled.
Delivered ==
    /\ \A w \in Workers : run[w].applied => run[w].rows # <<>> /\ Head(run[w].rows) \in seen
    /\ SettledWasApplied

\* The index remembers what it applied: always, or while no delete call is under way.
Remembered ==
    RemembersKeys \/ \A k \in Keys : k.operation = "delete_student" => outbox[k].status = "absent"

\* A worker brings no row into the table.
LEMMA AbsentStays ==
  ASSUME Handling, NEW w \in Workers, WorkerStep(w), NEW k \in Keys, outbox[k].status = "absent"
  PROVE  outbox'[k].status = "absent"
<1>1. run[w] \in Run /\ outbox \in [Keys -> OutboxRow]
  BY DEF Handling, OutboxTypeOK
<1>2. CASE Claim(w)
  <2>1. PICK n, rows, r : ClaimStep(w, n, rows, r)
    BY <1>2, ClaimFacts
  <2>2. Claimable(w) \subseteq {j \in Keys : outbox[j].status \in OpenStatuses}
    BY <1>1 DEF Claimable, IsDue, Run
  <2>3. \A i \in 1..n : rows[i] # k
    BY <2>1, <2>2 DEF ClaimStep, OpenStatuses
  <2>. QED  BY <2>1, <2>3 DEF ClaimStep
<1>3. CASE Complete(w) \/ MarkFailed(w)
  <2>1. /\ Head(run[w].rows) \in Keys /\ 1 \in DOMAIN run[w].rows
        /\ Head(run[w].rows) = run[w].rows[1]
    BY <1>3, HeadFacts DEF Complete, MarkFailed
  <2>2. Head(run[w].rows) # k
    BY <2>1 DEF Handling, ClaimsHold
  <2>3. outbox'[k] = outbox[k]
    BY <1>1, <1>3, <2>1, <2>2 DEF Complete, MarkFailed
  <2>. QED  BY <2>3
<1>. QED
  BY <1>2, <1>3 DEF WorkerStep, SelectStudent, ClaimNothing, EndRun, IndexApplies

\* The index forgets nothing, and a row a worker settles is one whose call was applied.
LEMMA WorkerDelivers ==
  ASSUME Handling, Delivered, Remembered, NEW w \in Workers, WorkerStep(w)
  PROVE  Delivered'
<1>. USE DEF Delivered
<1>1. /\ run \in [Workers -> Run] /\ run[w] \in Run /\ outbox \in [Keys -> OutboxRow]
  BY DEF Handling, OutboxTypeOK
<1>2. CASE SelectStudent(w) \/ ClaimNothing(w) \/ EndRun(w)
  <2>1. ~run'[w].applied /\ \A v \in Workers \ {w} : run'[v] = run[v]
    <3>1. run[w].rows = <<>>
      BY <1>2, NoRowsYet DEF SelectStudent, ClaimNothing, EndRun
    <3>2. CASE SelectStudent(w)
      BY <1>1, <3>1, <3>2 DEF SelectStudent, Run
    <3>3. CASE ClaimNothing(w)
      BY <1>1, <3>1, <3>3 DEF ClaimNothing, Run
    <3>4. CASE EndRun(w)
      <4>1. ~[NoRun EXCEPT !.room = run[w].room].applied
        BY NoRunTyped DEF NoRun
      <4>. QED  BY <1>1, <3>4, <4>1 DEF EndRun
    <3>. QED  BY <1>2, <3>2, <3>3, <3>4
  <2>2. UNCHANGED <<outbox, seen>>
    BY <1>2 DEF SelectStudent, ClaimNothing, EndRun
  <2>. QED  BY <2>1, <2>2 DEF SettledWasApplied
<1>3. CASE Claim(w)
  <2>1. PICK n, rows, r : ClaimStep(w, n, rows, r)
    BY <1>3, ClaimFacts
  <2>2. ~run[w].applied /\ UNCHANGED seen
    BY <1>3 DEF Claim
  <2>3. ~run'[w].applied /\ \A v \in Workers \ {w} : run'[v] = run[v]
    BY <1>1, <2>1, <2>2 DEF ClaimStep
  <2>4. \A k \in Keys : /\ outbox'[k].status \in {outbox[k].status, "processing"}
                        /\ outbox[k].status = "absent" => outbox'[k] = outbox[k]
    <3>1. Claimable(w) \subseteq {k \in Keys : outbox[k].status \in OpenStatuses}
      BY <1>1 DEF Claimable, IsDue, Run
    <3>2. \A k \in Keys : outbox'[k] =
             IF \E i \in 1..n : rows[i] = k
             THEN [outbox[k] EXCEPT !.status = "processing", !.claim_token = w,
                      !.next_attempt_at = After(run[w].timestamp, Lease)]
             ELSE outbox[k]
      BY <2>1 DEF ClaimStep
    <3>3. \A i \in 1..n : rows[i] \in Keys /\ outbox[rows[i]].status \in OpenStatuses
      BY <2>1, <3>1 DEF ClaimStep
    <3>. SUFFICES ASSUME NEW k \in Keys
                  PROVE  /\ outbox'[k].status \in {outbox[k].status, "processing"}
                         /\ outbox[k].status = "absent" => outbox'[k] = outbox[k]
      OBVIOUS
    <3>4. CASE \E i \in 1..n : rows[i] = k
      <4>1. outbox[k].status \in OpenStatuses
        BY <3>3, <3>4
      <4>2. outbox'[k].status = "processing"
        <5>1. outbox'[k] = [outbox[k] EXCEPT !.status = "processing", !.claim_token = w,
                               !.next_attempt_at = After(run[w].timestamp, Lease)]
          BY <3>2, <3>4
        <5>2. outbox[k] \in OutboxRow
          BY <1>1
        <5>. QED  BY <5>1, <5>2 DEF OutboxRow
      <4>. QED  BY <4>1, <4>2 DEF OpenStatuses
    <3>5. CASE ~\E i \in 1..n : rows[i] = k
      <4>1. outbox'[k] = outbox[k]
        BY <3>2, <3>5
      <4>. QED  BY <4>1
    <3>. QED  BY <3>4, <3>5
  <2>. QED  BY <2>2, <2>3, <2>4 DEF SettledWasApplied
<1>4. CASE IndexApplies(w)
  <2>. DEFINE k == Head(run[w].rows)
  <2>1. k \in Keys /\ run[w].rows # <<>> /\ 1 \in DOMAIN run[w].rows /\ k = run[w].rows[1]
    BY <1>4, HeadFacts DEF IndexApplies
  <2>2. RemembersKeys \/ k.operation = "upsert"
    <3>1. outbox[k].status = "processing"
      BY <2>1 DEF Handling, ClaimsHold
    <3>. QED  BY <2>1, <3>1, KeyFacts DEF Remembered
  <2>3. seen' = seen \cup {k} /\ UNCHANGED outbox
    BY <1>4, <2>2 DEF IndexApplies
  <2>4. \A v \in Workers : run'[v].rows = run[v].rows /\ (v # w => run'[v] = run[v])
    BY <1>1, <1>4 DEF IndexApplies, Run
  <2>. QED  BY <2>1, <2>3, <2>4 DEF SettledWasApplied
<1>5. CASE Complete(w) \/ MarkFailed(w)
  <2>. DEFINE k == Head(run[w].rows)
  <2>1. k \in Keys /\ UNCHANGED seen /\ 1 \in DOMAIN run[w].rows /\ k = run[w].rows[1]
    BY <1>5, HeadFacts DEF Complete, MarkFailed
  <2>2. ~run'[w].applied /\ \A v \in Workers \ {w} : run'[v] = run[v]
    BY <1>1, <1>5, NextRowMoves DEF Complete, MarkFailed
  <2>3. outbox[k].status = "processing"
    BY <2>1 DEF Handling, ClaimsHold
  <2>4. \A j \in Keys : j # k => outbox'[j] = outbox[j]
    BY <1>1, <1>5, <2>1 DEF Complete, MarkFailed
  <2>5. outbox'[k].status \in {"indexed", "deleted"} => k \in seen
    <3>1. CASE Complete(w)
      BY <3>1, <2>1 DEF Complete
    <3>2. CASE MarkFailed(w)
      <4>. DEFINE attempts == outbox[k].attempt_count + 1
                  delay == NextRetryDelay(attempts)
                  failed == [outbox[k] EXCEPT !.claim_token = None, !.attempt_count = attempts,
                                !.status = IF delay < 0 THEN "dead_letter" ELSE "retrying",
                                !.next_attempt_at =
                                   After(run[w].timestamp, IF delay < 0 THEN 0 ELSE delay)]
      <4>1. /\ outbox[k] \in OutboxRow /\ k \in DOMAIN outbox
        BY <1>1, <2>1
      <4>2. failed.status \in {"dead_letter", "retrying"}
        <5>. HIDE DEF attempts, delay
        <5>. QED  BY <4>1 DEF OutboxRow
      <4>3. outbox'[k] = failed \/ outbox'[k] = outbox[k]
        BY <3>2, <4>1 DEF MarkFailed
      <4>. HIDE DEF failed
      <4>. QED  BY <2>3, <4>2, <4>3
    <3>. QED  BY <1>5, <3>1, <3>2
  <2>. HIDE DEF k
  <2>. QED  BY <2>1, <2>2, <2>3, <2>4, <2>5 DEF SettledWasApplied
<1>. QED  BY <1>2, <1>3, <1>4, <1>5 DEF WorkerStep

LEMMA WriteDelivered ==
  ASSUME Handling, Delivered, NEW m \in Memories, WriteMemory(m)
  PROVE  /\ Delivered'
         /\ \A k \in Keys : k.operation = "delete_student" => outbox'[k] = outbox[k]
<1>. DEFINE K == {UpsertKey(m, memories[m] + 1)}
<1>1. Box(outbox) /\ now \in 0..MaxTime
  BY DEF Handling, OutboxTypeOK, Box
<1>2. \A k \in Keys : /\ k \notin K => outbox'[k] = outbox[k]
                      /\ outbox'[k].status \in {outbox[k].status, "pending"}
  BY <1>1, EnqueuedTyped DEF WriteMemory
<1>3. UNCHANGED <<run, seen>>
  BY DEF WriteMemory
<1>4. \A k \in Keys : k.operation = "delete_student" => k \notin K
  BY DEF UpsertKey
<1>. HIDE DEF K
<1>. QED  BY <1>2, <1>3, <1>4 DEF Delivered, SettledWasApplied

LEMMA DiesDelivered ==
  ASSUME Handling, Delivered, NEW w \in Workers, Dies(w)
  PROVE  Delivered'
<1>1. run' = [run EXCEPT ![w] = NoRun] /\ UNCHANGED <<outbox, seen>>
  BY DEF Dies
<1>2. \A v \in Workers : run'[v].applied => run'[v] = run[v]
  BY <1>1, NoRunTyped DEF Handling, OutboxTypeOK
<1>. QED  BY <1>1, <1>2 DEF Delivered, SettledWasApplied

LEMMA StartDelivered ==
  ASSUME Handling, Delivered, NEW w \in Workers, StartRun(w)
  PROVE  Delivered'
<1>1. now \in 0..MaxTime /\ run \in [Workers -> Run]
  BY DEF Handling, OutboxTypeOK
<1>2. ~RunOf(now, None, Keys).applied
  BY <1>1, RunOfTyped
<1>3. \A v \in Workers : run'[v].applied => run'[v] = run[v]
  BY <1>1, <1>2 DEF StartRun
<1>. QED  BY <1>3 DEF StartRun, Delivered, SettledWasApplied

NoDeleteRows == \A k \in Keys : k.operation = "delete_student" => outbox[k].status = "absent"

LEMMA StepDelivered ==
  Handling /\ Delivered /\ NoDeleteRows /\ [OutboxNext]_outboxVars => Delivered' /\ NoDeleteRows'
<1>. SUFFICES ASSUME Handling, Delivered, NoDeleteRows, [OutboxNext]_outboxVars
              PROVE  Delivered' /\ NoDeleteRows'
  OBVIOUS
<1>. USE DEF NoDeleteRows
<1>1. CASE Tick \/ UNCHANGED outboxVars
  BY <1>1 DEF Tick, outboxVars, Delivered, SettledWasApplied
<1>2. ASSUME NEW m \in Memories, WriteMemory(m) PROVE Delivered' /\ NoDeleteRows'
  BY <1>2, WriteDelivered
<1>3. ASSUME NEW w \in Workers, StartRun(w) PROVE Delivered' /\ NoDeleteRows'
  BY <1>3, StartDelivered DEF StartRun
<1>4. ASSUME NEW w \in Workers, WorkerStep(w) PROVE Delivered' /\ NoDeleteRows'
  BY <1>4, WorkerDelivers, AbsentStays DEF Remembered
<1>5. ASSUME NEW w \in Workers, Crash(w) PROVE Delivered' /\ NoDeleteRows'
  BY <1>5, DiesDelivered DEF Crash, Dies
<1>. QED  BY <1>1, <1>2, <1>3, <1>4, <1>5 DEF OutboxNext

\* A row is settled only after the index applied its call, through deaths between the
\* delivery and its confirmation, retries and other workers.
THEOREM SettledWasDelivered == OutboxSpec => []SettledWasApplied
<1>1. OutboxInit => Delivered /\ NoDeleteRows
  BY NoRunTyped, NoRowTyped DEF OutboxInit, Delivered, SettledWasApplied, NoDeleteRows
<1>2. Delivered => SettledWasApplied
  BY DEF Delivered
<1>. QED  BY <1>1, <1>2, InitHandling, StepHandling, StepDelivered, PTL DEF OutboxSpec

--------------------------------------------------------------------------------
\* The operations around the outbox.  Who occupies a student holds its lock, and a
\* student whose index is rebuilt is no student on the way to deletion.
Occupied(w) == job[w].task \in {"completion", "rebuild"}

Guarded ==
    /\ job \in [Workers -> Job]
    /\ \A w \in Workers :
          /\ outer[w] = IF Occupied(w) THEN job[w].student ELSE None
          /\ Occupied(w) => /\ job[w].student \in Students /\ HasIndex
                            /\ lock[job[w].student] = w
          /\ job[w].task = "rebuild" => IsActive(job[w].student)

\* What is left of a student whose deletion was carried out, and the index that a
\* deployment in local mode does not have.
Emptied ==
    /\ ~HasIndex => \A m \in Memories : docs[m] = 0
    /\ \A s \in Students : deletions[s] \notin {"none", "requested"} =>
          /\ \A m \in Owned(s) : memories[m] = 0
          /\ \A k \in RowsOf(s) : k.operation = "upsert" => outbox[k].status = "absent"
    /\ VerifiedMeansEmpty

LEMMA NoJobTyped == NoJob \in Job /\ NoJob.task = "none"
BY OutboxConstants, ReplayConstants DEF NoJob, Job

LEMMA InitGuarded == DeletionInit => Handling /\ Guarded /\ Emptied
<1>. SUFFICES ASSUME DeletionInit PROVE Handling /\ Guarded /\ Emptied
  OBVIOUS
<1>1. Handling
  BY InitHandling DEF DeletionInit
<1>2. \A w \in Workers : job[w] = NoJob /\ outer[w] = None
  BY DEF DeletionInit, OutboxInit
<1>3. Guarded
  BY <1>2, NoJobTyped DEF DeletionInit, Guarded, Occupied
<1>4. Emptied
  BY DEF DeletionInit, OutboxInit, Emptied, VerifiedMeansEmpty
<1>. QED  BY <1>1, <1>3, <1>4

\* The third part of DeletedStudentHasNoWork: a row in hand is a claimed one.
LEMMA EmptiedHasNoWork == Handling /\ Emptied => DeletedStudentHasNoWork
<1>. SUFFICES ASSUME Handling, Emptied, NEW s \in Students,
                     deletions[s] \notin {"none", "requested"},
                     NEW w \in Workers, NEW i \in DOMAIN run[w].rows,
                     run[w].rows[i].student_id = s
              PROVE  run[w].rows[i].operation = "delete_student"
  BY DEF DeletedStudentHasNoWork, Emptied
<1>1. run[w].rows[i] \in Keys
  BY DEF Handling, OutboxTypeOK, Run
<1>2. outbox[run[w].rows[i]].status = "processing"
  BY DEF Handling, ClaimsHold
<1>. QED  BY <1>1, <1>2, KeyFacts DEF Emptied, RowsOf

\* Steps of the operations as Handling sees them: a worker without rows gets or ends
\* a run, and a lock is taken or let go that no worker with rows relies on.
LEMMA TakeOver ==
  ASSUME Handling, OutboxTypeOK', NEW w \in Workers, NEW r \in Run,
         run' = [run EXCEPT ![w] = r], run[w].rows = <<>>, r.rows = <<>>,
         r.student = None, r.running => HasIndex, UNCHANGED seen,
         \A v \in Workers : run[v].rows # <<>> => lock'[run[v].student] = v,
         \A v \in Workers : \A i \in DOMAIN run[v].rows :
            LET k == run[v].rows[i] IN outbox'[k] = outbox[k]
  PROVE  Handling'
<1>1. run'[w] = r /\ \A v \in Workers \ {w} : run'[v] = run[v]
  BY DEF Handling, OutboxTypeOK
<1>2. \A v \in Workers : run'[v].rows # <<>> => v # w /\ run'[v] = run[v]
  BY <1>1
<1>3. Holding'
  <2>1. \A v \in Workers : /\ run'[v].student # None => run'[v].running
                           /\ run'[v].running => HasIndex'
    BY <1>1 DEF Handling, Holding, HasIndex
  <2>. QED  BY <1>2, <2>1 DEF Handling, Holding
<1>4. ClaimsHold'
  <2>1. ASSUME NEW v \in Workers, NEW i \in DOMAIN run'[v].rows PROVE run'[v] = run[v]
    BY <1>1
  <2>. QED  BY <2>1 DEF Handling, ClaimsHold
<1>. QED  BY <1>3, <1>4 DEF Handling

\* Rows of a student are exchanged under its lock, or such that no claimed row changes.
LEMMA FreeRowsKept ==
  ASSUME Handling, NEW s \in Students, LockFree(s),
         \A k \in Keys : k.student_id # s => outbox'[k] = outbox[k]
  PROVE  \A w \in Workers : \A i \in DOMAIN run[w].rows :
            LET k == run[w].rows[i] IN outbox'[k] = outbox[k]
BY FreeMeansIdle

LEMMA ClaimedRowsKept ==
  ASSUME Handling, \A k \in Keys : outbox[k].status = "processing" => outbox'[k] = outbox[k]
  PROVE  \A w \in Workers : \A i \in DOMAIN run[w].rows :
            LET k == run[w].rows[i] IN outbox'[k] = outbox[k]
<1>. SUFFICES ASSUME NEW w \in Workers, NEW i \in DOMAIN run[w].rows
              PROVE  outbox'[run[w].rows[i]] = outbox[run[w].rows[i]]
  OBVIOUS
<1>1. run[w].rows[i] \in Keys
  BY DEF Handling, OutboxTypeOK, Run
<1>. QED  BY <1>1 DEF Handling, ClaimsHold

\* A worker whose run is over has no student whose lock it would hold for a row.
LEMMA OthersKeepLocks ==
  ASSUME Handling, NEW w \in Workers, NEW s \in Students, LockFree(s) \/ lock[s] = w,
         ~run[w].running, NEW x, lock' = [lock EXCEPT ![s] = x]
  PROVE  \A v \in Workers : run[v].rows # <<>> => lock'[run[v].student] = v
<1>. SUFFICES ASSUME NEW v \in Workers, run[v].rows # <<>>
              PROVE  lock'[run[v].student] = v
  OBVIOUS
<1>1. run[v].student \in Students /\ lock[run[v].student] = v /\ v # w
  BY NoRowsYet DEF Handling, Holding
<1>2. run[v].student # s
  BY <1>1, OutboxConstants DEF LockFree
<1>. QED  BY <1>1, <1>2 DEF Handling, OutboxTypeOK

Whole == Handling /\ Guarded /\ Emptied

\* A step that leaves operations, students and the index alone keeps Guarded when it
\* keeps the locks of those who occupy a student, and Emptied when it brings neither
\* a memory nor a row of one to a student on the way to deletion.
LEMMA GuardedKept ==
  ASSUME Guarded, UNCHANGED <<job, outer, students, deletions, seen>>,
         \A w \in Workers : outer[w] # None => lock'[outer[w]] = w
  PROVE  Guarded'
<1>1. \A w \in Workers : Occupied(w) => outer[w] = job[w].student /\ outer[w] # None
  BY OutboxConstants DEF Guarded
<1>. QED  BY <1>1 DEF Guarded, Occupied, HasIndex, IsActive

LEMMA EmptiedKept ==
  ASSUME Emptied, UNCHANGED <<students, deletions, docs, seen>>,
         \A s \in Students : deletions[s] \notin {"none", "requested"} =>
            /\ \A m \in Owned(s) : memories[m] = 0 => memories'[m] = 0
            /\ \A k \in RowsOf(s) : k.operation = "upsert" /\ outbox[k].status = "absent"
                  => outbox'[k].status = "absent"
  PROVE  Emptied'
BY DEF Emptied, VerifiedMeansEmpty, HasIndex, Owned, RowsOf

LEMMA TickWhole == ASSUME Whole, Tick, UNCHANGED job PROVE Whole'
<1>1. Handling'
  BY TickHandling DEF Whole
<1>2. Guarded'
  BY DEF Tick, Whole, Guarded, Occupied, HasIndex, IsActive
<1>3. Emptied'
  BY EmptiedKept DEF Tick, Whole
<1>. QED  BY <1>1, <1>2, <1>3 DEF Whole

LEMMA WriteWhole ==
  ASSUME Whole, NEW m \in Memories, WriteMemory(m), UNCHANGED job
  PROVE  Whole'
<1>. DEFINE K == {UpsertKey(m, memories[m] + 1)}
<1>1. Box(outbox) /\ now \in 0..MaxTime /\ memories \in [Memories -> 0..MaxVersion]
  BY DEF Whole, Handling, OutboxTypeOK, Box
<1>2. /\ \A k \in Keys : k.student_id # Owner[m] => outbox'[k] = outbox[k]
      /\ \A n \in Memories : n # m => memories'[n] = memories[n]
  <2>1. \A k \in Keys : k \notin K => outbox'[k] = outbox[k]
    BY <1>1, EnqueuedTyped DEF WriteMemory
  <2>2. \A k \in K : k.student_id = Owner[m]
    BY DEF UpsertKey
  <2>. HIDE DEF K
  <2>. QED  BY <1>1, <2>1, <2>2 DEF WriteMemory
<1>3. deletions[Owner[m]] = "none"
  BY DEF WriteMemory, IsActive
<1>4. Handling'
  BY WriteHandling DEF Whole
<1>5. Guarded'
  BY DEF WriteMemory, Whole, Guarded, Occupied, HasIndex, IsActive
<1>6. Emptied'
  <2>1. ASSUME NEW s \in Students, deletions[s] \notin {"none", "requested"}
        PROVE  /\ \A n \in Owned(s) : memories'[n] = memories[n]
               /\ \A k \in RowsOf(s) : outbox'[k] = outbox[k]
    BY <1>2, <1>3, <2>1 DEF Owned, RowsOf
  <2>. QED  BY <2>1, EmptiedKept DEF WriteMemory, Whole
<1>. QED  BY <1>4, <1>5, <1>6 DEF Whole

\* Locks of those who occupy a student, through the steps of a worker.
LEMMA WorkerLocks ==
  ASSUME Whole, NEW w \in Workers, WorkerStep(w), NEW v \in Workers, outer[v] # None
  PROVE  lock'[outer[v]] = v
<1>1. /\ outer[v] \in Students /\ lock[outer[v]] = v /\ run[w] \in Run
      /\ lock \in [Students -> Workers \cup {None}]
  BY DEF Whole, Guarded, Handling, OutboxTypeOK
<1>2. CASE Claim(w)
  <2>1. /\ lock' = [lock EXCEPT ![run[w].student] = w] /\ CanLock(w, run[w].student)
    BY <1>2 DEF Claim
  <2>. QED  BY <1>1, <2>1, OutboxConstants DEF CanLock
<1>3. CASE Complete(w) \/ MarkFailed(w)
  <2>1. /\ lock[run[w].student] = w
        /\ lock' = IF Len(run[w].rows) = 1 THEN Unlocked(w, run[w].student) ELSE lock
    BY <1>3 DEF Complete, MarkFailed, NextRow
  <2>. QED  BY <1>1, <2>1 DEF Unlocked
<1>. QED
  BY <1>1, <1>2, <1>3 DEF WorkerStep, SelectStudent, ClaimNothing, EndRun, IndexApplies

LEMMA WorkerWhole ==
  ASSUME Whole, NEW w \in Workers, WorkerStep(w), UNCHANGED job
  PROVE  Whole'
<1>1. UNCHANGED <<now, students, deletions, memories, outer>>
  BY DEF WorkerStep, SelectStudent, Claim, ClaimNothing, EndRun, IndexApplies, Complete, MarkFailed
<1>2. Handling'
  BY WorkerHandling DEF Whole
<1>3. \A s \in Students : \A k \in RowsOf(s) : outbox[k].status = "absent"
                                                  => outbox'[k].status = "absent"
  BY AbsentStays DEF Whole, RowsOf
<1>4. CASE IndexApplies(w)
  <2>. DEFINE k == Head(run[w].rows)
  <2>1. /\ k \in Keys /\ HasIndex /\ 1 \in DOMAIN run[w].rows /\ k = run[w].rows[1]
    BY <1>4, HeadFacts DEF IndexApplies, Whole
  <2>2. outbox[k].status = "processing"
    BY <2>1 DEF Whole, Handling, ClaimsHold
  <2>3. UNCHANGED <<lock, outbox>>
    BY <1>4 DEF IndexApplies
  <2>4. HasIndex'
    <3>1. seen \in SUBSET Keys
      BY <2>1 DEF Whole, Handling, OutboxTypeOK, HasIndex
    <3>2. seen' \in SUBSET Keys
      BY <1>4, <2>1, <3>1 DEF IndexApplies, RowsOf
    <3>. QED  BY <3>2, NoneIsNoSet DEF HasIndex
  <2>5. Guarded'
    BY <1>1, <2>1, <2>3, <2>4 DEF Whole, Guarded, Occupied, IsActive
  <2>6. ASSUME NEW s \in Students, deletions[s] = "verified", NEW m \in Owned(s)
        PROVE  docs'[m] = 0
    <3>1. m \in Memories /\ Owner[m] = s /\ docs[m] = 0 /\ docs \in [Memories -> 0..MaxVersion]
      BY <2>6 DEF Whole, Emptied, VerifiedMeansEmpty, Owned, Handling, OutboxTypeOK
    <3>2. k.operation = "upsert" => k.aggregate # m
      BY <2>1, <2>2, <2>6, <3>1, KeyFacts DEF Whole, Emptied, RowsOf
    <3>3. docs' = IF k \in seen THEN docs
                  ELSE IF k.operation = "upsert" THEN [docs EXCEPT ![k.aggregate] = k.version]
                  ELSE [n \in Memories |-> IF Owner[n] = k.student_id THEN 0 ELSE docs[n]]
      BY <1>4 DEF IndexApplies
    <3>. HIDE DEF k
    <3>. QED  BY <3>1, <3>2, <3>3
  <2>7. Emptied'
    BY <1>1, <2>3, <2>4, <2>6 DEF Whole, Emptied, VerifiedMeansEmpty, Owned, RowsOf
  <2>. QED  BY <1>2, <2>5, <2>7 DEF Whole
<1>5. CASE ~IndexApplies(w)
  <2>1. UNCHANGED <<docs, seen>>
    BY <1>5 DEF WorkerStep, SelectStudent, Claim, ClaimNothing, EndRun, Complete, MarkFailed
  <2>2. Guarded'
    BY <1>1, <2>1, WorkerLocks, GuardedKept DEF Whole
  <2>3. Emptied'
    BY <1>1, <1>3, <2>1, EmptiedKept DEF Whole
  <2>. QED  BY <1>2, <2>2, <2>3 DEF Whole
<1>. QED  BY <1>4, <1>5

LEMMA StartWhole ==
  ASSUME Whole, NEW w \in Workers, StartRun(w), UNCHANGED job
  PROVE  Whole'
<1>1. Handling'
  BY StartHandling DEF Whole
<1>2. Guarded'
  BY DEF StartRun, Whole, Guarded, Occupied, HasIndex, IsActive
<1>3. Emptied'
  BY EmptiedKept DEF StartRun, Whole
<1>. QED  BY <1>1, <1>2, <1>3 DEF Whole

LEMMA CrashWhole ==
  ASSUME Whole, NEW w \in Workers, JobCrash(w)
  PROVE  Whole'
<1>1. Handling'
  BY DiesHandling DEF Whole, JobCrash
<1>2. Guarded'
  <2>1. /\ job' = [job EXCEPT ![w] = NoJob] /\ outer' = [outer EXCEPT ![w] = None]
        /\ lock' = [s \in Students |-> IF lock[s] = w THEN None ELSE lock[s]]
        /\ UNCHANGED <<students, deletions, seen>>
    BY DEF JobCrash, Dies
  <2>2. job \in [Workers -> Job] /\ outer \in [Workers -> Students \cup {None}]
    BY DEF Whole, Guarded, Handling, OutboxTypeOK
  <2>3. job'[w] = NoJob /\ outer'[w] = None /\ job' \in [Workers -> Job]
    BY <2>1, <2>2, NoJobTyped
  <2>4. \A v \in Workers \ {w} : job'[v] = job[v] /\ outer'[v] = outer[v]
    BY <2>1, <2>2
  <2>5. \A v \in Workers : Occupied(v)' => v # w /\ Occupied(v)
    BY <2>3, <2>4, NoJobTyped DEF Occupied
  <2>6. ASSUME NEW v \in Workers \ {w}, Occupied(v) PROVE lock'[job[v].student] = v
    BY <2>1, <2>6 DEF Whole, Guarded
  <2>. QED  BY <2>1, <2>3, <2>4, <2>5, <2>6, NoJobTyped DEF Whole, Guarded, HasIndex, IsActive, Occupied
<1>3. Emptied'
  BY EmptiedKept DEF JobCrash, Dies, Whole
<1>. QED  BY <1>1, <1>2, <1>3 DEF Whole

--------------------------------------------------------------------------------
\* The steps of the deletion protocol.
LEMMA RequestWhole ==
  ASSUME Whole, NEW s \in Students, RequestDeletion(s)
  PROVE  Whole'
<1>1. /\ LockFree(s) /\ students[s] = "active" /\ deletions[s] \in {"none", "requested"}
      /\ deletions' = [deletions EXCEPT ![s] = "requested"]
      /\ students' = [students EXCEPT ![s] = "deletion_pending"]
      /\ UNCHANGED <<now, memories, outbox, lock, outer, run, docs, seen, job>>
  BY DEF RequestDeletion, SetState, Allowed, Whole, Handling, OutboxTypeOK, DeletionStates
<1>2. OutboxTypeOK'
  BY <1>1 DEF Whole, Handling, OutboxTypeOK, DeletionStates
<1>3. Handling'
  BY <1>1, <1>2, HandlingKept DEF Whole
<1>4. ASSUME NEW w \in Workers, Occupied(w) PROVE job[w].student # s
  BY <1>1, <1>4, OutboxConstants DEF Whole, Guarded, LockFree
<1>5. Guarded'
  BY <1>1, <1>4 DEF Whole, Guarded, Occupied, HasIndex, IsActive, Handling, OutboxTypeOK
<1>6. \A t \in Students : deletions'[t] \notin {"none", "requested"}
                             => t # s /\ deletions'[t] = deletions[t] /\ students'[t] = students[t]
  BY <1>1 DEF Whole, Handling, OutboxTypeOK
<1>7. Emptied'
  BY <1>1, <1>6 DEF Whole, Emptied, VerifiedMeansEmpty, HasIndex, Owned, RowsOf
<1>. QED  BY <1>3, <1>5, <1>7 DEF Whole

\* The rows of a student replaced by its delete row.
LEMMA Replaced ==
  ASSUME Handling, NEW s \in Students, outbox' = Enqueued(Cleared(outbox, s), {DeleteKey(s)}, now)
  PROVE  /\ Box(outbox')
         /\ \A k \in Keys : /\ k.student_id # s => outbox'[k] = outbox[k]
                            /\ k.student_id = s /\ k.operation = "upsert"
                                  => outbox'[k].status = "absent"
<1>1. Box(outbox) /\ now \in 0..MaxTime
  BY DEF Handling, OutboxTypeOK, Box
<1>2. /\ Box(Cleared(outbox, s))
      /\ \A k \in Keys : Cleared(outbox, s)[k] = IF k.student_id = s THEN NoRow ELSE outbox[k]
  BY <1>1, ClearedTyped
<1>3. /\ Box(outbox')
      /\ \A k \in Keys : k # DeleteKey(s) => outbox'[k] = Cleared(outbox, s)[k]
  BY <1>1, <1>2, EnqueuedTyped
<1>4. DeleteKey(s).student_id = s /\ DeleteKey(s).operation = "delete_student"
  BY DEF DeleteKey
<1>. QED  BY <1>2, <1>3, <1>4, NoRowTyped

LEMMA ExecuteWhole ==
  ASSUME Whole, NEW s \in Students, ExecuteDeletion(s)
  PROVE  Whole'
<1>1. /\ LockFree(s) /\ deletions[s] \in {"requested", "sqlite_deleted"}
      /\ deletions' = [deletions EXCEPT ![s] = "sqlite_deleted"]
      /\ memories' = [m \in Memories |-> IF m \in Owned(s) THEN 0 ELSE memories[m]]
      /\ outbox' = Enqueued(Cleared(outbox, s), {DeleteKey(s)}, now)
      /\ UNCHANGED <<now, students, lock, outer, run, docs, seen, job>>
  BY DEF ExecuteDeletion, SetState, Allowed, Whole, Handling, OutboxTypeOK, DeletionStates
<1>2. /\ Box(outbox')
      /\ \A k \in Keys : /\ k.student_id # s => outbox'[k] = outbox[k]
                         /\ k.student_id = s /\ k.operation = "upsert"
                               => outbox'[k].status = "absent"
  BY <1>1, Replaced DEF Whole
<1>3. memories' \in [Memories -> 0..MaxVersion]
  BY <1>1, OutboxConstants DEF Whole, Handling, OutboxTypeOK
<1>4. OutboxTypeOK'
  BY <1>1, <1>2, <1>3 DEF Whole, Handling, OutboxTypeOK, DeletionStates, Box
<1>5. Handling'
  BY <1>1, <1>2, <1>4, FreeRowsKept, HandlingKept DEF Whole
<1>6. ASSUME NEW w \in Workers, Occupied(w) PROVE job[w].student # s
  BY <1>1, <1>6, OutboxConstants DEF Whole, Guarded, LockFree
<1>7. Guarded'
  BY <1>1, <1>6 DEF Whole, Guarded, Occupied, HasIndex, IsActive, Handling, OutboxTypeOK
<1>8. ASSUME NEW t \in Students, deletions'[t] \notin {"none", "requested"}
      PROVE  /\ \A m \in Owned(t) : memories'[m] = 0
             /\ \A k \in RowsOf(t) : k.operation = "upsert" => outbox'[k].status = "absent"
  <2>1. CASE t = s
    BY <1>1, <1>2, <2>1 DEF Owned, RowsOf
  <2>2. CASE t # s
    <3>1. deletions'[t] = deletions[t]
      BY <1>1, <2>2 DEF Whole, Handling, OutboxTypeOK
    <3>2. \A m \in Owned(t) : memories'[m] = memories[m]
      BY <1>1, <2>2 DEF Owned
    <3>3. \A k \in RowsOf(t) : outbox'[k] = outbox[k]
      BY <1>2, <2>2 DEF RowsOf
    <3>. QED  BY <1>8, <3>1, <3>2, <3>3 DEF Whole, Emptied
  <2>. QED  BY <2>1, <2>2
<1>9. VerifiedMeansEmpty'
  BY <1>1 DEF Whole, Emptied, VerifiedMeansEmpty, Owned, Handling, OutboxTypeOK
<1>10. Emptied'
  BY <1>1, <1>8, <1>9 DEF Whole, Emptied, HasIndex, Owned, RowsOf
<1>. QED  BY <1>5, <1>7, <1>10 DEF Whole

\* A deletion that was carried out changes its state: what was emptied stays empty, and
\* it is verified only of a student with nothing in the index.
LEMMA Decided ==
  ASSUME Whole, NEW s \in Students, deletions' = [deletions EXCEPT ![s] = deletions'[s]],
         deletions[s] \notin {"none", "requested"}, deletions'[s] \notin {"none", "requested"},
         students' = [students EXCEPT ![s] = students'[s]],
         deletions'[s] = "verified" => students'[s] = "deleted" /\ NotRetrievable(s),
         UNCHANGED <<memories, outbox, docs, seen>>
  PROVE  Emptied'
<1>1. \A t \in Students \ {s} : deletions'[t] = deletions[t] /\ students'[t] = students[t]
  BY DEF Whole, Handling, OutboxTypeOK
<1>2. ASSUME NEW t \in Students, deletions'[t] \notin {"none", "requested"}
      PROVE  /\ \A m \in Owned(t) : memories'[m] = 0
             /\ \A k \in RowsOf(t) : k.operation = "upsert" => outbox'[k].status = "absent"
  BY <1>1, <1>2 DEF Whole, Emptied
<1>3. VerifiedMeansEmpty'
  BY <1>1 DEF Whole, Emptied, VerifiedMeansEmpty, NotRetrievable, Owned
<1>. QED  BY <1>2, <1>3 DEF Whole, Emptied, HasIndex, Owned, RowsOf

LEMMA LocalWhole ==
  ASSUME Whole, NEW w \in Workers, NEW s \in Students, CompleteLocally(w, s)
  PROVE  Whole'
<1>1. /\ ~HasIndex /\ LockFree(s) /\ deletions[s] \in {"sqlite_deleted", "index_deletion_pending"}
      /\ deletions' = [deletions EXCEPT ![s] = "verified"]
      /\ students' = [students EXCEPT ![s] = "deleted"]
      /\ UNCHANGED <<now, memories, outbox, lock, outer, run, docs, seen, job>>
  BY DEF CompleteLocally, CanComplete, FinalizeVerified, SetState
<1>2. OutboxTypeOK'
  BY <1>1 DEF Whole, Handling, OutboxTypeOK, DeletionStates
<1>3. Handling'
  BY <1>1, <1>2, HandlingKept DEF Whole
<1>4. ASSUME NEW v \in Workers, Occupied(v) PROVE job[v].student # s
  BY <1>1, <1>4, OutboxConstants DEF Whole, Guarded, LockFree
<1>5. Guarded'
  BY <1>1, <1>4 DEF Whole, Guarded, Occupied, HasIndex, IsActive, Handling, OutboxTypeOK
<1>6. NotRetrievable(s)
  BY <1>1 DEF Whole, Emptied, NotRetrievable, Owned
<1>7. deletions'[s] = "verified" /\ students'[s] = "deleted"
  BY <1>1 DEF Whole, Handling, OutboxTypeOK
<1>8. Emptied'
  BY <1>1, <1>6, <1>7, Decided
<1>. QED  BY <1>3, <1>5, <1>8 DEF Whole

\* An operation takes a student's lock and starts its run, whatever it does to the
\* student's rows.
LEMMA BeginWhole ==
  ASSUME Whole, NEW w \in Workers, NEW s \in Students, NEW j \in Job, Begin(w, s, j),
         j.task \in {"completion", "rebuild"}, j.student = s, j.task = "rebuild" => IsActive(s),
         HasIndex, Box(outbox'), \A k \in Keys : k.student_id # s => outbox'[k] = outbox[k],
         UNCHANGED <<now, students, deletions, memories, docs, seen>>
  PROVE  Handling' /\ Guarded'
<1>1. /\ LockFree(s) /\ job[w].task = "none" /\ ~run[w].running
      /\ lock' = [lock EXCEPT ![s] = w] /\ outer' = [outer EXCEPT ![w] = s]
      /\ job' = [job EXCEPT ![w] = j] /\ run' = [run EXCEPT ![w] = RunOf(now, s, Keys)]
  BY DEF Begin, IsIdle
<1>2. /\ lock \in [Students -> Workers \cup {None}] /\ outer \in [Workers -> Students \cup {None}]
      /\ job \in [Workers -> Job] /\ run \in [Workers -> Run] /\ now \in 0..MaxTime
  BY DEF Whole, Guarded, Handling, OutboxTypeOK
<1>3. /\ RunOf(now, s, Keys) \in Run /\ RunOf(now, s, Keys).rows = <<>>
      /\ RunOf(now, s, Keys).student = None
  BY <1>2, RunOfTyped
<1>4. OutboxTypeOK'
  BY <1>1, <1>2, <1>3 DEF Whole, Handling, OutboxTypeOK, Box
<1>5. run[w].rows = <<>>
  BY <1>1, NoRowsYet DEF Whole
<1>6. \A v \in Workers : run[v].rows # <<>> => lock'[run[v].student] = v
  BY <1>1, OthersKeepLocks DEF Whole
<1>7. Handling'
  <2>1. \A v \in Workers : \A i \in DOMAIN run[v].rows :
           LET k == run[v].rows[i] IN outbox'[k] = outbox[k]
    BY <1>1, FreeRowsKept DEF Whole
  <2>. QED  BY <1>1, <1>3, <1>4, <1>5, <1>6, <2>1, TakeOver DEF Whole
<1>8. job'[w] = j /\ outer'[w] = s /\ lock'[s] = w /\ job' \in [Workers -> Job]
  BY <1>1, <1>2
<1>9. ASSUME NEW v \in Workers \ {w}
      PROVE  /\ job'[v] = job[v] /\ outer'[v] = outer[v]
             /\ Occupied(v) => lock'[job[v].student] = v
  <2>1. job'[v] = job[v] /\ outer'[v] = outer[v]
    BY <1>1, <1>2
  <2>2. Occupied(v) => job[v].student # s /\ lock[job[v].student] = v /\ job[v].student \in Students
    BY <1>1, OutboxConstants DEF Whole, Guarded, LockFree
  <2>. QED  BY <1>1, <1>2, <2>1, <2>2
<1>10. Guarded'
  BY <1>8, <1>9 DEF Whole, Guarded, Occupied, HasIndex, IsActive
<1>. QED  BY <1>7, <1>10

LEMMA BeginCompletionWhole ==
  ASSUME Whole, NEW w \in Workers, NEW s \in Students, BeginCompletion(w, s)
  PROVE  Whole'
<1>. DEFINE j == [NoJob EXCEPT !.task = "completion", !.student = s]
<1>1. j \in Job /\ j.task = "completion" /\ j.student = s
  BY NoJobTyped DEF NoJob, Job
<1>2. Box(outbox') /\ \A k \in Keys : outbox'[k] = outbox[k]
  BY DEF BeginCompletion, Whole, Handling, OutboxTypeOK, Box
<1>. HIDE DEF j
<1>3. Handling' /\ Guarded'
  BY <1>1, <1>2, BeginWhole DEF BeginCompletion, j
<1>4. Emptied'
  BY EmptiedKept DEF BeginCompletion, Whole
<1>. QED  BY <1>3, <1>4 DEF Whole

LEMMA BeginRebuildWhole ==
  ASSUME Whole, NEW w \in Workers, NEW s \in Students, BeginRebuild(w, s)
  PROVE  Whole'
<1>. DEFINE j == [NoJob EXCEPT !.task = "rebuild", !.phase = "delete", !.student = s]
<1>1. j \in Job /\ j.task = "rebuild" /\ j.student = s
  BY NoJobTyped DEF NoJob, Job
<1>2. /\ Box(outbox')
      /\ \A k \in Keys : k.student_id # s => outbox'[k] = outbox[k]
  BY Replaced DEF BeginRebuild, Whole
<1>. HIDE DEF j
<1>3. Handling' /\ Guarded'
  BY <1>1, <1>2, BeginWhole DEF BeginRebuild, j
<1>4. \A t \in Students : deletions[t] \notin {"none", "requested"} => t # s
  BY DEF BeginRebuild, IsActive
<1>5. Emptied'
  BY <1>2, <1>4, EmptiedKept DEF BeginRebuild, Whole, RowsOf
<1>. QED  BY <1>3, <1>5 DEF Whole

\* It lets the lock go, whatever it does to the student's deletion.
LEMMA FinishWhole ==
  ASSUME Whole, NEW w \in Workers, Occupied(w), ~run[w].running, Finish(w), OutboxTypeOK',
         \A t \in Students \ {job[w].student} :
            deletions'[t] = deletions[t] /\ students'[t] = students[t],
         UNCHANGED <<now, memories, outbox, docs, seen>>
  PROVE  Handling' /\ Guarded'
<1>. DEFINE s == job[w].student
<1>1. s \in Students /\ lock[s] = w
  BY DEF Whole, Guarded
<1>2. /\ lock' = [lock EXCEPT ![s] = None] /\ outer' = [outer EXCEPT ![w] = None]
      /\ job' = [job EXCEPT ![w] = NoJob] /\ run' = [run EXCEPT ![w] = NoRun]
  BY DEF Finish
<1>3. run[w].rows = <<>>
  BY NoRowsYet DEF Whole
<1>4. \A v \in Workers : run[v].rows # <<>> => lock'[run[v].student] = v
  BY <1>1, <1>2, OthersKeepLocks DEF Whole
<1>5. Handling'
  BY <1>2, <1>3, <1>4, NoRunTyped, TakeOver DEF Whole
<1>6. /\ lock \in [Students -> Workers \cup {None}] /\ outer \in [Workers -> Students \cup {None}]
      /\ job \in [Workers -> Job]
  BY DEF Whole, Guarded, Handling, OutboxTypeOK
<1>7. job'[w] = NoJob /\ outer'[w] = None /\ job' \in [Workers -> Job]
  BY <1>2, <1>6, NoJobTyped
<1>8. ASSUME NEW v \in Workers \ {w}
      PROVE  /\ job'[v] = job[v] /\ outer'[v] = outer[v]
             /\ Occupied(v) => job[v].student # s /\ lock'[job[v].student] = v
  <2>1. job'[v] = job[v] /\ outer'[v] = outer[v]
    BY <1>2, <1>6
  <2>2. Occupied(v) => job[v].student \in Students /\ lock[job[v].student] = v
    BY DEF Whole, Guarded
  <2>. QED  BY <1>1, <1>2, <1>6, <2>1, <2>2
<1>9. Guarded'
  BY <1>7, <1>8, NoJobTyped DEF Whole, Guarded, Occupied, HasIndex, IsActive
<1>. QED  BY <1>5, <1>9

LEMMA FinishCompletionWhole ==
  ASSUME Whole, NEW w \in Workers, FinishCompletion(w)
  PROVE  Whole'
<1>. DEFINE s == job[w].student
<1>1. /\ Occupied(w) /\ ~run[w].running /\ Finish(w) /\ s \in Students
      /\ UNCHANGED <<now, memories, outbox, docs, seen>>
  BY DEF FinishCompletion, IsBack, Occupied, Whole, Guarded
<1>2. /\ students \in [Students -> {"active", "deletion_pending", "deleted"}]
      /\ deletions \in [Students -> DeletionStates]
  BY DEF Whole, Handling, OutboxTypeOK
<1>. HIDE DEF s
<1>3. /\ deletions[s] \notin {"none", "requested"} /\ deletions' = [deletions EXCEPT ![s] = deletions'[s]]
      /\ deletions'[s] \in DeletionStates \ {"none", "requested"}
      /\ students' = [students EXCEPT ![s] = students'[s]]
      /\ students' \in [Students -> {"active", "deletion_pending", "deleted"}]
      /\ deletions'[s] = "verified" => students'[s] = "deleted" /\ NotRetrievable(s)
  <2>1. CASE NotRetrievable(s) /\ FinalizeVerified(s)
    <3>1. /\ deletions' = [deletions EXCEPT ![s] = "verified"]
          /\ students' = [students EXCEPT ![s] = "deleted"]
          /\ "verified" \in Allowed(deletions[s])
      BY <2>1 DEF FinalizeVerified, SetState
    <3>2. deletions[s] \notin {"none", "requested"}
      BY <3>1 DEF Allowed
    <3>. QED  BY <1>1, <1>2, <2>1, <3>1, <3>2 DEF DeletionStates
  <2>2. CASE /\ ~NotRetrievable(s) /\ UNCHANGED students
             /\ SetState(s, IF outbox[DeleteKey(s)].status = "dead_letter" THEN "failed"
                            ELSE "index_deletion_pending")
    <3>1. PICK x \in {"failed", "index_deletion_pending"} :
             x \in Allowed(deletions[s]) /\ deletions' = [deletions EXCEPT ![s] = x]
      BY <2>2 DEF SetState
    <3>2. deletions[s] \notin {"none", "requested"}
      BY <3>1 DEF Allowed
    <3>. QED  BY <1>1, <1>2, <2>2, <3>1, <3>2 DEF DeletionStates
  <2>. QED  BY <2>1, <2>2 DEF FinishCompletion, s
<1>4. OutboxTypeOK'
  <2>1. deletions' \in [Students -> DeletionStates]
    BY <1>1, <1>2, <1>3
  <2>2. /\ run' \in [Workers -> Run] /\ outer' \in [Workers -> Students \cup {None}]
        /\ lock' \in [Students -> Workers \cup {None}]
    BY <1>1, NoRunTyped DEF Whole, Handling, OutboxTypeOK, Finish, s
  <2>. QED  BY <1>1, <1>3, <2>1, <2>2 DEF Whole, Handling, OutboxTypeOK
<1>5. Handling' /\ Guarded'
  <2>1. \A t \in Students \ {s} : deletions'[t] = deletions[t] /\ students'[t] = students[t]
    BY <1>2, <1>3
  <2>. QED  BY <1>1, <1>4, <2>1, FinishWhole DEF s
<1>6. Emptied'
  BY <1>1, <1>3, Decided
<1>. QED  BY <1>5, <1>6 DEF Whole

LEMMA FinishRebuildWhole ==
  ASSUME Whole, NEW w \in Workers, FinishRebuild(w)
  PROVE  Whole'
<1>1. /\ Occupied(w) /\ ~run[w].running /\ Finish(w)
      /\ UNCHANGED <<now, students, deletions, memories, outbox, docs, seen>>
  BY DEF FinishRebuild, RebuildOver, IsBack, Occupied
<1>2. OutboxTypeOK'
  BY <1>1, NoRunTyped DEF Whole, Guarded, Handling, OutboxTypeOK, Finish
<1>3. Handling' /\ Guarded'
  BY <1>1, <1>2, FinishWhole
<1>4. Emptied'
  BY <1>1, EmptiedKept DEF Whole
<1>. QED  BY <1>3, <1>4 DEF Whole

\* A rebuild goes on: rows are enqueued for its student, and another run starts.
LEMMA RebuildWhole ==
  ASSUME Whole, NEW w \in Workers, IsBack(w, "rebuild"), NEW p \in {"delete", "upsert"},
         job' = [job EXCEPT ![w].phase = p], Box(outbox'),
         run' = [run EXCEPT ![w] = RunOf(now, job[w].student, Keys)],
         \A k \in Keys : outbox[k].status = "processing" \/ k.student_id # job[w].student
            => outbox'[k] = outbox[k],
         UNCHANGED <<now, students, deletions, memories, lock, outer, docs, seen>>
  PROVE  Whole'
<1>. DEFINE s == job[w].student
<1>1. /\ Occupied(w) /\ ~run[w].running /\ s \in Students /\ HasIndex /\ IsActive(s)
      /\ run \in [Workers -> Run] /\ job \in [Workers -> Job] /\ now \in 0..MaxTime
  BY DEF IsBack, Occupied, Whole, Guarded, Handling, OutboxTypeOK
<1>2. /\ RunOf(now, s, Keys) \in Run /\ RunOf(now, s, Keys).rows = <<>>
      /\ RunOf(now, s, Keys).student = None
  BY <1>1, RunOfTyped
<1>3. OutboxTypeOK'
  BY <1>1, <1>2 DEF Whole, Handling, OutboxTypeOK, Box
<1>4. Handling'
  <2>1. run[w].rows = <<>>
    BY <1>1, NoRowsYet DEF Whole
  <2>2. \A v \in Workers : run[v].rows # <<>> => lock'[run[v].student] = v
    BY DEF Whole, Handling, Holding
  <2>3. \A v \in Workers : \A i \in DOMAIN run[v].rows :
           LET k == run[v].rows[i] IN outbox'[k] = outbox[k]
    BY ClaimedRowsKept DEF Whole
  <2>. HIDE DEF s
  <2>. QED  BY <1>1, <1>2, <1>3, <2>1, <2>2, <2>3, TakeOver DEF Whole, s
<1>5. \A v \in Workers : job'[v] \in Job /\ job'[v].task = job[v].task /\ job'[v].student = job[v].student
  <2>. DEFINE j == [job[w] EXCEPT !.phase = p]
  <2>1. j \in Job /\ j.task = job[w].task /\ j.student = job[w].student
    BY <1>1 DEF Job
  <2>2. job' = [job EXCEPT ![w] = j]
    OBVIOUS
  <2>. HIDE DEF j
  <2>. QED  BY <1>1, <2>1, <2>2
<1>6. Guarded'
  BY <1>1, <1>5 DEF Whole, Guarded, Occupied, HasIndex, IsActive
<1>7. Emptied'
  <2>1. ASSUME NEW t \in Students, deletions[t] \notin {"none", "requested"}
        PROVE  \A k \in RowsOf(t) : outbox'[k] = outbox[k]
    BY <1>1, <2>1 DEF IsActive, RowsOf
  <2>. QED  BY <2>1, EmptiedKept DEF Whole
<1>. QED  BY <1>4, <1>6, <1>7 DEF Whole

LEMMA EnqueueMemoriesWhole ==
  ASSUME Whole, NEW w \in Workers, EnqueueMemories(w)
  PROVE  Whole'
<1>. DEFINE s == job[w].student
            K == {UpsertKey(m, memories[m]) : m \in {n \in Owned(s) : memories[n] > 0}}
<1>1. Box(outbox) /\ now \in 0..MaxTime
  BY DEF Whole, Handling, OutboxTypeOK, Box
<1>2. /\ Box(Enqueued(outbox, K, now))
      /\ \A k \in Keys : outbox[k].status # "absent" \/ k \notin K
            => Enqueued(outbox, K, now)[k] = outbox[k]
  <2>. HIDE DEF K
  <2>. QED  BY <1>1, EnqueuedTyped
<1>3. \A k \in K : k.student_id = s
  BY DEF Owned, UpsertKey
<1>4. outbox' = Enqueued(outbox, K, now)
  BY DEF EnqueueMemories
<1>. HIDE DEF K
<1>5. /\ Box(outbox')
      /\ \A k \in Keys : outbox[k].status = "processing" \/ k.student_id # s
            => outbox'[k] = outbox[k]
  BY <1>2, <1>3, <1>4
<1>. QED  BY <1>5, RebuildWhole DEF EnqueueMemories

LEMMA NextBatchWhole ==
  ASSUME Whole, NEW w \in Workers, NextBatch(w)
  PROVE  Whole'
<1>1. Box(outbox') /\ outbox' = outbox
  BY DEF NextBatch, Whole, Handling, OutboxTypeOK, Box
<1>2. job' = [job EXCEPT ![w].phase = "upsert"]
  <2>1. job \in [Workers -> Job] /\ job[w] \in Job /\ job[w].phase = "upsert" /\ job' = job
    BY DEF NextBatch, Whole, Guarded
  <2>2. [job[w] EXCEPT !.phase = "upsert"] = job[w]
    BY <2>1 DEF Job
  <2>. QED  BY <2>1, <2>2
<1>. QED  BY <1>1, <1>2, RebuildWhole DEF NextBatch

\* A replay occupies no student.
LEMMA ReplayJobs ==
  ASSUME Whole, NEW w \in Workers, NEW j \in Job, j.task \in {"none", "replay"},
         job[w].task \in {"none", "replay"}, job' = [job EXCEPT ![w] = j],
         UNCHANGED <<students, deletions, lock, outer, seen>>
  PROVE  Guarded'
<1>1. job'[w] = j /\ job' \in [Workers -> Job] /\ \A v \in Workers \ {w} : job'[v] = job[v]
  BY DEF Whole, Guarded
<1>2. ~Occupied(w) /\ ~Occupied(w)'
  BY <1>1 DEF Occupied
<1>. QED  BY <1>1, <1>2 DEF Whole, Guarded, Occupied, HasIndex, IsActive

LEMMA ReplayEndsWhole ==
  ASSUME Whole, NEW w \in Workers, BeginReplay(w) \/ FinishReplay(w)
  PROVE  Whole'
<1>1. UNCHANGED <<now, students, deletions, memories, outbox, lock, outer, run, docs, seen>>
  BY DEF BeginReplay, FinishReplay, outboxVars
<1>2. Handling'
  <2>1. OutboxTypeOK'
    BY <1>1 DEF Whole, Handling, OutboxTypeOK
  <2>. QED  BY <1>1, <2>1, HandlingKept DEF Whole
<1>3. PICK j \in Job : /\ j.task \in {"none", "replay"} /\ job' = [job EXCEPT ![w] = j]
                       /\ job[w].task \in {"none", "replay"}
  <2>1. CASE FinishReplay(w)
    BY <2>1, NoJobTyped DEF FinishReplay, IsBack
  <2>2. CASE BeginReplay(w)
    <3>. DEFINE C == {k.student_id : k \in {i \in Keys :
              /\ outbox[i].status = "dead_letter"
              /\ deletions[i.student_id] \notin
                    {"requested", "sqlite_deleted", "index_deletion_pending"}
              /\ students[i.student_id] = "active"}}
    <3>1. C \in SUBSET Students
      BY KeyFacts
    <3>2. job' = [job EXCEPT ![w] = [NoJob EXCEPT !.task = "replay", !.candidates = C,
                                                  !.virtual_now = now]]
      BY <2>2 DEF BeginReplay
    <3>3. now \in 0..MaxTime
      BY DEF Whole, Handling, OutboxTypeOK
    <3>. HIDE DEF C
    <3>4. [NoJob EXCEPT !.task = "replay", !.candidates = C, !.virtual_now = now] \in Job
      BY <3>1, <3>3, NoJobTyped DEF NoJob, Job
    <3>5. [NoJob EXCEPT !.task = "replay", !.candidates = C, !.virtual_now = now].task = "replay"
      BY DEF NoJob
    <3>. QED  BY <2>2, <3>2, <3>4, <3>5 DEF BeginReplay, IsIdle
  <2>. QED  BY <2>1, <2>2
<1>4. Guarded'
  BY <1>1, <1>3, ReplayJobs
<1>5. Emptied'
  BY <1>1, EmptiedKept DEF Whole
<1>. QED  BY <1>2, <1>4, <1>5 DEF Whole

LEMMA ResetWhole ==
  ASSUME Whole, NEW w \in Workers, NEW s \in Students, ResetStudent(w, s)
  PROVE  Whole'
<1>. DEFINE dead == {k \in RowsOf(s) : outbox[k].status = "dead_letter"}
            j == [job[w] EXCEPT !.candidates = @ \ {s}, !.reset_ids = @ \cup dead]
<1>1. /\ job \in [Workers -> Job] /\ job[w] \in Job /\ outbox \in [Keys -> OutboxRow]
      /\ \A k \in Keys : outbox[k].claim_token # None <=> outbox[k].status = "processing"
  BY DEF Whole, Guarded, Handling, OutboxTypeOK
<1>2. \A k \in Keys : outbox'[k] = IF k \in dead
           THEN [outbox[k] EXCEPT !.status = "pending", !.attempt_count = 0,
                    !.next_attempt_at = job[w].virtual_now]
           ELSE outbox[k]
  BY DEF ResetStudent
<1>3. ASSUME NEW k \in Keys
      PROVE  /\ outbox'[k] \in OutboxRow
             /\ outbox'[k].claim_token # None <=> outbox'[k].status = "processing"
             /\ outbox[k].status # "dead_letter" => outbox'[k] = outbox[k]
  <2>1. CASE k \in dead
    <3>1. outbox[k] \in OutboxRow /\ outbox[k].status = "dead_letter" /\ job[w].virtual_now \in 0..MaxTime
      BY <1>1, <2>1 DEF Job
    <3>2. outbox'[k] = [outbox[k] EXCEPT !.status = "pending", !.attempt_count = 0,
                           !.next_attempt_at = job[w].virtual_now]
      BY <1>2, <2>1
    <3>3. outbox[k].claim_token = None
      BY <1>1, <3>1
    <3>4. outbox'[k] \in OutboxRow
      <4>1. "pending" \in {"absent", "indexed", "deleted", "dead_letter"} \cup OpenStatuses /\ 0 \in Nat
        BY DEF OpenStatuses
      <4>. QED  BY <3>1, <3>2, <4>1 DEF OutboxRow
    <3>5. outbox'[k].claim_token = outbox[k].claim_token /\ outbox'[k].status = "pending"
      BY <3>1, <3>2 DEF OutboxRow
    <3>. QED  BY <3>1, <3>3, <3>4, <3>5
  <2>2. CASE k \notin dead
    BY <1>1, <1>2, <2>2
  <2>. QED  BY <2>1, <2>2
<1>4. outbox' = [k \in Keys |-> outbox'[k]]
  BY DEF ResetStudent
<1>5. OutboxTypeOK'
  BY <1>3, <1>4 DEF ResetStudent, Whole, Handling, OutboxTypeOK
<1>6. Handling'
  BY <1>3, <1>5, ClaimedRowsKept, HandlingKept DEF ResetStudent, Whole
<1>7. j \in Job /\ j.task = job[w].task /\ job' = [job EXCEPT ![w] = j]
  <2>1. dead \in SUBSET Keys
    BY DEF RowsOf
  <2>2. job' = [job EXCEPT ![w] = j]
    BY <1>1 DEF ResetStudent, Job
  <2>. HIDE DEF dead
  <2>. QED  BY <1>1, <2>1, <2>2 DEF Job
<1>. HIDE DEF j
<1>8. Guarded'
  BY <1>7, ReplayJobs DEF ResetStudent
<1>9. Emptied'
  BY <1>3, EmptiedKept DEF ResetStudent, Whole, RowsOf
<1>. QED  BY <1>6, <1>8, <1>9 DEF Whole

LEMMA KeysAreFinite == IsFiniteSet(Keys)
<1>. DEFINE f == [p \in Memories \X (1..MaxVersion) |-> UpsertKey(p[1], p[2])]
            g == [s \in Students |-> DeleteKey(s)]
            D == {DeleteKey(s) : s \in Students}
<1>1. IsFiniteSet(Memories \X (1..MaxVersion))
  <2>1. IsFiniteSet(1..MaxVersion)
    <3>1. 1 \in Int /\ MaxVersion \in Int
      BY OutboxConstants
    <3>. QED  BY <3>1, FS_Interval
  <2>2. IsFiniteSet(Memories)
    BY ReplayConstants
  <2>. QED  BY <2>1, <2>2, FS_Product
<1>2. f \in Surjection(Memories \X (1..MaxVersion), UpsertKeys)
  <2>1. f \in [Memories \X (1..MaxVersion) -> UpsertKeys]
    BY DEF UpsertKeys
  <2>2. ASSUME NEW k \in UpsertKeys
        PROVE  \E p \in Memories \X (1..MaxVersion) : f[p] = k
    <3>1. PICK m \in Memories, v \in 1..MaxVersion : k = UpsertKey(m, v)
      BY DEF UpsertKeys
    <3>2. f[<<m, v>>] = k /\ <<m, v>> \in Memories \X (1..MaxVersion)
      BY <3>1
    <3>. HIDE DEF f
    <3>. QED  BY <3>2
  <2>. HIDE DEF f
  <2>. QED  BY <2>1, <2>2 DEF Surjection
<1>3. g \in Surjection(Students, D)
  BY DEF Surjection
<1>. HIDE DEF f, g
<1>4. IsFiniteSet(UpsertKeys) /\ IsFiniteSet(D)
  BY <1>1, <1>2, <1>3, FS_Surjection, ReplayConstants
<1>. QED  BY <1>4, FS_Union DEF Keys

LEMMA ReplayRoundWhole ==
  ASSUME Whole, NEW w \in Workers, ReplayRound(w)
  PROVE  Whole'
<1>1. /\ job \in [Workers -> Job] /\ job[w] \in Job /\ run \in [Workers -> Run]
      /\ outbox \in [Keys -> OutboxRow]
  BY DEF Whole, Guarded, Handling, OutboxTypeOK
<1>2. PICK first \in NextAttempts(w) :
         LET virtual_now == IF first > job[w].virtual_now THEN first ELSE job[w].virtual_now
         IN  /\ job' = [job EXCEPT ![w].virtual_now = virtual_now, ![w].rounds = @ + 1]
             /\ run' = [run EXCEPT ![w] = [RunOf(virtual_now, None, job[w].reset_ids)
                                              EXCEPT !.room = Cardinality(job[w].reset_ids)]]
  BY DEF ReplayRound
<1>. DEFINE t == IF first > job[w].virtual_now THEN first ELSE job[w].virtual_now
            ids == job[w].reset_ids
            r == [RunOf(t, None, ids) EXCEPT !.room = Cardinality(ids)]
            j == [job[w] EXCEPT !.virtual_now = t, !.rounds = @ + 1]
<1>3. t \in 0..MaxTime /\ ids \in SUBSET Keys
  <2>1. ids \in SUBSET Keys /\ job[w].virtual_now \in 0..MaxTime
    BY <1>1 DEF Job
  <2>2. first \in 0..MaxTime
    BY <1>1, <2>1 DEF NextAttempts, OutboxRow
  <2>. QED  BY <2>1, <2>2
<1>4. Cardinality(ids) \in Nat
  BY <1>3, KeysAreFinite, FS_Subset, FS_CardinalityType
<1>5. r \in Run /\ r.rows = <<>> /\ r.student = None /\ run' = [run EXCEPT ![w] = r]
  <2>1. run' = [run EXCEPT ![w] = r]
    BY <1>2
  <2>. HIDE DEF t, ids
  <2>2. RunOf(t, None, ids) \in Run /\ RunOf(t, None, ids).rows = <<>>
        /\ RunOf(t, None, ids).student = None
    BY <1>3, RunOfTyped
  <2>. QED  BY <1>4, <2>1, <2>2 DEF Run
<1>6. j \in Job /\ j.task = "replay" /\ job' = [job EXCEPT ![w] = j]
  <2>1. job[w].rounds \in 0..MaxAttempts /\ job[w].rounds < MaxAttempts /\ job[w].task = "replay"
    BY <1>1 DEF ReplayRound, IsBack, Job
  <2>2. job[w].rounds + 1 \in 0..MaxAttempts
    BY <2>1, ReplayConstants
  <2>3. job' = [job EXCEPT ![w] = j]
    BY <1>1, <1>2 DEF Job
  <2>. HIDE DEF t
  <2>. QED  BY <1>1, <1>3, <2>1, <2>2, <2>3 DEF Job
<1>. HIDE DEF t, r, j
<1>7. UNCHANGED <<now, students, deletions, memories, outbox, lock, outer, docs, seen>>
  BY DEF ReplayRound
<1>8. OutboxTypeOK'
  BY <1>1, <1>5, <1>7 DEF Whole, Handling, OutboxTypeOK
<1>9. Handling'
  <2>1. run[w].rows = <<>> /\ HasIndex
    BY NoRowsYet DEF Whole, ReplayRound, IsBack
  <2>2. \A v \in Workers : run[v].rows # <<>> => lock'[run[v].student] = v
    BY <1>7 DEF Whole, Handling, Holding
  <2>. QED  BY <1>5, <1>7, <1>8, <2>1, <2>2, TakeOver DEF Whole
<1>10. Guarded'
  BY <1>6, <1>7, ReplayJobs DEF ReplayRound, IsBack
<1>11. Emptied'
  BY <1>7, EmptiedKept DEF Whole
<1>. QED  BY <1>9, <1>10, <1>11 DEF Whole

LEMMA StepWhole == Whole /\ [DeletionNext]_deletionVars => Whole'
<1>. SUFFICES ASSUME Whole, [DeletionNext]_deletionVars PROVE Whole'
  OBVIOUS
<1>1. CASE UNCHANGED deletionVars
  <2>1. UNCHANGED <<now, students, deletions, memories, outbox, lock, outer, run, docs, seen, job>>
    BY <1>1 DEF deletionVars, outboxVars
  <2>2. OutboxTypeOK'
    BY <2>1 DEF Whole, Handling, OutboxTypeOK
  <2>3. Handling'
    BY <2>1, <2>2, HandlingKept DEF Whole
  <2>4. Guarded'
    BY <2>1 DEF Whole, Guarded, Occupied, HasIndex, IsActive
  <2>5. Emptied'
    BY <2>1, EmptiedKept DEF Whole
  <2>. QED  BY <2>3, <2>4, <2>5 DEF Whole
<1>2. ASSUME NEW w \in Workers, Dispatch(w) PROVE Whole'
  BY <1>2, StartWhole, WorkerWhole DEF Dispatch
<1>3. ASSUME NEW w \in Workers, Completion(w) PROVE Whole'
  BY <1>3, BeginCompletionWhole, LocalWhole, FinishCompletionWhole DEF Completion
<1>4. ASSUME NEW w \in Workers, Rebuild(w) PROVE Whole'
  BY <1>4, BeginRebuildWhole, EnqueueMemoriesWhole, NextBatchWhole, FinishRebuildWhole DEF Rebuild
<1>5. ASSUME NEW w \in Workers, Replay(w) PROVE Whole'
  BY <1>5, ReplayEndsWhole, ResetWhole, ReplayRoundWhole DEF Replay
<1>. QED
  BY <1>1, <1>2, <1>3, <1>4, <1>5, TickWhole, WriteWhole, RequestWhole, ExecuteWhole, CrashWhole
     DEF DeletionNext

LEMMA DeletionKeepsWhole == DeletionSpec => []Whole
<1>1. DeletionInit => Whole
  BY InitGuarded DEF Whole
<1>. QED  BY <1>1, StepWhole, PTL DEF DeletionSpec

\* Every field of the tables, the runs and the operations has its type, and an operation
\* that occupies a student has its advisory lock.
THEOREM DeletionTypeCorrect == DeletionSpec => []DeletionTypeOK
<1>1. Whole => DeletionTypeOK
  <2>. SUFFICES ASSUME Whole PROVE DeletionTypeOK
    OBVIOUS
  <2>1. ASSUME NEW w \in Workers, outer[w] # None PROVE lock[outer[w]] = w
    BY <2>1 DEF Whole, Guarded
  <2>. QED  BY <2>1 DEF DeletionTypeOK, Whole, Handling, Guarded, Occupied
<1>. QED  BY <1>1, DeletionKeepsWhole, PTL

\* Around the deletion protocol, rebuilds and replays, with deaths of any process, no
\* upsert of a student whose rows were deleted is enqueued, waiting or in hand.
THEOREM DeletedHasNoWork == DeletionSpec => []DeletedStudentHasNoWork
<1>1. Whole => DeletedStudentHasNoWork
  BY EmptiedHasNoWork DEF Whole
<1>. QED  BY <1>1, DeletionKeepsWhole, PTL

\* A verified deletion leaves nothing to recall, then and ever after.
THEOREM VerifiedIsEmpty == DeletionSpec => []VerifiedMeansEmpty
<1>1. Whole => VerifiedMeansEmpty
  BY DEF Whole, Emptied
<1>. QED  BY <1>1, DeletionKeepsWhole, PTL

\* Claims hold around these operations as well, replays without a lock included.
THEOREM ClaimsAreHeldAround == DeletionSpec => []ClaimsHold
<1>1. Whole => ClaimsHold
  BY DEF Whole, Handling
<1>. QED  BY <1>1, DeletionKeepsWhole, PTL

--------------------------------------------------------------------------------
\* A rebuild.  Its delete call has emptied what the index has of the student.
IsWiped(s) ==
    /\ \A m \in Owned(s) : docs[m] = 0
    /\ \A k \in RowsOf(s) : k \notin seen

\* A worker has a row of the student in hand, and the index has applied its call.
HasApplied(v, s) == run[v].rows # <<>> /\ run[v].applied /\ run[v].student = s

\* First half: the delete row is the student's only one.
Wiping(s) ==
    /\ \A k \in RowsOf(s) : k.operation = "upsert" => outbox[k].status = "absent"
    /\ outbox[DeleteKey(s)].status = "deleted" => IsWiped(s)
    /\ \A v \in Workers : HasApplied(v, s) => IsWiped(s)

\* Second half: the student's rows and what the index knows are of the versions in
\* the store, and the index has what it knows.
Refilling(s) ==
    /\ outbox[DeleteKey(s)].status = "deleted"
    /\ \A k \in RowsOf(s) : k.operation = "upsert" =>
          /\ outbox[k].status # "absent" => k.version = memories[k.aggregate]
          /\ k \in seen => k.version = memories[k.aggregate] /\ docs[k.aggregate] = k.version
          /\ outbox[k].status = "indexed" => k \in seen
    /\ \A v \in Workers : HasApplied(v, s) => Head(run[v].rows) \in seen

InPhase(w, phase) == job[w].task = "rebuild" /\ job[w].phase = phase

\* The index forgets a delete call with the rows it deleted.
Forgets == HasIndex => \A k \in Keys : k \in seen => k.operation = "upsert"

Restoring ==
    /\ \A v \in Workers : run[v].rows = <<>> => ~run[v].applied
    /\ Forgets
    /\ \A w \in Workers : /\ InPhase(w, "delete") => Wiping(job[w].student)
                          /\ InPhase(w, "upsert") => Refilling(job[w].student)

\* A step that leaves a student's memories, index and settled rows alone, and the
\* workers whose call for it was applied.
LEMMA RebuildKept ==
  ASSUME Handling, NEW s \in Students,
         \A k \in RowsOf(s) : \A x \in {"absent", "indexed", "deleted"} :
            outbox'[k].status = x <=> outbox[k].status = x,
         \A m \in Owned(s) : docs'[m] = docs[m] /\ memories'[m] = memories[m],
         \A k \in RowsOf(s) : k \in seen' <=> k \in seen,
         \A v \in Workers : HasApplied(v, s)' => run'[v] = run[v]
  PROVE  /\ Wiping(s) => Wiping(s)'
         /\ Refilling(s) => Refilling(s)'
<1>1. DeleteKey(s) \in RowsOf(s)
  BY KeysTyped DEF RowsOf, DeleteKey
<1>2. \A k \in RowsOf(s) : k.operation = "upsert" => k.aggregate \in Owned(s)
  BY KeyFacts DEF RowsOf, Owned
<1>3. \A v \in Workers : HasApplied(v, s)' => HasApplied(v, s)
  BY DEF HasApplied
<1>4. RowsOf(s)' = RowsOf(s) /\ Owned(s)' = Owned(s)
  BY DEF RowsOf, Owned
<1>5. Wiping(s) => Wiping(s)'
  <2>1. IsWiped(s) => IsWiped(s)'
    BY <1>4 DEF IsWiped
  <2>. QED  BY <1>1, <1>3, <1>4, <2>1 DEF Wiping
<1>6. Refilling(s) => Refilling(s)'
  <2>. SUFFICES ASSUME Refilling(s) PROVE Refilling(s)'
    OBVIOUS
  <2>1. outbox'[DeleteKey(s)].status = "deleted"
    BY <1>1 DEF Refilling
  <2>2. ASSUME NEW k \in RowsOf(s), k.operation = "upsert"
        PROVE  /\ outbox'[k].status # "absent" => k.version = memories'[k.aggregate]
               /\ k \in seen' => k.version = memories'[k.aggregate] /\ docs'[k.aggregate] = k.version
               /\ outbox'[k].status = "indexed" => k \in seen'
    <3>1. docs'[k.aggregate] = docs[k.aggregate] /\ memories'[k.aggregate] = memories[k.aggregate]
      BY <1>2, <2>2
    <3>. QED  BY <2>2, <3>1 DEF Refilling
  <2>3. ASSUME NEW v \in Workers, HasApplied(v, s)' PROVE Head(run'[v].rows) \in seen'
    <3>1. run'[v] = run[v] /\ HasApplied(v, s)
      BY <1>3, <2>3
    <3>2. Head(run[v].rows) \in RowsOf(s) /\ Head(run[v].rows) \in seen
      BY <3>1, HeadFacts DEF HasApplied, RowsOf, Refilling
    <3>. QED  BY <3>1, <3>2
  <2>. QED  BY <1>4, <2>1, <2>2, <2>3 DEF Refilling
<1>. QED  BY <1>5, <1>6

\* What a claim changes in the table, and in its worker.
LEMMA ClaimedStatus ==
  ASSUME Handling, NEW w \in Workers, Claim(w)
  PROVE  /\ run'[w].applied = run[w].applied /\ run[w].rows = <<>>
         /\ \A v \in Workers \ {w} : run'[v] = run[v]
         /\ \A k \in Keys : \/ outbox'[k] = outbox[k]
                            \/ outbox[k].status \in OpenStatuses /\ outbox'[k].status = "processing"
<1>1. PICK n, rows, r : ClaimStep(w, n, rows, r)
  BY ClaimFacts
<1>2. run \in [Workers -> Run] /\ run[w] \in Run /\ outbox \in [Keys -> OutboxRow]
  BY DEF Handling, OutboxTypeOK
<1>3. Claimable(w) \subseteq {k \in Keys : outbox[k].status \in OpenStatuses}
  BY <1>2 DEF Claimable, IsDue, Run
<1>4. \A k \in Keys : outbox'[k] =
         IF \E i \in 1..n : rows[i] = k
         THEN [outbox[k] EXCEPT !.status = "processing", !.claim_token = w,
                  !.next_attempt_at = After(run[w].timestamp, Lease)]
         ELSE outbox[k]
  BY <1>1 DEF ClaimStep
<1>5. \A i \in 1..n : rows[i] \in Keys /\ outbox[rows[i]].status \in OpenStatuses
  BY <1>1, <1>3 DEF ClaimStep
<1>6. ASSUME NEW k \in Keys, outbox'[k] # outbox[k]
      PROVE  outbox[k].status \in OpenStatuses /\ outbox'[k].status = "processing"
  <2>1. \E i \in 1..n : rows[i] = k
    BY <1>4, <1>6
  <2>2. outbox[k].status \in OpenStatuses
    BY <1>5, <2>1
  <2>3. outbox'[k] = [outbox[k] EXCEPT !.status = "processing", !.claim_token = w,
                         !.next_attempt_at = After(run[w].timestamp, Lease)]
    BY <1>4, <2>1
  <2>4. outbox[k] \in OutboxRow
    BY <1>2
  <2>5. outbox'[k].status = "processing"
    BY <2>3, <2>4 DEF OutboxRow
  <2>. QED  BY <2>2, <2>5
<1>7. run'[w] = r /\ r.applied = run[w].applied /\ \A v \in Workers \ {w} : run'[v] = run[v]
  BY <1>1, <1>2 DEF ClaimStep
<1>. QED  BY <1>6, <1>7 DEF Claim

\* What becomes of the row in hand, and of its worker.
LEMMA SettledStatus ==
  ASSUME Handling, NEW w \in Workers, Complete(w) \/ MarkFailed(w)
  PROVE  /\ ~run'[w].applied
         /\ \A v \in Workers \ {w} : run'[v] = run[v]
         /\ \A j \in Keys : j # Head(run[w].rows) => outbox'[j] = outbox[j]
         /\ outbox[Head(run[w].rows)].status = "processing"
         /\ Complete(w) => outbox'[Head(run[w].rows)].status =
               (IF Head(run[w].rows).operation = "upsert" THEN "indexed" ELSE "deleted")
         /\ MarkFailed(w) => outbox'[Head(run[w].rows)].status \in {"dead_letter", "retrying"}
<1>. DEFINE k == Head(run[w].rows)
<1>1. run \in [Workers -> Run] /\ run[w] \in Run /\ outbox \in [Keys -> OutboxRow]
  BY DEF Handling, OutboxTypeOK
<1>2. k \in Keys /\ 1 \in DOMAIN run[w].rows /\ k = run[w].rows[1]
  BY HeadFacts DEF Complete, MarkFailed
<1>3. OwnsClaim(w, k) /\ outbox[k] \in OutboxRow
  BY <1>1, <1>2 DEF Handling, ClaimsHold, OwnsClaim
<1>4. ~run'[w].applied /\ \A v \in Workers \ {w} : run'[v] = run[v]
  BY <1>1, NextRowMoves DEF Complete, MarkFailed
<1>5. \A j \in Keys : j # k => outbox'[j] = outbox[j]
  BY <1>1 DEF Complete, MarkFailed
<1>6. Complete(w) => outbox'[k].status = (IF k.operation = "upsert" THEN "indexed" ELSE "deleted")
  <2>1. Complete(w) => outbox'[k] = [outbox[k] EXCEPT !.claim_token = None,
                          !.status = IF k.operation = "upsert" THEN "indexed" ELSE "deleted"]
    BY <1>1, <1>2, <1>3 DEF Complete
  <2>. HIDE DEF k
  <2>. QED  BY <1>3, <2>1 DEF OutboxRow
<1>7. MarkFailed(w) => outbox'[k].status \in {"dead_letter", "retrying"}
  <2>. DEFINE attempts == outbox[k].attempt_count + 1
              delay == NextRetryDelay(attempts)
  <2>1. MarkFailed(w) => outbox'[k] =
           [outbox[k] EXCEPT !.claim_token = None, !.attempt_count = attempts,
              !.status = IF delay < 0 THEN "dead_letter" ELSE "retrying",
              !.next_attempt_at = After(run[w].timestamp, IF delay < 0 THEN 0 ELSE delay)]
    BY <1>1, <1>2, <1>3 DEF MarkFailed
  <2>. HIDE DEF k, attempts, delay
  <2>. QED  BY <1>3, <2>1 DEF OutboxRow
<1>8. outbox[k].status = "processing"
  BY <1>3 DEF OwnsClaim
<1>. QED  BY <1>4, <1>5, <1>6, <1>7, <1>8

\* Only one worker has rows of a student in hand.
LEMMA OneHand ==
  ASSUME Handling, NEW v \in Workers, NEW w \in Workers, run[v].rows # <<>>, run[w].rows # <<>>,
         run[v].student = run[w].student
  PROVE  v = w
BY DEF Handling, Holding

\* A worker's step that neither delivers nor completes a row.
LEMMA OtherStepsKeep ==
  ASSUME Whole, Restoring, NEW w \in Workers, WorkerStep(w), ~IndexApplies(w), ~Complete(w),
         NEW s \in Students
  PROVE  /\ Wiping(s) => Wiping(s)'
         /\ Refilling(s) => Refilling(s)'
<1>1. run \in [Workers -> Run] /\ run[w] \in Run /\ outbox \in [Keys -> OutboxRow] /\ Handling
  BY DEF Whole, Handling, OutboxTypeOK
<1>2. UNCHANGED <<memories, docs, seen>>
  BY DEF WorkerStep, SelectStudent, Claim, ClaimNothing, EndRun, MarkFailed
<1>3. /\ ~run'[w].applied
      /\ \A v \in Workers \ {w} : run'[v] = run[v]
  <2>1. CASE SelectStudent(w)
    <3>1. ~run[w].applied
      BY <1>1, <2>1, NoRowsYet DEF SelectStudent, Restoring
    <3>. QED  BY <1>1, <2>1, <3>1 DEF SelectStudent, Run
  <2>2. CASE ClaimNothing(w)
    <3>1. ~run[w].applied
      BY <1>1, <2>2 DEF ClaimNothing, Restoring
    <3>. QED  BY <1>1, <2>2, <3>1 DEF ClaimNothing, Run
  <2>3. CASE EndRun(w)
    <3>1. ~[NoRun EXCEPT !.room = run[w].room].applied
      BY NoRunTyped DEF NoRun
    <3>. QED  BY <1>1, <2>3, <3>1 DEF EndRun
  <2>4. CASE Claim(w)
    BY <1>1, <2>4, ClaimedStatus DEF Restoring
  <2>5. CASE MarkFailed(w)
    BY <1>1, <2>5, SettledStatus
  <2>. QED  BY <2>1, <2>2, <2>3, <2>4, <2>5 DEF WorkerStep
<1>4. \A k \in Keys : \/ outbox'[k].status = outbox[k].status
                      \/ /\ outbox[k].status \in OpenStatuses
                         /\ outbox'[k].status \in {"processing", "dead_letter", "retrying"}
  <2>1. CASE Claim(w)
    BY <1>1, <2>1, ClaimedStatus
  <2>2. CASE MarkFailed(w)
    <3>1. "processing" \in OpenStatuses
      BY DEF OpenStatuses
    <3>. QED  BY <1>1, <2>2, <3>1, SettledStatus
  <2>3. CASE SelectStudent(w) \/ ClaimNothing(w) \/ EndRun(w)
    BY <2>3 DEF SelectStudent, ClaimNothing, EndRun
  <2>. QED  BY <2>1, <2>2, <2>3 DEF WorkerStep
<1>5. \A k \in RowsOf(s) : \A x \in {"absent", "indexed", "deleted"} :
         outbox'[k].status = x <=> outbox[k].status = x
  BY <1>4 DEF RowsOf, OpenStatuses
<1>6. \A v \in Workers : HasApplied(v, s)' => run'[v] = run[v]
  BY <1>3 DEF HasApplied
<1>. QED  BY <1>1, <1>2, <1>5, <1>6, RebuildKept

\* The row in hand is completed: its call was applied.
LEMMA CompleteRestores ==
  ASSUME Whole, NEW w \in Workers, Complete(w), NEW s \in Students
  PROVE  /\ Wiping(s) => Wiping(s)'
         /\ Refilling(s) => Refilling(s)'
<1>. DEFINE k == Head(run[w].rows)
<1>1. /\ Handling /\ k \in Keys /\ k.student_id = run[w].student
      /\ run[w].rows # <<>> /\ run[w].applied
  BY HeadFacts DEF Whole, Complete
<1>2. UNCHANGED <<memories, docs, seen>>
  BY DEF Complete
<1>3. /\ ~run'[w].applied /\ \A v \in Workers \ {w} : run'[v] = run[v]
      /\ \A j \in Keys : j # k => outbox'[j] = outbox[j]
      /\ outbox[k].status = "processing"
      /\ outbox'[k].status = (IF k.operation = "upsert" THEN "indexed" ELSE "deleted")
  BY <1>1, SettledStatus
<1>4. \A v \in Workers : HasApplied(v, s)' => run'[v] = run[v] /\ HasApplied(v, s)
  BY <1>3 DEF HasApplied
<1>5. /\ RowsOf(s)' = RowsOf(s) /\ RowsOf(s) \subseteq Keys
      /\ DeleteKey(s) \in RowsOf(s) /\ DeleteKey(s).operation = "delete_student"
  BY KeysTyped DEF RowsOf, DeleteKey
<1>. HIDE DEF k
<1>6. CASE k \notin RowsOf(s)
  BY <1>1, <1>2, <1>3, <1>4, <1>5, <1>6, RebuildKept
<1>7. CASE k \in RowsOf(s)
  <2>1. HasApplied(w, s)
    BY <1>1, <1>7 DEF HasApplied, RowsOf
  <2>2. ASSUME Wiping(s) PROVE Wiping(s)'
    <3>1. IsWiped(s)'
      BY <1>2, <2>1, <2>2 DEF Wiping, IsWiped, Owned, RowsOf
    <3>2. k.operation # "upsert"
      BY <1>3, <1>7, <2>2 DEF Wiping
    <3>3. \A j \in RowsOf(s) : j.operation = "upsert" => outbox'[j].status = "absent"
      BY <1>3, <1>5, <2>2, <3>2 DEF Wiping
    <3>. QED  BY <1>5, <3>1, <3>3 DEF Wiping
  <2>3. ASSUME Refilling(s) PROVE Refilling(s)'
    <3>1. k # DeleteKey(s)
      BY <1>3, <2>3 DEF Refilling
    <3>2. k.operation = "upsert" /\ k \in seen
      BY <1>1, <1>7, <2>1, <2>3, <3>1, KeyFacts DEF Refilling, RowsOf, k
    <3>3. outbox'[DeleteKey(s)].status = "deleted"
      BY <1>3, <1>5, <2>3, <3>1 DEF Refilling
    <3>4. ASSUME NEW j \in RowsOf(s), j.operation = "upsert"
          PROVE  /\ outbox'[j].status # "absent" => j.version = memories[j.aggregate]
                 /\ j \in seen => j.version = memories[j.aggregate] /\ docs[j.aggregate] = j.version
                 /\ outbox'[j].status = "indexed" => j \in seen
      BY <1>3, <1>5, <2>3, <3>2, <3>4 DEF Refilling
    <3>. QED  BY <1>2, <1>4, <1>5, <2>3, <3>3, <3>4 DEF Refilling
  <2>. QED  BY <2>2, <2>3
<1>. QED  BY <1>6, <1>7

\* The index applies a call for a student under rebuild, or for another one.
LEMMA ApplyRestores ==
  ASSUME Whole, Forgets, ~RemembersKeys, NEW w \in Workers, IndexApplies(w), NEW s \in Students
  PROVE  /\ Wiping(s) => Wiping(s)'
         /\ Refilling(s) => Refilling(s)'
<1>. DEFINE k == Head(run[w].rows)
<1>1. /\ Handling /\ k \in Keys /\ k.student_id = run[w].student /\ HasIndex
      /\ run[w].rows # <<>> /\ 1 \in DOMAIN run[w].rows /\ k = run[w].rows[1]
  BY HeadFacts DEF Whole, IndexApplies
<1>2. run \in [Workers -> Run] /\ docs \in [Memories -> 0..MaxVersion] /\ outbox[k].status = "processing"
  BY <1>1 DEF Handling, OutboxTypeOK, ClaimsHold
<1>3. UNCHANGED <<memories, outbox>>
  BY DEF IndexApplies
<1>4. /\ docs' = IF k \in seen THEN docs
                 ELSE IF k.operation = "upsert" THEN [docs EXCEPT ![k.aggregate] = k.version]
                 ELSE [m \in Memories |-> IF Owner[m] = k.student_id THEN 0 ELSE docs[m]]
      /\ seen' = IF k.operation = "upsert" THEN seen \cup {k} ELSE seen \ RowsOf(k.student_id)
  BY DEF IndexApplies
<1>5. /\ \A v \in Workers : run'[v].rows = run[v].rows /\ run'[v].student = run[v].student
      /\ \A v \in Workers \ {w} : run'[v] = run[v]
  BY <1>2 DEF IndexApplies, Run
<1>6. /\ RowsOf(s)' = RowsOf(s) /\ Owned(s)' = Owned(s) /\ RowsOf(s) \subseteq Keys
      /\ Owned(s) \subseteq Memories
      /\ DeleteKey(s) \in RowsOf(s) /\ DeleteKey(s).operation = "delete_student"
  BY KeysTyped DEF RowsOf, Owned, DeleteKey
<1>7. \A v \in Workers : HasApplied(v, s)' => v = w \/ run[w].student # s
  <2>1. ASSUME NEW v \in Workers, HasApplied(v, s)', run[w].student = s PROVE v = w
    BY <1>1, <1>5, <2>1, OneHand DEF HasApplied
  <2>. QED  BY <2>1
<1>. HIDE DEF k
<1>8. CASE k \notin RowsOf(s)
  <2>1. k.student_id # s
    BY <1>1, <1>8 DEF RowsOf
  <2>2. ASSUME NEW m \in Owned(s) PROVE docs'[m] = docs[m]
    <3>1. m \in Memories /\ Owner[m] # k.student_id /\ (k.operation = "upsert" => k.aggregate # m)
      BY <1>1, <2>1, KeyFacts DEF Owned
    <3>. QED  BY <1>2, <1>4, <3>1
  <2>3. \A j \in RowsOf(s) : j \in seen' <=> j \in seen
    BY <1>4, <1>8, <2>1 DEF RowsOf
  <2>4. \A v \in Workers : HasApplied(v, s)' => run'[v] = run[v]
    BY <1>1, <1>5, <2>1 DEF HasApplied
  <2>. QED  BY <1>1, <1>3, <2>2, <2>3, <2>4, RebuildKept
<1>9. CASE k \in RowsOf(s)
  <2>0. k.student_id = s
    BY <1>9 DEF RowsOf
  <2>1. ASSUME Wiping(s) PROVE Wiping(s)'
    <3>1. k.operation # "upsert" /\ k \notin seen
      BY <1>1, <1>2, <1>9, <2>1 DEF Wiping, Forgets
    <3>2. IsWiped(s)'
      BY <1>4, <1>6, <2>0, <3>1 DEF IsWiped, Owned
    <3>. QED  BY <1>3, <1>6, <2>1, <3>2 DEF Wiping
  <2>2. ASSUME Refilling(s) PROVE Refilling(s)'
    <3>1. k # DeleteKey(s)
      BY <1>2, <2>2 DEF Refilling
    <3>2. k.operation = "upsert" /\ k.version = memories[k.aggregate] /\ k.aggregate \in Memories
      BY <1>1, <1>2, <1>9, <2>0, <2>2, <3>1, KeyFacts DEF Refilling
    <3>3. seen' = seen \cup {k}
      BY <1>4, <3>2
    <3>4. docs'[k.aggregate] = k.version /\ \A m \in Memories : m # k.aggregate => docs'[m] = docs[m]
      BY <1>2, <1>4, <1>9, <2>2, <3>2 DEF Refilling
    <3>5. ASSUME NEW j \in RowsOf(s), j.operation = "upsert"
          PROVE  /\ j \in seen' => j.version = memories[j.aggregate] /\ docs'[j.aggregate] = j.version
                 /\ outbox[j].status = "indexed" => j \in seen'
      <4>1. j.aggregate \in Memories
        BY <1>6, <3>5, KeyFacts
      <4>2. CASE j = k
        BY <3>2, <3>3, <3>4, <4>2
      <4>3. CASE j # k
        <5>1. /\ j \in seen => j.version = memories[j.aggregate] /\ docs[j.aggregate] = j.version
              /\ outbox[j].status = "indexed" => j \in seen
          BY <2>2, <3>5 DEF Refilling
        <5>. QED  BY <3>2, <3>3, <3>4, <4>1, <4>3, <5>1
      <4>. QED  BY <4>2, <4>3
    <3>6. \A v \in Workers : HasApplied(v, s)' => Head(run'[v].rows) \in seen'
      BY <1>1, <1>5, <1>7, <2>0, <3>3 DEF k
    <3>. QED  BY <1>3, <1>6, <2>2, <3>5, <3>6 DEF Refilling
  <2>. QED  BY <2>1, <2>2
<1>. QED  BY <1>8, <1>9

\* A worker's step, for a student whose index is rebuilt.
LEMMA WorkerRestores ==
  ASSUME Whole, Restoring, ~RemembersKeys, NEW w \in Workers, WorkerStep(w), UNCHANGED job
  PROVE  Restoring'
<1>1. run \in [Workers -> Run] /\ run[w] \in Run /\ Handling /\ Forgets
  BY DEF Whole, Handling, OutboxTypeOK, Restoring
<1>2. \A v \in Workers : run'[v].rows = <<>> => ~run'[v].applied
  <2>1. \A v \in Workers \ {w} : run'[v] = run[v]
    BY <1>1 DEF WorkerStep, SelectStudent, Claim, ClaimNothing, EndRun, IndexApplies, Complete,
              MarkFailed, NextRow
  <2>2. run'[w].rows = <<>> => ~run'[w].applied
    <3>1. CASE IndexApplies(w)
      BY <1>1, <3>1 DEF IndexApplies, Run
    <3>2. CASE Complete(w) \/ MarkFailed(w)
      BY <1>1, <3>2, SettledStatus
    <3>3. CASE Claim(w)
      BY <1>1, <3>3, ClaimedStatus DEF Restoring
    <3>4. CASE SelectStudent(w)
      <4>1. ~run[w].applied
        BY <1>1, <3>4, NoRowsYet DEF SelectStudent, Restoring
      <4>. QED  BY <1>1, <3>4, <4>1 DEF SelectStudent, Run
    <3>5. CASE ClaimNothing(w)
      <4>1. ~run[w].applied
        BY <1>1, <3>5 DEF ClaimNothing, Restoring
      <4>. QED  BY <1>1, <3>5, <4>1 DEF ClaimNothing, Run
    <3>6. CASE EndRun(w)
      <4>1. ~[NoRun EXCEPT !.room = run[w].room].applied
        BY NoRunTyped DEF NoRun
      <4>. QED  BY <1>1, <3>6, <4>1 DEF EndRun
    <3>. QED  BY <3>1, <3>2, <3>3, <3>4, <3>5, <3>6 DEF WorkerStep
  <2>. QED  BY <2>1, <2>2 DEF Restoring
<1>3. Forgets'
  <2>1. CASE IndexApplies(w)
    BY <1>1, <2>1, HeadFacts DEF IndexApplies, Forgets
  <2>2. CASE ~IndexApplies(w)
    <3>1. UNCHANGED seen
      BY <2>2 DEF WorkerStep, SelectStudent, Claim, ClaimNothing, EndRun, Complete, MarkFailed
    <3>. QED  BY <1>1, <3>1 DEF Forgets, HasIndex
  <2>. QED  BY <2>1, <2>2
<1>4. ASSUME NEW v \in Workers, job[v].task = "rebuild"
      PROVE  /\ Wiping(job[v].student) => Wiping(job[v].student)'
             /\ Refilling(job[v].student) => Refilling(job[v].student)'
  <2>. DEFINE s == job[v].student
  <2>1. s \in Students /\ s' = s
    BY <1>4 DEF Whole, Guarded, Occupied
  <2>. HIDE DEF s
  <2>2. CASE IndexApplies(w)
    BY <1>1, <2>1, <2>2, ApplyRestores DEF s
  <2>3. CASE Complete(w)
    BY <1>1, <2>1, <2>3, CompleteRestores DEF s
  <2>4. CASE ~IndexApplies(w) /\ ~Complete(w)
    BY <1>1, <2>1, <2>4, OtherStepsKeep DEF s
  <2>. QED  BY <2>2, <2>3, <2>4
<1>. QED  BY <1>2, <1>3, <1>4 DEF Restoring, InPhase

\* A step that is not a worker's: it may give a worker another run without rows, and
\* of each student under rebuild it leaves rows, memories and index alone.
LEMMA RestoringKept ==
  ASSUME Whole, Restoring, UNCHANGED <<docs, seen>>,
         \A v \in Workers : run'[v] = run[v] \/ ~run'[v].applied,
         \A v \in Workers : job'[v].task = "rebuild" =>
            \/ InPhase(v, "delete")' /\ Wiping(job[v].student)'
            \/ InPhase(v, "upsert")' /\ Refilling(job[v].student)'
            \/ /\ job'[v] = job[v]
               /\ \A k \in RowsOf(job[v].student) : \A x \in {"absent", "indexed", "deleted"} :
                     outbox'[k].status = x <=> outbox[k].status = x
               /\ \A m \in Owned(job[v].student) : memories'[m] = memories[m]
  PROVE  Restoring'
<1>1. \A v \in Workers : run'[v].rows = <<>> => ~run'[v].applied
  BY DEF Restoring
<1>2. Forgets'
  BY DEF Restoring, Forgets, HasIndex
<1>3. ASSUME NEW v \in Workers
      PROVE  /\ InPhase(v, "delete")' => Wiping(job[v].student)'
             /\ InPhase(v, "upsert")' => Refilling(job[v].student)'
  <2>1. CASE InPhase(v, "delete")' /\ Wiping(job[v].student)'
    BY <2>1 DEF InPhase
  <2>2. CASE InPhase(v, "upsert")' /\ Refilling(job[v].student)'
    BY <2>2 DEF InPhase
  <2>3. CASE job'[v].task # "rebuild"
    BY <2>3 DEF InPhase
  <2>4. CASE /\ job'[v].task = "rebuild" /\ job'[v] = job[v]
             /\ \A k \in RowsOf(job[v].student) : \A x \in {"absent", "indexed", "deleted"} :
                   outbox'[k].status = x <=> outbox[k].status = x
             /\ \A m \in Owned(job[v].student) : memories'[m] = memories[m]
    <3>1. PICK s \in Students : s = job[v].student /\ s = job'[v].student /\ Handling
      BY <2>4 DEF Whole, Guarded, Occupied
    <3>2. \A u \in Workers : HasApplied(u, s)' => run'[u] = run[u]
      BY DEF HasApplied
    <3>3. \A m \in Owned(s) : docs'[m] = docs[m] /\ memories'[m] = memories[m]
      BY <2>4, <3>1
    <3>4. \A k \in RowsOf(s) : k \in seen' <=> k \in seen
      OBVIOUS
    <3>5. \A k \in RowsOf(s) : \A x \in {"absent", "indexed", "deleted"} :
             outbox'[k].status = x <=> outbox[k].status = x
      BY <2>4, <3>1
    <3>6. (Wiping(s) => Wiping(s)') /\ (Refilling(s) => Refilling(s)')
      BY <3>1, <3>2, <3>3, <3>4, <3>5, RebuildKept
    <3>7. InPhase(v, "delete")' => Wiping(job[v].student)'
      <4>1. InPhase(v, "delete")' => Wiping(s)'
        BY <2>4, <3>1, <3>6 DEF Restoring, InPhase
      <4>. QED  BY <3>1, <4>1 DEF Wiping, IsWiped, HasApplied, Owned, RowsOf
    <3>8. InPhase(v, "upsert")' => Refilling(job[v].student)'
      <4>1. InPhase(v, "upsert")' => Refilling(s)'
        BY <2>4, <3>1, <3>6 DEF Restoring, InPhase
      <4>. QED  BY <3>1, <4>1 DEF Refilling, HasApplied, RowsOf
    <3>. QED  BY <3>7, <3>8
  <2>. QED  BY <2>1, <2>2, <2>3, <2>4
<1>. QED  BY <1>1, <1>2, <1>3 DEF Restoring

\* A student under rebuild has its lock taken.
LEMMA RebuiltIsLocked ==
  ASSUME Whole, NEW v \in Workers, job[v].task = "rebuild"
  PROVE  /\ job[v].student \in Students /\ ~LockFree(job[v].student) /\ HasIndex
         /\ lock[job[v].student] = v
BY OutboxConstants DEF Whole, Guarded, Occupied, LockFree

LEMMA WriteRestores ==
  ASSUME Whole, Restoring, NEW m \in Memories, WriteMemory(m), UNCHANGED job
  PROVE  Restoring'
<1>. DEFINE K == {UpsertKey(m, memories[m] + 1)}
<1>1. Box(outbox) /\ now \in 0..MaxTime /\ memories \in [Memories -> 0..MaxVersion]
  BY DEF Whole, Handling, OutboxTypeOK, Box
<1>2. \A k \in Keys : k.student_id # Owner[m] => outbox'[k] = outbox[k]
  <2>1. \A k \in Keys : k \notin K => outbox'[k] = outbox[k]
    BY <1>1, EnqueuedTyped DEF WriteMemory
  <2>2. \A k \in K : k.student_id = Owner[m]
    BY DEF UpsertKey
  <2>. HIDE DEF K
  <2>. QED  BY <2>1, <2>2
<1>3. \A n \in Memories : n # m => memories'[n] = memories[n]
  BY <1>1 DEF WriteMemory
<1>4. ASSUME NEW v \in Workers, job[v].task = "rebuild"
      PROVE  /\ \A k \in RowsOf(job[v].student) : outbox'[k] = outbox[k]
             /\ \A n \in Owned(job[v].student) : memories'[n] = memories[n]
  <2>1. job[v].student # Owner[m]
    BY <1>4, RebuiltIsLocked DEF WriteMemory
  <2>. QED  BY <1>2, <1>3, <2>1 DEF RowsOf, Owned
<1>. QED  BY <1>4, RestoringKept DEF WriteMemory

LEMMA DeletionStepRestores ==
  ASSUME Whole, Restoring, NEW s \in Students, RequestDeletion(s) \/ ExecuteDeletion(s)
  PROVE  Restoring'
<1>1. ASSUME NEW v \in Workers, job[v].task = "rebuild"
      PROVE  /\ \A k \in RowsOf(job[v].student) : outbox'[k] = outbox[k]
             /\ \A n \in Owned(job[v].student) : memories'[n] = memories[n]
  <2>1. job[v].student # s
    BY <1>1, RebuiltIsLocked DEF RequestDeletion, ExecuteDeletion
  <2>2. CASE RequestDeletion(s)
    BY <2>2 DEF RequestDeletion
  <2>3. CASE ExecuteDeletion(s)
    <3>1. \A k \in Keys : k.student_id # s => outbox'[k] = outbox[k]
      BY <2>3, Replaced DEF ExecuteDeletion, Whole
    <3>2. \A n \in Memories : Owner[n] # s => memories'[n] = memories[n]
      BY <2>3 DEF ExecuteDeletion, Owned
    <3>. QED  BY <2>1, <3>1, <3>2 DEF RowsOf, Owned
  <2>. QED  BY <2>2, <2>3
<1>2. UNCHANGED <<docs, seen, run, job>>
  BY DEF RequestDeletion, ExecuteDeletion
<1>. QED  BY <1>1, <1>2, RestoringKept

\* Steps that change no row and no memory, and start no rebuild.
LEMMA QuietRestores ==
  ASSUME Whole, Restoring, UNCHANGED <<memories, outbox, docs, seen>>,
         \A v \in Workers : run'[v] = run[v] \/ ~run'[v].applied,
         \A v \in Workers : job'[v] = job[v] \/ job'[v].task # "rebuild"
  PROVE  Restoring'
BY RestoringKept

LEMMA BeginRebuildRestores ==
  ASSUME Whole, Restoring, NEW w \in Workers, NEW s \in Students, BeginRebuild(w, s)
  PROVE  Restoring'
<1>. DEFINE j == [NoJob EXCEPT !.task = "rebuild", !.phase = "delete", !.student = s]
<1>1. /\ LockFree(s) /\ job' = [job EXCEPT ![w] = j] /\ run' = [run EXCEPT ![w] = RunOf(now, s, Keys)]
      /\ outbox' = Enqueued(Cleared(outbox, s), {DeleteKey(s)}, now)
      /\ UNCHANGED <<now, memories, docs, seen>>
  BY DEF BeginRebuild, Begin
<1>2. /\ run \in [Workers -> Run] /\ now \in 0..MaxTime /\ job \in [Workers -> Job] /\ Handling /\ Box(outbox)
  BY DEF Whole, Handling, OutboxTypeOK, Guarded, Box
<1>3. /\ j.task = "rebuild" /\ j.phase = "delete" /\ j.student = s
      /\ job'[w] = j /\ \A v \in Workers \ {w} : job'[v] = job[v]
  BY <1>1, <1>2 DEF NoJob
<1>. HIDE DEF j
<1>4. /\ \A v \in Workers \ {w} : run'[v] = run[v]
      /\ run'[w].rows = <<>> /\ ~run'[w].applied
  BY <1>1, <1>2, RunOfTyped
<1>5. /\ \A k \in Keys : /\ k.student_id # s => outbox'[k] = outbox[k]
                         /\ k.student_id = s /\ k.operation = "upsert"
                               => outbox'[k].status = "absent"
  BY <1>1, <1>2, Replaced
<1>6. outbox'[DeleteKey(s)].status # "deleted"
  <2>1. /\ Box(Cleared(outbox, s)) /\ DeleteKey(s) \in Keys
        /\ Cleared(outbox, s)[DeleteKey(s)] = NoRow
    BY <1>2, ClearedTyped, KeysTyped DEF DeleteKey
  <2>2. outbox'[DeleteKey(s)].status \in {NoRow.status, "pending"}
    BY <1>1, <1>2, <2>1, EnqueuedTyped
  <2>. QED  BY <2>2, NoRowTyped
<1>7. \A v \in Workers : ~HasApplied(v, s)'
  <2>1. ASSUME NEW v \in Workers \ {w}, HasApplied(v, s)' PROVE FALSE
    <3>1. run[v].rows # <<>> /\ run[v].student = s
      BY <1>4, <2>1 DEF HasApplied
    <3>. QED  BY <1>1, <1>2, <3>1, HeadFacts, OutboxConstants DEF LockFree
  <2>. QED  BY <1>4, <2>1 DEF HasApplied
<1>8. InPhase(w, "delete")' /\ Wiping(job[w].student)'
  <2>1. Wiping(s)' /\ job'[w].student = s
    BY <1>3, <1>5, <1>6, <1>7 DEF Wiping, RowsOf
  <2>. QED  BY <1>3, <2>1 DEF InPhase, Wiping, IsWiped, HasApplied, Owned, RowsOf
<1>9. ASSUME NEW v \in Workers \ {w}, job[v].task = "rebuild"
      PROVE  \A k \in RowsOf(job[v].student) : outbox'[k] = outbox[k]
  <2>1. job[v].student # s
    BY <1>1, <1>9, RebuiltIsLocked
  <2>. QED  BY <1>5, <2>1 DEF RowsOf
<1>10. \A v \in Workers \ {w} : job'[v] = job[v] /\ run'[v] = run[v]
  BY <1>3, <1>4
<1>11. UNCHANGED <<memories, docs, seen>>
  BY <1>1
<1>. QED  BY <1>4, <1>8, <1>9, <1>10, <1>11, RestoringKept

LEMMA EnqueueMemoriesRestores ==
  ASSUME Whole, Restoring, NEW w \in Workers, EnqueueMemories(w)
  PROVE  Restoring'
<1>0. PICK s \in Students : s = job[w].student
  BY RebuiltIsLocked DEF EnqueueMemories, IsBack
<1>. DEFINE K == {UpsertKey(m, memories[m]) : m \in {n \in Owned(s) : memories[n] > 0}}
<1>1. /\ job[w].task = "rebuild" /\ job[w].phase = "delete" /\ ~run[w].running
      /\ outbox[DeleteKey(s)].status = "deleted" /\ outbox' = Enqueued(outbox, K, now)
      /\ run' = [run EXCEPT ![w] = RunOf(now, s, Keys)]
      /\ job' = [job EXCEPT ![w].phase = "upsert"]
      /\ UNCHANGED <<now, memories, docs, seen, lock>>
  BY <1>0 DEF EnqueueMemories, IsBack
<1>2. /\ s \in Students /\ lock[s] = w /\ Wiping(s)
  BY <1>0, <1>1, RebuiltIsLocked DEF Restoring, InPhase
<1>3. /\ run \in [Workers -> Run] /\ now \in 0..MaxTime /\ job \in [Workers -> Job] /\ Handling /\ Box(outbox)
  BY DEF Whole, Handling, OutboxTypeOK, Guarded, Box
<1>4. \A k \in K : /\ k.student_id = s /\ k.operation = "upsert"
                   /\ k.version = memories[k.aggregate]
  BY DEF Owned, UpsertKey
<1>5. IsWiped(s)
  BY <1>1, <1>2 DEF Wiping
<1>. HIDE DEF K
<1>6. \A k \in Keys : /\ outbox[k].status # "absent" => outbox'[k] = outbox[k]
                      /\ k \notin K => outbox'[k] = outbox[k]
                      /\ outbox'[k].status \in {outbox[k].status, "pending"}
  BY <1>1, <1>3, EnqueuedTyped
<1>7. /\ job'[w].task = "rebuild" /\ job'[w].phase = "upsert" /\ job'[w].student = s
      /\ \A v \in Workers \ {w} : job'[v] = job[v]
  BY <1>0, <1>1, <1>3 DEF Job
<1>8. /\ \A v \in Workers \ {w} : run'[v] = run[v]
      /\ run'[w].rows = <<>> /\ ~run'[w].applied
  BY <1>1, <1>2, <1>3, RunOfTyped
<1>9. \A v \in Workers : ~HasApplied(v, s)'
  <2>1. ASSUME NEW v \in Workers \ {w}, HasApplied(v, s)' PROVE FALSE
    <3>1. run[v].rows # <<>> /\ run[v].student = s
      BY <1>8, <2>1 DEF HasApplied
    <3>. QED  BY <1>2, <1>3, <3>1, HeadFacts
  <2>. QED  BY <1>8, <2>1 DEF HasApplied
<1>10. Refilling(s)'
  <2>1. outbox'[DeleteKey(s)].status = "deleted"
    BY <1>1, <1>2, <1>6, KeysTyped
  <2>2. ASSUME NEW k \in RowsOf(s), k.operation = "upsert"
        PROVE  /\ outbox'[k].status # "absent" => k.version = memories[k.aggregate]
               /\ k \notin seen /\ outbox'[k].status # "indexed"
    <3>1. k \in Keys /\ outbox[k].status = "absent" /\ k \notin seen
      BY <1>2, <1>5, <2>2 DEF Wiping, IsWiped, RowsOf
    <3>. QED  BY <1>4, <1>6, <3>1
  <2>3. UNCHANGED <<memories, seen>>
    BY <1>1
  <2>. QED  BY <1>9, <2>1, <2>2, <2>3 DEF Refilling, RowsOf
<1>11. ASSUME NEW v \in Workers \ {w}, job[v].task = "rebuild"
       PROVE  \A k \in RowsOf(job[v].student) : outbox'[k] = outbox[k]
  <2>1. job[v].student # s
    BY <1>2, <1>11, RebuiltIsLocked
  <2>. QED  BY <1>4, <1>6, <2>1 DEF RowsOf
<1>12. InPhase(w, "upsert")' /\ Refilling(job[w].student)'
  BY <1>7, <1>10 DEF InPhase, Refilling, HasApplied, RowsOf
<1>. QED  BY <1>1, <1>7, <1>8, <1>11, <1>12, RestoringKept

\* A worker gets a run without rows, or none.
LEMMA FreshRun ==
  ASSUME Whole, NEW w \in Workers, NEW r, ~r.applied, run' = [run EXCEPT ![w] = r]
  PROVE  \A v \in Workers : run'[v] = run[v] \/ ~run'[v].applied
BY DEF Whole, Handling, OutboxTypeOK

LEMMA FreshJob ==
  ASSUME Whole, NEW w \in Workers, NEW j, j.task # "rebuild", job' = [job EXCEPT ![w] = j]
  PROVE  \A v \in Workers : job'[v] = job[v] \/ job'[v].task # "rebuild"
BY DEF Whole, Guarded

CompleteForSome(w) == \E s \in Students : BeginCompletion(w, s) \/ CompleteLocally(w, s)

\* The other operations: they begin and end, and a replay resets dead letters.
LEMMA OperationRestores ==
  ASSUME Whole, Restoring, NEW w \in Workers,
         \/ Completion(w) \/ NextBatch(w) \/ FinishRebuild(w)
         \/ BeginReplay(w) \/ FinishReplay(w) \/ ReplayRound(w) \/ JobCrash(w)
         \/ StartRun(w) /\ UNCHANGED job
  PROVE  Restoring'
<1>1. /\ now \in 0..MaxTime /\ job \in [Workers -> Job]
  BY DEF Whole, Handling, OutboxTypeOK, Guarded
<1>2. CASE CompleteForSome(w)
  <2>1. PICK s \in Students : BeginCompletion(w, s) \/ CompleteLocally(w, s)
    BY <1>2 DEF CompleteForSome
  <2>2. CASE BeginCompletion(w, s)
    <3>. DEFINE j == [NoJob EXCEPT !.task = "completion", !.student = s]
    <3>1. j.task # "rebuild" /\ ~RunOf(now, s, Keys).applied
      BY <1>1, RunOfTyped DEF NoJob
    <3>2. /\ job' = [job EXCEPT ![w] = j] /\ run' = [run EXCEPT ![w] = RunOf(now, s, Keys)]
          /\ UNCHANGED <<memories, outbox, docs, seen>>
      BY <2>2 DEF BeginCompletion, Begin
    <3>. HIDE DEF j
    <3>. QED  BY <3>1, <3>2, FreshRun, FreshJob, QuietRestores
  <2>3. CASE CompleteLocally(w, s)
    BY <2>3, QuietRestores DEF CompleteLocally
  <2>. QED  BY <2>1, <2>2, <2>3
<1>3. CASE FinishCompletion(w) \/ FinishRebuild(w)
  <2>1. /\ job' = [job EXCEPT ![w] = NoJob] /\ run' = [run EXCEPT ![w] = NoRun]
        /\ UNCHANGED <<memories, outbox, docs, seen>>
    BY <1>3 DEF FinishCompletion, FinishRebuild, Finish
  <2>2. NoJob.task # "rebuild" /\ ~NoRun.applied
    BY NoJobTyped, NoRunTyped
  <2>. QED  BY <2>1, <2>2, FreshRun, FreshJob, QuietRestores
<1>4. CASE JobCrash(w)
  <2>1. /\ job' = [job EXCEPT ![w] = NoJob] /\ run' = [run EXCEPT ![w] = NoRun]
        /\ UNCHANGED <<memories, outbox, docs, seen>>
    BY <1>4 DEF JobCrash, Dies
  <2>2. NoJob.task # "rebuild" /\ ~NoRun.applied
    BY NoJobTyped, NoRunTyped
  <2>. QED  BY <2>1, <2>2, FreshRun, FreshJob, QuietRestores
<1>5. CASE NextBatch(w)
  <2>1. ~RunOf(now, job[w].student, Keys).applied
    BY DEF RunOf
  <2>2. /\ run' = [run EXCEPT ![w] = RunOf(now, job[w].student, Keys)]
        /\ UNCHANGED <<memories, outbox, docs, seen, job>>
    BY <1>5 DEF NextBatch
  <2>. QED  BY <2>1, <2>2, FreshRun, QuietRestores
<1>6. CASE StartRun(w) /\ UNCHANGED job
  <2>1. ~RunOf(now, None, Keys).applied
    BY DEF RunOf
  <2>2. /\ run' = [run EXCEPT ![w] = RunOf(now, None, Keys)]
        /\ UNCHANGED <<memories, outbox, docs, seen, job>>
    BY <1>6 DEF StartRun
  <2>. QED  BY <2>1, <2>2, FreshRun, QuietRestores
<1>7. CASE BeginReplay(w) \/ FinishReplay(w)
  <2>1. PICK j : j.task # "rebuild" /\ job' = [job EXCEPT ![w] = j]
    <3>1. CASE FinishReplay(w)
      BY <3>1, NoJobTyped DEF FinishReplay
    <3>2. CASE BeginReplay(w)
      <4>1. PICK C : job' = [job EXCEPT ![w] = [NoJob EXCEPT !.task = "replay",
                                !.candidates = C, !.virtual_now = now]]
        BY <3>2, Zenon DEF BeginReplay
      <4>2. [NoJob EXCEPT !.task = "replay", !.candidates = C, !.virtual_now = now].task # "rebuild"
        BY DEF NoJob
      <4>. QED  BY <4>1, <4>2, Zenon
    <3>. QED  BY <1>7, <3>1, <3>2
  <2>2. UNCHANGED <<memories, outbox, docs, seen, run>>
    BY <1>7 DEF BeginReplay, FinishReplay, outboxVars
  <2>3. \A v \in Workers : job'[v] = job[v] \/ job'[v].task # "rebuild"
    BY <2>1, FreshJob
  <2>. QED  BY <2>2, <2>3, QuietRestores
<1>8. CASE ReplayRound(w)
  <2>1. PICK t \in Nat :
           /\ job' = [job EXCEPT ![w].virtual_now = t, ![w].rounds = @ + 1]
           /\ run' = [run EXCEPT ![w] = [RunOf(t, None, job[w].reset_ids)
                                            EXCEPT !.room = Cardinality(job[w].reset_ids)]]
    <3>1. NextAttempts(w) \subseteq Nat /\ job[w].virtual_now \in Nat
      <4>1. /\ outbox \in [Keys -> OutboxRow] /\ job[w] \in Job
        BY <1>1 DEF Whole, Handling, OutboxTypeOK
      <4>2. job[w].reset_ids \in SUBSET Keys /\ job[w].virtual_now \in 0..MaxTime
        BY <4>1 DEF Job
      <4>3. \A k \in Keys : outbox[k].next_attempt_at \in Nat
        BY <4>1, OutboxConstants DEF OutboxRow
      <4>4. \A x \in 0..MaxTime : x \in Nat
        OBVIOUS
      <4>. QED  BY <4>2, <4>3, <4>4 DEF NextAttempts
    <3>. QED  BY <1>8, <3>1 DEF ReplayRound
  <2>. DEFINE r == [RunOf(t, None, job[w].reset_ids) EXCEPT !.room = Cardinality(job[w].reset_ids)]
  <2>2. ~r.applied
    BY DEF RunOf
  <2>3. \A v \in Workers : job'[v] = job[v] \/ job'[v].task # "rebuild"
    <3>1. job[w] \in Job /\ job[w].task = "replay"
      BY <1>1, <1>8 DEF ReplayRound, IsBack
    <3>2. job'[w].task = "replay" /\ \A v \in Workers \ {w} : job'[v] = job[v]
      BY <1>1, <2>1, <3>1 DEF Job
    <3>. QED  BY <3>2
  <2>4. run' = [run EXCEPT ![w] = r]
    BY <2>1
  <2>5. UNCHANGED <<memories, outbox, docs, seen>>
    BY <1>8 DEF ReplayRound
  <2>. HIDE DEF r
  <2>. QED  BY <2>2, <2>3, <2>4, <2>5, FreshRun, QuietRestores
<1>. QED
  BY <1>2, <1>3, <1>4, <1>5, <1>6, <1>7, <1>8 DEF Completion, CompleteForSome

LEMMA ResetRestores ==
  ASSUME Whole, Restoring, NEW w \in Workers, NEW s \in Students, ResetStudent(w, s)
  PROVE  Restoring'
<1>. DEFINE dead == {k \in RowsOf(s) : outbox[k].status = "dead_letter"}
<1>1. /\ job \in [Workers -> Job] /\ job[w] \in Job /\ job[w].task = "replay"
      /\ outbox \in [Keys -> OutboxRow]
  BY DEF Whole, Guarded, Handling, OutboxTypeOK, ResetStudent
<1>2. \A k \in Keys : k \notin dead => outbox'[k] = outbox[k]
  BY DEF ResetStudent
<1>3. ASSUME NEW v \in Workers, job[v].task = "rebuild"
      PROVE  \A k \in RowsOf(job[v].student) : outbox'[k] = outbox[k]
  <2>1. job[v].student # s
    BY <1>3, RebuiltIsLocked DEF ResetStudent
  <2>. QED  BY <1>2, <2>1 DEF RowsOf
<1>4. job'[w].task = "replay" /\ \A v \in Workers \ {w} : job'[v] = job[v]
  BY <1>1 DEF ResetStudent, Job
<1>5. UNCHANGED <<memories, docs, seen, run>>
  BY DEF ResetStudent
<1>. HIDE DEF dead
<1>. QED  BY <1>3, <1>4, <1>5, RestoringKept

LEMMA StepRestores ==
  ~RemembersKeys /\ Whole /\ Restoring /\ [DeletionNext]_deletionVars => Restoring'
<1>. SUFFICES ASSUME ~RemembersKeys, Whole, Restoring, [DeletionNext]_deletionVars PROVE Restoring'
  OBVIOUS
<1>1. CASE (Tick /\ UNCHANGED job) \/ UNCHANGED deletionVars
  <2>1. UNCHANGED <<memories, outbox, docs, seen, run, job>>
    BY <1>1 DEF Tick, deletionVars, outboxVars
  <2>. QED  BY <2>1, QuietRestores
<1>2. ASSUME NEW w \in Workers, Dispatch(w) PROVE Restoring'
  BY <1>2, OperationRestores, WorkerRestores DEF Dispatch
<1>3. ASSUME NEW w \in Workers, Completion(w) PROVE Restoring'
  BY <1>3, OperationRestores
<1>4. ASSUME NEW w \in Workers, Rebuild(w) PROVE Restoring'
  BY <1>4, BeginRebuildRestores, EnqueueMemoriesRestores, OperationRestores DEF Rebuild
<1>5. ASSUME NEW w \in Workers, Replay(w) PROVE Restoring'
  BY <1>5, ResetRestores, OperationRestores DEF Replay
<1>6. ASSUME NEW w \in Workers, JobCrash(w) PROVE Restoring'
  BY <1>6, OperationRestores
<1>. QED
  BY <1>1, <1>2, <1>3, <1>4, <1>5, <1>6, WriteRestores, DeletionStepRestores DEF DeletionNext

\* An index that keeps its keys with the rows has every memory again, as it is in the
\* store, after a rebuild whose rows were delivered: whatever it had before, through
\* retries, other workers and replays next to the rebuild.
THEOREM RebuildsRestore ==
  ~RemembersKeys => (DeletionSpec => []RebuildRestores)
<1>. SUFFICES ASSUME ~RemembersKeys PROVE DeletionSpec => []RebuildRestores
  OBVIOUS
<1>1. DeletionInit => Restoring
  <2>. SUFFICES ASSUME DeletionInit PROVE Restoring
    OBVIOUS
  <2>1. /\ \A v \in Workers : ~run[v].applied /\ job[v].task = "none"
        /\ seen \in {{}, None}
    BY NoRunTyped, NoJobTyped DEF DeletionInit, OutboxInit
  <2>. QED  BY <2>1 DEF Restoring, Forgets, HasIndex, InPhase
<1>2. Whole /\ Restoring => RebuildRestores
  <2>. SUFFICES ASSUME Whole, Restoring, NEW w \in Workers, RebuildOver(w), job[w].phase = "upsert",
                       NEW m \in Owned(job[w].student), memories[m] > 0,
                       outbox[UpsertKey(m, memories[m])].status = "indexed"
                PROVE  docs[m] = memories[m]
    BY DEF RebuildRestores
  <2>1. Refilling(job[w].student)
    BY DEF RebuildOver, IsBack, Restoring, InPhase
  <2>. DEFINE k == UpsertKey(m, memories[m])
  <2>2. m \in Memories /\ memories[m] \in 1..MaxVersion /\ Owner[m] = job[w].student
    BY DEF Owned, Whole, Handling, OutboxTypeOK
  <2>3. /\ k \in Keys /\ k.student_id = job[w].student /\ k.operation = "upsert"
        /\ k.aggregate = m /\ k.version = memories[m]
    BY <2>2, KeysTyped DEF UpsertKey
  <2>4. k \in RowsOf(job[w].student) /\ outbox[k].status = "indexed"
    BY <2>3 DEF RowsOf
  <2>. HIDE DEF k
  <2>. QED  BY <2>1, <2>3, <2>4 DEF Refilling
<1>. QED  BY <1>1, <1>2, StepRestores, DeletionKeepsWhole, PTL DEF DeletionSpec
================================================================================
