----------------------------- MODULE LifespanProofs -----------------------------
(***************************************************************************)
(* Proofs about Lifespan, for any processes, releases and tenants: its     *)
(* state is well typed, migrations run in order and once, a process serves *)
(* only on its own schema, and no poll loses its connection.               *)
(***************************************************************************)
EXTENDS Lifespan, TLAPS

LEMMA VersionsFacts ==
  /\ Versions \subseteq Nat \ {0}
  /\ \A p \in Processes : Release[p] \in Nat \ {0} /\ 1..Release[p] \subseteq Versions
BY LifespanConstants DEF Versions

LEMMA InitTyped == LifespanInit => LifespanTypeOK
BY LifespanConstants DEF LifespanInit, LifespanTypeOK, Phases, Poll, NoPoll

LEMMA NoPollTyped == NoPoll \in Poll /\ [NoPoll EXCEPT !.running = TRUE] \in Poll
BY DEF NoPoll, Poll

\* Startup keeps the types.
LEMMA MigrateTyped ==
  ASSUME LifespanTypeOK, NEW p \in Processes, Migrate(p)
  PROVE  LifespanTypeOK'
<1>. USE DEF LifespanTypeOK, drainVars, Phases
<1>1. CASE LockMigrations(p)
  BY <1>1 DEF LockMigrations
<1>2. CASE ReadPending(p)
  BY <1>2, VersionsFacts DEF ReadPending
<1>3. CASE RefuseNewerSchema(p)
  BY <1>3 DEF RefuseNewerSchema, Closes
<1>4. CASE ApplyMigration(p)
  BY <1>4 DEF ApplyMigration
<1>5. CASE FailMigration(p)
  BY <1>5, LifespanConstants DEF FailMigration, Closes
<1>6. CASE Serve(p)
  BY <1>6 DEF Serve
<1>. QED  BY <1>1, <1>2, <1>3, <1>4, <1>5, <1>6 DEF Migrate

\* The drain loop keeps the types.
LEMMA DrainTyped ==
  ASSUME LifespanTypeOK, NEW p \in Processes, Drain(p)
  PROVE  LifespanTypeOK'
<1>. USE DEF LifespanTypeOK, startVars, Phases
<1>1. CASE StartPoll(p)
  BY <1>1, NoPollTyped DEF StartPoll
<1>2. CASE Discover(p)
  <2>1. poll[p] \in Poll
    OBVIOUS
  <2>3. poll' \in [Processes -> Poll]
    <3>. DEFINE found == [poll[p] EXCEPT !.discovered = TRUE,
                                         !.todo = {t \in TenantSet : work[t] > 0}]
    <3>1. poll' = [poll EXCEPT ![p] = found]
      BY <1>2, <2>1 DEF Discover, Poll
    <3>2. found \in Poll
      BY <2>1 DEF Poll
    <3>. QED  BY <3>1, <3>2
  <2>4. UNCHANGED <<startVars, phase, admin, task, cancelled, failed, work, faults>>
    BY <1>2 DEF Discover
  <2>5. UNCHANGED <<applied, migrator, pending>>
    BY <2>4
  <2>. QED  BY <2>3, <2>4, <2>5
<1>3. CASE FailDiscovery(p)
  <2>0. poll[p] \in Poll
    OBVIOUS
  <2>1. [poll[p] EXCEPT !.discovered = TRUE] \in Poll
    BY <2>0 DEF Poll
  <2>. QED  BY <1>3, <2>1, LifespanConstants DEF FailDiscovery
<1>4. CASE VisitTenant(p)
  <2>1. PICK t \in poll[p].todo :
          /\ poll' = [poll EXCEPT ![p].todo = @ \ {t}]
          /\ IF t \in Unreachable
             THEN failed' = [failed EXCEPT ![p] = @ \cup {t}] /\ UNCHANGED work
             ELSE work' = [work EXCEPT ![t] = 0] /\ UNCHANGED failed
    BY <1>4 DEF VisitTenant
  <2>2. t \in TenantSet
    BY <2>1 DEF Poll
  <2>3. poll' \in [Processes -> Poll]
    <3>1. poll[p] \in Poll
      OBVIOUS
    <3>2. [poll[p] EXCEPT !.todo = @ \ {t}] \in Poll
      BY <3>1 DEF Poll
    <3>. QED  BY <2>1, <3>2
  <2>4. work' \in [TenantSet -> 0..MaxWork]
    BY <2>1, LifespanConstants
  <2>5. failed' \in [Processes -> SUBSET TenantSet]
    BY <2>1, <2>2
  <2>. QED  BY <1>4, <2>3, <2>4, <2>5 DEF VisitTenant
<1>5. CASE EndPoll(p)
  BY <1>5, NoPollTyped DEF EndPoll
<1>. QED  BY <1>1, <1>2, <1>3, <1>4, <1>5 DEF Drain

LEMMA StepTyped == LifespanTypeOK /\ [LifespanNext]_lifespanVars => LifespanTypeOK'
<1>. SUFFICES ASSUME LifespanTypeOK, [LifespanNext]_lifespanVars PROVE LifespanTypeOK'
  OBVIOUS
<1>1. ASSUME NEW t \in TenantSet, WriteWork(t) PROVE LifespanTypeOK'
  BY <1>1, LifespanConstants DEF WriteWork, LifespanTypeOK
<1>2. ASSUME NEW p \in Processes, Start(p) PROVE LifespanTypeOK'
  BY <1>2 DEF Start, LifespanTypeOK, Phases, startVars, drainVars
<1>3. ASSUME NEW p \in Processes, Cancel(p) PROVE LifespanTypeOK'
  BY <1>3 DEF Cancel, LifespanTypeOK, Phases, startVars
<1>4. ASSUME NEW p \in Processes, Stop(p) PROVE LifespanTypeOK'
  BY <1>4 DEF Stop, Closes, LifespanTypeOK, Phases, startVars
<1>5. ASSUME NEW p \in Processes, Die(p) PROVE LifespanTypeOK'
  BY <1>5, LifespanConstants, NoPollTyped DEF Die, LifespanTypeOK, Phases
<1>6. CASE UNCHANGED lifespanVars
  BY <1>6 DEF lifespanVars, LifespanTypeOK
<1>. QED
  BY <1>1, <1>2, <1>3, <1>4, <1>5, <1>6, MigrateTyped, DrainTyped DEF LifespanNext

\* Every value a variable takes is one of its type.
THEOREM LifespanTypeCorrect == LifespanSpec => []LifespanTypeOK
BY InitTyped, StepTyped, PTL DEF LifespanSpec

--------------------------------------------------------------------------------
\* Where a process is in its startup: only the holder of the lock migrates, and
\* what it has still to apply is what the schema lacks of its own.
Migrating ==
    /\ \A p \in Processes : phase[p] \in {"locked", "migrating"} => migrator = p
    /\ \A p \in Processes : phase[p] = "migrating" =>
          /\ applied \subseteq 1..Release[p]
          /\ pending[p] = (1..Release[p]) \ applied

\* What a connection is open for.
Connected ==
    /\ \A p \in Processes : phase[p] # "down" => admin[p] = "open"
    /\ \A p \in Processes : poll[p].running => task[p] = "waiting"

LifespanInvariant == LifespanTypeOK /\ SchemaIsPrefix /\ Migrating /\ Connected

LEMMA InitInvariant == LifespanInit => LifespanInvariant
<1>. SUFFICES ASSUME LifespanInit PROVE LifespanInvariant
  OBVIOUS
<1>1. SchemaIsPrefix /\ Migrating
  BY DEF LifespanInit, SchemaIsPrefix, Migrating
<1>2. Connected
  BY DEF LifespanInit, Connected, NoPoll
<1>. QED  BY <1>1, <1>2, InitTyped DEF LifespanInvariant

\* A step that leaves the schema, its lock and the startups alone.
LEMMA StartsKept ==
  ASSUME SchemaIsPrefix, Migrating, UNCHANGED <<applied, migrator, pending>>,
         \A p \in Processes : phase'[p] \in {"locked", "migrating"} => phase'[p] = phase[p]
  PROVE  SchemaIsPrefix' /\ Migrating'
BY DEF SchemaIsPrefix, Migrating

\* The next migration of a process completes the schema up to it.
LEMMA ApplyKeepsOrder ==
  ASSUME LifespanInvariant, NEW p \in Processes, ApplyMigration(p)
  PROVE  SchemaIsPrefix' /\ Migrating'
<1>1. PICK v \in pending[p] :
        /\ \A u \in pending[p] : v <= u
        /\ applied' = applied \cup {v}
        /\ pending' = [pending EXCEPT ![p] = @ \ {v}]
  BY DEF ApplyMigration, IsNextMigration
<1>2. /\ phase[p] = "migrating" /\ UNCHANGED <<migrator, phase>>
      /\ pending \in [Processes -> SUBSET Versions] /\ applied \subseteq Versions
  BY DEF ApplyMigration, LifespanInvariant, LifespanTypeOK
<1>3. /\ applied \subseteq 1..Release[p]
      /\ pending[p] = (1..Release[p]) \ applied
      /\ \A q \in Processes : phase[q] = "migrating" => q = p
  BY <1>2 DEF LifespanInvariant, Migrating
<1>4. Release[p] \in Nat
  BY VersionsFacts
<1>5. 1..v \subseteq applied'
  BY <1>1, <1>3, <1>4
<1>6. SchemaIsPrefix'
  BY <1>1, <1>5 DEF LifespanInvariant, SchemaIsPrefix
<1>7. Migrating'
  <2>1. applied' \subseteq 1..Release[p] /\ pending'[p] = (1..Release[p]) \ applied'
    BY <1>1, <1>2, <1>3
  <2>. QED  BY <2>1, <1>2, <1>3 DEF LifespanInvariant, Migrating
<1>. QED  BY <1>6, <1>7

LEMMA StartupInvariant ==
  ASSUME LifespanInvariant, NEW p \in Processes, Migrate(p) \/ Start(p)
  PROVE  SchemaIsPrefix' /\ Migrating' /\ Connected'
<1>. USE DEF LifespanInvariant
<1>0. LifespanTypeOK
  OBVIOUS
<1>1. CASE Start(p)
  <2>1. Connected'
    BY <1>1 DEF Start, Connected, LifespanTypeOK, drainVars
  <2>. QED  BY <1>1, <2>1, StartsKept DEF Start, LifespanTypeOK, startVars
<1>2. CASE LockMigrations(p)
  <2>1. UNCHANGED <<applied, pending, admin, task, poll>> /\ migrator' = p
    BY <1>2 DEF LockMigrations, drainVars
  <2>2. phase' = [phase EXCEPT ![p] = "locked"] /\ phase[p] = "starting" /\ migrator = None
    BY <1>2 DEF LockMigrations
  <2>3. SchemaIsPrefix'
    BY <2>1 DEF SchemaIsPrefix
  <2>4. Migrating'
    BY <2>1, <2>2, LifespanConstants DEF Migrating, LifespanTypeOK
  <2>5. Connected'
    BY <2>1, <2>2 DEF Connected, LifespanTypeOK
  <2>. QED  BY <2>3, <2>4, <2>5
<1>3. CASE ReadPending(p)
  <2>1. applied \subseteq 1..Release[p]
    BY <1>3, VersionsFacts DEF ReadPending, TooNew, LifespanTypeOK
  <2>. QED
    BY <1>3, <2>1 DEF ReadPending, SchemaIsPrefix, Migrating, Connected, LifespanTypeOK, drainVars
<1>4. CASE RefuseNewerSchema(p)
  BY <1>4, LifespanConstants
     DEF RefuseNewerSchema, Closes, SchemaIsPrefix, Migrating, Connected, LifespanTypeOK, drainVars
<1>5. CASE ApplyMigration(p)
  <2>1. Connected'
    BY <1>5 DEF ApplyMigration, Connected, drainVars
  <2>. QED  BY <1>5, <2>1, ApplyKeepsOrder
<1>6. CASE FailMigration(p)
  BY <1>6 DEF FailMigration, Closes, SchemaIsPrefix, Migrating, Connected, LifespanTypeOK, drainVars
<1>7. CASE Serve(p)
  <2>1. Connected'
    BY <1>7 DEF Serve, Connected, LifespanTypeOK
  <2>2. SchemaIsPrefix' /\ Migrating'
    BY <1>7 DEF Serve, SchemaIsPrefix, Migrating, LifespanTypeOK
  <2>. QED  BY <2>1, <2>2
<1>. QED  BY <1>1, <1>2, <1>3, <1>4, <1>5, <1>6, <1>7 DEF Migrate

LEMMA DrainInvariant ==
  ASSUME LifespanInvariant, NEW p \in Processes, Drain(p)
  PROVE  SchemaIsPrefix' /\ Migrating' /\ Connected'
<1>1. UNCHANGED <<applied, migrator, pending, phase, admin>>
  BY DEF Drain, StartPoll, Discover, FailDiscovery, VisitTenant, EndPoll, startVars
<1>2. \A q \in Processes : poll'[q].running => task'[q] = "waiting"
  <2>. USE DEF LifespanInvariant, LifespanTypeOK, Connected, Poll
  <2>1. CASE StartPoll(p)
    BY <2>1 DEF StartPoll
  <2>2. CASE Discover(p)
    <3>1. UNCHANGED task /\ \A q \in Processes : poll'[q].running = poll[q].running
      BY <2>2 DEF Discover
    <3>. QED  BY <3>1
  <2>3. CASE FailDiscovery(p)
    <3>1. UNCHANGED task /\ \A q \in Processes : poll'[q].running = poll[q].running
      BY <2>3 DEF FailDiscovery
    <3>. QED  BY <3>1
  <2>4. CASE VisitTenant(p)
    <3>1. UNCHANGED task /\ \A q \in Processes : poll'[q].running = poll[q].running
      BY <2>4 DEF VisitTenant
    <3>. QED  BY <3>1
  <2>5. CASE EndPoll(p)
    BY <2>5 DEF EndPoll, NoPoll
  <2>. QED  BY <2>1, <2>2, <2>3, <2>4, <2>5 DEF Drain
<1>3. Connected'
  BY <1>1, <1>2 DEF LifespanInvariant, Connected
<1>. QED  BY <1>1, <1>3, StartsKept DEF LifespanInvariant

LEMMA StepInvariant == LifespanInvariant /\ [LifespanNext]_lifespanVars => LifespanInvariant'
<1>. SUFFICES ASSUME LifespanInvariant, [LifespanNext]_lifespanVars PROVE LifespanInvariant'
  OBVIOUS
<1>. USE DEF LifespanInvariant
<1>0. LifespanTypeOK'
  BY StepTyped
<1>1. ASSUME NEW t \in TenantSet, WriteWork(t) PROVE SchemaIsPrefix' /\ Migrating' /\ Connected'
  BY <1>1, StartsKept DEF WriteWork, Connected
<1>2. ASSUME NEW p \in Processes, Cancel(p) PROVE SchemaIsPrefix' /\ Migrating' /\ Connected'
  <2>1. Connected'
    BY <1>2 DEF Cancel, Connected, LifespanTypeOK
  <2>. QED  BY <1>2, <2>1, StartsKept DEF Cancel, startVars, LifespanTypeOK
<1>3. ASSUME NEW p \in Processes, Stop(p) PROVE SchemaIsPrefix' /\ Migrating' /\ Connected'
  <2>1. Connected'
    BY <1>3 DEF Stop, Closes, Connected, LifespanTypeOK
  <2>. QED  BY <1>3, <2>1, StartsKept DEF Stop, Closes, startVars, LifespanTypeOK
<1>4. ASSUME NEW p \in Processes, Die(p) PROVE SchemaIsPrefix' /\ Migrating' /\ Connected'
  BY <1>4 DEF Die, SchemaIsPrefix, Migrating, Connected, LifespanTypeOK, NoPoll
<1>5. CASE UNCHANGED lifespanVars
  <2>1. UNCHANGED <<applied, migrator, phase, pending, admin, task, poll>>
    BY <1>5 DEF lifespanVars
  <2>2. SchemaIsPrefix' /\ Migrating'
    BY <2>1, StartsKept
  <2>3. Connected'
    BY <2>1 DEF Connected
  <2>. QED  BY <1>0, <2>2, <2>3
<1>. QED
  BY <1>0, <1>1, <1>2, <1>3, <1>4, <1>5, StartupInvariant, DrainInvariant DEF LifespanNext

LEMMA InvariantHolds == LifespanSpec => []LifespanInvariant
BY InitInvariant, StepInvariant, PTL DEF LifespanSpec

\* A migration meets the schema that all earlier ones made, and none runs twice.
THEOREM MigrationsAreInOrder == LifespanSpec => []MigrationsInOrder
<1>1. LifespanInvariant => MigrationsInOrder
  BY DEF LifespanInvariant, Migrating, MigrationsInOrder, MigrationsRunOnce
<1>. QED  BY <1>1, InvariantHolds, PTL

\* The admin connection is open whenever a poll's thread may use it.
THEOREM AdminStaysOpen == LifespanSpec => []AdminOpenWhilePolled
<1>1. LifespanInvariant => AdminOpenWhilePolled
  BY DEF LifespanInvariant, Connected, AdminOpenWhilePolled, LifespanTypeOK
<1>. QED  BY <1>1, InvariantHolds, PTL

\* A process serves only after the schema became exactly its own.
THEOREM SchemaIsOwn == LifespanSpec => ServesOwnSchema
<1>. DEFINE Own == \A p \in Processes : phase[p] # "serving" /\ phase'[p] = "serving"
                      => applied = 1..Release[p]
<1>1. LifespanInvariant /\ [LifespanNext]_lifespanVars => [Own]_lifespanVars
  <2>. SUFFICES ASSUME LifespanInvariant, LifespanNext, NEW p \in Processes,
                       phase[p] # "serving", phase'[p] = "serving"
                PROVE  applied = 1..Release[p]
    BY DEF lifespanVars
  <2>1. phase \in [Processes -> Phases]
    BY DEF LifespanInvariant, LifespanTypeOK
  <2>2. Serve(p)
    BY <2>1 DEF LifespanNext, WriteWork, Start, Migrate, LockMigrations, ReadPending,
                RefuseNewerSchema, ApplyMigration, FailMigration, Serve, Closes, Drain, StartPoll,
                Discover, FailDiscovery, VisitTenant, EndPoll, Cancel, Stop, Die
  <2>. QED  BY <2>2 DEF Serve, LifespanInvariant, Migrating
<1>. QED  BY <1>1, InvariantHolds, PTL DEF LifespanSpec, ServesOwnSchema
================================================================================
