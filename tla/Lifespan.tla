------------------------------- MODULE Lifespan -------------------------------
(***************************************************************************)
(* Start and stop of the server's processes: app/main.py (lifespan and the *)
(* memory drain loop), the migrations it runs at startup                   *)
(* (app/infrastructure/migration_runner.py) and the tenant dispatcher that *)
(* the drain loop polls (app/memory/tenant_dispatcher.py).                 *)
(*                                                                         *)
(* Processes of several releases start, stop and die next to each other on *)
(* one database.  A poll runs in a thread of its own: the loop's task only *)
(* waits for it, and can be cancelled while it waits.  What a worker does  *)
(* with one batch of a tenant is MemoryOutbox; here it takes the tenant's  *)
(* rows out, or fails.                                                     *)
(***************************************************************************)
EXTENDS Integers, Functions

CONSTANTS
    Processes,   \* server processes
    Release,     \* Release[p]: the SCHEMA_VERSION of p's code
    Tenants,     \* tenant ids, in the order of ORDER BY tenant_id
    Unreachable, \* tenants whose batch always raises
    None,
    MaxWork,     \* bound: rows written for a tenant
    MaxFaults    \* bound: polls and migrations that fail, processes that die

TenantSet == {Tenants[i] : i \in DOMAIN Tenants}

ASSUME LifespanConstants ==
    /\ Release \in [Processes -> Nat \ {0}]
    /\ IsInjective(Tenants)
    /\ Unreachable \subseteq TenantSet
    /\ None \notin Processes /\ MaxWork \in Nat /\ MaxFaults \in Nat

Versions == UNION {1..Release[p] : p \in Processes}

Phases == {"down", "starting", "locked", "migrating", "serving", "stopping"}

VARIABLES
    applied,   \* schema_migrations
    migrator,  \* holder of the advisory lock 'bridgesat_migrations'
    phase,     \* per process, where its lifespan is
    pending,   \* per process, the migrations it has still to apply
    admin,     \* per process, its admin connection
    task,      \* per process, the drain loop: waiting for a poll, sleeping, ...
    cancelled, \* per process, run_pending_async remembers a cancellation
    poll,      \* per process, the thread of a poll: tenants to visit
    failed,    \* per process, dispatcher.last_errors
    work,      \* per tenant, claimable outbox rows
    faults     \* failures so far

lifespanVars == <<applied, migrator, phase, pending, admin, task, cancelled, poll,
                  failed, work, faults>>
startVars == <<applied, migrator, pending>>
drainVars == <<task, cancelled, poll, failed, work>>

\* A poll: its thread runs or not, has discovered the tenants or not.
Poll == [running: BOOLEAN, discovered: BOOLEAN, todo: SUBSET TenantSet]
NoPoll == [running |-> FALSE, discovered |-> FALSE, todo |-> {}]

LifespanTypeOK ==
    /\ applied \in SUBSET Versions
    /\ migrator \in Processes \cup {None}
    /\ phase \in [Processes -> Phases]
    /\ pending \in [Processes -> SUBSET Versions]
    /\ admin \in [Processes -> {"none", "open", "closed"}]
    /\ task \in [Processes -> {"none", "waiting", "sleeping", "ended"}]
    /\ \A p \in Processes : task[p] # "none" <=> phase[p] \in {"serving", "stopping"}
    /\ cancelled \in [Processes -> BOOLEAN]
    /\ poll \in [Processes -> Poll]
    /\ failed \in [Processes -> SUBSET TenantSet]
    /\ work \in [TenantSet -> 0..MaxWork]
    /\ faults \in 0..MaxFaults

LifespanInit ==
    /\ applied = {}
    /\ migrator = None
    /\ phase = [p \in Processes |-> "down"]
    /\ pending = [p \in Processes |-> {}]
    /\ admin = [p \in Processes |-> "none"]
    /\ task = [p \in Processes |-> "none"]
    /\ cancelled = [p \in Processes |-> FALSE]
    /\ poll = [p \in Processes |-> NoPoll]
    /\ failed = [p \in Processes |-> {}]
    /\ work = [t \in TenantSet |-> 0]
    /\ faults = 0

--------------------------------------------------------------------------------
(* Startup: the admin connection, then migrate_database.                   *)

\* connect_admin, and the check that both connections reach one database.
Start(p) ==
    /\ phase[p] = "down"
    /\ phase' = [phase EXCEPT ![p] = "starting"]
    /\ admin' = [admin EXCEPT ![p] = "open"]
    /\ UNCHANGED <<startVars, drainVars, faults>>

\* pg_advisory_lock: held by the session over the transactions that follow.
LockMigrations(p) ==
    /\ phase[p] = "starting" /\ migrator = None
    /\ migrator' = p
    /\ phase' = [phase EXCEPT ![p] = "locked"]
    /\ UNCHANGED <<applied, pending, admin, drainVars, faults>>

\* A lifespan that ends, at startup or after its task: `finally` closes the
\* admin connection, through the dispatcher when there is one.
Closes(p) ==
    /\ admin' = [admin EXCEPT ![p] = "closed"]
    /\ phase' = [phase EXCEPT ![p] = "down"]

\* Mutant: an older release goes on.
NeverTooNew(p) == FALSE

TooNew(p) == \E v \in applied : v > Release[p]

\* A schema that is newer than the release: unlock, raise.
RefuseNewerSchema(p) ==
    /\ phase[p] = "locked"
    /\ TooNew(p)
    /\ migrator' = None
    /\ Closes(p)
    /\ UNCHANGED <<applied, pending, drainVars, faults>>

\* The migrations of this release that are not applied.
ReadPending(p) ==
    /\ phase[p] = "locked"
    /\ ~TooNew(p)
    /\ pending' = [pending EXCEPT ![p] = (1..Release[p]) \ applied]
    /\ phase' = [phase EXCEPT ![p] = "migrating"]
    /\ UNCHANGED <<applied, migrator, admin, drainVars, faults>>

\* v is the next migration in p's loop, which goes by version.
IsNextMigration(p, v) == v \in pending[p] /\ \A u \in pending[p] : v <= u

\* One migration and its row in schema_migrations, in one transaction.
ApplyMigration(p) ==
    /\ phase[p] = "migrating"
    /\ \E v \in pending[p] :
          /\ IsNextMigration(p, v)
          /\ applied' = applied \cup {v}
          /\ pending' = [pending EXCEPT ![p] = @ \ {v}]
    /\ UNCHANGED <<migrator, phase, admin, drainVars, faults>>

\* Mutant: the next migration is tried after one that failed.
SkipMigration(p) ==
    /\ phase[p] = "migrating" /\ faults < MaxFaults
    /\ faults' = faults + 1
    /\ \E v \in pending[p] : /\ IsNextMigration(p, v)
                              /\ pending' = [pending EXCEPT ![p] = @ \ {v}]
    /\ UNCHANGED <<applied, migrator, phase, admin, drainVars>>

\* A migration raises: its transaction is rolled back, the lock is released.
FailMigration(p) ==
    /\ phase[p] = "migrating" /\ pending[p] # {} /\ faults < MaxFaults
    /\ faults' = faults + 1
    /\ pending' = [pending EXCEPT ![p] = {}]
    /\ migrator' = None
    /\ Closes(p)
    /\ UNCHANGED <<applied, drainVars>>

\* All applied: unlock, create the dispatcher and the task of the drain loop.
Serve(p) ==
    /\ phase[p] = "migrating" /\ pending[p] = {}
    /\ migrator' = None
    /\ phase' = [phase EXCEPT ![p] = "serving"]
    /\ task' = [task EXCEPT ![p] = "sleeping"]
    /\ UNCHANGED <<applied, pending, admin, cancelled, poll, failed, work, faults>>

--------------------------------------------------------------------------------
(* _memory_drain_loop and TenantOutboxDispatcher.                          *)

WriteWork(t) ==
    /\ work[t] < MaxWork
    /\ work' = [work EXCEPT ![t] = @ + 1]
    /\ UNCHANGED <<applied, migrator, phase, pending, admin, task, cancelled, poll,
                   failed, faults>>

\* run_pending_async hands run_once to a thread; _reset_run_state.
StartPoll(p) ==
    /\ task[p] = "sleeping"
    /\ task' = [task EXCEPT ![p] = "waiting"]
    /\ poll' = [poll EXCEPT ![p] = [NoPoll EXCEPT !.running = TRUE]]
    /\ failed' = [failed EXCEPT ![p] = {}]
    /\ UNCHANGED <<startVars, phase, admin, cancelled, work, faults>>

\* tenant_ids, on the admin connection.
Discover(p) ==
    /\ poll[p].running /\ ~poll[p].discovered
    /\ poll' = [poll EXCEPT ![p].discovered = TRUE,
                   ![p].todo = {t \in TenantSet : work[t] > 0}]
    /\ UNCHANGED <<startVars, phase, admin, task, cancelled, failed, work, faults>>

\* The database does not answer: the poll ends, the loop logs it.
FailDiscovery(p) ==
    /\ poll[p].running /\ ~poll[p].discovered /\ faults < MaxFaults
    /\ faults' = faults + 1
    /\ poll' = [poll EXCEPT ![p].discovered = TRUE]
    /\ UNCHANGED <<startVars, phase, admin, task, cancelled, failed, work>>

\* t is the next tenant of the poll, which goes by tenant_id.
IsNextTenant(p, t) ==
    /\ t \in poll[p].todo
    /\ \E i \in DOMAIN Tenants :
          Tenants[i] = t /\ \A j \in 1..(i - 1) : Tenants[j] \notin poll[p].todo

\* Mutant: a tenant's error ends the poll.
VisitTenantOrStop(p) ==
    /\ \E t \in poll[p].todo :
          /\ IsNextTenant(p, t)
          /\ IF t \in Unreachable
             THEN /\ poll' = [poll EXCEPT ![p].todo = {}]
                  /\ UNCHANGED <<failed, work>>
             ELSE /\ poll' = [poll EXCEPT ![p].todo = @ \ {t}]
                  /\ work' = [work EXCEPT ![t] = 0]
                  /\ UNCHANGED failed
    /\ UNCHANGED <<startVars, phase, admin, task, cancelled, faults>>

\* One batch of the next tenant on a connection of its own; an error is
\* recorded and the connection cleaned up, and the loop goes on.
VisitTenant(p) ==
    /\ \E t \in poll[p].todo :
          /\ IsNextTenant(p, t)
          /\ poll' = [poll EXCEPT ![p].todo = @ \ {t}]
          /\ IF t \in Unreachable
             THEN failed' = [failed EXCEPT ![p] = @ \cup {t}] /\ UNCHANGED work
             ELSE work' = [work EXCEPT ![t] = 0] /\ UNCHANGED failed
    /\ UNCHANGED <<startVars, phase, admin, task, cancelled, faults>>

PollDone(p) == poll[p].running /\ poll[p].discovered /\ poll[p].todo = {}

\* Mutant: a cancellation remembered during the wait is forgotten.
EndPollForgetting(p) ==
    /\ task[p] = "waiting"
    /\ PollDone(p)
    /\ poll' = [poll EXCEPT ![p] = NoPoll]
    /\ task' = [task EXCEPT ![p] = "sleeping"]
    /\ UNCHANGED <<startVars, phase, admin, cancelled, failed, work, faults>>

\* The thread is done and the task runs again: a cancellation it remembers is
\* raised now, an error is logged, and it sleeps.
EndPoll(p) ==
    /\ task[p] = "waiting"
    /\ PollDone(p)
    /\ poll' = [poll EXCEPT ![p] = NoPoll]
    /\ task' = [task EXCEPT ![p] = IF cancelled[p] THEN "ended" ELSE "sleeping"]
    /\ UNCHANGED <<startVars, phase, admin, cancelled, failed, work, faults>>

--------------------------------------------------------------------------------
(* Shutdown.                                                               *)

\* Mutant: the wait for the thread is not shielded.
CancelUnshielded(p) ==
    /\ phase[p] = "serving"
    /\ phase' = [phase EXCEPT ![p] = "stopping"]
    /\ cancelled' = [cancelled EXCEPT ![p] = TRUE]
    /\ task' = [task EXCEPT ![p] = "ended"]
    /\ UNCHANGED <<startVars, admin, poll, failed, work, faults>>

\* lifespan after its yield: task.cancel().  A task that sleeps ends; one that
\* waits for the thread remembers the cancellation and waits on.
Cancel(p) ==
    /\ phase[p] = "serving"
    /\ phase' = [phase EXCEPT ![p] = "stopping"]
    /\ cancelled' = [cancelled EXCEPT ![p] = TRUE]
    /\ task' = [task EXCEPT ![p] = IF @ = "sleeping" THEN "ended" ELSE @]
    /\ UNCHANGED <<startVars, admin, poll, failed, work, faults>>

\* `await task` returns; dispatcher.close().
Stop(p) ==
    /\ phase[p] = "stopping" /\ task[p] = "ended"
    /\ Closes(p)
    /\ task' = [task EXCEPT ![p] = "none"]
    /\ cancelled' = [cancelled EXCEPT ![p] = FALSE]
    /\ UNCHANGED <<startVars, poll, failed, work, faults>>

\* The process dies: its sessions end, and the locks they hold.
Die(p) ==
    /\ phase[p] # "down" /\ faults < MaxFaults
    /\ faults' = faults + 1
    /\ phase' = [phase EXCEPT ![p] = "down"]
    /\ admin' = [admin EXCEPT ![p] = "none"]
    /\ migrator' = IF migrator = p THEN None ELSE migrator
    /\ pending' = [pending EXCEPT ![p] = {}]
    /\ task' = [task EXCEPT ![p] = "none"]
    /\ cancelled' = [cancelled EXCEPT ![p] = FALSE]
    /\ poll' = [poll EXCEPT ![p] = NoPoll]
    /\ failed' = [failed EXCEPT ![p] = {}]
    /\ UNCHANGED <<applied, work>>

Migrate(p) == LockMigrations(p) \/ ReadPending(p) \/ RefuseNewerSchema(p)
                 \/ ApplyMigration(p) \/ FailMigration(p) \/ Serve(p)

Drain(p) == StartPoll(p) \/ Discover(p) \/ FailDiscovery(p) \/ VisitTenant(p) \/ EndPoll(p)

LifespanNext ==
    \/ \E t \in TenantSet : WriteWork(t)
    \/ \E p \in Processes : Start(p) \/ Migrate(p) \/ Drain(p) \/ Cancel(p) \/ Stop(p) \/ Die(p)

LifespanSpec == LifespanInit /\ [][LifespanNext]_lifespanVars

\* A process that started goes on: its startup, its loop (await returns, a
\* sleep ends, the thread is scheduled) and its shutdown.  PostgreSQL queues the
\* sessions that wait for an advisory lock, so each gets it in the end.
LifespanFairness ==
    \A p \in Processes : /\ SF_lifespanVars(LockMigrations(p))
                         /\ WF_lifespanVars(Migrate(p))
                         /\ WF_lifespanVars(Drain(p))
                         /\ WF_lifespanVars(Stop(p))

FairLifespanSpec == LifespanSpec /\ LifespanFairness

--------------------------------------------------------------------------------
\* No migration is run twice, whatever processes start together: what a
\* migrating process has still to run nobody else has applied since it looked.
MigrationsRunOnce ==
    \A p \in Processes : phase[p] = "migrating" =>
        pending[p] \cap applied = {}

\* A migration meets the schema all earlier ones have made, also after failures
\* and deaths between two of them and with processes of several releases.
SchemaIsPrefix == \A v \in applied : 1..v \subseteq applied

\* At any time the schema is what the releases' lists of migrations make of it, in
\* their order (migrate_database under its advisory lock).
MigrationsInOrder == SchemaIsPrefix /\ MigrationsRunOnce

\* docs/API_AND_OPERATIONS.md: the application refuses to start on a schema that
\* is newer than it supports.  It starts to serve only on exactly its own.
ServesOwnSchema ==
    [][\A p \in Processes : phase[p] # "serving" /\ phase'[p] = "serving"
          => applied = 1..Release[p]]_lifespanVars

\* run_pending_async: the admin connection is not closed while run_once uses it.
AdminOpenWhilePolled ==
    \A p \in Processes : poll[p].running => admin[p] = "open"

\* A tenant's rows are taken while some process keeps serving, although another
\* tenant before it fails in every poll and some polls fail as a whole.
TenantsAreServed ==
    (\E p \in Processes : <>[](phase[p] = "serving"))
        => \A t \in TenantSet \ Unreachable : work[t] > 0 ~> work[t] = 0

\* A shutdown ends, and a startup is decided, whatever other processes do.
LifespanMoves ==
    \A p \in Processes : /\ phase[p] = "stopping" ~> phase[p] = "down"
                         /\ phase[p] = "starting" ~> phase[p] \in {"serving", "down"}
================================================================================
