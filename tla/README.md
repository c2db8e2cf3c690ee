# GoAl: verification of supervision, recovery, storage, pipelines and console

GoAl starts local model servers as child processes, one *instance* per launch, keeps
their state in a JSON repository, groups launches into pipelines and shows everything in
an embedded web UI. This directory holds TLA+ models of that program, the TLC runs that
check them on small instances, and theorems about them checked by TLAPS. Paths below are
relative to the repository.

## 1. Inventory of the system

| Component | State it keeps | Operations | What makes it hard |
|---|---|---|---|
| **Supervisor** `internal/process/supervisor.go`, `arbitration.go` | registry of controllers; per controller the lifecycle state, the active operation, the current run; pre-spawn counter, drain latch; concurrency slots | `AdmitAndStart`, `Stop`, `Restart`, `RestartWithLaunch`, `Shutdown`, `ShutdownWithPersistence`, `ForgetCleanedControllers`, the `wait()` goroutine | six mutexes, one goroutine per process, lock-free readers of a published view, store writes that fail, kills that are not confirmed, a shutdown racing all of it |
| **Manager** `manager.go` | the child process, its exit status | `Start`, `Stop`, `Kill`, `wait` | reused by every generation of an instance |
| **Orphan recovery** `supervisor.go:1015-1168`, `supervisor_kill.go` | repository records of an earlier GoAl process | `Recover`, `DismissOrphan`, `KillOrphan` | crash and restart, reused PIDs, five-second windows between check and act |
| **Repository** `storage/repository.go` | models, runtimes, pipelines, bindings, instances; one RW mutex | CRUD, cleanup, import plan | rollback in memory when the file write fails, referential integrity, callers that check and then act |
| **Durable files** `fsutil/fsutil.go` | document, `.tmp`, `.bak` | `WriteFileDurable` | a crash between two system calls |
| **Pipeline service** `application/pipeline_service.go` | a lock per pipeline | start, stop, restart, CRUD | partial failure; structural edits while instances run |
| **Other services** `application/*_service.go` | none of their own | model, runtime, instance CRUD | check-then-act over the repository |
| **Import and export** `storage/import_plan.go`, `application/portable` | none | plan, apply | a pure algorithm over a reference graph |
| **Log store and broker** `log_store.go` | ring, subscribers | append, query, subscribe | slow subscribers, cursors that age out |
| **Audit log** `webui/audit/audit.go` | current file, size | append, rotate | fails open, crash in a rotation |
| **Listeners and reload** `webui/server.go`, `handlers/system.go` | set of listeners | replace, shut down | requests served by a listener being replaced |
| **Sessions, CSRF, rate limit** `webui/security` | maps with expiry | create, validate, sweep | caps and windows |
| **Configuration** `config`, **updater**, **platform**, **handlers**, **front end** | files, system calls | load, validate, migrate, render | mostly sequential |

How they interact: HTTP handlers call the services; the services read the repository and
call the supervisor; the supervisor writes instance records to the repository (never under
`s.mu`, sometimes under `ic.mu`) and drives one Manager per controller; `wait()` goroutines
call back into the supervisor when a process exits; `cmd/goal/main.go` runs `Recover`, then
autostart, then the server, and on a signal cancels the lifecycle context and runs
`ShutdownWithPersistence`.

What makes each component correct, as far as this project states it now, is in section 8;
the hazards, each at its line, are in `PROJECT.json`.

## 2. Modules

| Module | Models | Uses |
|---|---|---|
| `Supervisor` | launch, restart, stop, rollback, drain, shutdown, cleanup, slots | |
| `ModelExclusion` | abstract: a lock whose holders must not conflict | |
| `SupervisorProperties`, `SupervisorProofs` | properties, refinement and proofs of the above | `Supervisor`, `ModelExclusion` |
| `GenerationProofs`, `FirstGenerationProofs` | proofs about generations; about systems in which nothing is restarted | `SupervisorProofs` |
| `OrphanRecovery`, `OrphanRecoveryProofs` | records left by a crash: `Recover`, `DismissOrphan`, `KillOrphan` | |
| `DurableRegister` | abstract: a register that survives crashes | |
| `DurableFile`, `DurableFileProofs` | `WriteFileDurable` under the repository's lock, `load()` | `DurableRegister` |
| `Migration`, `ImportPlan` | older schemas and seeds, the import planner, as operators | |
| `Catalogue`, `CatalogueProofs` | repository and services over runtimes, models, pipelines; import; boot; and that all this is one durable document | `DurableFile`, `Migration`, `ImportPlan` |
| `Pipelines`, `PipelinesProofs` | pipeline, instance and model services over an abstract supervisor | |
| `LogStream`, `WebServer`, `AuditLog`, `Settings` | the console's four parts | |
| `Console`, `ConsoleProofs` | the four side by side; proofs about each of them | |

The `MC...` modules hold the instances for TLC. What the plan still holds:

1. lemmas that join the models: that what `OrphanRecovery` assumes of the records a crash leaves
   is what `Supervisor` writes, and that `ValidatePipelineEntry` in `Catalogue` yields the layouts
   `Pipelines` assumes (`EntriesStayUnique` is its half of it);
2. `Supervisor` under `Pipelines` in one specification, with the sealed interface of
   `Pipelines` as the abstract one.

## 3. The supervisor model

`Supervisor.tla` names a launch by the instance it creates and a restart by a request;
both are *operations*. An operation spends one spawn claim, so it creates at most one
process *generation*, which carries its name. `pc[op]` is where the goroutine of the
operation is, `stopPc[i]` where a stop of controller `i` is, `waitPc[op]` where the
`wait()` goroutine of the generation is.

| Variables | Code |
|---|---|
| `registry`, `istate`, `active`, `run` | `s.instances`; `view.instance.State`, `view.active`, `view.run` of each controller |
| `tokens`, `preSpawnInFlight`, `draining`, `zeroSig`, `cancelled` | `ctrl.preSpawnToken`, the counter, the latch, the closed channel, the lifecycle context |
| `arbLock`, `lifecycleMu` | the mutexes of those names; `ic.mu` is implied by the program counters (`MuFree`) |
| `slot`, `proc`, `runDone`, `waitPc`, `waitEntry` | reservation, OS process, `run.done`, `wait()` and the entry it captured |
| `durable`, `orphans` | the repository record of each instance; models with an orphan record |
| `shutdown`, `shutdownTodo`, `shutdownErr` | `Shutdown` and its snapshot |

An action is one critical section, or several between which nothing that another
goroutine reads has changed. `arbLock`, `lifecycleMu` and `ic.mu` are held across
actions; `launchMu` and `s.mu` never are. Every store write may fail, every wait bounded
by a context may end early, a kill may be confirmed, unconfirmed or refused, and a stop
may return while the process lives.

Abstractions, and why they lose nothing the properties speak of:

- `publishClaimLocked` holds `launchMu` while it waits for `ic.mu`, which a stop holds for
  up to 15 seconds. The model waits without `launchMu`: other launches are delayed in
  the code, never reordered in a way the model lacks.
- Exit classes, errors, PIDs and log output are left out, except that `wait()` maps a
  Manager without exit class to `failed`.
- A user `Stop` keeps the controller it looked up, so it may reach one that has left the
  registry since. A stop that finds a terminal or pending instance changes nothing and is
  no action.
- `ListByModelID` does not fail (the JSON repository cannot fail there). The records
  written by `ShutdownWithPersistence` are written in one step.
- The owner's `Kind` is "the pipeline is not empty", which is how both constructors set it.
- `ForgetCleaned` is one candidate's turn under `launchMu`. The lists it comes from were read earlier
  and may be of any age, so it asks nothing of the record: what it must find out itself is all there is.
- A slot is a member of a set, so returning it twice is returning it once, as `releaseOnce` makes it.
- `Shutdown` may begin without a signal: `main.go:309-314` calls it when the server fails.
- `WaitPersist` does not model the second `ic.mu` section that only appends to `LastError`.
- `RemoveTerminal` has no production caller and is not modelled.
- A failed store write leaves the record as it was. The repository restores its memory; that
  the file may already have been replaced when `SyncDir` fails belongs to `DurableFile`.

`SupervisorProperties.tla` states the properties, the refinement and the inductive
invariant; `ModelExclusion.tla` is the abstract specification: a lock whose holders must not
conflict, claimed and released one at a time. The refinement maps its holders to the
controllers that are conflict-visible.

## 4. The recovery model

`OrphanRecovery.tla` starts where the supervisor's model stops: when GoAl itself goes away.
It keeps, per launch record, the repository's view (`rec`: state, PID present, recovery
reason) and who is at that PID in truth (`at`: nobody yet, the recorded process, nobody
any more, a stranger with the same executable, another stranger). `Crash` may come at any
moment and ends every request; `Boot` and `Classify` are `Recover`, one record at a time,
each write of which may fail; `RecoverEnds` is `main.go:279`, which serves only if every
verdict was saved. `DismissGet`/`DismissWrite` and the `Kill...` actions are `DismissOrphan`
and `KillOrphan`: each reads its record once, takes no lock and writes its copy back at
the end. A kill goes verify, SIGTERM, grace, recheck, SIGKILL, confirm on Unix and verify,
terminate, confirm on Windows (`platform` is chosen initially); each probe and each signal is
a step of its own because the PID may change hands in between.

| Variables | Code |
|---|---|
| `goal`, `todo`, `unsaved` | the GoAl process; the loop of `Recover` and its `persistErrs` |
| `rec`, `at`, `owned` | `LaunchInstanceEntry`; the operating system; the controllers of this GoAl |
| `killPc`, `dismissPc`, `object`, `reason` | the requests under way and the copies they hold |
| `givenUp`, `late` | history: records resolved without a confirmed exit; kills that verified nothing while the process lived |

Abstractions: a launch is reduced to what a crash can leave behind (a record without PID, a
process without durable PID, both, neither); arbitration is "nothing of the model is owned
and none of its records is an orphan". A stranger that has the same executable and started
within five seconds of the recorded process cannot be told from it and is left out. A probe
may fail or answer, and an answer is right: on Windows `IsProcessAlive` calls every
`OpenProcess` error but access-denied "not alive", which the models' "no answer counts as
gone" covers in `Recover` and in the first probe of a kill, not in the later ones. An
orphan always has a PID, so `KillOrphan`'s branch for `PID <= 0` cannot be reached. A
cancelled request ends the kill in a refusal, as `pollGone` does.

## 5. The storage models

**`DurableFile`** is the document `goal_repo.json`: memory, the save under `r.mu` step by
step (temporary file, copy to the backup, its directory sync, rename, directory sync), the directory
as processes see it (`file`) and as the last sync left it (`stable`). On POSIX a rename is in
`stable` only after a directory sync; on Windows at once. Any step may fail, and then memory
is rolled back and what is renamed stays renamed; the process may exit, the power may go
(each rename since the last sync is there or not), and the medium may lose the main file once.
`Open` is `NewJSONRepository` with `load()`, its fallback to the backup and the first save of
a new repository.

`DurableRegister` is what all this promises. It keeps the value readers see, the value of the
save under way (`pending`) and the values a reopening may find (`durable`). A value enters
`durable` only while its own save is pending, an acknowledgement leaves the acknowledged one
alone there, and outside a save only a crash touches it, by settling which of its values is
found. So `durable` is the document acknowledged last and documents submitted since whose saves
were refused or cut off; never a torn file, an older document or a mixture. The comment at
`fsutil.go:83` promises "either unchanged or durably replaced": when the last directory sync
fails the document is replaced, not yet durably, and an error is returned; the register
therefore lets a refused write be found, and lets the save that follows it settle the refused
document in place of the acknowledged one (the sync of its backup does).

**`Catalogue`** puts the repository's mutations and the services' checks on it. A request
(`req`) is two steps: `Check` reads under a read lock that is released, `Act` mutates under the
lock that `DurableFile` then holds through the save. `todo` is what a boot has still to migrate
(`MigrateFromOldStores`) and seed (`SeedFromConfig`) before it serves.

| Variables | Code |
|---|---|
| `posix`, `running`, `mem`, `save` | the platform; the process; `r.runtimes`, `r.models`, `r.pipelines`; the save and its rollback |
| `file`, `stable`, `damaged` | the document and `.bak`, as seen and as synced; media failures so far |
| `req`, `todo` | HTTP requests with what their check read; the rest of the boot |

A document (`Document` of `DurableFile`) is whatever `load()` takes as it is; `Catalogue` says
which ones there are (`IsCatalogue`): tables from identifiers to records, in which every
entry of a pipeline has an identity of its own (`DistinctIds`; `ValidatePipelineEntry` and the bundle
validation refuse two alike, the repository allocates what is missing, and `load()` fills in what
files from before ADR 013 lack). `UsedIds` is what the random identifiers of `generateID` come to: an
identity that neither the stored pipeline nor the request uses. `CatalogueAssumption` says what the
constants range over: decoded requests, bundles, legacy data and older files of the right shape.

Abstractions: the several reads of one service call are one step; arguments, paths and flags
that no rule looks at are one field `body`; the environment is a field of its own because restore must
keep it; the identifiers that a client sends for bundle entries are never empty (the portable
layer refuses them); instance records are in `Supervisor` and `Pipelines`, not here. Requests
that check and write apart can undo each other's premises: two creates can give one name to
two runtimes, a deleted runtime can leave a model behind, `Activate` can write back a record
that was patched meanwhile. The code accepts that, so `ChecksHold` speaks of a check and a write
with no other write between, and the import properties of every catalogue such races leave. It
also exempts a runtime that is replaced by itself: no line compares the two identifiers, and the
request deletes the runtime under its models (`repository.go:695-747`).

## 6. The pipelines model

`Pipelines.tla` is the services above the supervisor. A request is a goroutine with its
program counter (`req`); `Boot` is the startup goroutine that autostarts Active pipelines and then
Active models before the server listens. Group requests hold the pipeline's mutex from
`lockPipeline` to their answer; updates and deletions do not take it.

| Variables | Code |
|---|---|
| `pipes`, `mutex` | the pipelines and their entries; `s.locks` |
| `state`, `owner`, `op`, `mu` | the registry as the services see it; `LaunchOwner`; the published operation; `lifecycleMu` |
| `late`, `durable` | exits whose `wait()` has still to persist them; the repository's records |
| `req`, `booted`, `made` | goroutines; progress of the autostart; requests so far |
| `draining`, `faults` | the shutdown latch; failed writes and spawns, exits nobody asked for, the shutdown |

What the services decide from is sometimes the registry (`state`) and sometimes the repository
(`durable`), and the two differ while a launch is admitted but not recorded, while an exit is
published but not persisted, and after a write that failed.

Abstractions: the supervisor is seen from outside, arbitration is one step and its two
defects of `v_exclusion` and `v_terminal` are not repeated; orphans are a fixed set of fenced
models; edits drop, reorder and retarget entries but add none, and no import runs (ADR 018 lets an
import restructure a pipeline that is active); entries without an identity, which
older files have, cannot be live. Instances that somebody restarted one by one are excepted from the group
properties: such a restart may take effect after the group's stop, which nothing forbids. An identifier
is minted once (`instanceIDSeq`), which one is immaterial.

Two things the model shows and no document denies: an edit that overlaps a start can strand
the processes of an entry it drops, since it takes no pipeline lock and the records it reads
lag (hence "quiet" in `EditStrandsNothing`: no lifecycle request and no
other edit overlapped it; the comment at `pipeline_service.go:359` that "no active owned
instance is left unassigned" is about instances without attribution only); and a launch that
failed and whose terminal write was lost leaves a record `pending` with no controller, which
blocks structural edits until GoAl restarts.

## 7. The console models

Four modules that share no variable, as the code shares none; `Console` composes them so that
a behaviour follows one of them, chosen at the start, while the others stand still.

- **`LogStream`**: two pipe readers per run, the ring of the `LogStore`, the run's feed, its
  forwarder and exit announcement, `LogBroker.Publish` (number, snapshot, one non-blocking send
  per subscriber) and the SSE handler (history, subscription, events, `Cancel`). A stream can miss the lines between
  its history and its subscription, and repeat the lines that wait in the feed; both are in the
  model. `LogBroker.Shutdown` and `AggregateLogs` have no production caller.
- **`WebServer`**: `Run` from binding every listener or none to the collected error. `http.Server` is
  external. The order of the configured listeners is left out. One open log stream holds a
  regular stop for the whole deadline and makes `Run` return an error, which
  `TestSharedShutdownDeadlineWithOpenStreams` accepts.
- **`AuditLog`**: `Log` holds its mutex throughout, so a call is one step with every outcome
  of its system calls; a file is a sequence of whole lines and fragments. Assumed: an `fsync` makes
  earlier renames and creations in its directory durable (the code syncs no directory). A fragment
  swallows the event appended to it, which may be one acknowledged; `size` undercounts after
  a failed write; a rotation that fails repeatedly drops generations early. All three are in the model.
- **`Settings`**: `PUT /settings`, `POST /admin/reload`, `config.Load`, `Save`,
  `MigrateCredentials` and the password store. The save of a migration runs alone, so `Start` is
  its success and `StartFails` every way it can fail or be cut off. No lock serialises two saves and they share
  `goal.json.tmp`, so the file system is modelled by inodes: overlapping saves can lose an
  update or leave a partial document behind, and a save counts for the
  properties only when it was alone. Renaming the administrator without a new password leaves the running store with the old name until
  a restart. `DiffHot` compares with the document read at start (`system.go:314`), so a log
  level set back to its first value is reported as nothing to apply and stays
  as it was; ADR 009 D3 says "Apply hot fields". The backup and power loss are
  `DurableFile`'s; deleting `goal.json` by hand and hashes that are not bcrypt are left out.

## 8. Runs

The runs of the supervisor use `MCSupervisor.tla`, those of recovery `MCOrphanRecovery.tla`,
the others `MCCatalogue.tla`, `MCPipelines.tla` and `MCConsole.tla`.
Every run sets `CHECK_DEADLOCK FALSE`: the requests are finite in number and the system
rightly stops when they are served; that nothing is stuck is the subject of the liveness
properties.

| Run | Instance | Checks | Shows |
|---|---|---|---|
| `restart` | a manual and a pipeline launch of one model, one restart, one slot, stops | `TypeOK`, `VisibleExclusion`, `ClaimHeld`, `ImplementsExclusion` | arbitration excludes through every interleaving with a restart, and no operation loses its record |
| `generations` | one instance, two restarts, two slots, an orphan, every kind of request | `OwnedStayRegistered`, `SpawnsOverNothing`, `NothingLeaks` | what somebody reserved or still runs stays in the registry; no generation is spawned over a live one; every error path returns what it took |
| `firstgen` | two launches by one entry of a pipeline, stops, cleanup | `LiveExclusion`, `LiveIsRegistered`, `TerminalMeansGone`, `DurableOwnership` | the ADR 017 matrix over live processes; what is alive is registered, published live and recorded |
| `shutdown` | launches by two entries of a pipeline, one slot, shutdown, fair operations | `DrainAccounting`, `LiveHoldsSlot`, `ShutdownComplete`, `DrainCompletes` | the drain counts exactly and needs no deadline; a nil return leaves nothing alive |
| `return` | one launch, one restart, stop, shutdown, fair | `ExitFinalizes`, `OpsReturn`, `ShutdownReturns` | no exit stays unfinalized, no operation and no shutdown is stuck |
| `orphans` | two launches of one model, one kill, one dismissal, both platforms, fair kills | `IInv`, `NoFalseSuccess`, `SignalsFollowVerification`, `OneProcessPerModel`, `KillReturns` | recovery keeps its promises over crashes, failed writes and reused PIDs |
| `catalogue` | two clients, each kind of mutation, two names that differ in case, two runtimes, two models, one pipeline; a new, a schema 5 or a schema 7 document; one damage | `TypeOK`, `Recoverable`, `ImportRestores`, `PlannerComplete`, `ImplementsRegister`, `ChecksHold`, `BootOnlyAdds` | acknowledged writes survive; a dry run is right and an import exact; checks suffice when undisturbed; boots only add |
| `pipelines` | one Active pipeline with two entries of one model, autostart, two requests of nine kinds, one fault, fair goroutines | `TypeOK`, `StopMeansStopped`, `RestartReplaces`, `EditStrandsNothing`, `RequestsReturn` | a group answer without error means what it says; quiet edits strand nothing; nobody waits in a circle |
| `console` | one run, two streams, queues of one or two events; two listeners, two requests; nine audit events, three faults; two saves, one edit, one stop, one fault | `StreamFaithful`, `OutcomeHonest`, `AckedKept`, `SavedSettingsHold`, `RunReturns` | drops are counted and order kept; `Run` ends and tells the truth; acknowledged events stay readable; saved settings hold |

Three runs end in a counterexample, each to a sentence of the repository's own documents:

- `v_exclusion` (`LiveExclusion`, ADR 017 line 116): a restart looks its controller up, the
  launch it belongs to fails in `manager.Start` and unregisters it, and the restart then
  wins arbitration, which never asks whether the target is still registered. The process it
  spawns is invisible to later scans, `Stop` and `Shutdown`.
- `v_terminal` (`TerminalMeansGone`, ADR 021 line 295): a confirmed rollback completes the
  run before its `wait()` has run; a restart spawns the next generation and the late
  `wait()` marks it failed while it lives.
- `v_stale` (`StaleIsFinal`, ADR 017 line 222): a kill reads the orphan, a dismissal makes
  it stale, and the kill, refused, writes its copy back: the record is an orphan again
  and fences its model. `OneProcessPerModel` holds all the same.

A restart whose running generation ends between the load of the view and `stop()` does not
await the old run either (`supervisor.go:1836`, against ADR 021 line 294); that nothing alive is
spawned over all the same is `SpawnsOverNothing`.

Properties that restarts break this way are checked in `firstgen`, without restarts, where
they hold; `VisibleExclusion`, which is what arbitration can promise, holds with restarts
too. `SpawnsOverNothing` and, for live processes, `OwnedStayRegistered` exempt controllers a
generation of which was rolled back, for the reason of `v_terminal`; that the second needs it shows only with
a third restart, so in `generations` it holds as if it had no exemption.

**Bounds.** Arbitration compares two controllers of one model, so two instances are enough
for each conflict: a manual launch against a pipeline's (`restart`), an entry against itself
(`firstgen`), and two entries that are compatible and meet only at the slots and the drain
(`shutdown`). One model suffices because models share nothing but slots and the drain. One
restart covers a generation that follows another; two (`generations`) cover a restart over a
restart and two racing ones, up to an exchange of the two (`RestartSymmetry`; that run has no liveness
property). With one slot, a second operation waits for it; with two
(`generations`) a leaked one shows before the system stops. Each request is made at most once
per controller state; no counter is bounded artificially.
In `orphans` two records of one model are a survivor and its successor; crashes, boots,
exits and reuses of PIDs are not counted. One kill and one dismissal suffice for what
a request can do to another's record.

In `catalogue` two clients suffice because a check and its write can be disturbed by one
other write at a time and the properties compare two catalogues; one pipeline, because
pipelines refer to models only; two runtimes and three names, one a variant of another, are a
clash and its near misses; two edits of one pipeline that each bring a new entry race for its identities; `MaxDamage` (1) is the one loss the backup exists for. Boots, crashes and failed
calls are not counted. In `pipelines` two requests (`MaxRequests`) and the autostart are three goroutines on
one pipeline; `MaxFaults` (1) is a failed write or spawn, an unasked exit or the shutdown, and
`Instances` bounds
the identifiers that can be minted, and its seven are all that these requests can launch. `SomeKinds` leaves out the kinds whose steps
others take too (`launch`, `model-start`, `instance-stop`). In `console` the queues hold one or two
events so that each of them overflows (`StoreCap` 2, `FeedCap` and `BufferCap` 1, `PageCap` 2); loads
are two lines for one client, a line on each pipe for one client, and one line for two. Nine events (`MaxEvents`)
of two units in files of five rotate through all three generations; `MaxFailures` (3), `MaxFaults`,
`MaxEdits` and `MaxStops` (1) bound the faults.

**Fairness.** `OpProgress` and `WaitStep` are strongly fair: a goroutine waiting for a
`sync.Mutex` is not overtaken for ever (the mutex has a starvation mode), and store calls
return. Which way a call turns out is not fair; timeouts, requests, cleanup and exits of
processes nobody stops are not fair either. A process that `manager.Stop` has signalled is
assumed to exit: it is killed after five seconds. `DrainCompletes` needs the operations only
(`OpFairSpec`). In `orphans` only the steps of a kill are weakly fair: it holds no lock, its
probes, signals and store calls return and its polls end by the clock. In `pipelines` some goroutine of a request that can run
does run (`WF` of the disjunction of their steps): no request is assumed to be scheduled before another,
no process to exit of itself, no `wait()` to come; a stop or a restart that waits in vain
ends by its own timeout, which is one of its steps. In `console` the server's
goroutines run and its timer fires; no browser leaves, no listener fails, nobody cancels
unless it happens.

## 9. What is proved

`SupervisorProofs.tla`, for every set of instances, restarts, models and owners and every
number of slots, from `ConstantsAssumption` alone (the name sets are disjoint, there are
finitely many instances):

- `Invariance`: `IInv` always holds. Its parts: `TargetsInv` (a restart works on a controller that
  was registered once), `LockInv` (an operation in arbitration holds its model's lock and
  nobody owns its controller), `ScanInv` (what the scan saw stays true until the lock is
  released), `StopInv` (who has a stop in progress holds `lifecycleMu`), `ClaimHeld`,
  `TokenInv` and `SlotInv`. Each is needed by another: `VisibleExclusion` survives a
  publication because of `ScanInv`; `ScanInv` survives because publication needs the lock
  (`LockInv`) and because no controller becomes visible except through a publication,
  which for a restart that returns to life needs `ClaimHeld`; `ClaimHeld` needs
  `LockInv` and `TargetsInv`.
- `TypeCorrectness`, `ExclusionHolds` (`VisibleExclusion`), `ClaimsHold` (`ClaimHeld`),
  `DrainCounts` (`DrainAccounting`) and `SlotsBoundProcesses` (`LiveHoldsSlot`) follow.
- `Refinement`: `Spec => ImplementsExclusion`. Every step adds at most one visible
  controller, and only if it conflicts with no visible one, or removes at most one.

`GenerationProofs.tla`, for the same constants, from `IInv` and `GenInv`:

- `LeavesNothing` (`NothingLeaks`), from `LeakInv`: whoever holds a record, a mutex, the lock of a
  model or a slot is at a place where the code still owes its release, so every way out of
  such a place, errors included, pays it.
- `OwnedStays` (`OwnedStayRegistered`), from the same invariants and `RunsInv` (the run of a
  controller is a generation of its own, and complete unless that generation may have a process): each way out of the registry, a failed
  launch, a failed write of `starting` and `cleanupRemovalProof`, is shown to find no reservation, no open run
  and, unless a generation was rolled back, no process.
- `SpawnsClear` (`SpawnsOverNothing`). A generation is *pending* from its spawn until its
  `wait()` has seen the exit. Only `SpawnOk` makes one pending, a restart gets past the stop of
  the previous run only when that run is settled (completed, terminal, or stopped without error), and
  a pending generation is the current run of its controller, published live and not completed (`NewestInv`).
  So a settled run leaves nothing pending (`ClearedInv`), and that stays so until the spawn, since whoever
  spawns owns the controller's record and its `lifecycleMu` (`HeldInv`). A rollback breaks `NewestInv` for its
  controller for good (`RolledKept`), which is the exemption the property makes.
- `GenerationsInvariant` is the invariant itself.

`FirstGenerationProofs.tla`, with one more assumption, `FirstOnly` (`Restarts = {}`), which the
counterexamples `v_exclusion` and `v_terminal` show to be needed:

- `FirstRegistered` (`LiveIsRegistered`), `FirstTerminal` (`TerminalMeansGone`), `FirstExclusion`
  (`LiveExclusion`) and `FirstOwnership` (`DurableOwnership`). A launch leaves the registry only where
  it has no process (`RegisteredInv`), its view follows its process (`PublishedInv`), and what a stop or
  a `wait()` writes is what the view says (`RecordedInv`); a live process is then conflict-visible, and
  `VisibleExclusion` is about it.
- `FirstShutdown` (`ShutdownComplete`): once `zeroSig` is closed no launch is before its commit and
  none can come, so what Shutdown finds outside its snapshot, passes over, or stops without an
  error is down and stays down (`StoppedInv`, which uses `ClearedInv` for a stop that succeeded).
- `FirstGenerations` is the invariant itself.

`OrphanRecoveryProofs.tla`, for every set of records, models, kills and dismissals, from
`RecoveryAssumption` (each record has a model):

- `Invariance`: its `IInv` always holds. `LedgerInv` says where a live process can be: owned,
  an orphan, waiting for `Recover`, given up, or without durable PID; it is what makes the
  orphan fence of a launch sound (`FenceInv`). It needs `OwnedInv` (nobody else writes the
  record of a launch) and `RequestsInv` (a request works on a record that was an orphan and
  ends with GoAl). `ReasonInv` and `LateInv` carry what a kill saw to what it writes and sends.
- `OneProcess` (`OneProcessPerModel`), `KilledIsGone` (`NoFalseSuccess`) and
  `VerifiedBeforeSignal` (`SignalsFollowVerification`) follow.

`DurableFileProofs.tla`, for every set of documents and older schemas, from `FileAssumption`
(a document is no file state, `Upgrade` yields documents):

- `AlwaysRecoverable` (`Recoverable`) and `Durability` (`ImplementsRegister`), from one
  invariant, `FileInv`: on Windows nothing on disk lags, before the last sync the main file
  is the document in memory, and nothing is torn before the first damage. The refinement is one lemma
  per step of the save: a rename adds at most the document of that save to what can be found, the sync of
  the backup only takes away, the last sync leaves nothing but that document, a failure changes nothing, and the
  backup counts only where the main file is torn. `FileTypes` is the type part.

`CatalogueProofs.tla`, for every catalogue, bundle, client, request, older file and seed, from
`PlanAssumption`, `FileAssumption` and `CatalogueAssumption`:

- `NamesStayUnique`: among the entries a plan writes and the records it keeps, two with one name would
  be claimants of that name, and a claimant that is not alone is blocked.
- `ImportLeavesNoneDangling`: what a written entry refers to was stored or is created by the same plan.
- `ImportConverges`: what was written equals its projection, what was not was equal before.
- `RefusalHasCause`: over a validated bundle, whose references close, every blocked pipeline
  leads to a blocked model, that one to a blocked runtime, and that one to another runtime
  that holds the name; bundle names being unique, it is one of the catalogue's (ADR 018 D5:
  what merely exists already never blocks).
- `ImportsRestore` (`ImportRestores`) and `PlannerIsComplete` (`PlannerComplete`) follow in every
  state: they need nothing of how the catalogue came about, which is their point, since requests may
  have left it with clashes and dangling references.
- `MigrationTyped`: a schema 5 or 6 file, and a file whose pipelines have no identities yet, loads as a
  catalogue. `LoadIsStable`: a file saved in the current schema loads as it is, so no reload
  assigns an identity twice.
- `CatalogueTypes` (`TypeOK`), `EntriesStayUnique`, `ChecksAreSound` (`ChecksHold`) and `BootsOnlyAdd`
  (`BootOnlyAdds`), from one invariant, `CatInv`. Each mutation has a lemma that it keeps a catalogue a catalogue
  and, if its check passed on the same catalogue, is `Sound`. `Documents` (memory, the rollback copy and every
  readable file, also the ones a crash may leave, are catalogues) and `ClientsSound` (a request past its
  check passed it on the catalogue it read) let those lemmas apply to each save, load and
  rollback; without the second a stale update could write entries its check never saw. `Exclusive` (one request at
  most saves, none during a boot) tells whose save a step is. `BootOrder` (what a boot has left is an
  end of its tasks, and a save it has in flight only adds to the copy it would roll back to) is what
  a failed save needs: the rollback of a seed takes away exactly what the seed added.
- `CatalogueIsDurable`: every step of the repository is a step of `FileSpec` or leaves the file alone. It needs
  `Documents`, since `Begin` may only save documents. `CatalogueDurability` (`ImplementsRegister`) and
  `CatalogueRecoverable` (`Recoverable`) are the theorems of `DurableFileProofs` carried over it.

`ConsoleProofs.tla`, about `ConsoleSpec`:

- `StreamsAreFaithful` (`StreamFaithful`), for any finite set of clients, any instances, loads and queue capacities,
  from `LogAssumption`. The invariant `LogInv`: a line is in one place at a time, and what is further on was
  read before what is behind it on the same pipe (`HandOrder`, `QueueOrder`, `PostOrder`, from the
  reader's hand through the feed to the Publish); a view holds only what it was promised, in that order
  (`LiveInv`); and each counter of drops is the number of promises that can no longer be kept
  (`CountInv`). The order parts are what `CountInv` needs as well: without them a line offered now could equal
  one counted as missed before.
- `AckedStayReadable` (`AckedKept`), for any number of files, events and faults, from `AuditAssumption`. The invariant
  `AuditInv`: an acknowledged event is in one of the first `drops - a.drops` files after the active
  one (`Keeps`: a rotation, however far it gets, moves a line at most one file on), the
  files hold the events in order (`Ordered`), and none from the future (`Past`). What k renames of a
  rotation leave is one lemma for all k (`AfterSound`).

- `OutcomeIsHonest` (`OutcomeHonest`), for every finite set of listeners, from `WebAssumption` and an
  invariant that accounts for each listener that broke: its failure is still with its goroutine, in
  the channel, or received; `Run` collects when no goroutine is left.
- `SettingsHold` (`SavedSettingsHold`), for every set of savers, request bodies and shipped documents
  and any number of failing calls, edits and stops, from `SettingsAssumption` (finitely many savers,
  at least one, two inodes more than savers, shipped documents have the configuration's fields). The invariant
  `SettingsInv`: a save that is alone, or that never met another, is the only one in flight
  (`Single`), so that what `goal.json.tmp` held at its read-back is what it renames and what the file
  holds until it is answered (`Written`); when it is answered nobody is left who could still write the
  inode that `goal.json` names (`Kept`), which is what keeps the document after the answer; and no document
  but the one found at a start holds a plaintext password (`Documents`), so that a restart's
  migration leaves the saved document alone. `Names` leaves an inode free (`FreshFree`, a counting
  argument).

`PipelinesProofs.tla`, for every set of pipelines, models, instances and layouts and any number of
requests and faults, from `PipelinesAssumption` and `LayoutAssumption` (a layout is not empty and its
entry identifiers differ, which is what `ValidatePipelineEntry` lets through):

- `GroupsInvariant`: its `IInv` always holds. `Recorded` (what is in flight has an in-flight record,
  except between admission and first record) and `Holds` (a group request holds the mutex) make the
  targets of `stopTargets`, which it reads from the records, complete: `Stops` carries that until each
  target is dealt with. `Starts` carries the emptied entries over the start phase of a restart, entry by
  entry since the identifiers differ; `FirstGeneration` excludes a terminal instance with an
  operation, the only other source of conflicts, so that `Blocked` holds. `Quiet` starts from a free
  mutex at the check and ends with whatever could change the pipeline. That a stop finds its last
  target is an induction on the number of targets left, by the well-foundedness of `Nat`.
- `TypeCorrectness`, `StopIsHonest` (`StopMeansStopped`), `RestartIsHonest` (`RestartReplaces`) and
  `EditsStrandNothing` (`EditStrandsNothing`) follow.

Layout: one lemma per part of the invariant, one step per action, then the temporal step by
`PTL`. Cardinality facts come from `FiniteSetTheorems`.

Assumptions on the constants are of three kinds: names that must differ (`Nothing` is no event, `Absent`
no file, `Missing` and `Torn` no documents), sets that are finite where something is counted
(instances, listeners, savers, log clients, the entries of legacy data), and the shapes of what is decoded.
TLC evaluates each of them for the instances of section 8.

**Model-checked only:** liveness, which is out of the prover's reach (so is `ENABLED`, hence
fairness): `DrainCompletes`, `ExitFinalizes`, `OpsReturn`, `ShutdownReturns`, `KillReturns`,
`RequestsReturn` and `RunReturns`. Every invariant and action property of a passing run is a theorem.
`StaleIsFinal`, and outside `firstgen` `LiveExclusion` and `TerminalMeansGone`, are false.

## 10. What is not modelled

- **Sessions, CSRF, rate limit, health checker, request log**: maps under one lock each, whose
  operations are one critical section and leave nothing between two of them.
- **Updater**: no other package imports it.
- **Platform layer**: system calls, the Windows service manager; the models contain what they promise.
- **Command and variable resolution, validation rules, rendering of portable documents**: string
  work without state.
- **Legacy `internal/store`**, which has no production caller, the browser front end and the
  installers.
- Within modelled components: the environment merge and exit classes of the Manager, `RemoveTerminal`,
  the parsing of `/proc` and of Windows file times, repository summaries and
  cross-reference reports, which only read.
