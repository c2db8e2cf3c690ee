----------------------------- MODULE Supervisor -----------------------------
(***************************************************************************)
(* The process supervisor: internal/process/supervisor.go and              *)
(* internal/process/arbitration.go.                                        *)
(*                                                                         *)
(* Every request that may start an OS process is an OPERATION: a launch    *)
(* (AdmitAndStart, which mints a fresh instance, so a launch is named by   *)
(* the instance it creates) or a restart of a registered instance.  An     *)
(* operation wins arbitration, publishes a record on the instance's        *)
(* controller, and spends one single-use spawn claim; so an operation      *)
(* yields at most one process GENERATION, and generations are named by the *)
(* operation that spawned them.                                            *)
(*                                                                         *)
(* One action is one critical section (launchMu, ic.mu, s.mu or a store    *)
(* call), or several adjacent ones between which nothing another actor     *)
(* reads has changed.  launchMu and s.mu are never held between actions;   *)
(* arbLock, ic.lifecycleMu and ic.mu are.  ic.mu is held by an operation   *)
(* at "starting" and "spawned" (startCore) and by a stop at "stopping"     *)
(* (stopCore calls manager.Stop under it); readers of the published view   *)
(* (the scan, IsRunning, checkRestartTarget) take no lock.                 *)
(*                                                                         *)
(* Any store write may fail, any wait bounded by a context may time out.   *)
(***************************************************************************)
EXTENDS Naturals, FiniteSets

CONSTANTS
    Instances,      \* instance IDs; each is minted by one launch request
    Restarts,       \* restart requests
    Models,         \* model IDs
    ModelOf,        \* [Instances -> Models]
    OwnerOf,        \* [Instances -> Owners]: who asked for the launch
    Orphaned,       \* models with an unresolved orphan after Recover
    Requests,       \* what else is asked: "stop", "cleanup", "shutdown"
    MaxConcurrent,  \* concurrency slots; 0 = unlimited, no semaphore
    NoOp,           \* no operation / a free lock
    User,           \* lock holder: a Stop request of a user
    Drain           \* lock holder: the Stop loop of Shutdown

Ops == Instances \cup Restarts

\* domain.LaunchOwner; the empty string is "no pipeline" and "no entry".
Owners == [pipeline : STRING, entry : STRING]

ASSUME ConstantsAssumption ==
    /\ Instances \cap Restarts = {}
    /\ {NoOp, User, Drain} \cap Ops = {}
    /\ NoOp # User /\ NoOp # Drain /\ User # Drain
    /\ IsFiniteSet(Instances)
    /\ ModelOf \in [Instances -> Models]
    /\ OwnerOf \in [Instances -> Owners]
    /\ Orphaned \subseteq Models
    /\ Requests \subseteq {"stop", "cleanup", "shutdown"}
    /\ MaxConcurrent \in Nat

Live     == {"starting", "running", "stopping"}
InFlight == Live \cup {"pending"}
Terminal == {"exited", "failed"}
States   == InFlight \cup Terminal

VARIABLES
    registry,         \* s.instances: the registered controllers
    istate,           \* the lifecycle state each controller publishes
    active,           \* ctrl.active: the operation that owns the next spawn
    run,              \* ctrl.run: the current generation
    tokens,           \* controllers with preSpawnToken set
    preSpawnInFlight, \* admitted launches not yet committed or aborted
    draining,         \* the one-way shutdown latch
    zeroSig,          \* closed when draining and preSpawnInFlight reached 0
    cancelled,        \* the lifecycle context is done (OS signal)
    arbLock,          \* [Models -> holder]
    lifecycleMu,      \* [Instances -> holder]
    pc,               \* where each operation is
    target,           \* the instance each operation works on
    slot,             \* generations holding a slot reservation
    proc,             \* the OS process of each generation
    runDone,          \* generations whose run.done is closed
    waitPc,           \* the wait() goroutine of each generation
    waitEntry,        \* the terminal entry wait() captured under ic.mu
    stopPc,           \* the stop in progress on each controller
    durable,          \* the repository record of each instance
    orphans,          \* models with an unresolved orphan record
    shutdown,         \* where Shutdown is
    shutdownTodo,     \* controllers of its snapshot it has still to stop
    shutdownErr       \* some Stop of the loop failed

opVars    == <<pc, target>>
ctrlVars  == <<registry, istate, active, run>>
drainVars == <<tokens, preSpawnInFlight, draining, zeroSig>>
genVars   == <<slot, proc, runDone, waitPc, waitEntry>>
lockVars  == <<arbLock, lifecycleMu>>
shutVars  == <<shutdown, shutdownTodo, shutdownErr>>
envVars   == <<cancelled, orphans>>
vars == <<registry, istate, active, run, tokens, preSpawnInFlight, draining,
          zeroSig, cancelled, arbLock, lifecycleMu, pc, target, slot, proc,
          runDone, waitPc, waitEntry, stopPc, durable, orphans, shutdown,
          shutdownTodo, shutdownErr>>

\* Where an operation is between being published and releasing its record.
LaunchHolds  == {"admitted", "slotOwned", "ready", "starting", "spawned",
                 "cleanup", "forget"}
RestartHolds == {"reserved", "stopOld", "awaitOld", "needSlot", "ready",
                 "starting", "spawned"}
Finished     == {"ok", "failed", "residual", "rejected"}
LaunchPCs  == {"idle", "arbitrating"} \cup LaunchHolds \cup Finished
RestartPCs == {"idle", "lookedUp", "arbitrating"} \cup RestartHolds \cup Finished

\* The pre-spawn window of a launch: admitted, not yet at commit C.
PreSpawn == {"admitted", "slotOwned", "ready"}

StopPCs == {"none", "signal", "stopping", "await", "awaitErr", "final", "finalErr"}

TypeOK ==
    /\ registry \subseteq Instances
    /\ istate \in [Instances -> States]
    /\ active \in [Instances -> Ops \cup {NoOp}]
    /\ run \in [Instances -> Ops \cup {NoOp}]
    /\ tokens \subseteq Instances
    /\ preSpawnInFlight \in Nat
    /\ draining \in BOOLEAN /\ zeroSig \in BOOLEAN /\ cancelled \in BOOLEAN
    /\ arbLock \in [Models -> Ops \cup {NoOp}]
    /\ lifecycleMu \in [Instances -> Ops \cup {NoOp, User, Drain}]
    /\ pc \in [Ops -> LaunchPCs \cup RestartPCs]
    /\ \A i \in Instances : pc[i] \in LaunchPCs
    /\ \A r \in Restarts : pc[r] \in RestartPCs
    /\ target \in [Ops -> Instances \cup {NoOp}]
    /\ slot \subseteq Ops /\ runDone \subseteq Ops
    /\ proc \in [Ops -> {"none", "alive", "gone"}]
    /\ waitPc \in [Ops -> {"none", "waiting", "persist", "finish", "done"}]
    /\ waitEntry \in [Ops -> Terminal \cup {"none"}]
    /\ stopPc \in [Instances -> StopPCs]
    /\ durable \in [Instances -> States \cup {"absent"}]
    /\ orphans \subseteq Models
    /\ shutdown \in {"idle", "drain", "stop", "ok", "err"}
    /\ shutdownTodo \subseteq Instances
    /\ shutdownErr \in BOOLEAN

Init ==
    /\ registry = {}
    /\ istate = [i \in Instances |-> "pending"]
    /\ active = [i \in Instances |-> NoOp]
    /\ run = [i \in Instances |-> NoOp]
    /\ tokens = {} /\ preSpawnInFlight = 0
    /\ draining = FALSE /\ zeroSig = FALSE /\ cancelled = FALSE
    /\ arbLock = [m \in Models |-> NoOp]
    /\ lifecycleMu = [i \in Instances |-> NoOp]
    /\ pc = [op \in Ops |-> "idle"]
    /\ target = [op \in Ops |-> IF op \in Instances THEN op ELSE NoOp]
    /\ slot = {} /\ runDone = {}
    /\ proc = [op \in Ops |-> "none"]
    /\ waitPc = [op \in Ops |-> "none"]
    /\ waitEntry = [op \in Ops |-> "none"]
    /\ stopPc = [i \in Instances |-> "none"]
    /\ durable = [i \in Instances |-> "absent"]
    /\ orphans = Orphaned
    /\ shutdown = "idle" /\ shutdownTodo = {} /\ shutdownErr = FALSE

-----------------------------------------------------------------------------
(* Helpers                                                                 *)

\* ic.mu of controller i is free: neither startCore nor manager.Stop holds it.
MuFree(i) ==
    /\ \A op \in Ops : target[op] = i => pc[op] \notin {"starting", "spawned"}
    /\ stopPc[i] # "stopping"

\* MUTANT of Compatible: an entry may join itself.
CompatibleWithItself(new, existing) ==
    /\ new.pipeline # ""
    /\ existing.pipeline = new.pipeline
    /\ existing.entry # ""

\* The ADR 017 compatibility matrix: may a claim of owner new join existing?
Compatible(new, existing) ==
    /\ new.pipeline # ""
    /\ existing.pipeline = new.pipeline
    /\ existing.entry # ""
    /\ existing.entry # new.entry

\* What scanConflicts sees: in flight, or holding a published operation.
Visible(i) == i \in registry /\ (istate[i] \in InFlight \/ active[i] # NoOp)

\* MUTANT of NoConflict: only controllers with a process are looked at.
NoConflictWithLive(i) ==
    \A j \in registry \ {i} :
        ModelOf[j] = ModelOf[i] /\ istate[j] \in Live
            => Compatible(OwnerOf[i], OwnerOf[j])

\* scanConflicts: every other visible controller of the model is compatible.
NoConflict(i) ==
    \A j \in registry \ {i} :
        ModelOf[j] = ModelOf[i] /\ Visible(j)
            => Compatible(OwnerOf[i], OwnerOf[j])

\* MUTANT of Restartable: an operation in progress is not looked at.
RestartableWhileOwned(i) ==
    /\ istate[i] \in {"running", "stopping", "exited", "failed"}
    /\ OwnerOf[i].pipeline # "" => OwnerOf[i].entry # ""

\* checkRestartTarget and instanceOwner: the state contract of a restart.
Restartable(i) ==
    /\ istate[i] \in {"running", "stopping", "exited", "failed"}
    /\ active[i] = NoOp
    /\ OwnerOf[i].pipeline # "" => OwnerOf[i].entry # ""

\* MUTANT of Admissible: a restart does not scan the other controllers.
AdmissibleRestartUnscanned(op, i) ==
    /\ ~cancelled
    /\ op \in Restarts => Restartable(i)
    /\ op \in Instances => NoConflict(i)
    /\ ModelOf[i] \notin orphans

\* The checks of arbitrate before it publishes, for operation op on i.
Admissible(op, i) ==
    /\ ~cancelled
    /\ op \in Restarts => Restartable(i)
    /\ NoConflict(i)
    /\ ModelOf[i] \notin orphans

\* repo.Update: a record that is gone is never written again.
Writable(i) == durable[i] # "absent"

\* A best-effort write of state s: it lands, or the error is only logged.
BestEffort(i, s) ==
    \/ Writable(i) /\ durable' = [durable EXCEPT ![i] = s]
    \/ UNCHANGED durable

\* releaseLaunchOperation: exact-operation and idempotent.
ReleaseOp(op, i) ==
    active' = IF active[i] = op THEN [active EXCEPT ![i] = NoOp] ELSE active

\* The holder's deferred lifecycleMu.Unlock.
Unlock(op, i) ==
    lifecycleMu' = IF lifecycleMu[i] = op
                   THEN [lifecycleMu EXCEPT ![i] = NoOp] ELSE lifecycleMu

Goto(op, l) == pc' = [pc EXCEPT ![op] = l]

\* MUTANT of ConsumeToken: the token is not looked at.
ConsumeTokenUnchecked(i) ==
    /\ tokens' = tokens \ {i}
    /\ preSpawnInFlight' = preSpawnInFlight - 1
    /\ zeroSig' = (zeroSig \/ (draining /\ preSpawnInFlight = 1))
    /\ UNCHANGED draining

\* MUTANT of ConsumeToken: the waiting drain is not signalled.
ConsumeTokenSilently(i) ==
    /\ tokens' = tokens \ {i}
    /\ preSpawnInFlight' = IF i \in tokens THEN preSpawnInFlight - 1
                                           ELSE preSpawnInFlight
    /\ UNCHANGED <<draining, zeroSig>>

\* The pre-spawn token of i is consumed; zeroSig closes if it was the last.
ConsumeToken(i) ==
    /\ tokens' = tokens \ {i}
    /\ preSpawnInFlight' = IF i \in tokens THEN preSpawnInFlight - 1
                                           ELSE preSpawnInFlight
    /\ zeroSig' = (zeroSig \/ (i \in tokens /\ draining /\ preSpawnInFlight = 1))
    /\ UNCHANGED draining

-----------------------------------------------------------------------------
(* Arbitration: arbitrate and publishClaimLocked, under arbLock            *)

\* Restart / RestartWithLaunch: controllerFor looks the controller up; the
\* pointer is used later, whatever happens to the registry meanwhile.
RestartLookup(r, i) ==
    /\ pc[r] = "idle" /\ i \in registry
    /\ target' = [target EXCEPT ![r] = i]
    /\ Goto(r, "lookedUp")
    /\ UNCHANGED <<ctrlVars, drainVars, genVars, lockVars, shutVars, envVars,
                   stopPc, durable>>

\* An operation about to enter arbitrate.
AtArbitrate(op) == pc[op] = (IF op \in Restarts THEN "lookedUp" ELSE "idle")

\* arbLock is taken, the shutdown, target, conflict and orphan checks pass.
ArbCheck(op) ==
    LET i == target[op] m == ModelOf[i] IN
    /\ AtArbitrate(op) /\ arbLock[m] = NoOp
    /\ Admissible(op, i)
    /\ arbLock' = [arbLock EXCEPT ![m] = op]
    /\ Goto(op, "arbitrating")
    /\ UNCHANGED <<ctrlVars, drainVars, genVars, lifecycleMu, target, shutVars,
                   envVars, stopPc, durable>>

\* A check fails: AdmissionRejection, ErrLaunchInFlight or ErrNotRestartable.
ArbReject(op) ==
    LET i == target[op] IN
    /\ AtArbitrate(op) /\ arbLock[ModelOf[i]] = NoOp
    /\ ~Admissible(op, i)
    /\ Goto(op, "rejected")
    /\ UNCHANGED <<ctrlVars, drainVars, genVars, lockVars, target, shutVars,
                   envVars, stopPc, durable>>

\* publishClaimLocked under launchMu: the drain latch refuses, otherwise the
\* operation becomes visible; a new admission is registered with its token.
ArbPublish(op) ==
    LET i == target[op] m == ModelOf[i] IN
    /\ pc[op] = "arbitrating" /\ (draining \/ MuFree(i))
    /\ arbLock' = [arbLock EXCEPT ![m] = NoOp]
    /\ IF draining
       THEN /\ Goto(op, "rejected")
            /\ UNCHANGED <<registry, active, tokens, preSpawnInFlight>>
       ELSE /\ active' = [active EXCEPT ![i] = op]
            /\ IF op \in Instances
               THEN /\ registry' = registry \cup {i}
                    /\ tokens' = tokens \cup {i}
                    /\ preSpawnInFlight' = preSpawnInFlight + 1
                    /\ Goto(op, "admitted")
               ELSE /\ Goto(op, "reserved")
                    /\ UNCHANGED <<registry, tokens, preSpawnInFlight>>
    /\ UNCHANGED <<istate, run, draining, zeroSig, genVars, lifecycleMu, target,
                   shutVars, envVars, stopPc, durable>>

-----------------------------------------------------------------------------
(* The launch before its spawn commit: startPostAdmit                      *)

\* MUTANT of SlotFree: off by one.
SlotFreeOffByOne == MaxConcurrent = 0 \/ Cardinality(slot) <= MaxConcurrent

\* A token of the semaphore is free, or none is needed.
SlotFree == MaxConcurrent = 0 \/ Cardinality(slot) < MaxConcurrent

\* acquireSlot returned a reservation.
AcquireSlot(op) ==
    /\ pc[op] \in {"admitted", "needSlot"}
    /\ SlotFree
    /\ slot' = IF MaxConcurrent = 0 THEN slot ELSE slot \cup {op}
    /\ Goto(op, IF op \in Instances THEN "slotOwned" ELSE "ready")
    /\ UNCHANGED <<ctrlVars, drainVars, proc, runDone, waitPc, waitEntry,
                   lockVars, target, shutVars, envVars, stopPc, durable>>

\* MUTANT of AbortAdmission: the token stays.
AbortAdmissionKeepsToken(i) ==
    /\ registry' = registry \ {i}
    /\ slot' = slot \ {i}
    /\ UNCHANGED drainVars
    /\ ReleaseOp(i, i)
    /\ Goto(i, "failed")

\* abortPreSpawnCleanup without a durable record: slot, registry, token, and
\* the deferred release of the operation.
AbortAdmission(i) ==
    /\ registry' = registry \ {i}
    /\ slot' = slot \ {i}
    /\ ConsumeToken(i)
    /\ ReleaseOp(i, i)
    /\ Goto(i, "failed")

\* acquireSlot fails: the lifecycle context or the request's is done.
LaunchSlotFails(i) ==
    /\ pc[i] = "admitted" /\ MaxConcurrent > 0
    /\ AbortAdmission(i)
    /\ UNCHANGED <<istate, run, proc, runDone, waitPc, waitEntry, lockVars,
                   target, shutVars, envVars, stopPc, durable>>

\* store.Create(pending).
CreateRecord(i) ==
    /\ i \in Instances /\ pc[i] = "slotOwned"
    /\ durable' = [durable EXCEPT ![i] = "pending"]
    /\ Goto(i, "ready")
    /\ UNCHANGED <<ctrlVars, drainVars, genVars, lockVars, target, shutVars,
                   envVars, stopPc>>

CreateRecordFails(i) ==
    /\ i \in Instances /\ pc[i] = "slotOwned"
    /\ AbortAdmission(i)
    /\ UNCHANGED <<istate, run, proc, runDone, waitPc, waitEntry, lockVars,
                   target, shutVars, envVars, stopPc, durable>>

-----------------------------------------------------------------------------
(* The spawn: startCore, under lifecycleMu and (from commit C on) ic.mu    *)

\* A launch takes lifecycleMu in startWithReservation; a restart holds it.
AtCommit(op) ==
    LET i == target[op] IN
    /\ pc[op] = "ready" /\ MuFree(i)
    /\ lifecycleMu[i] = (IF op \in Restarts THEN op ELSE NoOp)
    /\ active[i] = op                       \* consumeSpawnClaimLocked

\* Commit C won against the drain: starting is published, the token spent.
Commit(op) ==
    LET i == target[op] IN
    /\ AtCommit(op) /\ ~draining
    /\ istate' = [istate EXCEPT ![i] = "starting"]
    /\ ConsumeToken(i)
    /\ run' = [run EXCEPT ![i] = op]
    /\ lifecycleMu' = [lifecycleMu EXCEPT ![i] = op]
    /\ Goto(op, "starting")
    /\ UNCHANGED <<registry, active, genVars, arbLock, target, shutVars, envVars,
                   stopPc, durable>>

\* The drain won: abortPreSpawn. A launch is terminalized and unregistered;
\* a restart only returns its slot and its reservation.
CommitAbort(op) ==
    LET i == target[op] IN
    /\ AtCommit(op) /\ draining
    /\ slot' = slot \ {op}
    /\ IF op \in Instances
       THEN /\ istate' = [istate EXCEPT ![i] = "failed"]
            /\ BestEffort(i, "failed")
            /\ registry' = registry \ {i}
            /\ ConsumeToken(i)
       ELSE UNCHANGED <<istate, durable, registry, drainVars>>
    /\ ReleaseOp(op, i) /\ Unlock(op, i)
    /\ Goto(op, "failed")
    /\ UNCHANGED <<run, proc, runDone, waitPc, waitEntry, arbLock, target,
                   shutVars, envVars, stopPc>>

\* MUTANT of EndUnspawned: the slot is not released.
EndUnspawnedKeepsSlot(op, i) ==
    /\ runDone' = runDone \cup {op} /\ UNCHANGED slot
    /\ Unlock(op, i)
    /\ IF op \in Instances
       THEN Goto(op, "cleanup") /\ UNCHANGED active
       ELSE Goto(op, "failed") /\ ReleaseOp(op, i)

\* MUTANT of EndUnspawned: the run is not completed.
EndUnspawnedNotDone(op, i) ==
    /\ slot' = slot \ {op} /\ UNCHANGED runDone
    /\ Unlock(op, i)
    /\ IF op \in Instances
       THEN Goto(op, "cleanup") /\ UNCHANGED active
       ELSE Goto(op, "failed") /\ ReleaseOp(op, i)

\* startCore ends without a process: slot released, run completed. A launch
\* goes on to its cleanup; a restart ends here.
EndUnspawned(op, i) ==
    /\ slot' = slot \ {op} /\ runDone' = runDone \cup {op}
    /\ Unlock(op, i)
    /\ IF op \in Instances
       THEN Goto(op, "cleanup") /\ UNCHANGED active
       ELSE Goto(op, "failed") /\ ReleaseOp(op, i)

\* persist(starting) fails: the controller leaves the registry, the published
\* state stays starting.
SpawnPersistFails(op) ==
    LET i == target[op] IN
    /\ pc[op] = "starting"
    /\ registry' = registry \ {i}
    /\ EndUnspawned(op, i)
    /\ UNCHANGED <<istate, run, drainVars, proc, waitPc, waitEntry, arbLock,
                   target, shutVars, envVars, stopPc, durable>>

\* starting is durable, manager.Start fails: failed, persisted best effort.
SpawnStartFails(op) ==
    LET i == target[op] IN
    /\ pc[op] = "starting" /\ Writable(i)
    /\ istate' = [istate EXCEPT ![i] = "failed"]
    /\ \E s \in {"starting", "failed"} : durable' = [durable EXCEPT ![i] = s]
    /\ EndUnspawned(op, i)
    /\ UNCHANGED <<registry, run, drainVars, proc, waitPc, waitEntry, arbLock,
                   target, shutVars, envVars, stopPc>>

\* starting is durable and manager.Start succeeds (it refuses while the
\* manager still owns a process): running is published.
SpawnOk(op) ==
    LET i == target[op] IN
    /\ pc[op] = "starting" /\ Writable(i)
    /\ \A o \in Ops : target[o] = i => proc[o] # "alive"
    /\ proc' = [proc EXCEPT ![op] = "alive"]
    /\ istate' = [istate EXCEPT ![i] = "running"]
    /\ durable' = [durable EXCEPT ![i] = "starting"]
    /\ Goto(op, "spawned")
    /\ UNCHANGED <<registry, active, run, drainVars, slot, runDone, waitPc,
                   waitEntry, lockVars, target, shutVars, envVars, stopPc>>

\* MUTANT of RunningDurable: a failed write is only logged.
RunningBestEffort(op) ==
    LET i == target[op] IN
    /\ pc[op] = "spawned"
    /\ BestEffort(i, "running")
    /\ waitPc' = [waitPc EXCEPT ![op] = "waiting"]
    /\ ReleaseOp(op, i) /\ Unlock(op, i)
    /\ Goto(op, "ok")
    /\ UNCHANGED <<registry, istate, run, drainVars, slot, proc, runDone,
                   waitEntry, arbLock, target, shutVars, envVars, stopPc>>

\* running with its PID is durable: the only successful return of a launch or
\* a restart. The wait goroutine starts, the operation is released.
RunningDurable(op) ==
    LET i == target[op] IN
    /\ pc[op] = "spawned" /\ Writable(i)
    /\ durable' = [durable EXCEPT ![i] = "running"]
    /\ waitPc' = [waitPc EXCEPT ![op] = "waiting"]
    /\ ReleaseOp(op, i) /\ Unlock(op, i)
    /\ Goto(op, "ok")
    /\ UNCHANGED <<registry, istate, run, drainVars, slot, proc, runDone,
                   waitEntry, arbLock, target, shutVars, envVars, stopPc>>

\* rollbackRunningPersistenceLocked, outcomes A and B: the kill is confirmed.
\* startCore itself releases the slot and completes the run; wait() is started
\* all the same.
RollbackConfirmed(op) ==
    LET i == target[op] IN
    /\ pc[op] = "spawned"
    /\ proc' = [proc EXCEPT ![op] = "gone"]
    /\ istate' = [istate EXCEPT ![i] = "failed"]
    /\ BestEffort(i, "failed")
    /\ waitPc' = [waitPc EXCEPT ![op] = "waiting"]
    /\ slot' = slot \ {op} /\ runDone' = runDone \cup {op}
    /\ Unlock(op, i)
    /\ IF op \in Instances
       THEN Goto(op, "forget") /\ UNCHANGED active
       ELSE Goto(op, "failed") /\ ReleaseOp(op, i)
    /\ UNCHANGED <<registry, run, drainVars, waitEntry, arbLock, target,
                   shutVars, envVars, stopPc>>

\* MUTANT of RollbackResidual: the controller is cleaned up as after any failure.
RollbackResidualForgets(op) ==
    LET i == target[op] IN
    /\ pc[op] = "spawned"
    /\ istate' = [istate EXCEPT ![i] = "starting"]
    /\ waitPc' = [waitPc EXCEPT ![op] = "waiting"]
    /\ ReleaseOp(op, i) /\ Unlock(op, i)
    /\ registry' = registry \ {i}
    /\ Goto(op, "residual")
    /\ UNCHANGED <<run, drainVars, slot, proc, runDone, waitEntry, arbLock,
                   target, shutVars, envVars, stopPc, durable>>

\* Outcomes C and D: termination is not confirmed. The state goes back to
\* starting, nothing is persisted, slot and run stay with wait().
RollbackResidual(op) ==
    LET i == target[op] IN
    /\ pc[op] = "spawned"
    /\ istate' = [istate EXCEPT ![i] = "starting"]
    /\ waitPc' = [waitPc EXCEPT ![op] = "waiting"]
    /\ ReleaseOp(op, i) /\ Unlock(op, i)
    /\ Goto(op, "residual")
    /\ UNCHANGED <<registry, run, drainVars, slot, proc, runDone, waitEntry,
                   arbLock, target, shutVars, envVars, stopPc, durable>>

\* The tail of startPostAdmit after a failed spawn: failUnspawnedController
\* (not after a confirmed rollback), forgetController, release.
LaunchCleanup(i) ==
    /\ i \in Instances /\ MuFree(i)
    /\ \/ /\ pc[i] = "cleanup"
          /\ istate' = [istate EXCEPT ![i] = "failed"]
          /\ BestEffort(i, "failed")
       \/ pc[i] = "forget" /\ UNCHANGED <<istate, durable>>
    /\ registry' = registry \ {i}
    /\ ReleaseOp(i, i)
    /\ Goto(i, "failed")
    /\ UNCHANGED <<run, drainVars, genVars, lockVars, target, shutVars, envVars,
                   stopPc>>

-----------------------------------------------------------------------------
(* Stop: stop and stopCore, under lifecycleMu of the calling holder        *)

\* MUTANT of BeginStop: the terminal state is published right away.
BeginStopAsExited(i) ==
    /\ istate' = [istate EXCEPT ![i] = "exited"]
    /\ stopPc' = [stopPc EXCEPT ![i] = "signal"]

\* stop(): a terminal instance needs nothing, a pending one is refused;
\* otherwise stopping is published and stopCore follows.
BeginStop(i) ==
    /\ istate' = [istate EXCEPT ![i] = "stopping"]
    /\ stopPc' = [stopPc EXCEPT ![i] = "signal"]

\* Stop(i) of a user who looked the controller up while it was registered; a
\* stop that finds the instance terminal or pending changes nothing.
UserStop(i) ==
    /\ "stop" \in Requests
    /\ lifecycleMu[i] = NoOp /\ MuFree(i)
    /\ run[i] # NoOp /\ istate[i] \in Live
    /\ lifecycleMu' = [lifecycleMu EXCEPT ![i] = User]
    /\ BeginStop(i)
    /\ UNCHANGED <<registry, active, run, drainVars, genVars, arbLock, opVars,
                   shutVars, envVars, durable>>

\* stopCore takes ic.mu and calls manager.Stop, which blocks under it.
StopSignal(i) ==
    /\ stopPc[i] = "signal" /\ MuFree(i)
    /\ stopPc' = [stopPc EXCEPT ![i] = "stopping"]
    /\ UNCHANGED <<ctrlVars, drainVars, genVars, lockVars, opVars, shutVars,
                   envVars, durable>>

\* manager.Stop returned: nil once the process is gone, an error when the
\* deadline passed or a signal failed. The current state is persisted.
StopPersist(i) ==
    /\ stopPc[i] = "stopping" /\ Writable(i)
    /\ durable' = [durable EXCEPT ![i] = istate[i]]
    /\ \/ /\ \A op \in Ops : target[op] = i => proc[op] # "alive"
          /\ stopPc' = [stopPc EXCEPT ![i] = "await"]
       \/ stopPc' = [stopPc EXCEPT ![i] = "awaitErr"]
    /\ UNCHANGED <<ctrlVars, drainVars, genVars, lockVars, opVars, shutVars,
                   envVars>>

\* The run's done channel closes.
StopAwait(i) ==
    /\ stopPc[i] \in {"await", "awaitErr"}
    /\ run[i] = NoOp \/ run[i] \in runDone
    /\ stopPc' = [stopPc EXCEPT ![i] = IF @ = "await" THEN "final" ELSE "finalErr"]
    /\ UNCHANGED <<ctrlVars, drainVars, genVars, lockVars, opVars, shutVars,
                   envVars, durable>>

\* The 15 s (or the caller's) context ends first.
StopTimeout(i) ==
    /\ stopPc[i] \in {"await", "awaitErr"}
    /\ stopPc' = [stopPc EXCEPT ![i] = "finalErr"]
    /\ UNCHANGED <<ctrlVars, drainVars, genVars, lockVars, opVars, shutVars,
                   envVars, durable>>

\* stop() returns to the holder of lifecycleMu: a user, the loop of Shutdown,
\* or a restart, which goes on to its slot or gives up.
StopReturn(i, ok) ==
    LET c == lifecycleMu[i] IN
    /\ stopPc' = [stopPc EXCEPT ![i] = "none"]
    /\ shutdownTodo' = IF c = Drain THEN shutdownTodo \ {i} ELSE shutdownTodo
    /\ shutdownErr' = (shutdownErr \/ (c = Drain /\ ~ok))
    /\ IF c \in Restarts
       THEN IF ok THEN Goto(c, "needSlot") /\ UNCHANGED <<active, lifecycleMu>>
                  ELSE Goto(c, "failed") /\ ReleaseOp(c, i) /\ Unlock(c, i)
       ELSE Unlock(c, i) /\ UNCHANGED <<pc, active>>

\* persist(stopping) or persist(final) fails: the error is returned at once.
StopPersistFails(i) ==
    /\ stopPc[i] \in {"stopping", "final", "finalErr"}
    /\ stopPc[i] # "stopping" => MuFree(i)
    /\ StopReturn(i, FALSE)
    /\ UNCHANGED <<registry, istate, run, drainVars, genVars, arbLock, target,
                   shutdown, envVars, durable>>

\* The final state is persisted.
StopFinal(i) ==
    /\ stopPc[i] \in {"final", "finalErr"} /\ MuFree(i) /\ Writable(i)
    /\ durable' = [durable EXCEPT ![i] = istate[i]]
    /\ StopReturn(i, stopPc[i] = "final")
    /\ UNCHANGED <<registry, istate, run, drainVars, genVars, arbLock, target,
                   shutdown, envVars>>

-----------------------------------------------------------------------------
(* The restart of an instance: restartWithRefresh                          *)

\* lifecycleMu is taken; one load of the view decides between stopping the
\* running generation and awaiting the run of a stopping or terminal one.
RestartBegin(r) ==
    LET i == target[r] IN
    /\ pc[r] = "reserved" /\ lifecycleMu[i] = NoOp
    /\ active[i] = r                        \* revalidateOperation
    /\ lifecycleMu' = [lifecycleMu EXCEPT ![i] = r]
    /\ Goto(r, IF istate[i] = "running" THEN "stopOld" ELSE "awaitOld")
    /\ UNCHANGED <<ctrlVars, drainVars, genVars, arbLock, target, shutVars,
                   envVars, stopPc, durable>>

\* The restart's own stop(). By the time it looks, wait() may have published
\* the terminal state: then stop returns nil at once.
RestartStop(r) ==
    LET i == target[r] IN
    /\ pc[r] = "stopOld" /\ stopPc[i] = "none" /\ MuFree(i)
    /\ IF istate[i] \in Terminal
       THEN Goto(r, "needSlot") /\ UNCHANGED <<istate, stopPc>>
       ELSE BeginStop(i) /\ UNCHANGED pc
    /\ UNCHANGED <<registry, active, run, drainVars, genVars, lockVars, target,
                   shutVars, envVars, durable>>

\* MUTANT of RestartAwait: the run is not awaited.
RestartAwaitSkipped(r) ==
    LET i == target[r] IN
    /\ pc[r] = "awaitOld"
    /\ Goto(r, "needSlot")
    /\ UNCHANGED <<ctrlVars, drainVars, genVars, lockVars, target, shutVars,
                   envVars, stopPc, durable>>

\* The previous run is complete.
RestartAwait(r) ==
    LET i == target[r] IN
    /\ pc[r] = "awaitOld"
    /\ run[i] = NoOp \/ run[i] \in runDone
    /\ Goto(r, "needSlot")
    /\ UNCHANGED <<ctrlVars, drainVars, genVars, lockVars, target, shutVars,
                   envVars, stopPc, durable>>

\* The request's context ends while it waits for the old run or for a slot
\* (there, the lifecycle context counts too).
RestartGivesUp(r) ==
    LET i == target[r] IN
    /\ pc[r] = "awaitOld" \/ (pc[r] = "needSlot" /\ MaxConcurrent > 0)
    /\ ReleaseOp(r, i) /\ Unlock(r, i)
    /\ Goto(r, "failed")
    /\ UNCHANGED <<registry, istate, run, drainVars, genVars, arbLock, target,
                   shutVars, envVars, stopPc, durable>>

-----------------------------------------------------------------------------
(* The wait() goroutine of one generation                                  *)

\* Under ic.mu: the Manager's final status becomes the terminal state. The
\* status is the controller's, not the generation's: while a later generation
\* is alive it has no exit class, which maps to failed.
WaitTerminal(op) ==
    LET i == target[op] IN
    /\ waitPc[op] = "waiting" /\ proc[op] = "gone" /\ MuFree(i)
    /\ \E s \in (IF \E o \in Ops : target[o] = i /\ proc[o] = "alive"
                 THEN {"failed"} ELSE Terminal) :
          /\ istate' = [istate EXCEPT ![i] = s]
          /\ waitEntry' = [waitEntry EXCEPT ![op] = s]
    /\ waitPc' = [waitPc EXCEPT ![op] = "persist"]
    /\ UNCHANGED <<registry, active, run, drainVars, slot, proc, runDone,
                   lockVars, opVars, shutVars, envVars, stopPc, durable>>

\* MUTANT of WaitPersist: exhausted retries end the goroutine.
WaitPersistOrReturn(op) ==
    /\ waitPc[op] = "persist"
    /\ \/ /\ Writable(target[op])
          /\ durable' = [durable EXCEPT ![target[op]] = waitEntry[op]]
          /\ waitPc' = [waitPc EXCEPT ![op] = "finish"]
       \/ UNCHANGED durable /\ waitPc' = [waitPc EXCEPT ![op] = "done"]
    /\ waitEntry' = [waitEntry EXCEPT ![op] = "none"]
    /\ UNCHANGED <<ctrlVars, drainVars, slot, proc, runDone, lockVars, opVars,
                   shutVars, envVars, stopPc>>

\* Outside ic.mu: the captured entry is written, with bounded retries.
WaitPersist(op) ==
    /\ waitPc[op] = "persist"
    /\ BestEffort(target[op], waitEntry[op])
    /\ waitPc' = [waitPc EXCEPT ![op] = "finish"]
    /\ waitEntry' = [waitEntry EXCEPT ![op] = "none"]
    /\ UNCHANGED <<ctrlVars, drainVars, slot, proc, runDone, lockVars, opVars,
                   shutVars, envVars, stopPc>>

\* The slot is released and the run completed, each at most once.
WaitFinish(op) ==
    /\ waitPc[op] = "finish"
    /\ slot' = slot \ {op} /\ runDone' = runDone \cup {op}
    /\ waitPc' = [waitPc EXCEPT ![op] = "done"]
    /\ UNCHANGED <<ctrlVars, drainVars, proc, waitEntry, lockVars, opVars,
                   shutVars, envVars, stopPc, durable>>

-----------------------------------------------------------------------------
(* Shutdown and ShutdownWithPersistence                                    *)

\* beginDrain (D): the latch, and zeroSig at once if nothing is pre-spawn.
ShutdownBegin ==
    /\ "shutdown" \in Requests /\ shutdown = "idle"
    /\ shutdown' = "drain"
    /\ draining' = TRUE
    /\ zeroSig' = (preSpawnInFlight = 0)
    /\ UNCHANGED <<ctrlVars, tokens, preSpawnInFlight, genVars, lockVars, opVars,
                   shutdownTodo, shutdownErr, envVars, stopPc, durable>>

\* The drain completed: the registered controllers are snapshot.
ShutdownSnapshot ==
    /\ shutdown = "drain" /\ zeroSig
    /\ shutdown' = "stop" /\ shutdownTodo' = registry
    /\ UNCHANGED <<ctrlVars, drainVars, genVars, lockVars, opVars, shutdownErr,
                   envVars, stopPc, durable>>

\* The deadline passes first: no stop is attempted.
ShutdownTimeout ==
    /\ shutdown = "drain" /\ ~zeroSig
    /\ shutdown' = "stop" /\ shutdownErr' = TRUE
    /\ UNCHANGED <<ctrlVars, drainVars, genVars, lockVars, opVars, shutdownTodo,
                   envVars, stopPc, durable>>

\* MUTANT of ShutdownSkip: only running controllers are stopped.
ShutdownSkipNotRunning(i) ==
    /\ shutdown = "stop" /\ i \in shutdownTodo /\ lifecycleMu[i] # Drain
    /\ istate[i] # "running"
    /\ shutdownTodo' = shutdownTodo \ {i}
    /\ UNCHANGED <<ctrlVars, drainVars, genVars, lockVars, opVars, shutdown,
                   shutdownErr, envVars, stopPc, durable>>

\* A controller of the snapshot that is not live is passed over.
ShutdownSkip(i) ==
    /\ shutdown = "stop" /\ i \in shutdownTodo /\ lifecycleMu[i] # Drain
    /\ istate[i] \notin Live
    /\ shutdownTodo' = shutdownTodo \ {i}
    /\ UNCHANGED <<ctrlVars, drainVars, genVars, lockVars, opVars, shutdown,
                   shutdownErr, envVars, stopPc, durable>>

\* ctrl.Stop on a live controller, one controller at a time.
ShutdownStop(i) ==
    /\ shutdown = "stop" /\ i \in shutdownTodo
    /\ \A j \in Instances : lifecycleMu[j] # Drain
    /\ lifecycleMu[i] = NoOp /\ MuFree(i) /\ istate[i] \in Live
    /\ lifecycleMu' = [lifecycleMu EXCEPT ![i] = Drain]
    /\ BeginStop(i)
    /\ UNCHANGED <<registry, active, run, drainVars, genVars, arbLock, opVars,
                   shutVars, envVars, durable>>

\* ShutdownWithPersistence writes every registered terminal instance once
\* more; the writes of W succeed.
ShutdownPersist ==
    LET T == {i \in registry : istate[i] \in Terminal} IN
    /\ shutdown = "stop" /\ shutdownTodo = {}
    /\ \E W \in SUBSET {i \in T : Writable(i)} :
          /\ durable' = [i \in Instances |-> IF i \in W THEN istate[i] ELSE durable[i]]
          /\ shutdown' = IF shutdownErr \/ W # T THEN "err" ELSE "ok"
    /\ UNCHANGED <<ctrlVars, drainVars, genVars, lockVars, opVars, shutdownTodo,
                   shutdownErr, envVars, stopPc>>

-----------------------------------------------------------------------------
(* Cleanup of terminal instances: repository first, then the registry      *)

\* repo.DeleteTerminalInstances on the record of i.
DeleteRecord(i) ==
    /\ "cleanup" \in Requests /\ durable[i] \in Terminal
    /\ durable' = [durable EXCEPT ![i] = "absent"]
    /\ UNCHANGED <<ctrlVars, drainVars, genVars, lockVars, opVars, shutVars,
                   envVars, stopPc>>

\* MUTANT of ForgetCleaned: a published operation is not looked at.
ForgetCleanedReserved(i) ==
    /\ "cleanup" \in Requests /\ i \in registry /\ MuFree(i)
    /\ istate[i] \in Terminal
    /\ i \notin tokens
    /\ run[i] # NoOp => run[i] \in runDone
    /\ \A op \in Ops : target[op] = i => proc[op] # "alive"
    /\ registry' = registry \ {i}
    /\ UNCHANGED <<istate, active, run, drainVars, genVars, lockVars, opVars,
                   shutVars, envVars, stopPc, durable>>

\* ForgetCleanedControllers: cleanupRemovalProof, then the registry entry goes.
\* The records are listed before the registry is read, and neither list is
\* looked at again: whoever was registered before it had a record may still be
\* a candidate, however its record stands by now.
ForgetCleaned(i) ==
    /\ "cleanup" \in Requests /\ i \in registry /\ MuFree(i)
    /\ istate[i] \in Terminal
    /\ active[i] = NoOp
    /\ i \notin tokens
    /\ run[i] # NoOp => run[i] \in runDone
    /\ \A op \in Ops : target[op] = i => proc[op] # "alive"
    /\ registry' = registry \ {i}
    /\ UNCHANGED <<istate, active, run, drainVars, genVars, lockVars, opVars,
                   shutVars, envVars, stopPc, durable>>

-----------------------------------------------------------------------------
(* The environment                                                         *)

\* An OS process ends and the Manager's single cmd.Wait owner sees it.
ProcessExit(op) ==
    /\ proc[op] = "alive"
    /\ proc' = [proc EXCEPT ![op] = "gone"]
    /\ UNCHANGED <<ctrlVars, drainVars, slot, runDone, waitPc, waitEntry,
                   lockVars, opVars, shutVars, envVars, stopPc, durable>>

\* An OS signal (or the SCM stop request) ends the lifecycle context.
Signal ==
    /\ "shutdown" \in Requests /\ ~cancelled /\ cancelled' = TRUE
    /\ UNCHANGED <<ctrlVars, drainVars, genVars, lockVars, opVars, shutVars,
                   orphans, stopPc, durable>>

\* The operator dismisses or kills the last orphan of model m.
ResolveOrphan(m) ==
    /\ m \in orphans /\ orphans' = orphans \ {m}
    /\ UNCHANGED <<ctrlVars, drainVars, genVars, lockVars, opVars, shutVars,
                   cancelled, stopPc, durable>>

-----------------------------------------------------------------------------
OpStep(op) ==
    \/ ArbCheck(op) \/ ArbReject(op) \/ ArbPublish(op) \/ AcquireSlot(op)
    \/ Commit(op) \/ CommitAbort(op)
    \/ SpawnPersistFails(op) \/ SpawnStartFails(op) \/ SpawnOk(op)
    \/ RunningDurable(op) \/ RollbackConfirmed(op) \/ RollbackResidual(op)

LaunchStep(i) ==
    \/ LaunchSlotFails(i) \/ CreateRecord(i) \/ CreateRecordFails(i)
    \/ LaunchCleanup(i)

RestartStep(r) ==
    RestartBegin(r) \/ RestartStop(r) \/ RestartAwait(r) \/ RestartGivesUp(r)

StopStep(i) ==
    \/ StopSignal(i) \/ StopPersist(i) \/ StopAwait(i) \/ StopTimeout(i)
    \/ StopPersistFails(i) \/ StopFinal(i)

WaitStep(op) == WaitTerminal(op) \/ WaitPersist(op) \/ WaitFinish(op)

ShutdownStep ==
    \/ ShutdownBegin \/ ShutdownSnapshot \/ ShutdownTimeout \/ ShutdownPersist
    \/ \E i \in Instances : ShutdownSkip(i) \/ ShutdownStop(i)

Next ==
    \/ \E op \in Ops : OpStep(op) \/ WaitStep(op) \/ ProcessExit(op)
    \/ \E i \in Instances :
          LaunchStep(i) \/ UserStop(i) \/ StopStep(i) \/ DeleteRecord(i)
             \/ ForgetCleaned(i)
    \/ \E r \in Restarts :
          RestartStep(r) \/ \E i \in Instances : RestartLookup(r, i)
    \/ ShutdownStep \/ Signal \/ \E m \in Models : ResolveOrphan(m)

Spec == Init /\ [][Next]_vars

-----------------------------------------------------------------------------
(* Fairness                                                                *)

\* What the goroutine of an operation does of its own accord; the last two
\* disjuncts are the slot wait, which the end of the lifecycle context ends.
OpProgress(op) ==
    \/ OpStep(op)
    \/ CreateRecord(op) \/ CreateRecordFails(op) \/ LaunchCleanup(op)
    \/ op \in Restarts /\ (RestartBegin(op) \/ RestartStop(op) \/ RestartAwait(op))
    \/ op \in Instances /\ cancelled /\ LaunchSlotFails(op)
    \/ op \in Restarts /\ cancelled /\ pc[op] = "needSlot" /\ RestartGivesUp(op)

\* Goroutines are scheduled, and a goroutine that waits for a mutex is not
\* overtaken for ever (sync.Mutex has a starvation mode), whence strong
\* fairness for those whose steps take one. A store call returns; whether it
\* fails is not fair, and neither are timeouts, requests or free exits. A
\* process that manager.Stop has signalled is assumed to exit.
Fairness ==
    /\ \A op \in Ops :
          /\ SF_vars(OpProgress(op)) /\ SF_vars(WaitStep(op))
          /\ WF_vars(target[op] # NoOp /\ istate[target[op]] = "stopping"
                       /\ stopPc[target[op]] # "signal" /\ ProcessExit(op))
    /\ \A i \in Instances :
          /\ SF_vars(StopSignal(i) \/ StopPersist(i) \/ StopAwait(i)
                        \/ StopPersistFails(i) \/ StopFinal(i))
          /\ SF_vars(ShutdownSkip(i) \/ ShutdownStop(i))
    /\ WF_vars(ShutdownSnapshot \/ ShutdownPersist)

FairSpec == Spec /\ Fairness

\* Fairness for the operations alone: neither stops nor exits are needed.
OpFairSpec == Spec /\ \A op \in Ops : SF_vars(OpProgress(op))
====
