------------------------ MODULE SupervisorProperties ------------------------
(***************************************************************************)
(* What the supervisor promises: the safety and liveness properties of     *)
(* Supervisor, the abstract specification it implements, and the inductive *)
(* invariant behind the theorems of SupervisorProofs.                      *)
(***************************************************************************)
EXTENDS Supervisor

\* Who may be active on one model at the same time: two different entries of
\* the same pipeline (ADR 017, compatibility matrix).
MayCoexist(a, b) ==
    a.pipeline # "" /\ a.pipeline = b.pipeline /\ a.entry # b.entry

SameModel(i, j) == i # j /\ ModelOf[i] = ModelOf[j]

Alive == {op \in Ops : proc[op] = "alive"}

-----------------------------------------------------------------------------
(* Safety, whatever restarts do                                            *)

\* Two controllers of one model are conflict-visible together only if the
\* matrix allows it: the promise of arbitrate (arbitration.go:138-153) read
\* over the registry, through launches, restarts, stops and rollbacks.
VisibleExclusion ==
    \A i, j \in Instances :
        SameModel(i, j) /\ Visible(i) /\ Visible(j)
            => MayCoexist(OwnerOf[i], OwnerOf[j])

\* The same promise as an abstract specification: the visible controllers are
\* the holders of a lock with compatible modes, taken and released one by one.
Exclusion == INSTANCE ModelExclusion WITH
    Holders   <- Instances,
    Conflicts <- {c \in Instances \X Instances :
                     /\ SameModel(c[1], c[2])
                     /\ ~Compatible(OwnerOf[c[1]], OwnerOf[c[2]])},
    held      <- {i \in Instances : Visible(i)}

\* Every step of the supervisor is a claim, a release or neither.
ImplementsExclusion == Exclusion!Spec

\* The operation that reaches commit C still owns its controller, so the
\* errSpawnClaimRejected and revalidateOperation paths are unreachable: no
\* interleaving of launches, restarts, stops and cleanups takes a published
\* record away from its owner.
ClaimHeld ==
    /\ \A i \in Instances : pc[i] \in LaunchHolds => active[i] = i
    /\ \A r \in Restarts : pc[r] \in RestartHolds => active[target[r]] = r

\* preSpawnInFlight counts exactly the launches between admission A and commit
\* C, and zeroSig, once closed, means that none is left and none can come
\* (supervisor.go:233-248): no admitted launch reaches manager.Start after a
\* drain that completed.
DrainAccounting ==
    /\ preSpawnInFlight = Cardinality({i \in Instances : pc[i] \in PreSpawn})
    /\ zeroSig => draining /\ preSpawnInFlight = 0

\* A live process is accounted for by a slot that only its own wait() or its
\* confirmed rollback returns, so the semaphore bounds live processes
\* (ADR 016: the slot is never released while the process may be alive).
LiveHoldsSlot ==
    MaxConcurrent > 0 =>
        /\ \A op \in Alive : op \in slot
        /\ Cardinality(slot) <= MaxConcurrent

\* Some generation of controller i was rolled back after its spawn, so its
\* wait() is or was there beside the wait() of a later generation.
RolledBack(i) ==
    \E op \in Ops : /\ target[op] = i /\ waitPc[op] # "none"
                    /\ pc[op] \in {"failed", "forget"}

\* startCore never asks a manager to spawn over a process that still lives,
\* even when the stop of the previous generation failed or timed out: the
\* refusal of manager.Start ("already running") is needed only after a
\* rollback, whose late wait() can publish a terminal state over a live
\* process (what TerminalMeansGone shows), on which a restart's stop() then
\* returns nil at once (supervisor.go:1712, 1836).
SpawnsOverNothing ==
    \A op \in Ops : pc[op] = "starting" =>
        \/ \A o \in Alive : target[o] # target[op]
        \/ RolledBack(target[op])

\* Whatever unregisters a controller - a failed launch, a failed write of
\* starting, cleanup on lists it read long ago (supervisor.go:395-411) - takes
\* no restart's reservation, no unfinished run and no live process out of reach
\* of later scans, stops and shutdowns; a failed restart may, after a rollback
\* whose late wait() published a terminal state over a live process.
OwnedStayRegistered ==
    [][\A i \in registry \ registry' :
          /\ active'[i] \in {NoOp, i}
          /\ run'[i] # NoOp => run'[i] \in runDone'
          /\ \/ \A op \in Ops : target'[op] = i => proc'[op] # "alive"
             \/ RolledBack(i)]_vars

\* A finished operation holds no lock and no record, and a generation without
\* a process, or whose run completed, has returned its slot: no error path
\* leaks one.
NothingLeaks ==
    \A op \in Ops :
        /\ op \in runDone => op \notin slot
        /\ pc[op] \in Finished =>
              /\ \A i \in Instances : active[i] # op /\ lifecycleMu[i] # op
              /\ \A m \in Models : arbLock[m] # op
              /\ proc[op] = "none" => op \notin slot

-----------------------------------------------------------------------------
(* Safety of first generations, which restarts break                       *)

\* ADR 017:116, the hard invariant: once manager.Start can have created a
\* process its model is never admissible again until the exit is confirmed;
\* so two live processes of one model belong to compatible owners.
LiveExclusion ==
    \A p, q \in Alive :
        SameModel(target[p], target[q])
            => MayCoexist(OwnerOf[target[p]], OwnerOf[target[q]])

\* ADR 017:116: the claim of a live process is never deleted; Stop, List and
\* Shutdown reach it through the registry.
LiveIsRegistered == \A op \in Alive : target[op] \in registry

\* A terminal state is only published for a process that is gone: an older
\* generation's wait() never overwrites a newer generation's view
\* (docs/adr/021:295).
TerminalMeansGone == \A op \in Alive : istate[target[op]] \in Live

\* ADR 016 S1: what a launch or restart that returned success runs stays
\* recorded as in flight, so after a crash Recover finds it.
DurableOwnership ==
    \A op \in Alive : pc[op] = "ok" => durable[target[op]] \in {"running", "stopping"}

\* A Shutdown that returned nil leaves no process behind and none to come.
ShutdownComplete ==
    shutdown = "ok" =>
        Alive = {} /\ \A op \in Ops : pc[op] \notin {"starting", "spawned"}

-----------------------------------------------------------------------------
(* Liveness                                                                *)

\* A drain under a cancelled lifecycle context completes without its deadline:
\* launches that wait for a slot are aborted, the others commit or abort.
DrainCompletes == (draining /\ cancelled) ~> zeroSig

\* Every process that exits is finalized: its run completes, its slot returns.
ExitFinalizes ==
    \A op \in Ops :
        (proc[op] = "gone" /\ pc[op] \in Finished) ~> (op \in runDone /\ op \notin slot)

\* No operation is stuck on a lock or on another operation: every restart and
\* every launch in progress returns, unless it waits for a slot that another
\* process holds.
OpsReturn ==
    \A op \in Ops :
        pc[op] # "idle" ~> \/ pc[op] \in Finished
                           \/ \E o \in slot \ {op} : proc[o] = "alive"

\* Shutdown returns although no deadline helps it.
ShutdownReturns ==
    (shutdown # "idle" /\ cancelled) ~> (shutdown \in {"ok", "err"})

-----------------------------------------------------------------------------
(* The inductive invariant                                                 *)

\* An operation that does not hold a record has none.
Fresh(i) == pc[i] \in {"idle", "arbitrating", "rejected"}

\* A restart works on a controller that was registered once, so never on one
\* whose launch has still to publish it.
TargetsInv ==
    /\ \A i \in Instances : target[i] = i
    /\ \A i \in Instances : Fresh(i) => i \notin registry /\ active[i] = NoOp
    /\ \A r \in Restarts :
          pc[r] # "idle" => target[r] \in Instances /\ ~Fresh(target[r])

\* An operation in arbitration holds its model's lock, and nobody publishes a
\* record on its controller meanwhile.
LockInv ==
    \A op \in Ops : pc[op] = "arbitrating" =>
        arbLock[ModelOf[target[op]]] = op /\ active[target[op]] = NoOp

\* What the scan saw stays true until the lock is released.
ScanInv == \A op \in Ops : pc[op] = "arbitrating" => NoConflict(target[op])

\* lifecycleMu: a restart that stops its old run holds it, and so does
\* whoever has a stop in progress.
StopInv ==
    /\ \A r \in Restarts : pc[r] = "stopOld" => lifecycleMu[target[r]] = r
    /\ \A i \in Instances : stopPc[i] # "none" =>
          \/ lifecycleMu[i] \in {User, Drain}
          \/ \E r \in Restarts :
                lifecycleMu[i] = r /\ target[r] = i /\ pc[r] = "stopOld"

\* The pre-spawn tokens are those of the launches before commit C.
TokenInv ==
    /\ tokens = {i \in Instances : pc[i] \in PreSpawn}
    /\ preSpawnInFlight = Cardinality(tokens)
    /\ zeroSig => draining /\ preSpawnInFlight = 0

\* A generation is alive between SpawnOk and its exit only, and holds a slot
\* from before its commit until its wait() or its rollback saw the exit.
SlotInv ==
    /\ \A op \in Ops :
          /\ proc[op] = "alive" => pc[op] \in {"spawned", "ok", "residual"}
          /\ waitPc[op] # "none" => pc[op] \in {"ok", "residual", "failed", "forget"}
          /\ waitPc[op] \notin {"none", "waiting"} => proc[op] = "gone"
          /\ waitPc[op] = "persist" => waitEntry[op] \in Terminal
          /\ MaxConcurrent > 0 =>
                /\ pc[op] \in {"slotOwned", "ready", "starting", "spawned"} => op \in slot
                /\ proc[op] = "alive" => op \in slot
    /\ IsFiniteSet(slot) /\ Cardinality(slot) <= MaxConcurrent

ClaimInv == TargetsInv /\ LockInv /\ StopInv /\ ClaimHeld

IInv == TypeOK /\ ClaimInv /\ ScanInv /\ VisibleExclusion /\ TokenInv /\ SlotInv
====
