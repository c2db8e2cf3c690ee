------------------------- MODULE FirstGenerationProofs -------------------------
(***************************************************************************)
(* Theorems about Supervisor while nothing is restarted: what a restart    *)
(* breaks (the runs v_terminal and v_exclusion show how) holds of the      *)
(* first generations of every instance.                                    *)
(***************************************************************************)
EXTENDS GenerationProofs

USE DEF opVars, ctrlVars, drainVars, genVars, lockVars, shutVars, envVars,
        Goto, ReleaseOp, Unlock

\* No request of RestartWithLaunch.
FirstOnly == Restarts = {}

\* A launch between its admission and its return, or its cleanup.
Underway == PreSpawn \cup {"starting", "spawned"}

\* The controller of a launch in progress, or of a live process, is registered.
RegisteredInv ==
    \A i \in Instances : pc[i] \in Underway \/ proc[i] = "alive" => i \in registry

\* What its view says of its generation.
Published(i) ==
    /\ pc[i] = "starting" => istate[i] = "starting"
    /\ pc[i] = "spawned" => istate[i] = "running"
    /\ proc[i] = "alive" => istate[i] \in Live
    /\ proc[i] = "alive" /\ pc[i] = "ok" => istate[i] \in {"running", "stopping"}

PublishedInv == \A i \in Instances : Published(i)

\* What its record says of it.
RecordedInv ==
    \A i \in Instances :
        proc[i] = "alive" /\ pc[i] = "ok" => durable[i] \in {"running", "stopping"}

\* Controller i has no process, and no launch that could still spawn one.
Down(i) == proc[i] # "alive" /\ pc[i] \notin Underway

\* A step launches nothing on what is down, and the drain stays over.
StaysDown == zeroSig' /\ \A i \in Instances : Down(i) => Down(i)'

\* Shutdown: what it has passed over or stopped without an error stays down.
StoppedInv ==
    shutdown \in {"stop", "ok"} /\ ~shutdownErr =>
        zeroSig /\ \A i \in Instances \ shutdownTodo : Down(i)

\* Its loop stops only what it has still to stop.
LoopInv ==
    /\ \A i \in Instances : lifecycleMu[i] = Drain =>
          shutdown = "stop" /\ i \in shutdownTodo
    /\ shutdown = "ok" => shutdownTodo = {} /\ ~shutdownErr

FirstInv == RegisteredInv /\ PublishedInv /\ RecordedInv /\ StoppedInv /\ LoopInv

-----------------------------------------------------------------------------
(* Lemmas about the state                                                  *)

\* Every operation is the launch of its controller.
LEMMA FirstTarget ==
    ASSUME FirstOnly, TargetsInv, NEW op \in Ops
    PROVE  op \in Instances /\ op \notin Restarts /\ target[op] = op
  BY DEF FirstOnly, TargetsInv, Ops

\* A stop returns to a user or to Shutdown.
LEMMA FirstReturns ==
    ASSUME FirstOnly, StopInv, NEW i \in Instances, stopPc[i] # "none",
           NEW ok, StopReturn(i, ok)
    PROVE  /\ lifecycleMu[i] \in {User, Drain}
           /\ lifecycleMu' = [lifecycleMu EXCEPT ![i] = NoOp]
           /\ UNCHANGED <<pc, active>>
  <1>1. lifecycleMu[i] \in {User, Drain}
    BY DEF FirstOnly, StopInv
  <1> QED BY <1>1 DEF StopReturn, FirstOnly

\* Once the drain is over no launch is before its commit.
LEMMA DrainedFirst ==
    ASSUME TypeOK, TokenInv, zeroSig, NEW i \in Instances
    PROVE  pc[i] \notin PreSpawn
  <1>1. tokens = {}
    BY TokensFinite, FS_EmptySet DEF TokenInv
  <1> QED BY <1>1 DEF TokenInv

\* The generation of a controller that is clear does not live.
LEMMA ClearedDead ==
    ASSUME FirstOnly, TypeOK, TargetsInv, SlotInv, WaitInv, NEW i \in Instances,
           Clear(i) \/ RolledBack(i)
    PROVE  proc[i] # "alive"
  <1> SUFFICES ASSUME proc[i] = "alive" PROVE FALSE
    OBVIOUS
  <1>1. i \in Ops /\ target[i] = i
    BY DEF Ops, TargetsInv
  <1>2. pc[i] \in {"spawned", "ok", "residual"} /\ waitPc[i] \in {"none", "waiting"}
    BY <1>1 DEF SlotInv
  <1>3. CASE Clear(i)
    BY <1>1, <1>2, <1>3 DEF Clear, Pending, WaitInv
  <1>4. CASE RolledBack(i)
    BY <1>2, <1>4, FirstTarget DEF RolledBack
  <1> QED BY <1>3, <1>4

-----------------------------------------------------------------------------
(* Steps                                                                   *)

\* A controller leaves the registry only without a launch or a process.
LEMMA RegisteredStep ==
    ASSUME FirstOnly, TypeOK, ClaimInv, SlotInv, RegisteredInv, [Next]_vars
    PROVE  RegisteredInv'
  <1> USE DEF ClaimInv
  <1>1. ASSUME NEW op \in Ops, OpStep(op) PROVE RegisteredInv'
    <2>1. CASE ArbCheck(op)
      BY <2>1, FirstTarget DEF ArbCheck, AtArbitrate, RegisteredInv, Underway,
         PreSpawn, SlotInv, TypeOK, Ops
    <2>2. CASE ArbReject(op)
      BY <2>2, FirstTarget DEF ArbReject, AtArbitrate, RegisteredInv, Underway,
         PreSpawn, SlotInv, TypeOK, Ops
    <2>3. CASE ArbPublish(op)
      BY <2>3, FirstTarget DEF ArbPublish, RegisteredInv, Underway, PreSpawn,
         SlotInv, TypeOK, Ops
    <2>4. CASE AcquireSlot(op)
      BY <2>4, FirstTarget DEF AcquireSlot, LaunchPCs, LaunchHolds, Finished,
         RegisteredInv, Underway, PreSpawn, SlotInv, TypeOK, Ops
    <2>5. CASE Commit(op)
      BY <2>5, FirstTarget DEF Commit, AtCommit, RegisteredInv, Underway,
         PreSpawn, SlotInv, TypeOK, Ops
    <2>6. CASE CommitAbort(op)
      <3>1. op \in Instances /\ op \notin Restarts /\ target[op] = op
        BY FirstTarget
      <3>2. /\ pc[op] = "ready" /\ pc' = [pc EXCEPT ![op] = "failed"]
            /\ UNCHANGED proc
            /\ registry' = registry \ {op}
        BY <2>6, <3>1 DEF CommitAbort, AtCommit, BestEffort
      <3> QED BY <3>1, <3>2 DEF RegisteredInv, Underway, PreSpawn, SlotInv, TypeOK, Ops
    <2>7. CASE SpawnPersistFails(op)
      BY <2>7, FirstTarget DEF SpawnPersistFails, EndUnspawned, RegisteredInv,
         Underway, PreSpawn, SlotInv, TypeOK, Ops
    <2>8. CASE SpawnStartFails(op)
      BY <2>8, FirstTarget DEF SpawnStartFails, EndUnspawned, RegisteredInv,
         Underway, PreSpawn, SlotInv, TypeOK, Ops
    <2>9. CASE SpawnOk(op)
      BY <2>9, FirstTarget DEF SpawnOk, RegisteredInv, Underway, PreSpawn,
         SlotInv, TypeOK, Ops
    <2>10. CASE RunningDurable(op)
      BY <2>10, FirstTarget DEF RunningDurable, RegisteredInv, Underway,
         PreSpawn, SlotInv, TypeOK, Ops
    <2>11. CASE RollbackConfirmed(op)
      BY <2>11, FirstTarget DEF RollbackConfirmed, RegisteredInv, Underway,
         PreSpawn, SlotInv, TypeOK, Ops
    <2>12. CASE RollbackResidual(op)
      BY <2>12, FirstTarget DEF RollbackResidual, RegisteredInv, Underway,
         PreSpawn, SlotInv, TypeOK, Ops
    <2> QED BY <1>1, <2>1, <2>2, <2>3, <2>4, <2>5, <2>6, <2>7, <2>8, <2>9,
       <2>10, <2>11, <2>12 DEF OpStep
  <1>2. ASSUME NEW i \in Instances, LaunchStep(i) PROVE RegisteredInv'
    <2>1. CASE LaunchSlotFails(i)
      BY <2>1, FirstTarget DEF LaunchSlotFails, AbortAdmission, RegisteredInv,
         Underway, PreSpawn, SlotInv, TypeOK, Ops
    <2>2. CASE CreateRecord(i)
      BY <2>2, FirstTarget DEF CreateRecord, RegisteredInv, Underway, PreSpawn,
         SlotInv, TypeOK, Ops
    <2>3. CASE CreateRecordFails(i)
      BY <2>3, FirstTarget DEF CreateRecordFails, AbortAdmission,
         RegisteredInv, Underway, PreSpawn, SlotInv, TypeOK, Ops
    <2>4. CASE LaunchCleanup(i)
      BY <2>4, FirstTarget DEF LaunchCleanup, RegisteredInv, Underway,
         PreSpawn, SlotInv, TypeOK, Ops
    <2> QED BY <1>2, <2>1, <2>2, <2>3, <2>4 DEF LaunchStep
  <1>3. Restarts = {}
    BY DEF FirstOnly
  <1>4. ASSUME NEW i \in Instances, StopStep(i) PROVE RegisteredInv'
    <2>1. CASE StopSignal(i)
      BY <2>1 DEF StopSignal, RegisteredInv
    <2>2. CASE StopPersist(i)
      BY <2>2 DEF StopPersist, RegisteredInv
    <2>3. CASE StopAwait(i)
      BY <2>3 DEF StopAwait, RegisteredInv
    <2>4. CASE StopTimeout(i)
      BY <2>4 DEF StopTimeout, RegisteredInv
    <2>5. CASE StopPersistFails(i)
      <3>1. UNCHANGED <<pc, active>>
        BY <2>5, FirstReturns DEF StopPersistFails, ClaimInv
      <3> QED BY <2>5, <3>1 DEF StopPersistFails, StopReturn, RegisteredInv
    <2>6. CASE StopFinal(i)
      <3>1. UNCHANGED <<pc, active>>
        BY <2>6, FirstReturns DEF StopFinal, ClaimInv
      <3> QED BY <2>6, <3>1 DEF StopFinal, StopReturn, RegisteredInv
    <2> QED BY <1>4, <2>1, <2>2, <2>3, <2>4, <2>5, <2>6 DEF StopStep
  <1>5. ASSUME NEW op \in Ops, WaitStep(op) PROVE RegisteredInv'
    <2>1. CASE WaitTerminal(op)
      BY <2>1 DEF WaitTerminal, RegisteredInv
    <2>2. CASE WaitPersist(op)
      BY <2>2 DEF WaitPersist, RegisteredInv
    <2>3. CASE WaitFinish(op)
      BY <2>3 DEF WaitFinish, RegisteredInv
    <2> QED BY <1>5, <2>1, <2>2, <2>3 DEF WaitStep
  <1>6. CASE ShutdownStep
    <2>1. CASE ShutdownBegin
      BY <2>1 DEF ShutdownBegin, RegisteredInv
    <2>2. CASE ShutdownSnapshot
      BY <2>2 DEF ShutdownSnapshot, RegisteredInv
    <2>3. CASE ShutdownTimeout
      BY <2>3 DEF ShutdownTimeout, RegisteredInv
    <2>4. CASE ShutdownPersist
      BY <2>4 DEF ShutdownPersist, RegisteredInv
    <2>5. ASSUME NEW i \in Instances, ShutdownSkip(i) PROVE RegisteredInv'
      BY <2>5 DEF ShutdownSkip, RegisteredInv
    <2>6. ASSUME NEW i \in Instances, ShutdownStop(i) PROVE RegisteredInv'
      BY <2>6, FirstTarget DEF ShutdownStop, BeginStop, RegisteredInv,
         Underway, PreSpawn, SlotInv, TypeOK, Ops
    <2> QED BY <1>6, <2>1, <2>2, <2>3, <2>4, <2>5, <2>6 DEF ShutdownStep
  <1>7. ASSUME NEW i \in Instances, UserStop(i) PROVE RegisteredInv'
    BY <1>7 DEF UserStop, RegisteredInv
  <1>8. ASSUME NEW i \in Instances, DeleteRecord(i) PROVE RegisteredInv'
    BY <1>8 DEF DeleteRecord, RegisteredInv
  <1>9. ASSUME NEW i \in Instances, ForgetCleaned(i) PROVE RegisteredInv'
    BY <1>9, FirstTarget, ConstantsAssumption DEF ForgetCleaned, MuFree,
       ClaimHeld, LaunchHolds, RegisteredInv, Underway, PreSpawn, SlotInv,
       TypeOK, Ops
  <1>10. ASSUME NEW op \in Ops, ProcessExit(op) PROVE RegisteredInv'
    BY <1>10, FirstTarget DEF ProcessExit, RegisteredInv, Underway, PreSpawn,
       SlotInv, TypeOK, Ops
  <1>11. CASE Signal
    BY <1>11 DEF Signal, RegisteredInv
  <1>12. ASSUME NEW m \in Models, ResolveOrphan(m) PROVE RegisteredInv'
    BY <1>12 DEF ResolveOrphan, RegisteredInv
  <1>13. CASE UNCHANGED vars
    BY <1>13, FirstTarget DEF vars, RegisteredInv, Underway, PreSpawn, SlotInv,
       TypeOK, Ops
  <1> QED BY <1>1, <1>2, <1>3, <1>4, <1>5, <1>6, <1>7, <1>8, <1>9, <1>10,
     <1>11, <1>12, <1>13 DEF Next

\* The published state follows the generation.
LEMMA PublishedStep ==
    ASSUME FirstOnly, TypeOK, ClaimInv, SlotInv, PublishedInv, [Next]_vars
    PROVE  PublishedInv'
  <1> USE DEF ClaimInv
  <1>1. ASSUME NEW op \in Ops, OpStep(op) PROVE PublishedInv'
    <2>1. CASE ArbCheck(op)
      BY <2>1, FirstTarget DEF ArbCheck, AtArbitrate, PublishedInv, Published,
         SlotInv, MuFree, Live, TypeOK, Ops
    <2>2. CASE ArbReject(op)
      BY <2>2, FirstTarget DEF ArbReject, AtArbitrate, PublishedInv, Published,
         SlotInv, MuFree, Live, TypeOK, Ops
    <2>3. CASE ArbPublish(op)
      BY <2>3, FirstTarget DEF ArbPublish, PublishedInv, Published, SlotInv,
         MuFree, Live, TypeOK, Ops
    <2>4. CASE AcquireSlot(op)
      BY <2>4, FirstTarget DEF AcquireSlot, PublishedInv, Published, SlotInv,
         MuFree, Live, TypeOK, Ops
    <2>5. CASE Commit(op)
      BY <2>5, FirstTarget DEF Commit, AtCommit, PublishedInv, Published,
         SlotInv, MuFree, Live, TypeOK, Ops
    <2>6. CASE CommitAbort(op)
      <3>1. op \in Instances /\ op \notin Restarts /\ target[op] = op
        BY FirstTarget
      <3>2. /\ pc[op] = "ready" /\ pc' = [pc EXCEPT ![op] = "failed"]
            /\ UNCHANGED proc
            /\ istate' = [istate EXCEPT ![op] = "failed"]
        BY <2>6, <3>1 DEF CommitAbort, AtCommit, BestEffort
      <3> QED BY <3>1, <3>2 DEF PublishedInv, Published, SlotInv, MuFree, Live,
         TypeOK, Ops
    <2>7. CASE SpawnPersistFails(op)
      BY <2>7, FirstTarget DEF SpawnPersistFails, EndUnspawned, PublishedInv,
         Published, SlotInv, MuFree, Live, TypeOK, Ops
    <2>8. CASE SpawnStartFails(op)
      BY <2>8, FirstTarget DEF SpawnStartFails, EndUnspawned, PublishedInv,
         Published, SlotInv, MuFree, Live, TypeOK, Ops
    <2>9. CASE SpawnOk(op)
      BY <2>9, FirstTarget DEF SpawnOk, PublishedInv, Published, SlotInv,
         MuFree, Live, TypeOK, Ops
    <2>10. CASE RunningDurable(op)
      BY <2>10, FirstTarget DEF RunningDurable, PublishedInv, Published,
         SlotInv, MuFree, Live, TypeOK, Ops
    <2>11. CASE RollbackConfirmed(op)
      BY <2>11, FirstTarget DEF RollbackConfirmed, PublishedInv, Published,
         SlotInv, MuFree, Live, TypeOK, Ops
    <2>12. CASE RollbackResidual(op)
      BY <2>12, FirstTarget DEF RollbackResidual, PublishedInv, Published,
         SlotInv, MuFree, Live, TypeOK, Ops
    <2> QED BY <1>1, <2>1, <2>2, <2>3, <2>4, <2>5, <2>6, <2>7, <2>8, <2>9,
       <2>10, <2>11, <2>12 DEF OpStep
  <1>2. ASSUME NEW i \in Instances, LaunchStep(i) PROVE PublishedInv'
    <2>1. CASE LaunchSlotFails(i)
      BY <2>1, FirstTarget DEF LaunchSlotFails, AbortAdmission, PublishedInv,
         Published, SlotInv, MuFree, Live, TypeOK, Ops
    <2>2. CASE CreateRecord(i)
      BY <2>2, FirstTarget DEF CreateRecord, PublishedInv, Published, SlotInv,
         MuFree, Live, TypeOK, Ops
    <2>3. CASE CreateRecordFails(i)
      BY <2>3, FirstTarget DEF CreateRecordFails, AbortAdmission, PublishedInv,
         Published, SlotInv, MuFree, Live, TypeOK, Ops
    <2>4. CASE LaunchCleanup(i)
      BY <2>4, FirstTarget DEF LaunchCleanup, PublishedInv, Published, SlotInv,
         MuFree, Live, TypeOK, Ops
    <2> QED BY <1>2, <2>1, <2>2, <2>3, <2>4 DEF LaunchStep
  <1>3. Restarts = {}
    BY DEF FirstOnly
  <1>4. ASSUME NEW i \in Instances, StopStep(i) PROVE PublishedInv'
    <2>1. CASE StopSignal(i)
      BY <2>1 DEF StopSignal, PublishedInv, Published
    <2>2. CASE StopPersist(i)
      BY <2>2 DEF StopPersist, PublishedInv, Published
    <2>3. CASE StopAwait(i)
      BY <2>3 DEF StopAwait, PublishedInv, Published
    <2>4. CASE StopTimeout(i)
      BY <2>4 DEF StopTimeout, PublishedInv, Published
    <2>5. CASE StopPersistFails(i)
      <3>1. UNCHANGED <<pc, active>>
        BY <2>5, FirstReturns DEF StopPersistFails, ClaimInv
      <3> QED BY <2>5, <3>1 DEF StopPersistFails, StopReturn, PublishedInv, Published
    <2>6. CASE StopFinal(i)
      <3>1. UNCHANGED <<pc, active>>
        BY <2>6, FirstReturns DEF StopFinal, ClaimInv
      <3> QED BY <2>6, <3>1 DEF StopFinal, StopReturn, PublishedInv, Published
    <2> QED BY <1>4, <2>1, <2>2, <2>3, <2>4, <2>5, <2>6 DEF StopStep
  <1>5. ASSUME NEW op \in Ops, WaitStep(op) PROVE PublishedInv'
    <2>1. CASE WaitTerminal(op)
      BY <2>1, FirstTarget DEF WaitTerminal, PublishedInv, Published, SlotInv,
         MuFree, Live, TypeOK, Ops
    <2>2. CASE WaitPersist(op)
      BY <2>2 DEF WaitPersist, PublishedInv, Published
    <2>3. CASE WaitFinish(op)
      BY <2>3 DEF WaitFinish, PublishedInv, Published
    <2> QED BY <1>5, <2>1, <2>2, <2>3 DEF WaitStep
  <1>6. CASE ShutdownStep
    <2>1. CASE ShutdownBegin
      BY <2>1 DEF ShutdownBegin, PublishedInv, Published
    <2>2. CASE ShutdownSnapshot
      BY <2>2 DEF ShutdownSnapshot, PublishedInv, Published
    <2>3. CASE ShutdownTimeout
      BY <2>3 DEF ShutdownTimeout, PublishedInv, Published
    <2>4. CASE ShutdownPersist
      BY <2>4 DEF ShutdownPersist, PublishedInv, Published
    <2>5. ASSUME NEW i \in Instances, ShutdownSkip(i) PROVE PublishedInv'
      BY <2>5 DEF ShutdownSkip, PublishedInv, Published
    <2>6. ASSUME NEW i \in Instances, ShutdownStop(i) PROVE PublishedInv'
      BY <2>6, FirstTarget DEF ShutdownStop, BeginStop, PublishedInv,
         Published, SlotInv, MuFree, Live, TypeOK, Ops
    <2> QED BY <1>6, <2>1, <2>2, <2>3, <2>4, <2>5, <2>6 DEF ShutdownStep
  <1>7. ASSUME NEW i \in Instances, UserStop(i) PROVE PublishedInv'
    BY <1>7, FirstTarget DEF UserStop, BeginStop, PublishedInv, Published,
       SlotInv, MuFree, Live, TypeOK, Ops
  <1>8. ASSUME NEW i \in Instances, DeleteRecord(i) PROVE PublishedInv'
    BY <1>8 DEF DeleteRecord, PublishedInv, Published
  <1>9. ASSUME NEW i \in Instances, ForgetCleaned(i) PROVE PublishedInv'
    BY <1>9 DEF ForgetCleaned, PublishedInv, Published
  <1>10. ASSUME NEW op \in Ops, ProcessExit(op) PROVE PublishedInv'
    BY <1>10, FirstTarget DEF ProcessExit, PublishedInv, Published, SlotInv,
       MuFree, Live, TypeOK, Ops
  <1>11. CASE Signal
    BY <1>11 DEF Signal, PublishedInv, Published
  <1>12. ASSUME NEW m \in Models, ResolveOrphan(m) PROVE PublishedInv'
    BY <1>12 DEF ResolveOrphan, PublishedInv, Published
  <1>13. CASE UNCHANGED vars
    BY <1>13, FirstTarget DEF vars, PublishedInv, Published, SlotInv, MuFree,
       Live, TypeOK, Ops
  <1> QED BY <1>1, <1>2, <1>3, <1>4, <1>5, <1>6, <1>7, <1>8, <1>9, <1>10,
     <1>11, <1>12, <1>13 DEF Next

\* The record of a live process stays in flight.
LEMMA RecordedStep ==
    ASSUME FirstOnly, TypeOK, ClaimInv, SlotInv, PublishedInv, RecordedInv, [Next]_vars
    PROVE  RecordedInv'
  <1> USE DEF ClaimInv
  <1>1. ASSUME NEW op \in Ops, OpStep(op) PROVE RecordedInv'
    <2>1. CASE ArbCheck(op)
      BY <2>1, FirstTarget DEF ArbCheck, AtArbitrate, RecordedInv, SlotInv,
         TypeOK, Ops
    <2>2. CASE ArbReject(op)
      BY <2>2, FirstTarget DEF ArbReject, AtArbitrate, RecordedInv, SlotInv,
         TypeOK, Ops
    <2>3. CASE ArbPublish(op)
      BY <2>3, FirstTarget DEF ArbPublish, RecordedInv, SlotInv, TypeOK, Ops
    <2>4. CASE AcquireSlot(op)
      BY <2>4, FirstTarget DEF AcquireSlot, RecordedInv, SlotInv, TypeOK, Ops
    <2>5. CASE Commit(op)
      BY <2>5, FirstTarget DEF Commit, AtCommit, RecordedInv, SlotInv, TypeOK,
         Ops
    <2>6. CASE CommitAbort(op)
      <3>1. op \in Instances /\ op \notin Restarts /\ target[op] = op
        BY FirstTarget
      <3>2. /\ pc[op] = "ready" /\ pc' = [pc EXCEPT ![op] = "failed"]
            /\ UNCHANGED proc
            /\ durable' \in {durable, [durable EXCEPT ![op] = "failed"]}
        BY <2>6, <3>1 DEF CommitAbort, AtCommit, BestEffort
      <3> QED BY <3>1, <3>2 DEF RecordedInv, SlotInv, TypeOK, Ops
    <2>7. CASE SpawnPersistFails(op)
      BY <2>7, FirstTarget DEF SpawnPersistFails, EndUnspawned, RecordedInv,
         SlotInv, TypeOK, Ops
    <2>8. CASE SpawnStartFails(op)
      BY <2>8, FirstTarget DEF SpawnStartFails, EndUnspawned, RecordedInv,
         SlotInv, TypeOK, Ops
    <2>9. CASE SpawnOk(op)
      BY <2>9, FirstTarget DEF SpawnOk, RecordedInv, SlotInv, TypeOK, Ops
    <2>10. CASE RunningDurable(op)
      BY <2>10, FirstTarget DEF RunningDurable, RecordedInv, SlotInv, TypeOK,
         Ops
    <2>11. CASE RollbackConfirmed(op)
      BY <2>11, FirstTarget DEF RollbackConfirmed, BestEffort, RecordedInv,
         SlotInv, TypeOK, Ops
    <2>12. CASE RollbackResidual(op)
      BY <2>12, FirstTarget DEF RollbackResidual, RecordedInv, SlotInv, TypeOK,
         Ops
    <2> QED BY <1>1, <2>1, <2>2, <2>3, <2>4, <2>5, <2>6, <2>7, <2>8, <2>9,
       <2>10, <2>11, <2>12 DEF OpStep
  <1>2. ASSUME NEW i \in Instances, LaunchStep(i) PROVE RecordedInv'
    <2>1. CASE LaunchSlotFails(i)
      BY <2>1, FirstTarget DEF LaunchSlotFails, AbortAdmission, RecordedInv,
         SlotInv, TypeOK, Ops
    <2>2. CASE CreateRecord(i)
      BY <2>2, FirstTarget DEF CreateRecord, RecordedInv, SlotInv, TypeOK, Ops
    <2>3. CASE CreateRecordFails(i)
      BY <2>3, FirstTarget DEF CreateRecordFails, AbortAdmission, RecordedInv,
         SlotInv, TypeOK, Ops
    <2>4. CASE LaunchCleanup(i)
      BY <2>4, FirstTarget DEF LaunchCleanup, BestEffort, RecordedInv, SlotInv,
         TypeOK, Ops
    <2> QED BY <1>2, <2>1, <2>2, <2>3, <2>4 DEF LaunchStep
  <1>3. Restarts = {}
    BY DEF FirstOnly
  <1>4. ASSUME NEW i \in Instances, StopStep(i) PROVE RecordedInv'
    <2>1. CASE StopSignal(i)
      BY <2>1 DEF StopSignal, RecordedInv, BeginStop
    <2>2. CASE StopPersist(i)
      BY <2>2, FirstTarget DEF StopPersist, PublishedInv, Published,
         RecordedInv, SlotInv, TypeOK, Ops
    <2>3. CASE StopAwait(i)
      BY <2>3 DEF StopAwait, RecordedInv, BeginStop
    <2>4. CASE StopTimeout(i)
      BY <2>4 DEF StopTimeout, RecordedInv, BeginStop
    <2>5. CASE StopPersistFails(i)
      <3>1. UNCHANGED <<pc, active>>
        BY <2>5, FirstReturns DEF StopPersistFails, ClaimInv
      <3> QED BY <2>5, <3>1 DEF StopPersistFails, StopReturn, RecordedInv
    <2>6. CASE StopFinal(i)
      <3>1. UNCHANGED pc
        BY <2>6, FirstReturns DEF StopFinal, ClaimInv
      <3> QED BY <2>6, <3>1 DEF StopFinal, RecordedInv, PublishedInv, Published, TypeOK
    <2> QED BY <1>4, <2>1, <2>2, <2>3, <2>4, <2>5, <2>6 DEF StopStep
  <1>5. ASSUME NEW op \in Ops, WaitStep(op) PROVE RecordedInv'
    <2>1. CASE WaitTerminal(op)
      BY <2>1 DEF WaitTerminal, RecordedInv, BeginStop
    <2>2. CASE WaitPersist(op)
      BY <2>2, FirstTarget DEF WaitPersist, BestEffort, RecordedInv, SlotInv,
         TypeOK, Ops
    <2>3. CASE WaitFinish(op)
      BY <2>3 DEF WaitFinish, RecordedInv, BeginStop
    <2> QED BY <1>5, <2>1, <2>2, <2>3 DEF WaitStep
  <1>6. CASE ShutdownStep
    <2>1. CASE ShutdownBegin
      BY <2>1 DEF ShutdownBegin, RecordedInv, BeginStop
    <2>2. CASE ShutdownSnapshot
      BY <2>2 DEF ShutdownSnapshot, RecordedInv, BeginStop
    <2>3. CASE ShutdownTimeout
      BY <2>3 DEF ShutdownTimeout, RecordedInv, BeginStop
    <2>4. CASE ShutdownPersist
      BY <2>4, FirstTarget DEF ShutdownPersist, PublishedInv, Published, Live,
         Terminal, RecordedInv, SlotInv, TypeOK, Ops
    <2>5. ASSUME NEW i \in Instances, ShutdownSkip(i) PROVE RecordedInv'
      BY <2>5 DEF ShutdownSkip, RecordedInv, BeginStop
    <2>6. ASSUME NEW i \in Instances, ShutdownStop(i) PROVE RecordedInv'
      BY <2>6 DEF ShutdownStop, RecordedInv, BeginStop
    <2> QED BY <1>6, <2>1, <2>2, <2>3, <2>4, <2>5, <2>6 DEF ShutdownStep
  <1>7. ASSUME NEW i \in Instances, UserStop(i) PROVE RecordedInv'
    BY <1>7 DEF UserStop, RecordedInv, BeginStop
  <1>8. ASSUME NEW i \in Instances, DeleteRecord(i) PROVE RecordedInv'
    BY <1>8, FirstTarget DEF DeleteRecord, Terminal, RecordedInv, SlotInv,
       TypeOK, Ops
  <1>9. ASSUME NEW i \in Instances, ForgetCleaned(i) PROVE RecordedInv'
    BY <1>9 DEF ForgetCleaned, RecordedInv, BeginStop
  <1>10. ASSUME NEW op \in Ops, ProcessExit(op) PROVE RecordedInv'
    BY <1>10, FirstTarget DEF ProcessExit, RecordedInv, SlotInv, TypeOK, Ops
  <1>11. CASE Signal
    BY <1>11 DEF Signal, RecordedInv, BeginStop
  <1>12. ASSUME NEW m \in Models, ResolveOrphan(m) PROVE RecordedInv'
    BY <1>12 DEF ResolveOrphan, RecordedInv, BeginStop
  <1>13. CASE UNCHANGED vars
    BY <1>13, FirstTarget DEF vars, RecordedInv, SlotInv, TypeOK, Ops
  <1> QED BY <1>1, <1>2, <1>3, <1>4, <1>5, <1>6, <1>7, <1>8, <1>9, <1>10,
     <1>11, <1>12, <1>13 DEF Next

\* Once the drain is over, what is down stays down.
LEMMA DownStep ==
    ASSUME FirstOnly, TypeOK, ClaimInv, SlotInv, TokenInv, zeroSig, [Next]_vars
    PROVE  StaysDown
  <1> USE DEF ClaimInv
  <1>1. ASSUME NEW op \in Ops, OpStep(op) PROVE StaysDown
    <2>1. CASE ArbCheck(op)
      BY <2>1, FirstTarget DEF ArbCheck, AtArbitrate, StaysDown, Down,
         Underway, PreSpawn, ConsumeToken, TokenInv, TypeOK, Ops
    <2>2. CASE ArbReject(op)
      BY <2>2, FirstTarget DEF ArbReject, AtArbitrate, StaysDown, Down,
         Underway, PreSpawn, ConsumeToken, TokenInv, TypeOK, Ops
    <2>3. CASE ArbPublish(op)
      BY <2>3, FirstTarget DEF ArbPublish, StaysDown, Down, Underway, PreSpawn,
         ConsumeToken, TokenInv, TypeOK, Ops
    <2>4. CASE AcquireSlot(op)
      BY <2>4, FirstTarget DEF AcquireSlot, LaunchPCs, LaunchHolds, Finished,
         StaysDown, Down, Underway, PreSpawn, ConsumeToken, TokenInv, TypeOK,
         Ops
    <2>5. CASE Commit(op)
      BY <2>5, FirstTarget DEF Commit, AtCommit, StaysDown, Down, Underway,
         PreSpawn, ConsumeToken, TokenInv, TypeOK, Ops
    <2>6. CASE CommitAbort(op)
      BY <2>6, FirstTarget DEF CommitAbort, AtCommit, StaysDown, Down,
         Underway, PreSpawn, ConsumeToken, TokenInv, TypeOK, Ops
    <2>7. CASE SpawnPersistFails(op)
      BY <2>7, FirstTarget DEF SpawnPersistFails, EndUnspawned, StaysDown,
         Down, Underway, PreSpawn, ConsumeToken, TokenInv, TypeOK, Ops
    <2>8. CASE SpawnStartFails(op)
      BY <2>8, FirstTarget DEF SpawnStartFails, EndUnspawned, StaysDown, Down,
         Underway, PreSpawn, ConsumeToken, TokenInv, TypeOK, Ops
    <2>9. CASE SpawnOk(op)
      BY <2>9, FirstTarget DEF SpawnOk, StaysDown, Down, Underway, PreSpawn,
         ConsumeToken, TokenInv, TypeOK, Ops
    <2>10. CASE RunningDurable(op)
      BY <2>10, FirstTarget DEF RunningDurable, StaysDown, Down, Underway,
         PreSpawn, ConsumeToken, TokenInv, TypeOK, Ops
    <2>11. CASE RollbackConfirmed(op)
      BY <2>11, FirstTarget DEF RollbackConfirmed, StaysDown, Down, Underway,
         PreSpawn, ConsumeToken, TokenInv, TypeOK, Ops
    <2>12. CASE RollbackResidual(op)
      BY <2>12, FirstTarget DEF RollbackResidual, StaysDown, Down, Underway,
         PreSpawn, ConsumeToken, TokenInv, TypeOK, Ops
    <2> QED BY <1>1, <2>1, <2>2, <2>3, <2>4, <2>5, <2>6, <2>7, <2>8, <2>9,
       <2>10, <2>11, <2>12 DEF OpStep
  <1>2. ASSUME NEW i \in Instances, LaunchStep(i) PROVE StaysDown
    <2>1. CASE LaunchSlotFails(i)
      BY <2>1, FirstTarget DEF LaunchSlotFails, AbortAdmission, StaysDown,
         Down, Underway, PreSpawn, ConsumeToken, TokenInv, TypeOK, Ops
    <2>2. CASE CreateRecord(i)
      BY <2>2, FirstTarget DEF CreateRecord, StaysDown, Down, Underway,
         PreSpawn, ConsumeToken, TokenInv, TypeOK, Ops
    <2>3. CASE CreateRecordFails(i)
      BY <2>3, FirstTarget DEF CreateRecordFails, AbortAdmission, StaysDown,
         Down, Underway, PreSpawn, ConsumeToken, TokenInv, TypeOK, Ops
    <2>4. CASE LaunchCleanup(i)
      BY <2>4, FirstTarget DEF LaunchCleanup, StaysDown, Down, Underway,
         PreSpawn, ConsumeToken, TokenInv, TypeOK, Ops
    <2> QED BY <1>2, <2>1, <2>2, <2>3, <2>4 DEF LaunchStep
  <1>3. Restarts = {}
    BY DEF FirstOnly
  <1>4. ASSUME NEW i \in Instances, StopStep(i) PROVE StaysDown
    <2>1. CASE StopSignal(i)
      BY <2>1 DEF StopSignal, StaysDown, Down
    <2>2. CASE StopPersist(i)
      BY <2>2 DEF StopPersist, StaysDown, Down
    <2>3. CASE StopAwait(i)
      BY <2>3 DEF StopAwait, StaysDown, Down
    <2>4. CASE StopTimeout(i)
      BY <2>4 DEF StopTimeout, StaysDown, Down
    <2>5. CASE StopPersistFails(i)
      <3>1. UNCHANGED pc
        BY <2>5, FirstReturns DEF StopPersistFails, ClaimInv
      <3> QED BY <2>5, <3>1 DEF StopPersistFails, StaysDown, Down
    <2>6. CASE StopFinal(i)
      <3>1. UNCHANGED pc
        BY <2>6, FirstReturns DEF StopFinal, ClaimInv
      <3> QED BY <2>6, <3>1 DEF StopFinal, StaysDown, Down
    <2> QED BY <1>4, <2>1, <2>2, <2>3, <2>4, <2>5, <2>6 DEF StopStep
  <1>5. ASSUME NEW op \in Ops, WaitStep(op) PROVE StaysDown
    <2>1. CASE WaitTerminal(op)
      BY <2>1 DEF WaitTerminal, StaysDown, Down
    <2>2. CASE WaitPersist(op)
      BY <2>2 DEF WaitPersist, StaysDown, Down
    <2>3. CASE WaitFinish(op)
      BY <2>3 DEF WaitFinish, StaysDown, Down
    <2> QED BY <1>5, <2>1, <2>2, <2>3 DEF WaitStep
  <1>6. CASE ShutdownStep
    <2>1. CASE ShutdownBegin
      BY <2>1, FirstTarget DEF ShutdownBegin, StaysDown, Down, Underway,
         PreSpawn, ConsumeToken, TokenInv, TypeOK, Ops
    <2>2. CASE ShutdownSnapshot
      BY <2>2 DEF ShutdownSnapshot, StaysDown, Down
    <2>3. CASE ShutdownTimeout
      BY <2>3 DEF ShutdownTimeout, StaysDown, Down
    <2>4. CASE ShutdownPersist
      BY <2>4 DEF ShutdownPersist, StaysDown, Down
    <2>5. ASSUME NEW i \in Instances, ShutdownSkip(i) PROVE StaysDown
      BY <2>5 DEF ShutdownSkip, StaysDown, Down
    <2>6. ASSUME NEW i \in Instances, ShutdownStop(i) PROVE StaysDown
      BY <2>6, FirstTarget DEF ShutdownStop, BeginStop, StaysDown, Down,
         Underway, PreSpawn, ConsumeToken, TokenInv, TypeOK, Ops
    <2> QED BY <1>6, <2>1, <2>2, <2>3, <2>4, <2>5, <2>6 DEF ShutdownStep
  <1>7. ASSUME NEW i \in Instances, UserStop(i) PROVE StaysDown
    BY <1>7, FirstTarget DEF UserStop, BeginStop, StaysDown, Down, Underway,
       PreSpawn, ConsumeToken, TokenInv, TypeOK, Ops
  <1>8. ASSUME NEW i \in Instances, DeleteRecord(i) PROVE StaysDown
    BY <1>8 DEF DeleteRecord, StaysDown, Down
  <1>9. ASSUME NEW i \in Instances, ForgetCleaned(i) PROVE StaysDown
    BY <1>9 DEF ForgetCleaned, StaysDown, Down
  <1>10. ASSUME NEW op \in Ops, ProcessExit(op) PROVE StaysDown
    BY <1>10, FirstTarget DEF ProcessExit, StaysDown, Down, Underway, PreSpawn,
       ConsumeToken, TokenInv, TypeOK, Ops
  <1>11. CASE Signal
    BY <1>11 DEF Signal, StaysDown, Down
  <1>12. ASSUME NEW m \in Models, ResolveOrphan(m) PROVE StaysDown
    BY <1>12 DEF ResolveOrphan, StaysDown, Down
  <1>13. CASE UNCHANGED vars
    BY <1>13, FirstTarget DEF vars, StaysDown, Down, Underway, PreSpawn,
       ConsumeToken, TokenInv, TypeOK, Ops
  <1> QED BY <1>1, <1>2, <1>3, <1>4, <1>5, <1>6, <1>7, <1>8, <1>9, <1>10,
     <1>11, <1>12, <1>13 DEF Next

\* The loop of Shutdown holds no other lifecycleMu.
LEMMA LoopStep ==
    ASSUME FirstOnly, TypeOK, ClaimInv, LoopInv, [Next]_vars
    PROVE  LoopInv'
  <1> USE DEF ClaimInv
  <1>1. ASSUME NEW op \in Ops, OpStep(op) PROVE LoopInv'
    <2>1. CASE ArbCheck(op)
      BY <2>1 DEF ArbCheck, LoopInv
    <2>2. CASE ArbReject(op)
      BY <2>2 DEF ArbReject, LoopInv
    <2>3. CASE ArbPublish(op)
      BY <2>3 DEF ArbPublish, LoopInv
    <2>4. CASE AcquireSlot(op)
      BY <2>4 DEF AcquireSlot, LoopInv
    <2>5. CASE Commit(op)
      BY <2>5, ConstantsAssumption, FirstTarget DEF Commit, AtCommit, LoopInv,
         TypeOK, Ops
    <2>6. CASE CommitAbort(op)
      BY <2>6, ConstantsAssumption, FirstTarget DEF CommitAbort, AtCommit,
         LoopInv, TypeOK, Ops
    <2>7. CASE SpawnPersistFails(op)
      BY <2>7, ConstantsAssumption, FirstTarget DEF SpawnPersistFails,
         EndUnspawned, LoopInv, TypeOK, Ops
    <2>8. CASE SpawnStartFails(op)
      BY <2>8, ConstantsAssumption, FirstTarget DEF SpawnStartFails,
         EndUnspawned, LoopInv, TypeOK, Ops
    <2>9. CASE SpawnOk(op)
      BY <2>9, ConstantsAssumption, FirstTarget DEF SpawnOk, LoopInv, TypeOK,
         Ops
    <2>10. CASE RunningDurable(op)
      BY <2>10, ConstantsAssumption, FirstTarget DEF RunningDurable, LoopInv,
         TypeOK, Ops
    <2>11. CASE RollbackConfirmed(op)
      BY <2>11, ConstantsAssumption, FirstTarget DEF RollbackConfirmed,
         LoopInv, TypeOK, Ops
    <2>12. CASE RollbackResidual(op)
      BY <2>12, ConstantsAssumption, FirstTarget DEF RollbackResidual, LoopInv,
         TypeOK, Ops
    <2> QED BY <1>1, <2>1, <2>2, <2>3, <2>4, <2>5, <2>6, <2>7, <2>8, <2>9,
       <2>10, <2>11, <2>12 DEF OpStep
  <1>2. ASSUME NEW i \in Instances, LaunchStep(i) PROVE LoopInv'
    <2>1. CASE LaunchSlotFails(i)
      BY <2>1 DEF LaunchSlotFails, LoopInv
    <2>2. CASE CreateRecord(i)
      BY <2>2 DEF CreateRecord, LoopInv
    <2>3. CASE CreateRecordFails(i)
      BY <2>3 DEF CreateRecordFails, LoopInv
    <2>4. CASE LaunchCleanup(i)
      BY <2>4 DEF LaunchCleanup, LoopInv
    <2> QED BY <1>2, <2>1, <2>2, <2>3, <2>4 DEF LaunchStep
  <1>3. Restarts = {}
    BY DEF FirstOnly
  <1>4. ASSUME NEW i \in Instances, StopStep(i) PROVE LoopInv'
    <2>1. CASE StopSignal(i)
      BY <2>1 DEF StopSignal, LoopInv
    <2>2. CASE StopPersist(i)
      BY <2>2 DEF StopPersist, LoopInv
    <2>3. CASE StopAwait(i)
      BY <2>3 DEF StopAwait, LoopInv
    <2>4. CASE StopTimeout(i)
      BY <2>4 DEF StopTimeout, LoopInv
    <2>5. CASE StopPersistFails(i)
      <3>1. lifecycleMu' = [lifecycleMu EXCEPT ![i] = NoOp]
        BY <2>5, FirstReturns DEF StopPersistFails, ClaimInv
      <3>2. shutdown = "ok" => lifecycleMu[i] # Drain
        BY DEF LoopInv
      <3> QED BY <2>5, <3>1, <3>2, ConstantsAssumption DEF StopPersistFails,
         StopReturn, LoopInv, TypeOK
    <2>6. CASE StopFinal(i)
      <3>1. lifecycleMu' = [lifecycleMu EXCEPT ![i] = NoOp]
        BY <2>6, FirstReturns DEF StopFinal, ClaimInv
      <3>2. shutdown = "ok" => lifecycleMu[i] # Drain
        BY DEF LoopInv
      <3> QED BY <2>6, <3>1, <3>2, ConstantsAssumption DEF StopFinal,
         StopReturn, LoopInv, TypeOK
    <2> QED BY <1>4, <2>1, <2>2, <2>3, <2>4, <2>5, <2>6 DEF StopStep
  <1>5. ASSUME NEW op \in Ops, WaitStep(op) PROVE LoopInv'
    <2>1. CASE WaitTerminal(op)
      BY <2>1 DEF WaitTerminal, LoopInv
    <2>2. CASE WaitPersist(op)
      BY <2>2 DEF WaitPersist, LoopInv
    <2>3. CASE WaitFinish(op)
      BY <2>3 DEF WaitFinish, LoopInv
    <2> QED BY <1>5, <2>1, <2>2, <2>3 DEF WaitStep
  <1>6. CASE ShutdownStep
    <2>1. CASE ShutdownBegin
      BY <2>1 DEF ShutdownBegin, LoopInv
    <2>2. CASE ShutdownSnapshot
      BY <2>2, ConstantsAssumption, FirstTarget DEF ShutdownSnapshot, LoopInv,
         TypeOK, Ops
    <2>3. CASE ShutdownTimeout
      BY <2>3 DEF ShutdownTimeout, LoopInv
    <2>4. CASE ShutdownPersist
      BY <2>4, ConstantsAssumption, FirstTarget DEF ShutdownPersist, LoopInv,
         TypeOK, Ops
    <2>5. ASSUME NEW i \in Instances, ShutdownSkip(i) PROVE LoopInv'
      BY <2>5, ConstantsAssumption, FirstTarget DEF ShutdownSkip, LoopInv,
         TypeOK, Ops
    <2>6. ASSUME NEW i \in Instances, ShutdownStop(i) PROVE LoopInv'
      BY <2>6, ConstantsAssumption, FirstTarget DEF ShutdownStop, BeginStop,
         LoopInv, TypeOK, Ops
    <2> QED BY <1>6, <2>1, <2>2, <2>3, <2>4, <2>5, <2>6 DEF ShutdownStep
  <1>7. ASSUME NEW i \in Instances, UserStop(i) PROVE LoopInv'
    BY <1>7, ConstantsAssumption, FirstTarget DEF UserStop, BeginStop, LoopInv,
       TypeOK, Ops
  <1>8. ASSUME NEW i \in Instances, DeleteRecord(i) PROVE LoopInv'
    BY <1>8 DEF DeleteRecord, LoopInv
  <1>9. ASSUME NEW i \in Instances, ForgetCleaned(i) PROVE LoopInv'
    BY <1>9 DEF ForgetCleaned, LoopInv
  <1>10. ASSUME NEW op \in Ops, ProcessExit(op) PROVE LoopInv'
    BY <1>10 DEF ProcessExit, LoopInv
  <1>11. CASE Signal
    BY <1>11 DEF Signal, LoopInv
  <1>12. ASSUME NEW m \in Models, ResolveOrphan(m) PROVE LoopInv'
    BY <1>12 DEF ResolveOrphan, LoopInv
  <1>13. CASE UNCHANGED vars
    BY <1>13, ConstantsAssumption, FirstTarget DEF vars, LoopInv, TypeOK, Ops
  <1> QED BY <1>1, <1>2, <1>3, <1>4, <1>5, <1>6, <1>7, <1>8, <1>9, <1>10,
     <1>11, <1>12, <1>13 DEF Next

\* A step that leaves the loop alone keeps down what was stopped.
LEMMA StoppedKept ==
    ASSUME FirstOnly, IInv, StoppedInv, [Next]_vars,
           UNCHANGED <<shutdown, shutdownTodo>>, shutdownErr => shutdownErr'
    PROVE  StoppedInv'
  <1> SUFFICES ASSUME shutdown \in {"stop", "ok"}, ~shutdownErr
               PROVE  zeroSig' /\ \A i \in Instances \ shutdownTodo : Down(i)'
    BY DEF StoppedInv
  <1> QED BY DownStep DEF StaysDown, StoppedInv, IInv

\* So does the return of a stop: it takes the controller off the list of
\* Shutdown only when the stop succeeded, or with shutdownErr set.
LEMMA StoppedReturn ==
    ASSUME FirstOnly, IInv, GenInv, StoppedInv, [Next]_vars, NEW i \in Instances,
           StopPersistFails(i) \/ StopFinal(i)
    PROVE  StoppedInv'
  <1> SUFFICES ASSUME shutdown \in {"stop", "ok"}, ~shutdownErr', shutdown' = shutdown
               PROVE  zeroSig' /\ \A j \in Instances \ shutdownTodo' : Down(j)'
    BY DEF StoppedInv, StopPersistFails, StopFinal
  <1> USE DEF IInv, ClaimInv
  <1>1. PICK ok \in BOOLEAN : StopReturn(i, ok) /\ (ok => stopPc[i] = "final" /\ MuFree(i))
    BY DEF StopPersistFails, StopFinal
  <1>2. /\ shutdownTodo' = IF lifecycleMu[i] = Drain THEN shutdownTodo \ {i}
                                                     ELSE shutdownTodo
        /\ ~shutdownErr /\ (lifecycleMu[i] = Drain => ok)
    BY <1>1 DEF StopReturn
  <1>3. zeroSig /\ zeroSig'
    BY <1>2, DownStep DEF StaysDown, StoppedInv
  <1>4. ASSUME NEW j \in Instances \ shutdownTodo PROVE Down(j)'
    BY <1>2, <1>3, DownStep DEF StaysDown, StoppedInv
  <1>5. ASSUME ok PROVE Down(i)'
    <2>1. Clear(i) \/ RolledBack(i)
      BY <1>1, <1>5 DEF GenInv, ClearedInv
    <2>2. proc[i] # "alive"
      BY <2>1, ClearedDead DEF GenInv
    <2>3. pc[i] \notin {"starting", "spawned"}
      BY <1>1, <1>5, FirstTarget DEF MuFree, Ops
    <2>4. pc[i] \notin PreSpawn
      BY <1>3, DrainedFirst
    <2> QED BY <1>3, <2>2, <2>3, <2>4, DownStep DEF StaysDown, Down, Underway
  <1> QED BY <1>2, <1>3, <1>4, <1>5

\* The steps of the loop itself.
LEMMA StoppedLoop ==
    ASSUME FirstOnly, IInv, RegisteredInv, PublishedInv, StoppedInv, [Next]_vars,
           ShutdownStep
    PROVE  StoppedInv'
  <1> USE DEF IInv
  <1>1. CASE ShutdownBegin \/ ShutdownTimeout
    BY <1>1 DEF ShutdownBegin, ShutdownTimeout, StoppedInv
  <1>2. CASE ShutdownSnapshot
    <2>1. zeroSig' /\ shutdownTodo' = registry /\ UNCHANGED <<pc, proc>>
      BY <1>2 DEF ShutdownSnapshot
    <2> QED BY <2>1 DEF StoppedInv, Down, RegisteredInv
  <1>3. CASE ShutdownPersist
    BY <1>3 DEF ShutdownPersist, StoppedInv, Down
  <1>4. ASSUME NEW i \in Instances, ShutdownSkip(i) PROVE StoppedInv'
    <2> SUFFICES ASSUME ~shutdownErr PROVE StoppedInv'
      BY <1>4 DEF ShutdownSkip, StoppedInv
    <2>1. zeroSig /\ istate[i] \notin Live
      BY <1>4 DEF ShutdownSkip, StoppedInv
    <2>2. proc[i] # "alive" /\ pc[i] \notin {"starting", "spawned"}
      BY <2>1 DEF PublishedInv, Published, Live
    <2>3. Down(i)
      BY <2>1, <2>2, DrainedFirst DEF Down, Underway
    <2> QED BY <1>4, <2>3 DEF ShutdownSkip, StoppedInv, Down
  <1>5. ASSUME NEW i \in Instances, ShutdownStop(i) PROVE StoppedInv'
    BY <1>5, StoppedKept DEF ShutdownStop
  <1> QED BY <1>1, <1>2, <1>3, <1>4, <1>5 DEF ShutdownStep

\* Whatever happens, what Shutdown has stopped stays down.
LEMMA StoppedStep ==
    ASSUME FirstOnly, IInv, GenInv, RegisteredInv, PublishedInv, StoppedInv,
           [Next]_vars
    PROVE  StoppedInv'
  <1>1. CASE ShutdownStep
    BY <1>1, StoppedLoop
  <1>2. CASE \E i \in Instances : StopPersistFails(i) \/ StopFinal(i)
    BY <1>2, StoppedReturn
  <1>3. CASE UNCHANGED shutVars
    BY <1>3, StoppedKept
  <1>4. ShutdownStep \/ UNCHANGED shutVars
           \/ \E i \in Instances : StopPersistFails(i) \/ StopFinal(i)
    <2>1. ASSUME NEW op \in Ops, OpStep(op) PROVE UNCHANGED shutVars
      BY <2>1 DEF OpStep, ArbCheck, ArbReject, ArbPublish, AcquireSlot, Commit,
         CommitAbort, SpawnPersistFails, SpawnStartFails, SpawnOk,
         RunningDurable, RollbackConfirmed, RollbackResidual
    <2>2. ASSUME NEW op \in Ops, WaitStep(op) \/ ProcessExit(op)
          PROVE  UNCHANGED shutVars
      BY <2>2 DEF WaitStep, WaitTerminal, WaitPersist, WaitFinish, ProcessExit
    <2>3. ASSUME NEW i \in Instances,
                 LaunchStep(i) \/ UserStop(i) \/ DeleteRecord(i) \/ ForgetCleaned(i)
          PROVE  UNCHANGED shutVars
      BY <2>3 DEF LaunchStep, LaunchSlotFails, CreateRecord, CreateRecordFails,
         LaunchCleanup, UserStop, DeleteRecord, ForgetCleaned
    <2>4. ASSUME NEW i \in Instances, StopStep(i), ~StopPersistFails(i), ~StopFinal(i)
          PROVE  UNCHANGED shutVars
      BY <2>4 DEF StopStep, StopSignal, StopPersist, StopAwait, StopTimeout
    <2>5. CASE Signal \/ \E m \in Models : ResolveOrphan(m)
      BY <2>5 DEF Signal, ResolveOrphan
    <2>6. CASE UNCHANGED vars
      BY <2>6 DEF vars
    <2>7. Restarts = {}
      BY DEF FirstOnly
    <2> QED BY <2>1, <2>2, <2>3, <2>4, <2>5, <2>6, <2>7 DEF Next
  <1> QED BY <1>1, <1>2, <1>3, <1>4

-----------------------------------------------------------------------------
(* Theorems                                                                *)

\* Initially nothing is registered and nothing runs.
LEMMA InitFirst == Init => FirstInv
  <1> SUFFICES ASSUME Init PROVE FirstInv
    OBVIOUS
  <1>1. \A i \in Instances : pc[i] = "idle" /\ proc[i] = "none" /\ lifecycleMu[i] # Drain
    BY ConstantsAssumption DEF Init, Ops
  <1> QED BY <1>1 DEF Init, FirstInv, RegisteredInv, PublishedInv, Published,
     RecordedInv, StoppedInv, LoopInv, Underway, PreSpawn

\* Every step keeps it while nothing is restarted.
LEMMA NextFirst ==
    ASSUME FirstOnly, IInv, GenInv, FirstInv, [Next]_vars
    PROVE  FirstInv'
  <1>1. TypeOK /\ ClaimInv /\ SlotInv
    BY DEF IInv
  <1>2. RegisteredInv' /\ PublishedInv' /\ RecordedInv' /\ LoopInv'
    BY <1>1, RegisteredStep, PublishedStep, RecordedStep, LoopStep DEF FirstInv
  <1>3. StoppedInv'
    BY StoppedStep DEF FirstInv
  <1> QED BY <1>2, <1>3 DEF FirstInv

(* While nothing is restarted, the registry, the published states, the records
   and the loop of Shutdown agree with the processes in every state. *)
THEOREM FirstGenerations ==
    ASSUME FirstOnly
    PROVE  Spec => [](IInv /\ GenInv /\ FirstInv)
  <1>1. IInv /\ GenInv /\ FirstInv /\ [Next]_vars => FirstInv'
    BY NextFirst
  <1> QED BY <1>1, InitFirst, InitInv, NextInv, InitGen, NextGen, PTL DEF Spec

\* A live process is that of a registered controller published live.
LEMMA AliveFirst ==
    ASSUME FirstOnly, IInv, FirstInv, NEW op \in Alive
    PROVE  /\ op \in Instances /\ target[op] = op /\ proc[op] = "alive"
           /\ op \in registry /\ istate[op] \in Live
  <1>1. op \in Ops /\ proc[op] = "alive"
    BY DEF Alive
  <1>2. op \in Instances /\ target[op] = op
    BY <1>1, FirstTarget DEF IInv, ClaimInv
  <1> QED BY <1>1, <1>2 DEF FirstInv, RegisteredInv, PublishedInv, Published

(* Stop, List and Shutdown reach every live process of a first generation. *)
THEOREM FirstRegistered ==
    ASSUME FirstOnly PROVE Spec => []LiveIsRegistered
  <1>1. IInv /\ FirstInv => LiveIsRegistered
    BY AliveFirst DEF LiveIsRegistered
  <1> QED BY <1>1, FirstGenerations, PTL

(* No terminal state is published over a live process of a first generation. *)
THEOREM FirstTerminal ==
    ASSUME FirstOnly PROVE Spec => []TerminalMeansGone
  <1>1. IInv /\ FirstInv => TerminalMeansGone
    BY AliveFirst DEF TerminalMeansGone
  <1> QED BY <1>1, FirstGenerations, PTL

(* The hard invariant of ADR 017: two live processes of one model belong to
   owners the compatibility matrix allows together. *)
THEOREM FirstExclusion ==
    ASSUME FirstOnly PROVE Spec => []LiveExclusion
  <1>1. IInv /\ FirstInv => LiveExclusion
    <2> SUFFICES ASSUME IInv, FirstInv, NEW p \in Alive, NEW q \in Alive,
                        SameModel(target[p], target[q])
                 PROVE  MayCoexist(OwnerOf[target[p]], OwnerOf[target[q]])
      BY DEF LiveExclusion
    <2>1. /\ p \in Instances /\ target[p] = p /\ Visible(p)
          /\ q \in Instances /\ target[q] = q /\ Visible(q)
      BY AliveFirst DEF Visible, InFlight
    <2> QED BY <2>1 DEF IInv, VisibleExclusion
  <1> QED BY <1>1, FirstGenerations, PTL

(* What a launch that returned success runs stays recorded as in flight, so a
   supervisor that restarts finds it. *)
THEOREM FirstOwnership ==
    ASSUME FirstOnly PROVE Spec => []DurableOwnership
  <1>1. IInv /\ FirstInv => DurableOwnership
    BY AliveFirst DEF DurableOwnership, FirstInv, RecordedInv
  <1> QED BY <1>1, FirstGenerations, PTL

(* A Shutdown that returned nil leaves no process behind and none to come. *)
THEOREM FirstShutdown ==
    ASSUME FirstOnly PROVE Spec => []ShutdownComplete
  <1>1. IInv /\ FirstInv => ShutdownComplete
    <2> SUFFICES ASSUME IInv, FirstInv, shutdown = "ok"
                 PROVE  Alive = {} /\ \A op \in Ops : pc[op] \notin {"starting", "spawned"}
      BY DEF ShutdownComplete
    <2>1. \A i \in Instances : Down(i)
      BY DEF FirstInv, StoppedInv, LoopInv
    <2>2. \A op \in Ops : op \in Instances
      BY DEF FirstOnly, Ops
    <2> QED BY <2>1, <2>2 DEF Down, Underway, Alive
  <1> QED BY <1>1, FirstGenerations, PTL
=============================================================================
