--------------------------- MODULE GenerationProofs ---------------------------
(***************************************************************************)
(* Theorems about the generations of Supervisor: what an operation leaves  *)
(* behind (NothingLeaks), what it spawns over (SpawnsOverNothing), and     *)
(* what may leave the registry (OwnedStayRegistered).                      *)
(***************************************************************************)
EXTENDS SupervisorProofs

USE DEF opVars, ctrlVars, drainVars, genVars, lockVars, shutVars, envVars,
        Goto, ReleaseOp, Unlock

-----------------------------------------------------------------------------
(* What an operation holds                                                 *)

\* The records it owns are on the controller it works on, and it is under way.
OwnRecord(op) ==
    \A i \in Instances : active[i] = op =>
        target[op] = i /\ pc[op] \in LaunchHolds \cup RestartHolds

\* So are the mutexes.
OwnMu(op) ==
    \A i \in Instances : lifecycleMu[i] = op =>
        /\ target[op] = i
        /\ pc[op] \in {"stopOld", "awaitOld", "needSlot", "ready", "starting",
                       "spawned"}

\* The lock of arbitration is that of its model, and it is in arbitration.
OwnLock(op) ==
    \A m \in Models : arbLock[m] = op =>
        pc[op] = "arbitrating" /\ ModelOf[target[op]] = m

\* A slot belongs to a generation to come, or to one whose run is not over.
OwnSlot(op) ==
    /\ op \in slot => \/ pc[op] \in {"slotOwned", "ready", "starting", "spawned"}
                      \/ pc[op] \in {"ok", "residual"} /\ proc[op] # "none"
    /\ pc[op] = "spawned" => proc[op] # "none"
    /\ op \in runDone =>
          op \notin slot /\ pc[op] \in {"ok", "residual", "cleanup", "forget", "failed"}

RecordInv == \A op \in Ops : OwnRecord(op)
MuInv     == \A op \in Ops : OwnMu(op)
ArbInv    == \A op \in Ops : OwnLock(op)
RunInv    == \A op \in Ops : OwnSlot(op)
LeakInv   == RecordInv /\ MuInv /\ ArbInv /\ RunInv

\* Who takes a record is under way until it is given back.
LEMMA RecordStep ==
    ASSUME TypeOK, ClaimInv, RecordInv, [Next]_vars
    PROVE  RecordInv'
  <1>1. ASSUME NEW op \in Ops, OpStep(op) PROVE RecordInv'
    <2>1. CASE ArbCheck(op)
      BY <2>1, ConstantsAssumption DEF ArbCheck, AtArbitrate, RecordInv,
         OwnRecord, TypeOK, Ops, LaunchHolds, RestartHolds
    <2>2. CASE ArbReject(op)
      BY <2>2, ConstantsAssumption DEF ArbReject, AtArbitrate, RecordInv,
         OwnRecord, TypeOK, Ops, LaunchHolds, RestartHolds
    <2>3. CASE ArbPublish(op)
      BY <2>3, ConstantsAssumption, SMTT(40) DEF ArbPublish, RecordInv, OwnRecord,
         TypeOK, Ops, LaunchHolds, RestartHolds
    <2>4. CASE AcquireSlot(op)
      BY <2>4, ConstantsAssumption DEF AcquireSlot, RecordInv, OwnRecord,
         TypeOK, Ops, LaunchHolds, RestartHolds
    <2>5. CASE Commit(op)
      BY <2>5, ConstantsAssumption DEF Commit, AtCommit, RecordInv, OwnRecord,
         TypeOK, Ops, LaunchHolds, RestartHolds
    <2>6. CASE CommitAbort(op)
      BY <2>6, ConstantsAssumption DEF CommitAbort, AtCommit, RecordInv,
         OwnRecord, TypeOK, Ops, LaunchHolds, RestartHolds
    <2>7. CASE SpawnPersistFails(op)
      BY <2>7, ConstantsAssumption DEF SpawnPersistFails, EndUnspawned,
         RecordInv, OwnRecord, TypeOK, Ops, LaunchHolds, RestartHolds
    <2>8. CASE SpawnStartFails(op)
      BY <2>8, ConstantsAssumption DEF SpawnStartFails, EndUnspawned,
         RecordInv, OwnRecord, TypeOK, Ops, LaunchHolds, RestartHolds
    <2>9. CASE SpawnOk(op)
      BY <2>9, ConstantsAssumption DEF SpawnOk, RecordInv, OwnRecord, TypeOK,
         Ops, LaunchHolds, RestartHolds
    <2>10. CASE RunningDurable(op)
      BY <2>10, ConstantsAssumption DEF RunningDurable, RecordInv, OwnRecord,
         TypeOK, Ops, LaunchHolds, RestartHolds
    <2>11. CASE RollbackConfirmed(op)
      <3>1. CASE op \in Instances
        BY <2>11, <3>1 DEF RollbackConfirmed, RecordInv, OwnRecord, TypeOK, Ops,
           LaunchHolds
      <3>2. CASE op \notin Instances
        BY <2>11, <3>2, ConstantsAssumption DEF RollbackConfirmed, RecordInv,
           OwnRecord, TypeOK,
           Ops, LaunchHolds, RestartHolds
      <3> QED BY <3>1, <3>2
    <2>12. CASE RollbackResidual(op)
      BY <2>12, ConstantsAssumption DEF RollbackResidual, RecordInv, OwnRecord,
         TypeOK, Ops, LaunchHolds, RestartHolds
    <2> QED BY <1>1, <2>1, <2>2, <2>3, <2>4, <2>5, <2>6, <2>7, <2>8, <2>9,
       <2>10, <2>11, <2>12 DEF OpStep
  <1>2. ASSUME NEW i \in Instances, LaunchStep(i) PROVE RecordInv'
    <2>1. CASE LaunchSlotFails(i)
      BY <2>1, ConstantsAssumption DEF LaunchSlotFails, AbortAdmission,
         ClaimInv, TargetsInv, RecordInv, OwnRecord, TypeOK, Ops, LaunchHolds,
         RestartHolds
    <2>2. CASE CreateRecord(i)
      BY <2>2, ConstantsAssumption DEF CreateRecord, RecordInv, OwnRecord,
         TypeOK, Ops, LaunchHolds, RestartHolds
    <2>3. CASE CreateRecordFails(i)
      BY <2>3, ConstantsAssumption DEF CreateRecordFails, AbortAdmission,
         ClaimInv, TargetsInv, RecordInv, OwnRecord, TypeOK, Ops, LaunchHolds,
         RestartHolds
    <2>4. CASE LaunchCleanup(i)
      BY <2>4, ConstantsAssumption DEF LaunchCleanup, ClaimInv, TargetsInv,
         RecordInv, OwnRecord, TypeOK, Ops, LaunchHolds, RestartHolds
    <2> QED BY <1>2, <2>1, <2>2, <2>3, <2>4 DEF LaunchStep
  <1>3. ASSUME NEW r \in Restarts, RestartStep(r) PROVE RecordInv'
    <2>1. CASE RestartBegin(r)
      BY <2>1, ConstantsAssumption DEF RestartBegin, RecordInv, OwnRecord,
         TypeOK, Ops, LaunchHolds, RestartHolds
    <2>2. CASE RestartStop(r)
      BY <2>2, ConstantsAssumption DEF RestartStop, BeginStop, RecordInv,
         OwnRecord, TypeOK, Ops, LaunchHolds, RestartHolds
    <2>3. CASE RestartAwait(r)
      BY <2>3, ConstantsAssumption DEF RestartAwait, RecordInv, OwnRecord,
         TypeOK, Ops, LaunchHolds, RestartHolds
    <2>4. CASE RestartGivesUp(r)
      BY <2>4, ConstantsAssumption DEF RestartGivesUp, RecordInv, OwnRecord,
         TypeOK, Ops, LaunchHolds, RestartHolds
    <2> QED BY <1>3, <2>1, <2>2, <2>3, <2>4 DEF RestartStep
  <1>4. ASSUME NEW i \in Instances, StopStep(i) PROVE RecordInv'
    <2>1. CASE StopSignal(i)
      BY <2>1 DEF StopSignal, RecordInv, OwnRecord
    <2>2. CASE StopPersist(i)
      BY <2>2 DEF StopPersist, RecordInv, OwnRecord
    <2>3. CASE StopAwait(i)
      BY <2>3 DEF StopAwait, RecordInv, OwnRecord
    <2>4. CASE StopTimeout(i)
      BY <2>4 DEF StopTimeout, RecordInv, OwnRecord
    <2>5. CASE StopPersistFails(i)
      <3>1. CASE UNCHANGED <<pc, active>>
        BY <2>5, <3>1 DEF StopPersistFails, StopReturn, RecordInv, OwnRecord
      <3>2. ASSUME NEW r \in Restarts, ReturnsTo(r, i) PROVE RecordInv'
        BY <2>5, <3>2, ConstantsAssumption DEF StopPersistFails, ReturnsTo,
           RecordInv, OwnRecord, TypeOK, Ops, LaunchHolds, RestartHolds
      <3> QED BY <2>5, <3>1, <3>2, StopReturns DEF StopPersistFails
    <2>6. CASE StopFinal(i)
      <3>1. CASE UNCHANGED <<pc, active>>
        BY <2>6, <3>1 DEF StopFinal, StopReturn, RecordInv, OwnRecord
      <3>2. ASSUME NEW r \in Restarts, ReturnsTo(r, i) PROVE RecordInv'
        BY <2>6, <3>2, ConstantsAssumption DEF StopFinal, ReturnsTo,
           RecordInv, OwnRecord, TypeOK, Ops, LaunchHolds, RestartHolds
      <3> QED BY <2>6, <3>1, <3>2, StopReturns DEF StopFinal
    <2> QED BY <1>4, <2>1, <2>2, <2>3, <2>4, <2>5, <2>6 DEF StopStep
  <1>5. ASSUME NEW op \in Ops, WaitStep(op) PROVE RecordInv'
    <2>1. CASE WaitTerminal(op)
      BY <2>1 DEF WaitTerminal, RecordInv, OwnRecord
    <2>2. CASE WaitPersist(op)
      BY <2>2 DEF WaitPersist, RecordInv, OwnRecord
    <2>3. CASE WaitFinish(op)
      BY <2>3 DEF WaitFinish, RecordInv, OwnRecord
    <2> QED BY <1>5, <2>1, <2>2, <2>3 DEF WaitStep
  <1>6. CASE ShutdownStep
    <2>1. CASE ShutdownBegin
      BY <2>1 DEF ShutdownBegin, RecordInv, OwnRecord
    <2>2. CASE ShutdownSnapshot
      BY <2>2 DEF ShutdownSnapshot, RecordInv, OwnRecord
    <2>3. CASE ShutdownTimeout
      BY <2>3 DEF ShutdownTimeout, RecordInv, OwnRecord
    <2>4. CASE ShutdownPersist
      BY <2>4 DEF ShutdownPersist, RecordInv, OwnRecord
    <2>5. ASSUME NEW i \in Instances, ShutdownSkip(i) PROVE RecordInv'
      BY <2>5 DEF ShutdownSkip, RecordInv, OwnRecord
    <2>6. ASSUME NEW i \in Instances, ShutdownStop(i) PROVE RecordInv'
      BY <2>6 DEF ShutdownStop, RecordInv, OwnRecord
    <2> QED BY <1>6, <2>1, <2>2, <2>3, <2>4, <2>5, <2>6 DEF ShutdownStep
  <1>7. ASSUME NEW r \in Restarts, NEW i \in Instances, RestartLookup(r, i) PROVE RecordInv'
    BY <1>7, ConstantsAssumption DEF RestartLookup, RecordInv, OwnRecord,
       TypeOK, Ops, LaunchHolds, RestartHolds
  <1>8. ASSUME NEW i \in Instances, UserStop(i) PROVE RecordInv'
    BY <1>8 DEF UserStop, RecordInv, OwnRecord
  <1>9. ASSUME NEW i \in Instances, DeleteRecord(i) PROVE RecordInv'
    BY <1>9 DEF DeleteRecord, RecordInv, OwnRecord
  <1>10. ASSUME NEW i \in Instances, ForgetCleaned(i) PROVE RecordInv'
    BY <1>10 DEF ForgetCleaned, RecordInv, OwnRecord
  <1>11. ASSUME NEW op \in Ops, ProcessExit(op) PROVE RecordInv'
    BY <1>11 DEF ProcessExit, RecordInv, OwnRecord
  <1>12. CASE Signal
    BY <1>12 DEF Signal, RecordInv, OwnRecord
  <1>13. ASSUME NEW m \in Models, ResolveOrphan(m) PROVE RecordInv'
    BY <1>13 DEF ResolveOrphan, RecordInv, OwnRecord
  <1>14. CASE UNCHANGED vars
    BY <1>14, ConstantsAssumption DEF vars, RecordInv, OwnRecord, TypeOK, Ops,
       LaunchHolds, RestartHolds
  <1> QED BY <1>1, <1>2, <1>3, <1>4, <1>5, <1>6, <1>7, <1>8, <1>9, <1>10,
     <1>11, <1>12, <1>13, <1>14 DEF Next

\* Who takes a lifecycleMu is under way until it is given back.
LEMMA MuStep ==
    ASSUME TypeOK, ClaimInv, MuInv, [Next]_vars
    PROVE  MuInv'
  <1>1. ASSUME NEW op \in Ops, OpStep(op) PROVE MuInv'
    <2>1. CASE ArbCheck(op)
      BY <2>1, ConstantsAssumption DEF ArbCheck, AtArbitrate, MuInv, OwnMu,
         TypeOK, Ops
    <2>2. CASE ArbReject(op)
      BY <2>2, ConstantsAssumption DEF ArbReject, AtArbitrate, MuInv, OwnMu,
         TypeOK, Ops
    <2>3. CASE ArbPublish(op)
      BY <2>3, ConstantsAssumption, SMTT(40) DEF ArbPublish, LaunchHolds, MuInv, OwnMu,
         TypeOK, Ops
    <2>4. CASE AcquireSlot(op)
      BY ZenonT(40), <2>4, ConstantsAssumption DEF AcquireSlot, LaunchPCs, LaunchHolds,
         Finished, MuInv, OwnMu, TypeOK, Ops
    <2>5. CASE Commit(op)
      BY <2>5, ConstantsAssumption DEF Commit, AtCommit, MuInv, OwnMu, TypeOK,
         Ops
    <2>6. CASE CommitAbort(op)
      BY <2>6, ConstantsAssumption DEF CommitAbort, AtCommit, MuInv, OwnMu,
         TypeOK, Ops
    <2>7. CASE SpawnPersistFails(op)
      BY <2>7, ConstantsAssumption DEF SpawnPersistFails, EndUnspawned, MuInv,
         OwnMu, TypeOK, Ops
    <2>8. CASE SpawnStartFails(op)
      BY <2>8, ConstantsAssumption DEF SpawnStartFails, EndUnspawned, MuInv,
         OwnMu, TypeOK, Ops
    <2>9. CASE SpawnOk(op)
      BY <2>9, ConstantsAssumption DEF SpawnOk, MuInv, OwnMu, TypeOK, Ops
    <2>10. CASE RunningDurable(op)
      BY <2>10, ConstantsAssumption DEF RunningDurable, MuInv, OwnMu, TypeOK,
         Ops
    <2>11. CASE RollbackConfirmed(op)
      BY <2>11, ConstantsAssumption DEF RollbackConfirmed, MuInv, OwnMu,
         TypeOK, Ops
    <2>12. CASE RollbackResidual(op)
      BY <2>12, ConstantsAssumption DEF RollbackResidual, MuInv, OwnMu, TypeOK,
         Ops
    <2> QED BY <1>1, <2>1, <2>2, <2>3, <2>4, <2>5, <2>6, <2>7, <2>8, <2>9,
       <2>10, <2>11, <2>12 DEF OpStep
  <1>2. ASSUME NEW i \in Instances, LaunchStep(i) PROVE MuInv'
    <2>1. CASE LaunchSlotFails(i)
      BY <2>1, ConstantsAssumption DEF LaunchSlotFails, AbortAdmission, MuInv,
         OwnMu, TypeOK, Ops
    <2>2. CASE CreateRecord(i)
      BY <2>2, ConstantsAssumption DEF CreateRecord, MuInv, OwnMu, TypeOK, Ops
    <2>3. CASE CreateRecordFails(i)
      BY <2>3, ConstantsAssumption DEF CreateRecordFails, AbortAdmission,
         MuInv, OwnMu, TypeOK, Ops
    <2>4. CASE LaunchCleanup(i)
      BY <2>4, ConstantsAssumption DEF LaunchCleanup, MuInv, OwnMu, TypeOK, Ops
    <2> QED BY <1>2, <2>1, <2>2, <2>3, <2>4 DEF LaunchStep
  <1>3. ASSUME NEW r \in Restarts, RestartStep(r) PROVE MuInv'
    <2>1. CASE RestartBegin(r)
      BY <2>1, ConstantsAssumption DEF RestartBegin, MuInv, OwnMu, TypeOK, Ops
    <2>2. CASE RestartStop(r)
      BY <2>2, ConstantsAssumption DEF RestartStop, BeginStop, MuInv, OwnMu,
         TypeOK, Ops
    <2>3. CASE RestartAwait(r)
      BY <2>3, ConstantsAssumption DEF RestartAwait, MuInv, OwnMu, TypeOK, Ops
    <2>4. CASE RestartGivesUp(r)
      BY <2>4, ConstantsAssumption DEF RestartGivesUp, MuInv, OwnMu, TypeOK,
         Ops
    <2> QED BY <1>3, <2>1, <2>2, <2>3, <2>4 DEF RestartStep
  <1>4. ASSUME NEW i \in Instances, StopStep(i) PROVE MuInv'
    <2>1. CASE StopSignal(i)
      BY <2>1 DEF StopSignal, MuInv, OwnMu
    <2>2. CASE StopPersist(i)
      BY <2>2 DEF StopPersist, MuInv, OwnMu
    <2>3. CASE StopAwait(i)
      BY <2>3 DEF StopAwait, MuInv, OwnMu
    <2>4. CASE StopTimeout(i)
      BY <2>4 DEF StopTimeout, MuInv, OwnMu
    <2>5. CASE StopPersistFails(i)
      <3>1. CASE lifecycleMu[i] \in {User, Drain}
        BY <2>5, <3>1, ConstantsAssumption DEF StopPersistFails, StopReturn,
           MuInv, OwnMu, TypeOK, Ops
      <3>2. ASSUME NEW r \in Restarts, lifecycleMu[i] = r, target[r] = i, pc[r] = "stopOld"
            PROVE  MuInv'
        BY <2>5, <3>2, ConstantsAssumption DEF StopPersistFails, StopReturn,
           MuInv, OwnMu, TypeOK, Ops
      <3> QED BY <2>5, <3>1, <3>2 DEF StopPersistFails, ClaimInv, StopInv
    <2>6. CASE StopFinal(i)
      <3>1. CASE lifecycleMu[i] \in {User, Drain}
        BY <2>6, <3>1, ConstantsAssumption DEF StopFinal, StopReturn, MuInv,
           OwnMu, TypeOK, Ops
      <3>2. ASSUME NEW r \in Restarts, lifecycleMu[i] = r, target[r] = i, pc[r] = "stopOld"
            PROVE  MuInv'
        BY <2>6, <3>2, ConstantsAssumption DEF StopFinal, StopReturn, MuInv,
           OwnMu, TypeOK, Ops
      <3> QED BY <2>6, <3>1, <3>2 DEF StopFinal, ClaimInv, StopInv
    <2> QED BY <1>4, <2>1, <2>2, <2>3, <2>4, <2>5, <2>6 DEF StopStep
  <1>5. ASSUME NEW op \in Ops, WaitStep(op) PROVE MuInv'
    <2>1. CASE WaitTerminal(op)
      BY <2>1 DEF WaitTerminal, MuInv, OwnMu
    <2>2. CASE WaitPersist(op)
      BY <2>2 DEF WaitPersist, MuInv, OwnMu
    <2>3. CASE WaitFinish(op)
      BY <2>3 DEF WaitFinish, MuInv, OwnMu
    <2> QED BY <1>5, <2>1, <2>2, <2>3 DEF WaitStep
  <1>6. CASE ShutdownStep
    <2>1. CASE ShutdownBegin
      BY <2>1 DEF ShutdownBegin, MuInv, OwnMu
    <2>2. CASE ShutdownSnapshot
      BY <2>2 DEF ShutdownSnapshot, MuInv, OwnMu
    <2>3. CASE ShutdownTimeout
      BY <2>3 DEF ShutdownTimeout, MuInv, OwnMu
    <2>4. CASE ShutdownPersist
      BY <2>4 DEF ShutdownPersist, MuInv, OwnMu
    <2>5. ASSUME NEW i \in Instances, ShutdownSkip(i) PROVE MuInv'
      BY <2>5 DEF ShutdownSkip, MuInv, OwnMu
    <2>6. ASSUME NEW i \in Instances, ShutdownStop(i) PROVE MuInv'
      BY <2>6, ConstantsAssumption DEF ShutdownStop, BeginStop, MuInv, OwnMu,
         TypeOK, Ops
    <2> QED BY <1>6, <2>1, <2>2, <2>3, <2>4, <2>5, <2>6 DEF ShutdownStep
  <1>7. ASSUME NEW r \in Restarts, NEW i \in Instances, RestartLookup(r, i) PROVE MuInv'
    BY <1>7, ConstantsAssumption DEF RestartLookup, MuInv, OwnMu, TypeOK, Ops
  <1>8. ASSUME NEW i \in Instances, UserStop(i) PROVE MuInv'
    BY <1>8, ConstantsAssumption DEF UserStop, BeginStop, MuInv, OwnMu, TypeOK,
       Ops
  <1>9. ASSUME NEW i \in Instances, DeleteRecord(i) PROVE MuInv'
    BY <1>9 DEF DeleteRecord, MuInv, OwnMu
  <1>10. ASSUME NEW i \in Instances, ForgetCleaned(i) PROVE MuInv'
    BY <1>10 DEF ForgetCleaned, MuInv, OwnMu
  <1>11. ASSUME NEW op \in Ops, ProcessExit(op) PROVE MuInv'
    BY <1>11 DEF ProcessExit, MuInv, OwnMu
  <1>12. CASE Signal
    BY <1>12 DEF Signal, MuInv, OwnMu
  <1>13. ASSUME NEW m \in Models, ResolveOrphan(m) PROVE MuInv'
    BY <1>13 DEF ResolveOrphan, MuInv, OwnMu
  <1>14. CASE UNCHANGED vars
    BY <1>14, ConstantsAssumption DEF vars, MuInv, OwnMu, TypeOK, Ops
  <1> QED BY <1>1, <1>2, <1>3, <1>4, <1>5, <1>6, <1>7, <1>8, <1>9, <1>10,
     <1>11, <1>12, <1>13, <1>14 DEF Next

\* Who takes the lock of a model gives it back with its verdict.
LEMMA ArbStep ==
    ASSUME TypeOK, ClaimInv, ArbInv, [Next]_vars
    PROVE  ArbInv'
  <1>1. ASSUME NEW op \in Ops, OpStep(op) PROVE ArbInv'
    <2>1. CASE ArbCheck(op)
      BY <2>1, ConstantsAssumption DEF ArbCheck, AtArbitrate, ArbInv, OwnLock,
         TypeOK, Ops
    <2>2. CASE ArbReject(op)
      BY <2>2, ConstantsAssumption DEF ArbReject, AtArbitrate, ArbInv, OwnLock,
         TypeOK, Ops
    <2>3. CASE ArbPublish(op)
      BY <2>3, ConstantsAssumption DEF ArbPublish, ArbInv, OwnLock, TypeOK, Ops
    <2>4. CASE AcquireSlot(op)
      BY <2>4, ConstantsAssumption DEF AcquireSlot, ArbInv, OwnLock, TypeOK,
         Ops
    <2>5. CASE Commit(op)
      BY <2>5, ConstantsAssumption DEF Commit, AtCommit, ArbInv, OwnLock,
         TypeOK, Ops
    <2>6. CASE CommitAbort(op)
      BY <2>6, ConstantsAssumption DEF CommitAbort, AtCommit, ArbInv, OwnLock,
         TypeOK, Ops
    <2>7. CASE SpawnPersistFails(op)
      BY <2>7, ConstantsAssumption DEF SpawnPersistFails, EndUnspawned, ArbInv,
         OwnLock, TypeOK, Ops
    <2>8. CASE SpawnStartFails(op)
      BY <2>8, ConstantsAssumption DEF SpawnStartFails, EndUnspawned, ArbInv,
         OwnLock, TypeOK, Ops
    <2>9. CASE SpawnOk(op)
      BY <2>9, ConstantsAssumption DEF SpawnOk, ArbInv, OwnLock, TypeOK, Ops
    <2>10. CASE RunningDurable(op)
      BY <2>10, ConstantsAssumption DEF RunningDurable, ArbInv, OwnLock,
         TypeOK, Ops
    <2>11. CASE RollbackConfirmed(op)
      BY <2>11, ConstantsAssumption DEF RollbackConfirmed, ArbInv, OwnLock,
         TypeOK, Ops
    <2>12. CASE RollbackResidual(op)
      BY <2>12, ConstantsAssumption DEF RollbackResidual, ArbInv, OwnLock,
         TypeOK, Ops
    <2> QED BY <1>1, <2>1, <2>2, <2>3, <2>4, <2>5, <2>6, <2>7, <2>8, <2>9,
       <2>10, <2>11, <2>12 DEF OpStep
  <1>2. ASSUME NEW i \in Instances, LaunchStep(i) PROVE ArbInv'
    <2>1. CASE LaunchSlotFails(i)
      BY <2>1, ConstantsAssumption DEF LaunchSlotFails, AbortAdmission, ArbInv,
         OwnLock, TypeOK, Ops
    <2>2. CASE CreateRecord(i)
      BY <2>2, ConstantsAssumption DEF CreateRecord, ArbInv, OwnLock, TypeOK,
         Ops
    <2>3. CASE CreateRecordFails(i)
      BY <2>3, ConstantsAssumption DEF CreateRecordFails, AbortAdmission,
         ArbInv, OwnLock, TypeOK, Ops
    <2>4. CASE LaunchCleanup(i)
      BY <2>4, ConstantsAssumption DEF LaunchCleanup, ArbInv, OwnLock, TypeOK,
         Ops
    <2> QED BY <1>2, <2>1, <2>2, <2>3, <2>4 DEF LaunchStep
  <1>3. ASSUME NEW r \in Restarts, RestartStep(r) PROVE ArbInv'
    <2>1. CASE RestartBegin(r)
      BY <2>1, ConstantsAssumption DEF RestartBegin, ArbInv, OwnLock, TypeOK,
         Ops
    <2>2. CASE RestartStop(r)
      BY <2>2, ConstantsAssumption DEF RestartStop, BeginStop, ArbInv, OwnLock,
         TypeOK, Ops
    <2>3. CASE RestartAwait(r)
      BY <2>3, ConstantsAssumption DEF RestartAwait, ArbInv, OwnLock, TypeOK,
         Ops
    <2>4. CASE RestartGivesUp(r)
      BY <2>4, ConstantsAssumption DEF RestartGivesUp, ArbInv, OwnLock, TypeOK,
         Ops
    <2> QED BY <1>3, <2>1, <2>2, <2>3, <2>4 DEF RestartStep
  <1>4. ASSUME NEW i \in Instances, StopStep(i) PROVE ArbInv'
    <2>1. CASE StopSignal(i)
      BY <2>1 DEF StopSignal, ArbInv, OwnLock
    <2>2. CASE StopPersist(i)
      BY <2>2 DEF StopPersist, ArbInv, OwnLock
    <2>3. CASE StopAwait(i)
      BY <2>3 DEF StopAwait, ArbInv, OwnLock
    <2>4. CASE StopTimeout(i)
      BY <2>4 DEF StopTimeout, ArbInv, OwnLock
    <2>5. CASE StopPersistFails(i)
      <3>1. CASE UNCHANGED <<pc, active>>
        BY <2>5, <3>1 DEF StopPersistFails, StopReturn, ArbInv, OwnLock
      <3>2. ASSUME NEW r \in Restarts, ReturnsTo(r, i) PROVE ArbInv'
        BY <2>5, <3>2, ConstantsAssumption DEF StopPersistFails, ReturnsTo,
           ArbInv, OwnLock, TypeOK, Ops
      <3> QED BY <2>5, <3>1, <3>2, StopReturns DEF StopPersistFails
    <2>6. CASE StopFinal(i)
      <3>1. CASE UNCHANGED <<pc, active>>
        BY <2>6, <3>1 DEF StopFinal, StopReturn, ArbInv, OwnLock
      <3>2. ASSUME NEW r \in Restarts, ReturnsTo(r, i) PROVE ArbInv'
        BY <2>6, <3>2, ConstantsAssumption DEF StopFinal, ReturnsTo,
           ArbInv, OwnLock, TypeOK, Ops
      <3> QED BY <2>6, <3>1, <3>2, StopReturns DEF StopFinal
    <2> QED BY <1>4, <2>1, <2>2, <2>3, <2>4, <2>5, <2>6 DEF StopStep
  <1>5. ASSUME NEW op \in Ops, WaitStep(op) PROVE ArbInv'
    <2>1. CASE WaitTerminal(op)
      BY <2>1 DEF WaitTerminal, ArbInv, OwnLock
    <2>2. CASE WaitPersist(op)
      BY <2>2 DEF WaitPersist, ArbInv, OwnLock
    <2>3. CASE WaitFinish(op)
      BY <2>3 DEF WaitFinish, ArbInv, OwnLock
    <2> QED BY <1>5, <2>1, <2>2, <2>3 DEF WaitStep
  <1>6. CASE ShutdownStep
    <2>1. CASE ShutdownBegin
      BY <2>1 DEF ShutdownBegin, ArbInv, OwnLock
    <2>2. CASE ShutdownSnapshot
      BY <2>2 DEF ShutdownSnapshot, ArbInv, OwnLock
    <2>3. CASE ShutdownTimeout
      BY <2>3 DEF ShutdownTimeout, ArbInv, OwnLock
    <2>4. CASE ShutdownPersist
      BY <2>4 DEF ShutdownPersist, ArbInv, OwnLock
    <2>5. ASSUME NEW i \in Instances, ShutdownSkip(i) PROVE ArbInv'
      BY <2>5 DEF ShutdownSkip, ArbInv, OwnLock
    <2>6. ASSUME NEW i \in Instances, ShutdownStop(i) PROVE ArbInv'
      BY <2>6 DEF ShutdownStop, ArbInv, OwnLock
    <2> QED BY <1>6, <2>1, <2>2, <2>3, <2>4, <2>5, <2>6 DEF ShutdownStep
  <1>7. ASSUME NEW r \in Restarts, NEW i \in Instances, RestartLookup(r, i) PROVE ArbInv'
    BY <1>7, ConstantsAssumption DEF RestartLookup, ArbInv, OwnLock, TypeOK,
       Ops
  <1>8. ASSUME NEW i \in Instances, UserStop(i) PROVE ArbInv'
    BY <1>8 DEF UserStop, ArbInv, OwnLock
  <1>9. ASSUME NEW i \in Instances, DeleteRecord(i) PROVE ArbInv'
    BY <1>9 DEF DeleteRecord, ArbInv, OwnLock
  <1>10. ASSUME NEW i \in Instances, ForgetCleaned(i) PROVE ArbInv'
    BY <1>10 DEF ForgetCleaned, ArbInv, OwnLock
  <1>11. ASSUME NEW op \in Ops, ProcessExit(op) PROVE ArbInv'
    BY <1>11 DEF ProcessExit, ArbInv, OwnLock
  <1>12. CASE Signal
    BY <1>12 DEF Signal, ArbInv, OwnLock
  <1>13. ASSUME NEW m \in Models, ResolveOrphan(m) PROVE ArbInv'
    BY <1>13 DEF ResolveOrphan, ArbInv, OwnLock
  <1>14. CASE UNCHANGED vars
    BY <1>14, ConstantsAssumption DEF vars, ArbInv, OwnLock, TypeOK, Ops
  <1> QED BY <1>1, <1>2, <1>3, <1>4, <1>5, <1>6, <1>7, <1>8, <1>9, <1>10,
     <1>11, <1>12, <1>13, <1>14 DEF Next

\* A slot is returned with the run.
LEMMA RunStep ==
    ASSUME TypeOK, ClaimInv, SlotInv, RunInv, [Next]_vars
    PROVE  RunInv'
  <1>1. ASSUME NEW op \in Ops, OpStep(op) PROVE RunInv'
    <2>1. CASE ArbCheck(op)
      BY <2>1 DEF ArbCheck, AtArbitrate, RunInv, OwnSlot, SlotInv, TypeOK, Ops
    <2>2. CASE ArbReject(op)
      BY <2>2 DEF ArbReject, AtArbitrate, RunInv, OwnSlot, SlotInv, TypeOK, Ops
    <2>3. CASE ArbPublish(op)
      BY <2>3 DEF ArbPublish, RunInv, OwnSlot, SlotInv, TypeOK, Ops
    <2>4. CASE AcquireSlot(op)
      BY <2>4 DEF AcquireSlot, RunInv, OwnSlot, SlotInv, TypeOK, Ops
    <2>5. CASE Commit(op)
      BY <2>5 DEF Commit, AtCommit, RunInv, OwnSlot, SlotInv, TypeOK, Ops
    <2>6. CASE CommitAbort(op)
      BY <2>6 DEF CommitAbort, AtCommit, RunInv, OwnSlot, SlotInv, TypeOK, Ops
    <2>7. CASE SpawnPersistFails(op)
      BY <2>7 DEF SpawnPersistFails, EndUnspawned, RunInv, OwnSlot, SlotInv,
         TypeOK, Ops
    <2>8. CASE SpawnStartFails(op)
      BY <2>8 DEF SpawnStartFails, EndUnspawned, RunInv, OwnSlot, SlotInv,
         TypeOK, Ops
    <2>9. CASE SpawnOk(op)
      BY <2>9 DEF SpawnOk, RunInv, OwnSlot, SlotInv, TypeOK, Ops
    <2>10. CASE RunningDurable(op)
      BY <2>10 DEF RunningDurable, RunInv, OwnSlot, SlotInv, TypeOK, Ops
    <2>11. CASE RollbackConfirmed(op)
      BY <2>11 DEF RollbackConfirmed, RunInv, OwnSlot, SlotInv, TypeOK, Ops
    <2>12. CASE RollbackResidual(op)
      BY <2>12 DEF RollbackResidual, RunInv, OwnSlot, SlotInv, TypeOK, Ops
    <2> QED BY <1>1, <2>1, <2>2, <2>3, <2>4, <2>5, <2>6, <2>7, <2>8, <2>9,
       <2>10, <2>11, <2>12 DEF OpStep
  <1>2. ASSUME NEW i \in Instances, LaunchStep(i) PROVE RunInv'
    <2>1. CASE LaunchSlotFails(i)
      BY <2>1 DEF LaunchSlotFails, AbortAdmission, RunInv, OwnSlot, SlotInv,
         TypeOK, Ops
    <2>2. CASE CreateRecord(i)
      BY <2>2 DEF CreateRecord, RunInv, OwnSlot, SlotInv, TypeOK, Ops
    <2>3. CASE CreateRecordFails(i)
      BY <2>3 DEF CreateRecordFails, AbortAdmission, RunInv, OwnSlot, SlotInv,
         TypeOK, Ops
    <2>4. CASE LaunchCleanup(i)
      BY <2>4 DEF LaunchCleanup, RunInv, OwnSlot, SlotInv, TypeOK, Ops
    <2> QED BY <1>2, <2>1, <2>2, <2>3, <2>4 DEF LaunchStep
  <1>3. ASSUME NEW r \in Restarts, RestartStep(r) PROVE RunInv'
    <2>1. CASE RestartBegin(r)
      BY <2>1 DEF RestartBegin, RunInv, OwnSlot, SlotInv, TypeOK, Ops
    <2>2. CASE RestartStop(r)
      BY <2>2 DEF RestartStop, BeginStop, RunInv, OwnSlot, SlotInv, TypeOK, Ops
    <2>3. CASE RestartAwait(r)
      BY <2>3 DEF RestartAwait, RunInv, OwnSlot, SlotInv, TypeOK, Ops
    <2>4. CASE RestartGivesUp(r)
      BY <2>4 DEF RestartGivesUp, RunInv, OwnSlot, SlotInv, TypeOK, Ops
    <2> QED BY <1>3, <2>1, <2>2, <2>3, <2>4 DEF RestartStep
  <1>4. ASSUME NEW i \in Instances, StopStep(i) PROVE RunInv'
    <2>1. CASE StopSignal(i)
      BY <2>1 DEF StopSignal, RunInv, OwnSlot
    <2>2. CASE StopPersist(i)
      BY <2>2 DEF StopPersist, RunInv, OwnSlot
    <2>3. CASE StopAwait(i)
      BY <2>3 DEF StopAwait, RunInv, OwnSlot
    <2>4. CASE StopTimeout(i)
      BY <2>4 DEF StopTimeout, RunInv, OwnSlot
    <2>5. CASE StopPersistFails(i)
      <3>1. CASE UNCHANGED <<pc, active>>
        BY <2>5, <3>1 DEF StopPersistFails, StopReturn, RunInv, OwnSlot
      <3>2. ASSUME NEW r \in Restarts, ReturnsTo(r, i) PROVE RunInv'
        BY SMTT(30), <2>5, <3>2, ConstantsAssumption DEF StopPersistFails, ReturnsTo,
           RunInv, OwnSlot, TypeOK, Ops
      <3> QED BY <2>5, <3>1, <3>2, StopReturns DEF StopPersistFails
    <2>6. CASE StopFinal(i)
      <3>1. CASE UNCHANGED <<pc, active>>
        BY <2>6, <3>1 DEF StopFinal, StopReturn, RunInv, OwnSlot
      <3>2. ASSUME NEW r \in Restarts, ReturnsTo(r, i) PROVE RunInv'
        BY <2>6, <3>2, ConstantsAssumption DEF StopFinal, ReturnsTo,
           RunInv, OwnSlot, TypeOK, Ops
      <3> QED BY <2>6, <3>1, <3>2, StopReturns DEF StopFinal
    <2> QED BY <1>4, <2>1, <2>2, <2>3, <2>4, <2>5, <2>6 DEF StopStep
  <1>5. ASSUME NEW op \in Ops, WaitStep(op) PROVE RunInv'
    <2>1. CASE WaitTerminal(op)
      BY <2>1 DEF WaitTerminal, RunInv, OwnSlot
    <2>2. CASE WaitPersist(op)
      BY <2>2 DEF WaitPersist, RunInv, OwnSlot
    <2>3. CASE WaitFinish(op)
      BY <2>3 DEF WaitFinish, RunInv, OwnSlot, SlotInv, TypeOK, Ops
    <2> QED BY <1>5, <2>1, <2>2, <2>3 DEF WaitStep
  <1>6. CASE ShutdownStep
    <2>1. CASE ShutdownBegin
      BY <2>1 DEF ShutdownBegin, RunInv, OwnSlot
    <2>2. CASE ShutdownSnapshot
      BY <2>2 DEF ShutdownSnapshot, RunInv, OwnSlot
    <2>3. CASE ShutdownTimeout
      BY <2>3 DEF ShutdownTimeout, RunInv, OwnSlot
    <2>4. CASE ShutdownPersist
      BY <2>4 DEF ShutdownPersist, RunInv, OwnSlot
    <2>5. ASSUME NEW i \in Instances, ShutdownSkip(i) PROVE RunInv'
      BY <2>5 DEF ShutdownSkip, RunInv, OwnSlot
    <2>6. ASSUME NEW i \in Instances, ShutdownStop(i) PROVE RunInv'
      BY <2>6 DEF ShutdownStop, RunInv, OwnSlot
    <2> QED BY <1>6, <2>1, <2>2, <2>3, <2>4, <2>5, <2>6 DEF ShutdownStep
  <1>7. ASSUME NEW r \in Restarts, NEW i \in Instances, RestartLookup(r, i) PROVE RunInv'
    BY <1>7 DEF RestartLookup, RunInv, OwnSlot, SlotInv, TypeOK, Ops
  <1>8. ASSUME NEW i \in Instances, UserStop(i) PROVE RunInv'
    BY <1>8 DEF UserStop, RunInv, OwnSlot
  <1>9. ASSUME NEW i \in Instances, DeleteRecord(i) PROVE RunInv'
    BY <1>9 DEF DeleteRecord, RunInv, OwnSlot
  <1>10. ASSUME NEW i \in Instances, ForgetCleaned(i) PROVE RunInv'
    BY <1>10 DEF ForgetCleaned, RunInv, OwnSlot
  <1>11. ASSUME NEW op \in Ops, ProcessExit(op) PROVE RunInv'
    BY <1>11 DEF ProcessExit, RunInv, OwnSlot, SlotInv, TypeOK, Ops
  <1>12. CASE Signal
    BY <1>12 DEF Signal, RunInv, OwnSlot
  <1>13. ASSUME NEW m \in Models, ResolveOrphan(m) PROVE RunInv'
    BY <1>13 DEF ResolveOrphan, RunInv, OwnSlot
  <1>14. CASE UNCHANGED vars
    BY <1>14 DEF vars, RunInv, OwnSlot, SlotInv, TypeOK, Ops
  <1> QED BY <1>1, <1>2, <1>3, <1>4, <1>5, <1>6, <1>7, <1>8, <1>9, <1>10,
     <1>11, <1>12, <1>13, <1>14 DEF Next

-----------------------------------------------------------------------------
(* What a generation is spawned over                                       *)

\* The generation op may have a process: it was spawned, and its wait() has not
\* seen the end of it.
Pending(op) == pc[op] = "spawned" \/ waitPc[op] = "waiting"

\* No generation of controller i has one.
Clear(i) == \A op \in Ops : target[op] = i => ~Pending(op)

\* The run of controller i is over, or its published state says so.
Settled(i) ==
    run[i] = NoOp \/ run[i] \in runDone \/ istate[i] \in Terminal \/ stopPc[i] = "final"

\* The generation op was rolled back after its spawn.
Rolled(op) == waitPc[op] # "none" /\ pc[op] \in {"failed", "forget"}

\* Where a restart is past the stop of the previous generation.
Ahead == {"needSlot", "ready", "starting"}

\* Until a launch ends no restart of its controller is admitted.
PlacesInv ==
    \A r \in Restarts : target[r] \in Instances /\ pc[target[r]] \in LaunchHolds
        => pc[r] \in {"idle", "lookedUp", "rejected"}

\* Who spawns holds lifecycleMu and is the current generation.
HeldInv ==
    \A op \in Ops : pc[op] \in {"starting", "spawned"} =>
        lifecycleMu[target[op]] = op /\ run[target[op]] = op

\* What was spawned has a wait().
WaitInv ==
    \A op \in Ops : pc[op] \in {"ok", "residual", "forget"} => waitPc[op] # "none"

\* Only the current generation may have a process, and it is published live.
NewestInv ==
    \A op \in Ops : Pending(op) =>
        \/ RolledBack(target[op])
        \/ /\ run[target[op]] = op /\ istate[target[op]] \in Live
           /\ op \notin runDone

\* A restart past the stop, and a stop that succeeded, leave no process behind.
ClearedInv ==
    /\ \A r \in Restarts : pc[r] \in Ahead => Clear(target[r]) \/ RolledBack(target[r])
    /\ \A i \in Instances : stopPc[i] = "final" => Clear(i) \/ RolledBack(i)

\* How a step moves generations: none is rolled forward again, only SpawnOk
\* makes a process, and a restart gets past the stop of a settled run only.
Moves ==
    /\ \A o \in Ops : /\ Rolled(o) => Rolled(o)' /\ target'[o] = target[o]
                      /\ Pending(o)' => SpawnOk(o) \/ (Pending(o) /\ target'[o] = target[o])
    /\ \A r \in Restarts : pc'[r] \in Ahead =>
          /\ pc[r] # "idle" /\ target'[r] = target[r]
          /\ pc[r] \in Ahead \/ Settled(target[r])
    /\ \A i \in Instances : stopPc'[i] = "final" => Settled(i)

\* How every step moves generations.
LEMMA MovesStep ==
    ASSUME TypeOK, ClaimInv, SlotInv, [Next]_vars
    PROVE  Moves
  <1>1. ASSUME NEW op \in Ops, OpStep(op) PROVE Moves
    <2>1. CASE ArbCheck(op)
      BY <2>1, ConstantsAssumption DEF ArbCheck, AtArbitrate, Moves, Rolled,
         Pending, Settled, Ahead, SlotInv, TypeOK, Ops
    <2>2. CASE ArbReject(op)
      BY <2>2, ConstantsAssumption DEF ArbReject, AtArbitrate, Moves, Rolled,
         Pending, Settled, Ahead, SlotInv, TypeOK, Ops
    <2>3. CASE ArbPublish(op)
      BY <2>3, ConstantsAssumption DEF ArbPublish, Moves, Rolled, Pending,
         Settled, Ahead, SlotInv, TypeOK, Ops
    <2>4. CASE AcquireSlot(op)
      BY <2>4, ConstantsAssumption DEF AcquireSlot, LaunchPCs, LaunchHolds,
         RestartPCs, RestartHolds, Finished, Moves, Rolled, Pending, Settled,
         Ahead, SlotInv, TypeOK, Ops
    <2>5. CASE Commit(op)
      BY <2>5, ConstantsAssumption DEF Commit, AtCommit, Moves, Rolled,
         Pending, Settled, Ahead, SlotInv, TypeOK, Ops
    <2>6. CASE CommitAbort(op)
      BY <2>6, ConstantsAssumption DEF CommitAbort, AtCommit, Moves, Rolled,
         Pending, Settled, Ahead, SlotInv, TypeOK, Ops
    <2>7. CASE SpawnPersistFails(op)
      BY <2>7, ConstantsAssumption DEF SpawnPersistFails, EndUnspawned, Moves,
         Rolled, Pending, Settled, Ahead, SlotInv, TypeOK, Ops
    <2>8. CASE SpawnStartFails(op)
      BY <2>8, ConstantsAssumption DEF SpawnStartFails, EndUnspawned, Moves,
         Rolled, Pending, Settled, Ahead, SlotInv, TypeOK, Ops
    <2>9. CASE SpawnOk(op)
      <3>1. /\ pc' = [pc EXCEPT ![op] = "spawned"]
            /\ UNCHANGED <<target, waitPc, stopPc>>
        BY <2>9 DEF SpawnOk
      <3>2. pc[op] = "starting"
        BY <2>9 DEF SpawnOk
      <3>3. ASSUME NEW o \in Ops, o # op
            PROVE  pc'[o] = pc[o] /\ waitPc'[o] = waitPc[o] /\ target'[o] = target[o]
        BY <3>1, <3>3 DEF TypeOK
      <3>4. \A o \in Ops : Pending(o)' =>
               SpawnOk(o) \/ (Pending(o) /\ target'[o] = target[o])
        <4> SUFFICES ASSUME NEW o \in Ops, Pending(o)', o # op
                     PROVE  Pending(o) /\ target'[o] = target[o]
          BY <2>9
        <4> QED BY <3>3 DEF Pending
      <3> QED BY <3>1, <3>2, <3>3, <3>4 DEF Moves, Rolled, Ahead, TypeOK, Ops, Settled
    <2>10. CASE RunningDurable(op)
      BY <2>10, ConstantsAssumption DEF RunningDurable, Moves, Rolled, Pending,
         Settled, Ahead, SlotInv, TypeOK, Ops
    <2>11. CASE RollbackConfirmed(op)
      BY <2>11, ConstantsAssumption DEF RollbackConfirmed, Moves, Rolled,
         Pending, Settled, Ahead, SlotInv, TypeOK, Ops
    <2>12. CASE RollbackResidual(op)
      BY <2>12, ConstantsAssumption DEF RollbackResidual, Moves, Rolled,
         Pending, Settled, Ahead, SlotInv, TypeOK, Ops
    <2> QED BY <1>1, <2>1, <2>2, <2>3, <2>4, <2>5, <2>6, <2>7, <2>8, <2>9,
       <2>10, <2>11, <2>12 DEF OpStep
  <1>2. ASSUME NEW i \in Instances, LaunchStep(i) PROVE Moves
    <2>1. CASE LaunchSlotFails(i)
      BY <2>1, ConstantsAssumption DEF LaunchSlotFails, AbortAdmission, Moves,
         Rolled, Pending, Settled, Ahead, SlotInv, TypeOK, Ops
    <2>2. CASE CreateRecord(i)
      BY <2>2, ConstantsAssumption DEF CreateRecord, Moves, Rolled, Pending,
         Settled, Ahead, SlotInv, TypeOK, Ops
    <2>3. CASE CreateRecordFails(i)
      BY <2>3, ConstantsAssumption DEF CreateRecordFails, AbortAdmission,
         Moves, Rolled, Pending, Settled, Ahead, SlotInv, TypeOK, Ops
    <2>4. CASE LaunchCleanup(i)
      BY <2>4, ConstantsAssumption DEF LaunchCleanup, Moves, Rolled, Pending,
         Settled, Ahead, SlotInv, TypeOK, Ops
    <2> QED BY <1>2, <2>1, <2>2, <2>3, <2>4 DEF LaunchStep
  <1>3. ASSUME NEW r \in Restarts, RestartStep(r) PROVE Moves
    <2>1. CASE RestartBegin(r)
      BY <2>1, ConstantsAssumption DEF RestartBegin, Moves, Rolled, Pending,
         Settled, Ahead, SlotInv, TypeOK, Ops
    <2>2. CASE RestartStop(r)
      BY <2>2, ConstantsAssumption DEF RestartStop, BeginStop, Moves, Rolled,
         Pending, Settled, Ahead, SlotInv, TypeOK, Ops
    <2>3. CASE RestartAwait(r)
      BY <2>3, ConstantsAssumption DEF RestartAwait, Moves, Rolled, Pending,
         Settled, Ahead, SlotInv, TypeOK, Ops
    <2>4. CASE RestartGivesUp(r)
      BY <2>4, ConstantsAssumption DEF RestartGivesUp, Moves, Rolled, Pending,
         Settled, Ahead, SlotInv, TypeOK, Ops
    <2> QED BY <1>3, <2>1, <2>2, <2>3, <2>4 DEF RestartStep
  <1>4. ASSUME NEW i \in Instances, StopStep(i) PROVE Moves
    <2>1. CASE StopSignal(i)
      BY <2>1, ConstantsAssumption DEF StopSignal, Moves, Rolled, Pending,
         Settled, Ahead, SlotInv, TypeOK, Ops
    <2>2. CASE StopPersist(i)
      BY <2>2, ConstantsAssumption DEF StopPersist, Moves, Rolled, Pending,
         Settled, Ahead, SlotInv, TypeOK, Ops
    <2>3. CASE StopAwait(i)
      BY <2>3, ConstantsAssumption DEF StopAwait, Moves, Rolled, Pending,
         Settled, Ahead, SlotInv, TypeOK, Ops
    <2>4. CASE StopTimeout(i)
      BY <2>4, ConstantsAssumption DEF StopTimeout, Moves, Rolled, Pending,
         Settled, Ahead, SlotInv, TypeOK, Ops
    <2>5. CASE StopPersistFails(i)
      <3>1. CASE lifecycleMu[i] \in {User, Drain}
        BY <2>5, <3>1, ConstantsAssumption DEF StopPersistFails, StopReturn,
           Moves, Rolled, Pending, Settled, Ahead, SlotInv, TypeOK, Ops
      <3>2. ASSUME NEW r \in Restarts, lifecycleMu[i] = r, target[r] = i, pc[r] = "stopOld"
            PROVE  Moves
        BY <2>5, <3>2, ConstantsAssumption DEF StopPersistFails, StopReturn,
           Moves, Rolled, Pending, Settled, Ahead, SlotInv, TypeOK, Ops
      <3> QED BY <2>5, <3>1, <3>2 DEF StopPersistFails, ClaimInv, StopInv
    <2>6. CASE StopFinal(i)
      <3>1. CASE lifecycleMu[i] \in {User, Drain}
        BY <2>6, <3>1, ConstantsAssumption DEF StopFinal, StopReturn, Moves,
           Rolled, Pending, Settled, Ahead, SlotInv, TypeOK, Ops
      <3>2. ASSUME NEW r \in Restarts, lifecycleMu[i] = r, target[r] = i, pc[r] = "stopOld"
            PROVE  Moves
        BY <2>6, <3>2, ConstantsAssumption DEF StopFinal, StopReturn, Moves,
           Rolled, Pending, Settled, Ahead, SlotInv, TypeOK, Ops
      <3> QED BY <2>6, <3>1, <3>2 DEF StopFinal, ClaimInv, StopInv
    <2> QED BY <1>4, <2>1, <2>2, <2>3, <2>4, <2>5, <2>6 DEF StopStep
  <1>5. ASSUME NEW op \in Ops, WaitStep(op) PROVE Moves
    <2>1. CASE WaitTerminal(op)
      BY <2>1, ConstantsAssumption DEF WaitTerminal, Moves, Rolled, Pending,
         Settled, Ahead, SlotInv, TypeOK, Ops
    <2>2. CASE WaitPersist(op)
      BY <2>2, ConstantsAssumption DEF WaitPersist, Moves, Rolled, Pending,
         Settled, Ahead, SlotInv, TypeOK, Ops
    <2>3. CASE WaitFinish(op)
      BY <2>3, ConstantsAssumption DEF WaitFinish, Moves, Rolled, Pending,
         Settled, Ahead, SlotInv, TypeOK, Ops
    <2> QED BY <1>5, <2>1, <2>2, <2>3 DEF WaitStep
  <1>6. CASE ShutdownStep
    <2>1. CASE ShutdownBegin
      BY <2>1 DEF ShutdownBegin, Moves, Rolled, Pending, Settled, Ahead
    <2>2. CASE ShutdownSnapshot
      BY <2>2 DEF ShutdownSnapshot, Moves, Rolled, Pending, Settled, Ahead
    <2>3. CASE ShutdownTimeout
      BY <2>3 DEF ShutdownTimeout, Moves, Rolled, Pending, Settled, Ahead
    <2>4. CASE ShutdownPersist
      BY <2>4 DEF ShutdownPersist, Moves, Rolled, Pending, Settled, Ahead
    <2>5. ASSUME NEW i \in Instances, ShutdownSkip(i) PROVE Moves
      BY <2>5 DEF ShutdownSkip, Moves, Rolled, Pending, Settled, Ahead
    <2>6. ASSUME NEW i \in Instances, ShutdownStop(i) PROVE Moves
      BY <2>6, ConstantsAssumption DEF ShutdownStop, BeginStop, Moves, Rolled,
         Pending, Settled, Ahead, SlotInv, TypeOK, Ops
    <2> QED BY <1>6, <2>1, <2>2, <2>3, <2>4, <2>5, <2>6 DEF ShutdownStep
  <1>7. ASSUME NEW r \in Restarts, NEW i \in Instances, RestartLookup(r, i) PROVE Moves
    BY <1>7, ConstantsAssumption DEF RestartLookup, Moves, Rolled, Pending,
       Settled, Ahead, SlotInv, TypeOK, Ops
  <1>8. ASSUME NEW i \in Instances, UserStop(i) PROVE Moves
    BY <1>8, ConstantsAssumption DEF UserStop, BeginStop, Moves, Rolled,
       Pending, Settled, Ahead, SlotInv, TypeOK, Ops
  <1>9. ASSUME NEW i \in Instances, DeleteRecord(i) PROVE Moves
    BY <1>9 DEF DeleteRecord, Moves, Rolled, Pending, Settled, Ahead
  <1>10. ASSUME NEW i \in Instances, ForgetCleaned(i) PROVE Moves
    BY <1>10 DEF ForgetCleaned, Moves, Rolled, Pending, Settled, Ahead
  <1>11. ASSUME NEW op \in Ops, ProcessExit(op) PROVE Moves
    BY <1>11 DEF ProcessExit, Moves, Rolled, Pending, Settled, Ahead
  <1>12. CASE Signal
    BY <1>12 DEF Signal, Moves, Rolled, Pending, Settled, Ahead
  <1>13. ASSUME NEW m \in Models, ResolveOrphan(m) PROVE Moves
    BY <1>13 DEF ResolveOrphan, Moves, Rolled, Pending, Settled, Ahead
  <1>14. CASE UNCHANGED vars
    BY <1>14, ConstantsAssumption DEF vars, Moves, Rolled, Pending, Settled,
       Ahead, SlotInv, TypeOK, Ops
  <1> QED BY <1>1, <1>2, <1>3, <1>4, <1>5, <1>6, <1>7, <1>8, <1>9, <1>10,
     <1>11, <1>12, <1>13, <1>14 DEF Next

\* While a launch holds its record, its controller cannot be restarted.
LEMMA PlacesStep ==
    ASSUME TypeOK, ClaimInv, PlacesInv, [Next]_vars
    PROVE  PlacesInv'
  <1>1. ASSUME NEW op \in Ops, OpStep(op) PROVE PlacesInv'
    <2>1. CASE ArbCheck(op)
      <3>1. CASE op \in Instances
        BY <2>1, <3>1, ConstantsAssumption DEF ArbCheck, PlacesInv, TypeOK, Ops,
           LaunchHolds
      <3>2. CASE op \in Restarts
        <4>1. active[target[op]] = NoOp
          BY <2>1, <3>2 DEF ArbCheck, Admissible, Restartable
        <4>2. target[op] \in Instances => pc[target[op]] \notin LaunchHolds
          BY <4>1, ConstantsAssumption DEF ClaimInv, ClaimHeld, Ops
        <4> QED BY <2>1, <3>2, <4>2, ConstantsAssumption DEF ArbCheck,
           PlacesInv, TypeOK, Ops
      <3> QED BY <3>1, <3>2 DEF Ops
    <2>2. CASE ArbReject(op)
      BY <2>2, ConstantsAssumption DEF ArbReject, AtArbitrate, PlacesInv,
         TypeOK, Ops, LaunchHolds
    <2>3. CASE ArbPublish(op)
      BY <2>3, ConstantsAssumption DEF ArbPublish, Admissible, Restartable,
         ClaimInv, ClaimHeld, LockInv, TargetsInv, Fresh, PlacesInv, TypeOK,
         Ops, LaunchHolds
    <2>4. CASE AcquireSlot(op)
      BY <2>4, ConstantsAssumption DEF AcquireSlot, LaunchPCs, Finished,
         PlacesInv, TypeOK, Ops, LaunchHolds
    <2>5. CASE Commit(op)
      BY <2>5, ConstantsAssumption DEF Commit, AtCommit, PlacesInv, TypeOK,
         Ops, LaunchHolds
    <2>6. CASE CommitAbort(op)
      BY <2>6, ConstantsAssumption DEF CommitAbort, AtCommit, PlacesInv,
         TypeOK, Ops, LaunchHolds
    <2>7. CASE SpawnPersistFails(op)
      BY <2>7, ConstantsAssumption DEF SpawnPersistFails, EndUnspawned,
         PlacesInv, TypeOK, Ops, LaunchHolds
    <2>8. CASE SpawnStartFails(op)
      BY <2>8, ConstantsAssumption DEF SpawnStartFails, EndUnspawned,
         PlacesInv, TypeOK, Ops, LaunchHolds
    <2>9. CASE SpawnOk(op)
      BY <2>9, ConstantsAssumption DEF SpawnOk, PlacesInv, TypeOK, Ops,
         LaunchHolds
    <2>10. CASE RunningDurable(op)
      BY <2>10, ConstantsAssumption DEF RunningDurable, PlacesInv, TypeOK, Ops,
         LaunchHolds
    <2>11. CASE RollbackConfirmed(op)
      BY <2>11, ConstantsAssumption DEF RollbackConfirmed, PlacesInv, TypeOK,
         Ops, LaunchHolds
    <2>12. CASE RollbackResidual(op)
      BY <2>12, ConstantsAssumption DEF RollbackResidual, PlacesInv, TypeOK,
         Ops, LaunchHolds
    <2> QED BY <1>1, <2>1, <2>2, <2>3, <2>4, <2>5, <2>6, <2>7, <2>8, <2>9,
       <2>10, <2>11, <2>12 DEF OpStep
  <1>2. ASSUME NEW i \in Instances, LaunchStep(i) PROVE PlacesInv'
    <2>1. CASE LaunchSlotFails(i)
      BY <2>1, ConstantsAssumption DEF LaunchSlotFails, AbortAdmission,
         PlacesInv, TypeOK, Ops, LaunchHolds
    <2>2. CASE CreateRecord(i)
      BY <2>2, ConstantsAssumption DEF CreateRecord, PlacesInv, TypeOK, Ops,
         LaunchHolds
    <2>3. CASE CreateRecordFails(i)
      BY <2>3, ConstantsAssumption DEF CreateRecordFails, AbortAdmission,
         PlacesInv, TypeOK, Ops, LaunchHolds
    <2>4. CASE LaunchCleanup(i)
      BY <2>4, ConstantsAssumption DEF LaunchCleanup, PlacesInv, TypeOK, Ops,
         LaunchHolds
    <2> QED BY <1>2, <2>1, <2>2, <2>3, <2>4 DEF LaunchStep
  <1>3. ASSUME NEW r \in Restarts, RestartStep(r) PROVE PlacesInv'
    <2>1. CASE RestartBegin(r)
      BY <2>1, ConstantsAssumption DEF RestartBegin, PlacesInv, TypeOK, Ops,
         LaunchHolds
    <2>2. CASE RestartStop(r)
      BY <2>2, ConstantsAssumption DEF RestartStop, BeginStop, PlacesInv,
         TypeOK, Ops, LaunchHolds
    <2>3. CASE RestartAwait(r)
      BY <2>3, ConstantsAssumption DEF RestartAwait, PlacesInv, TypeOK, Ops,
         LaunchHolds
    <2>4. CASE RestartGivesUp(r)
      BY <2>4, ConstantsAssumption DEF RestartGivesUp, PlacesInv, TypeOK, Ops,
         LaunchHolds
    <2> QED BY <1>3, <2>1, <2>2, <2>3, <2>4 DEF RestartStep
  <1>4. ASSUME NEW i \in Instances, StopStep(i) PROVE PlacesInv'
    <2>1. CASE StopSignal(i)
      BY <2>1 DEF StopSignal, PlacesInv
    <2>2. CASE StopPersist(i)
      BY <2>2 DEF StopPersist, PlacesInv
    <2>3. CASE StopAwait(i)
      BY <2>3 DEF StopAwait, PlacesInv
    <2>4. CASE StopTimeout(i)
      BY <2>4 DEF StopTimeout, PlacesInv
    <2>5. CASE StopPersistFails(i)
      <3>1. CASE lifecycleMu[i] \in {User, Drain}
        BY <2>5, <3>1, ConstantsAssumption DEF StopPersistFails, StopReturn,
           PlacesInv, TypeOK, Ops, LaunchHolds
      <3>2. ASSUME NEW r \in Restarts, lifecycleMu[i] = r, target[r] = i, pc[r] = "stopOld"
            PROVE  PlacesInv'
        BY <2>5, <3>2, ConstantsAssumption DEF StopPersistFails, StopReturn,
           PlacesInv, TypeOK, Ops, LaunchHolds
      <3> QED BY <2>5, <3>1, <3>2 DEF StopPersistFails, ClaimInv, StopInv
    <2>6. CASE StopFinal(i)
      <3>1. CASE lifecycleMu[i] \in {User, Drain}
        BY <2>6, <3>1, ConstantsAssumption DEF StopFinal, StopReturn, PlacesInv,
           TypeOK, Ops, LaunchHolds
      <3>2. ASSUME NEW r \in Restarts, lifecycleMu[i] = r, target[r] = i, pc[r] = "stopOld"
            PROVE  PlacesInv'
        BY SMTT(30), <2>6, <3>2, ConstantsAssumption DEF StopFinal, StopReturn, PlacesInv,
           TypeOK, Ops, LaunchHolds
      <3> QED BY <2>6, <3>1, <3>2 DEF StopFinal, ClaimInv, StopInv
    <2> QED BY <1>4, <2>1, <2>2, <2>3, <2>4, <2>5, <2>6 DEF StopStep
  <1>5. ASSUME NEW op \in Ops, WaitStep(op) PROVE PlacesInv'
    <2>1. CASE WaitTerminal(op)
      BY <2>1 DEF WaitTerminal, PlacesInv
    <2>2. CASE WaitPersist(op)
      BY <2>2 DEF WaitPersist, PlacesInv
    <2>3. CASE WaitFinish(op)
      BY <2>3 DEF WaitFinish, PlacesInv
    <2> QED BY <1>5, <2>1, <2>2, <2>3 DEF WaitStep
  <1>6. CASE ShutdownStep
    <2>1. CASE ShutdownBegin
      BY <2>1 DEF ShutdownBegin, PlacesInv
    <2>2. CASE ShutdownSnapshot
      BY <2>2 DEF ShutdownSnapshot, PlacesInv
    <2>3. CASE ShutdownTimeout
      BY <2>3 DEF ShutdownTimeout, PlacesInv
    <2>4. CASE ShutdownPersist
      BY <2>4 DEF ShutdownPersist, PlacesInv
    <2>5. ASSUME NEW i \in Instances, ShutdownSkip(i) PROVE PlacesInv'
      BY <2>5 DEF ShutdownSkip, PlacesInv
    <2>6. ASSUME NEW i \in Instances, ShutdownStop(i) PROVE PlacesInv'
      BY <2>6 DEF ShutdownStop, PlacesInv
    <2> QED BY <1>6, <2>1, <2>2, <2>3, <2>4, <2>5, <2>6 DEF ShutdownStep
  <1>7. ASSUME NEW r \in Restarts, NEW i \in Instances, RestartLookup(r, i) PROVE PlacesInv'
    BY <1>7, ConstantsAssumption DEF RestartLookup, PlacesInv, TypeOK, Ops,
       LaunchHolds
  <1>8. ASSUME NEW i \in Instances, UserStop(i) PROVE PlacesInv'
    BY <1>8 DEF UserStop, PlacesInv
  <1>9. ASSUME NEW i \in Instances, DeleteRecord(i) PROVE PlacesInv'
    BY <1>9 DEF DeleteRecord, PlacesInv
  <1>10. ASSUME NEW i \in Instances, ForgetCleaned(i) PROVE PlacesInv'
    BY <1>10 DEF ForgetCleaned, PlacesInv
  <1>11. ASSUME NEW op \in Ops, ProcessExit(op) PROVE PlacesInv'
    BY <1>11 DEF ProcessExit, PlacesInv
  <1>12. CASE Signal
    BY <1>12 DEF Signal, PlacesInv
  <1>13. ASSUME NEW m \in Models, ResolveOrphan(m) PROVE PlacesInv'
    BY <1>13 DEF ResolveOrphan, PlacesInv
  <1>14. CASE UNCHANGED vars
    BY <1>14, ConstantsAssumption DEF vars, PlacesInv, TypeOK, Ops, LaunchHolds
  <1> QED BY <1>1, <1>2, <1>3, <1>4, <1>5, <1>6, <1>7, <1>8, <1>9, <1>10,
     <1>11, <1>12, <1>13, <1>14 DEF Next

\* A spawn keeps lifecycleMu and the run.
LEMMA HeldStep ==
    ASSUME TypeOK, ClaimInv, HeldInv, [Next]_vars
    PROVE  HeldInv'
  <1>1. ASSUME NEW op \in Ops, OpStep(op) PROVE HeldInv'
    <2>1. CASE ArbCheck(op)
      BY <2>1, ConstantsAssumption, TargetOf DEF ArbCheck, AtArbitrate,
         HeldInv, ClaimInv, TypeOK, Ops
    <2>2. CASE ArbReject(op)
      BY <2>2, ConstantsAssumption, TargetOf DEF ArbReject, AtArbitrate,
         HeldInv, ClaimInv, TypeOK, Ops
    <2>3. CASE ArbPublish(op)
      BY <2>3, ConstantsAssumption, TargetOf DEF ArbPublish, HeldInv, ClaimInv,
         TypeOK, Ops
    <2>4. CASE AcquireSlot(op)
      BY <2>4, ConstantsAssumption, TargetOf DEF AcquireSlot, HeldInv,
         ClaimInv, TypeOK, Ops
    <2>5. CASE Commit(op)
      BY <2>5, ConstantsAssumption, TargetOf DEF Commit, AtCommit, HeldInv,
         ClaimInv, TypeOK, Ops
    <2>6. CASE CommitAbort(op)
      BY <2>6, ConstantsAssumption, TargetOf DEF CommitAbort, AtCommit,
         HeldInv, ClaimInv, TypeOK, Ops
    <2>7. CASE SpawnPersistFails(op)
      BY <2>7, ConstantsAssumption, TargetOf DEF SpawnPersistFails,
         EndUnspawned, HeldInv, ClaimInv, TypeOK, Ops
    <2>8. CASE SpawnStartFails(op)
      BY <2>8, ConstantsAssumption, TargetOf DEF SpawnStartFails, EndUnspawned,
         HeldInv, ClaimInv, TypeOK, Ops
    <2>9. CASE SpawnOk(op)
      BY <2>9, ConstantsAssumption, TargetOf DEF SpawnOk, HeldInv, ClaimInv,
         TypeOK, Ops
    <2>10. CASE RunningDurable(op)
      BY <2>10, ConstantsAssumption, TargetOf DEF RunningDurable, HeldInv,
         ClaimInv, TypeOK, Ops
    <2>11. CASE RollbackConfirmed(op)
      BY SMTT(30), <2>11, ConstantsAssumption, TargetOf DEF RollbackConfirmed, HeldInv,
         ClaimInv, TypeOK, Ops
    <2>12. CASE RollbackResidual(op)
      BY <2>12, ConstantsAssumption, TargetOf DEF RollbackResidual, HeldInv,
         ClaimInv, TypeOK, Ops
    <2> QED BY <1>1, <2>1, <2>2, <2>3, <2>4, <2>5, <2>6, <2>7, <2>8, <2>9,
       <2>10, <2>11, <2>12 DEF OpStep
  <1>2. ASSUME NEW i \in Instances, LaunchStep(i) PROVE HeldInv'
    <2>1. CASE LaunchSlotFails(i)
      BY <2>1, ConstantsAssumption, TargetOf DEF LaunchSlotFails,
         AbortAdmission, HeldInv, ClaimInv, TypeOK, Ops
    <2>2. CASE CreateRecord(i)
      BY <2>2, ConstantsAssumption, TargetOf DEF CreateRecord, HeldInv,
         ClaimInv, TypeOK, Ops
    <2>3. CASE CreateRecordFails(i)
      BY <2>3, ConstantsAssumption, TargetOf DEF CreateRecordFails,
         AbortAdmission, HeldInv, ClaimInv, TypeOK, Ops
    <2>4. CASE LaunchCleanup(i)
      BY <2>4, ConstantsAssumption, TargetOf DEF LaunchCleanup, HeldInv,
         ClaimInv, TypeOK, Ops
    <2> QED BY <1>2, <2>1, <2>2, <2>3, <2>4 DEF LaunchStep
  <1>3. ASSUME NEW r \in Restarts, RestartStep(r) PROVE HeldInv'
    <2>1. CASE RestartBegin(r)
      BY <2>1, ConstantsAssumption, TargetOf DEF RestartBegin, HeldInv,
         ClaimInv, TypeOK, Ops
    <2>2. CASE RestartStop(r)
      BY <2>2, ConstantsAssumption, TargetOf DEF RestartStop, BeginStop,
         HeldInv, ClaimInv, TypeOK, Ops
    <2>3. CASE RestartAwait(r)
      BY <2>3, ConstantsAssumption, TargetOf DEF RestartAwait, HeldInv,
         ClaimInv, TypeOK, Ops
    <2>4. CASE RestartGivesUp(r)
      BY <2>4, ConstantsAssumption, TargetOf DEF RestartGivesUp, HeldInv,
         ClaimInv, TypeOK, Ops
    <2> QED BY <1>3, <2>1, <2>2, <2>3, <2>4 DEF RestartStep
  <1>4. ASSUME NEW i \in Instances, StopStep(i) PROVE HeldInv'
    <2>1. CASE StopSignal(i)
      BY <2>1 DEF StopSignal, HeldInv
    <2>2. CASE StopPersist(i)
      BY <2>2 DEF StopPersist, HeldInv
    <2>3. CASE StopAwait(i)
      BY <2>3 DEF StopAwait, HeldInv
    <2>4. CASE StopTimeout(i)
      BY <2>4 DEF StopTimeout, HeldInv
    <2>5. CASE StopPersistFails(i)
      <3>1. CASE lifecycleMu[i] \in {User, Drain}
        BY <2>5, <3>1, ConstantsAssumption, TargetOf DEF StopPersistFails,
           StopReturn, HeldInv, ClaimInv, TypeOK, Ops
      <3>2. ASSUME NEW r \in Restarts, lifecycleMu[i] = r, target[r] = i, pc[r] = "stopOld"
            PROVE  HeldInv'
        BY <2>5, <3>2, ConstantsAssumption, TargetOf DEF StopPersistFails,
           StopReturn, HeldInv, ClaimInv, TypeOK, Ops
      <3> QED BY <2>5, <3>1, <3>2 DEF StopPersistFails, ClaimInv, StopInv
    <2>6. CASE StopFinal(i)
      <3>1. CASE lifecycleMu[i] \in {User, Drain}
        BY <2>6, <3>1, ConstantsAssumption, TargetOf DEF StopFinal, StopReturn,
           HeldInv, ClaimInv, TypeOK, Ops
      <3>2. ASSUME NEW r \in Restarts, lifecycleMu[i] = r, target[r] = i, pc[r] = "stopOld"
            PROVE  HeldInv'
        BY <2>6, <3>2, ConstantsAssumption, TargetOf DEF StopFinal, StopReturn,
           HeldInv, ClaimInv, TypeOK, Ops
      <3> QED BY <2>6, <3>1, <3>2 DEF StopFinal, ClaimInv, StopInv
    <2> QED BY <1>4, <2>1, <2>2, <2>3, <2>4, <2>5, <2>6 DEF StopStep
  <1>5. ASSUME NEW op \in Ops, WaitStep(op) PROVE HeldInv'
    <2>1. CASE WaitTerminal(op)
      BY <2>1 DEF WaitTerminal, HeldInv
    <2>2. CASE WaitPersist(op)
      BY <2>2 DEF WaitPersist, HeldInv
    <2>3. CASE WaitFinish(op)
      BY <2>3 DEF WaitFinish, HeldInv
    <2> QED BY <1>5, <2>1, <2>2, <2>3 DEF WaitStep
  <1>6. CASE ShutdownStep
    <2>1. CASE ShutdownBegin
      BY <2>1 DEF ShutdownBegin, HeldInv
    <2>2. CASE ShutdownSnapshot
      BY <2>2 DEF ShutdownSnapshot, HeldInv
    <2>3. CASE ShutdownTimeout
      BY <2>3 DEF ShutdownTimeout, HeldInv
    <2>4. CASE ShutdownPersist
      BY <2>4 DEF ShutdownPersist, HeldInv
    <2>5. ASSUME NEW i \in Instances, ShutdownSkip(i) PROVE HeldInv'
      BY <2>5 DEF ShutdownSkip, HeldInv
    <2>6. ASSUME NEW i \in Instances, ShutdownStop(i) PROVE HeldInv'
      BY <2>6, ConstantsAssumption, TargetOf DEF ShutdownStop, BeginStop,
         HeldInv, ClaimInv, TypeOK, Ops
    <2> QED BY <1>6, <2>1, <2>2, <2>3, <2>4, <2>5, <2>6 DEF ShutdownStep
  <1>7. ASSUME NEW r \in Restarts, NEW i \in Instances, RestartLookup(r, i) PROVE HeldInv'
    BY <1>7, ConstantsAssumption, TargetOf DEF RestartLookup, HeldInv,
       ClaimInv, TypeOK, Ops
  <1>8. ASSUME NEW i \in Instances, UserStop(i) PROVE HeldInv'
    BY <1>8, ConstantsAssumption, TargetOf DEF UserStop, BeginStop, HeldInv,
       ClaimInv, TypeOK, Ops
  <1>9. ASSUME NEW i \in Instances, DeleteRecord(i) PROVE HeldInv'
    BY <1>9 DEF DeleteRecord, HeldInv
  <1>10. ASSUME NEW i \in Instances, ForgetCleaned(i) PROVE HeldInv'
    BY <1>10 DEF ForgetCleaned, HeldInv
  <1>11. ASSUME NEW op \in Ops, ProcessExit(op) PROVE HeldInv'
    BY <1>11 DEF ProcessExit, HeldInv
  <1>12. CASE Signal
    BY <1>12 DEF Signal, HeldInv
  <1>13. ASSUME NEW m \in Models, ResolveOrphan(m) PROVE HeldInv'
    BY <1>13 DEF ResolveOrphan, HeldInv
  <1>14. CASE UNCHANGED vars
    BY <1>14, ConstantsAssumption, TargetOf DEF vars, HeldInv, ClaimInv,
       TypeOK, Ops
  <1> QED BY <1>1, <1>2, <1>3, <1>4, <1>5, <1>6, <1>7, <1>8, <1>9, <1>10,
     <1>11, <1>12, <1>13, <1>14 DEF Next

\* A spawned generation gets its wait(), which stays.
LEMMA WaitStepKeeps ==
    ASSUME TypeOK, ClaimInv, WaitInv, [Next]_vars
    PROVE  WaitInv'
  <1>1. ASSUME NEW op \in Ops, OpStep(op) PROVE WaitInv'
    <2>1. CASE ArbCheck(op)
      BY <2>1, ConstantsAssumption DEF ArbCheck, AtArbitrate, WaitInv, TypeOK,
         Ops
    <2>2. CASE ArbReject(op)
      BY <2>2, ConstantsAssumption DEF ArbReject, AtArbitrate, WaitInv, TypeOK,
         Ops
    <2>3. CASE ArbPublish(op)
      BY <2>3, ConstantsAssumption DEF ArbPublish, WaitInv, TypeOK, Ops
    <2>4. CASE AcquireSlot(op)
      BY <2>4, ConstantsAssumption DEF AcquireSlot, WaitInv, TypeOK, Ops
    <2>5. CASE Commit(op)
      BY <2>5, ConstantsAssumption DEF Commit, AtCommit, WaitInv, TypeOK, Ops
    <2>6. CASE CommitAbort(op)
      BY <2>6, ConstantsAssumption DEF CommitAbort, AtCommit, WaitInv, TypeOK,
         Ops
    <2>7. CASE SpawnPersistFails(op)
      BY <2>7, ConstantsAssumption DEF SpawnPersistFails, EndUnspawned,
         WaitInv, TypeOK, Ops
    <2>8. CASE SpawnStartFails(op)
      BY <2>8, ConstantsAssumption DEF SpawnStartFails, EndUnspawned, WaitInv,
         TypeOK, Ops
    <2>9. CASE SpawnOk(op)
      BY <2>9, ConstantsAssumption DEF SpawnOk, WaitInv, TypeOK, Ops
    <2>10. CASE RunningDurable(op)
      BY <2>10, ConstantsAssumption DEF RunningDurable, WaitInv, TypeOK, Ops
    <2>11. CASE RollbackConfirmed(op)
      BY <2>11, ConstantsAssumption DEF RollbackConfirmed, WaitInv, TypeOK, Ops
    <2>12. CASE RollbackResidual(op)
      BY <2>12, ConstantsAssumption DEF RollbackResidual, WaitInv, TypeOK, Ops
    <2> QED BY <1>1, <2>1, <2>2, <2>3, <2>4, <2>5, <2>6, <2>7, <2>8, <2>9,
       <2>10, <2>11, <2>12 DEF OpStep
  <1>2. ASSUME NEW i \in Instances, LaunchStep(i) PROVE WaitInv'
    <2>1. CASE LaunchSlotFails(i)
      BY <2>1, ConstantsAssumption DEF LaunchSlotFails, AbortAdmission,
         WaitInv, TypeOK, Ops
    <2>2. CASE CreateRecord(i)
      BY <2>2, ConstantsAssumption DEF CreateRecord, WaitInv, TypeOK, Ops
    <2>3. CASE CreateRecordFails(i)
      BY <2>3, ConstantsAssumption DEF CreateRecordFails, AbortAdmission,
         WaitInv, TypeOK, Ops
    <2>4. CASE LaunchCleanup(i)
      BY <2>4, ConstantsAssumption DEF LaunchCleanup, WaitInv, TypeOK, Ops
    <2> QED BY <1>2, <2>1, <2>2, <2>3, <2>4 DEF LaunchStep
  <1>3. ASSUME NEW r \in Restarts, RestartStep(r) PROVE WaitInv'
    <2>1. CASE RestartBegin(r)
      BY <2>1, ConstantsAssumption DEF RestartBegin, WaitInv, TypeOK, Ops
    <2>2. CASE RestartStop(r)
      BY <2>2, ConstantsAssumption DEF RestartStop, BeginStop, WaitInv, TypeOK,
         Ops
    <2>3. CASE RestartAwait(r)
      BY <2>3, ConstantsAssumption DEF RestartAwait, WaitInv, TypeOK, Ops
    <2>4. CASE RestartGivesUp(r)
      BY <2>4, ConstantsAssumption DEF RestartGivesUp, WaitInv, TypeOK, Ops
    <2> QED BY <1>3, <2>1, <2>2, <2>3, <2>4 DEF RestartStep
  <1>4. ASSUME NEW i \in Instances, StopStep(i) PROVE WaitInv'
    <2>1. CASE StopSignal(i)
      BY <2>1 DEF StopSignal, WaitInv
    <2>2. CASE StopPersist(i)
      BY <2>2 DEF StopPersist, WaitInv
    <2>3. CASE StopAwait(i)
      BY <2>3 DEF StopAwait, WaitInv
    <2>4. CASE StopTimeout(i)
      BY <2>4 DEF StopTimeout, WaitInv
    <2>5. CASE StopPersistFails(i)
      <3>1. CASE lifecycleMu[i] \in {User, Drain}
        BY <2>5, <3>1, ConstantsAssumption DEF StopPersistFails, StopReturn,
           WaitInv, TypeOK, Ops
      <3>2. ASSUME NEW r \in Restarts, lifecycleMu[i] = r, target[r] = i, pc[r] = "stopOld"
            PROVE  WaitInv'
        BY <2>5, <3>2, ConstantsAssumption DEF StopPersistFails, StopReturn,
           WaitInv, TypeOK, Ops
      <3> QED BY <2>5, <3>1, <3>2 DEF StopPersistFails, ClaimInv, StopInv
    <2>6. CASE StopFinal(i)
      <3>1. CASE lifecycleMu[i] \in {User, Drain}
        BY <2>6, <3>1, ConstantsAssumption DEF StopFinal, StopReturn, WaitInv,
           TypeOK, Ops
      <3>2. ASSUME NEW r \in Restarts, lifecycleMu[i] = r, target[r] = i, pc[r] = "stopOld"
            PROVE  WaitInv'
        BY <2>6, <3>2, ConstantsAssumption DEF StopFinal, StopReturn, WaitInv,
           TypeOK, Ops
      <3> QED BY <2>6, <3>1, <3>2 DEF StopFinal, ClaimInv, StopInv
    <2> QED BY <1>4, <2>1, <2>2, <2>3, <2>4, <2>5, <2>6 DEF StopStep
  <1>5. ASSUME NEW op \in Ops, WaitStep(op) PROVE WaitInv'
    <2>1. CASE WaitTerminal(op)
      BY <2>1, ConstantsAssumption DEF WaitTerminal, WaitInv, TypeOK, Ops
    <2>2. CASE WaitPersist(op)
      BY <2>2, ConstantsAssumption DEF WaitPersist, WaitInv, TypeOK, Ops
    <2>3. CASE WaitFinish(op)
      BY <2>3, ConstantsAssumption DEF WaitFinish, WaitInv, TypeOK, Ops
    <2> QED BY <1>5, <2>1, <2>2, <2>3 DEF WaitStep
  <1>6. CASE ShutdownStep
    <2>1. CASE ShutdownBegin
      BY <2>1 DEF ShutdownBegin, WaitInv
    <2>2. CASE ShutdownSnapshot
      BY <2>2 DEF ShutdownSnapshot, WaitInv
    <2>3. CASE ShutdownTimeout
      BY <2>3 DEF ShutdownTimeout, WaitInv
    <2>4. CASE ShutdownPersist
      BY <2>4 DEF ShutdownPersist, WaitInv
    <2>5. ASSUME NEW i \in Instances, ShutdownSkip(i) PROVE WaitInv'
      BY <2>5 DEF ShutdownSkip, WaitInv
    <2>6. ASSUME NEW i \in Instances, ShutdownStop(i) PROVE WaitInv'
      BY <2>6 DEF ShutdownStop, WaitInv
    <2> QED BY <1>6, <2>1, <2>2, <2>3, <2>4, <2>5, <2>6 DEF ShutdownStep
  <1>7. ASSUME NEW r \in Restarts, NEW i \in Instances, RestartLookup(r, i) PROVE WaitInv'
    BY <1>7, ConstantsAssumption DEF RestartLookup, WaitInv, TypeOK, Ops
  <1>8. ASSUME NEW i \in Instances, UserStop(i) PROVE WaitInv'
    BY <1>8 DEF UserStop, WaitInv
  <1>9. ASSUME NEW i \in Instances, DeleteRecord(i) PROVE WaitInv'
    BY <1>9 DEF DeleteRecord, WaitInv
  <1>10. ASSUME NEW i \in Instances, ForgetCleaned(i) PROVE WaitInv'
    BY <1>10 DEF ForgetCleaned, WaitInv
  <1>11. ASSUME NEW op \in Ops, ProcessExit(op) PROVE WaitInv'
    BY <1>11 DEF ProcessExit, WaitInv
  <1>12. CASE Signal
    BY <1>12 DEF Signal, WaitInv
  <1>13. ASSUME NEW m \in Models, ResolveOrphan(m) PROVE WaitInv'
    BY <1>13 DEF ResolveOrphan, WaitInv
  <1>14. CASE UNCHANGED vars
    BY <1>14, ConstantsAssumption DEF vars, WaitInv, TypeOK, Ops
  <1> QED BY <1>1, <1>2, <1>3, <1>4, <1>5, <1>6, <1>7, <1>8, <1>9, <1>10,
     <1>11, <1>12, <1>13, <1>14 DEF Next

\* Who was rolled back stays so.
LEMMA RolledKept ==
    ASSUME Moves, NEW i, RolledBack(i)
    PROVE  RolledBack(i)'
  BY DEF Moves, RolledBack, Rolled

\* In terms of a generation that keeps its controller.
LEMMA RolledStill ==
    ASSUME Moves, NEW op, target'[op] = target[op], RolledBack(target[op])
    PROVE  RolledBack(target[op])'
  <1>1. PICK i : i = target[op]
    OBVIOUS
  <1>2. RolledBack(i)'
    BY <1>1, RolledKept
  <1> QED BY <1>1, <1>2 DEF RolledBack

\* What may have a process works on an instance.
LEMMA PendingTarget ==
    ASSUME TypeOK, TargetsInv, SlotInv, NEW op \in Ops, Pending(op)
    PROVE  target[op] \in Instances
  <1>1. pc[op] # "idle"
    BY DEF Pending, SlotInv
  <1> QED BY <1>1, TargetOf

\* While a launch has not spawned yet, its controller has no process.
LEMMA LaunchClear ==
    ASSUME TypeOK, TargetsInv, SlotInv, PlacesInv, NEW i \in Instances,
           pc[i] \in LaunchHolds \ {"spawned", "forget"}
    PROVE  Clear(i)
  <1> SUFFICES ASSUME NEW op \in Ops, target[op] = i PROVE ~Pending(op)
    BY DEF Clear
  <1>1. CASE op \in Instances
    <2>1. op = i
      BY <1>1 DEF TargetsInv
    <2> QED BY <2>1 DEF Pending, SlotInv, LaunchHolds
  <1>2. CASE op \in Restarts
    <2>1. pc[op] \in {"idle", "lookedUp", "rejected"}
      BY <1>2 DEF PlacesInv
    <2> QED BY <2>1 DEF Pending, SlotInv
  <1> QED BY <1>1, <1>2 DEF Ops

\* Who is about to spawn has no process before it.
LEMMA ClearAhead ==
    ASSUME TypeOK, TargetsInv, SlotInv, PlacesInv, ClearedInv,
           NEW op \in Ops, pc[op] \in {"ready", "starting"}
    PROVE  Clear(target[op]) \/ RolledBack(target[op])
  <1>1. CASE op \in Instances
    <2>1. target[op] = op
      BY <1>1 DEF TargetsInv
    <2> QED BY <1>1, <2>1, LaunchClear DEF LaunchHolds
  <1>2. CASE op \in Restarts
    BY <1>2 DEF ClearedInv, Ahead
  <1> QED BY <1>1, <1>2 DEF Ops

\* Once a run is settled no process is left.
LEMMA SettledClear ==
    ASSUME NewestInv, ClearedInv, NEW i \in Instances, Settled(i)
    PROVE  Clear(i) \/ RolledBack(i)
  <1> SUFFICES ASSUME ~RolledBack(i), stopPc[i] # "final",
                      NEW op \in Ops, target[op] = i, Pending(op)
               PROVE  FALSE
    BY DEF Clear, ClearedInv
  <1>1. run[i] = op /\ istate[i] \in Live /\ op \notin runDone
    BY DEF NewestInv
  <1> QED BY <1>1, ConstantsAssumption DEF Settled, Live, Terminal

\* A step that moves generations keeps the way of the next one clear.
LEMMA ClearedStep ==
    ASSUME TypeOK, ClaimInv, HeldInv, NewestInv, ClearedInv, Moves
    PROVE  ClearedInv'
  <1> USE DEF ClaimInv
  <1>1. ASSUME NEW i \in Instances, Clear(i) \/ RolledBack(i),
               \A op \in Ops : SpawnOk(op) => target[op] # i
        PROVE  Clear(i)' \/ RolledBack(i)'
    <2>1. CASE RolledBack(i)
      BY <2>1, RolledKept
    <2>2. CASE Clear(i)
      <3>1. ASSUME NEW op \in Ops, target'[op] = i, Pending(op)' PROVE FALSE
        <4>1. CASE SpawnOk(op)
          <5>1. target'[op] = target[op]
            BY <4>1 DEF SpawnOk
          <5> QED BY <1>1, <3>1, <4>1, <5>1
        <4>2. CASE Pending(op) /\ target'[op] = target[op]
          BY <2>2, <3>1, <4>2 DEF Clear
        <4> QED BY <3>1, <4>1, <4>2 DEF Moves
      <3> QED BY <3>1 DEF Clear
    <2> QED BY <1>1, <2>1, <2>2
  <1>2. ASSUME NEW r \in Restarts, pc'[r] \in Ahead
        PROVE  (Clear(target[r]) \/ RolledBack(target[r]))'
    <2>1. /\ pc[r] # "idle" /\ target'[r] = target[r]
          /\ pc[r] \in Ahead \/ Settled(target[r])
      BY <1>2 DEF Moves
    <2>2. target[r] \in Instances
      BY <2>1, TargetOf DEF Ops
    <2>3. Clear(target[r]) \/ RolledBack(target[r])
      BY <2>1, <2>2, SettledClear DEF ClearedInv
    <2>4. ASSUME NEW op \in Ops, SpawnOk(op) PROVE target[op] # target[r]
      <3>1. pc[op] = "starting" /\ pc' = [pc EXCEPT ![op] = "spawned"]
        BY <2>4 DEF SpawnOk
      <3>2. r # op /\ pc[r] \in Ahead
        BY <1>2, <3>1 DEF Ahead, TypeOK, Ops
      <3>3. active[target[r]] = r
        BY <3>2 DEF ClaimHeld, Ahead, RestartHolds
      <3>4. target[op] \in Instances /\ active[target[op]] = op
        <4>1. CASE op \in Instances
          BY <3>1, <4>1 DEF ClaimHeld, LaunchHolds, TargetsInv
        <4>2. CASE op \in Restarts
          BY <3>1, <4>2, TargetOf DEF ClaimHeld, RestartHolds
        <4> QED BY <4>1, <4>2 DEF Ops
      <3> QED BY <3>2, <3>3, <3>4
    <2>5. (Clear(target[r]) \/ RolledBack(target[r]))'
      <3> DEFINE i == target[r]
      <3>1. i \in Instances /\ (Clear(i) \/ RolledBack(i))
               /\ \A op \in Ops : SpawnOk(op) => target[op] # i
        BY <2>2, <2>3, <2>4
      <3>2. PICK j \in Instances : j = i
        BY <3>1
      <3>3. Clear(j)' \/ RolledBack(j)'
        BY <1>1, <3>1, <3>2
      <3>4. j = target'[r]
        BY <2>1, <3>2
      <3> QED BY <3>3, <3>4 DEF Clear, RolledBack
    <2> QED BY <2>5
  <1>3. ASSUME NEW i \in Instances, stopPc'[i] = "final"
        PROVE  Clear(i)' \/ RolledBack(i)'
    <2>1. Clear(i) \/ RolledBack(i)
      BY <1>3, SettledClear DEF Moves
    <2>2. ASSUME NEW op \in Ops, SpawnOk(op) PROVE target[op] # i
      <3>1. pc[op] = "starting" /\ stopPc[i] = "final"
        BY <1>3, <2>2 DEF SpawnOk
      <3>2. lifecycleMu[target[op]] = op
        BY <3>1 DEF HeldInv
      <3> QED BY <3>1, <3>2, ConstantsAssumption DEF StopInv, Ops
    <2> QED BY <1>1, <2>1, <2>2
  <1> QED BY <1>2, <1>3 DEF ClearedInv

\* The generation op is the current one of its controller, published live.
Current(op) ==
    run[target[op]] = op /\ istate[target[op]] \in Live /\ op \notin runDone

\* While a generation may have a process it stays current.
Steady ==
    \A o \in Ops : Pending(o) /\ Current(o) /\ Pending(o)'
        => Current(o)' \/ RolledBack(target[o])'

\* No step takes a generation that may have a process out of its run.
LEMMA SteadyStep ==
    ASSUME TypeOK, ClaimInv, SlotInv, PlacesInv, NewestInv, ClearedInv, Moves, [Next]_vars
    PROVE  Steady
  <1> USE DEF ClaimInv
  <1>1. ASSUME NEW op \in Ops, OpStep(op) PROVE Steady
    <2>1. CASE ArbCheck(op)
      BY <2>1, PendingTarget DEF ArbCheck, AtArbitrate, Steady, Current,
         Pending, SlotInv, Live, TypeOK, Ops
    <2>2. CASE ArbReject(op)
      BY <2>2, PendingTarget DEF ArbReject, AtArbitrate, Steady, Current,
         Pending, SlotInv, Live, TypeOK, Ops
    <2>3. CASE ArbPublish(op)
      BY <2>3, PendingTarget DEF ArbPublish, Steady, Current, Pending, SlotInv,
         Live, TypeOK, Ops
    <2>4. CASE AcquireSlot(op)
      BY <2>4, PendingTarget DEF AcquireSlot, Steady, Current, Pending,
         SlotInv, Live, TypeOK, Ops
    <2>5. CASE Commit(op)
      <3>1. Clear(target[op]) \/ RolledBack(target[op])
        BY <2>5, ClearAhead DEF Commit, AtCommit
      <3>2. CASE RolledBack(target[op])
        <4>1. RolledBack(target[op])'
          BY <2>5, <3>2, RolledStill DEF Commit, AtCommit
        <4> QED BY <2>5, <4>1, PendingTarget DEF Commit, AtCommit, Steady,
           Current, TypeOK, Ops
      <3>3. CASE Clear(target[op])
        BY <2>5, <3>3, PendingTarget DEF Commit, AtCommit, Steady, Current,
           Clear, TypeOK, Ops
      <3> QED BY <3>1, <3>2, <3>3
    <2>6. CASE CommitAbort(op)
      <3>1. Clear(target[op]) \/ RolledBack(target[op])
        BY <2>6, ClearAhead DEF CommitAbort, AtCommit
      <3>2. CASE RolledBack(target[op])
        <4>1. RolledBack(target[op])'
          BY <2>6, <3>2, RolledStill DEF CommitAbort, AtCommit
        <4> QED BY <2>6, <4>1, PendingTarget DEF CommitAbort, AtCommit, Steady,
           Current, TypeOK, Ops
      <3>3. CASE Clear(target[op])
        BY <2>6, <3>3, PendingTarget DEF CommitAbort, AtCommit, Steady, Current,
           Clear, TypeOK, Ops
      <3> QED BY <3>1, <3>2, <3>3
    <2>7. CASE SpawnPersistFails(op)
      BY <2>7, PendingTarget DEF SpawnPersistFails, EndUnspawned, Steady,
         Current, Pending, SlotInv, Live, TypeOK, Ops
    <2>8. CASE SpawnStartFails(op)
      <3>1. Clear(target[op]) \/ RolledBack(target[op])
        BY <2>8, ClearAhead DEF SpawnStartFails, EndUnspawned
      <3>2. CASE RolledBack(target[op])
        <4>1. RolledBack(target[op])'
          BY <2>8, <3>2, RolledStill DEF SpawnStartFails, EndUnspawned
        <4> QED BY <2>8, <4>1, PendingTarget DEF SpawnStartFails, EndUnspawned,
           Steady, Current, TypeOK, Ops
      <3>3. CASE Clear(target[op])
        BY <2>8, <3>3, PendingTarget DEF SpawnStartFails, EndUnspawned, Steady,
           Current, Clear, TypeOK, Ops
      <3> QED BY <3>1, <3>2, <3>3
    <2>9. CASE SpawnOk(op)
      BY <2>9, PendingTarget DEF SpawnOk, Steady, Current, Pending, SlotInv,
         Live, TypeOK, Ops
    <2>10. CASE RunningDurable(op)
      BY <2>10, PendingTarget DEF RunningDurable, Steady, Current, Pending,
         SlotInv, Live, TypeOK, Ops
    <2>11. CASE RollbackConfirmed(op)
      <3>1. RolledBack(target[op])'
        BY <2>11 DEF RollbackConfirmed, RolledBack, TypeOK, Ops
      <3> QED BY <2>11, <3>1, PendingTarget DEF RollbackConfirmed, Steady,
         Current, TypeOK, Ops
    <2>12. CASE RollbackResidual(op)
      BY <2>12, PendingTarget DEF RollbackResidual, Steady, Current, Pending,
         SlotInv, Live, TypeOK, Ops
    <2> QED BY <1>1, <2>1, <2>2, <2>3, <2>4, <2>5, <2>6, <2>7, <2>8, <2>9,
       <2>10, <2>11, <2>12 DEF OpStep
  <1>2. ASSUME NEW i \in Instances, LaunchStep(i) PROVE Steady
    <2>1. CASE LaunchSlotFails(i)
      BY <2>1, PendingTarget DEF LaunchSlotFails, AbortAdmission, Steady,
         Current, Pending, SlotInv, Live, TypeOK, Ops
    <2>2. CASE CreateRecord(i)
      BY <2>2, PendingTarget DEF CreateRecord, Steady, Current, Pending,
         SlotInv, Live, TypeOK, Ops
    <2>3. CASE CreateRecordFails(i)
      BY <2>3, PendingTarget DEF CreateRecordFails, AbortAdmission, Steady,
         Current, Pending, SlotInv, Live, TypeOK, Ops
    <2>4. CASE LaunchCleanup(i)
      <3>1. CASE pc[i] = "cleanup"
        <4>1. Clear(i)
          BY <3>1, LaunchClear DEF LaunchHolds
        <4> QED BY <2>4, <4>1, PendingTarget DEF LaunchCleanup, Steady, Current,
           Clear, TypeOK, Ops
      <3>2. CASE pc[i] # "cleanup"
        BY <2>4, <3>2 DEF LaunchCleanup, Steady, Current
      <3> QED BY <3>1, <3>2
    <2> QED BY <1>2, <2>1, <2>2, <2>3, <2>4 DEF LaunchStep
  <1>3. ASSUME NEW r \in Restarts, RestartStep(r) PROVE Steady
    <2>1. CASE RestartBegin(r)
      BY <2>1, PendingTarget DEF RestartBegin, Steady, Current, Pending,
         SlotInv, Live, TypeOK, Ops
    <2>2. CASE RestartStop(r)
      BY <2>2, PendingTarget DEF RestartStop, BeginStop, Steady, Current,
         Pending, SlotInv, Live, TypeOK, Ops
    <2>3. CASE RestartAwait(r)
      BY <2>3, PendingTarget DEF RestartAwait, Steady, Current, Pending,
         SlotInv, Live, TypeOK, Ops
    <2>4. CASE RestartGivesUp(r)
      BY <2>4, PendingTarget DEF RestartGivesUp, Steady, Current, Pending,
         SlotInv, Live, TypeOK, Ops
    <2> QED BY <1>3, <2>1, <2>2, <2>3, <2>4 DEF RestartStep
  <1>4. ASSUME NEW i \in Instances, StopStep(i) PROVE Steady
    <2>1. CASE StopSignal(i)
      BY <2>1 DEF StopSignal, Steady, Current
    <2>2. CASE StopPersist(i)
      BY <2>2 DEF StopPersist, Steady, Current
    <2>3. CASE StopAwait(i)
      BY <2>3 DEF StopAwait, Steady, Current
    <2>4. CASE StopTimeout(i)
      BY <2>4 DEF StopTimeout, Steady, Current
    <2>5. CASE StopPersistFails(i)
      BY <2>5 DEF StopPersistFails, Steady, Current
    <2>6. CASE StopFinal(i)
      BY <2>6 DEF StopFinal, Steady, Current
    <2> QED BY <1>4, <2>1, <2>2, <2>3, <2>4, <2>5, <2>6 DEF StopStep
  <1>5. ASSUME NEW op \in Ops, WaitStep(op) PROVE Steady
    <2>1. CASE WaitTerminal(op)
      <3>1. RolledBack(target[op]) \/ run[target[op]] = op
        BY <2>1 DEF WaitTerminal, NewestInv, Pending
      <3>2. CASE RolledBack(target[op])
        <4>1. RolledBack(target[op])'
          BY <2>1, <3>2, RolledStill DEF WaitTerminal
        <4> QED BY <2>1, <4>1, PendingTarget DEF WaitTerminal, Steady, Current,
           TypeOK, Ops
      <3>3. CASE run[target[op]] = op
        <4>1. ~Pending(op)'
          BY <2>1 DEF WaitTerminal, Pending, SlotInv, TypeOK
        <4>2. ASSUME NEW o \in Ops, o # op, Pending(o), Current(o) PROVE Current(o)'
          <5>1. target[o] # target[op] /\ target[o] \in Instances
            BY <3>3, <4>2, PendingTarget DEF Current
          <5> QED BY <2>1, <4>2, <5>1 DEF WaitTerminal, Current, TypeOK
        <4> QED BY <4>1, <4>2 DEF Steady
      <3> QED BY <3>1, <3>2, <3>3
    <2>2. CASE WaitPersist(op)
      BY <2>2 DEF WaitPersist, Steady, Current
    <2>3. CASE WaitFinish(op)
      BY <2>3, PendingTarget DEF WaitFinish, Steady, Current, Pending, SlotInv,
         Live, TypeOK, Ops
    <2> QED BY <1>5, <2>1, <2>2, <2>3 DEF WaitStep
  <1>6. CASE ShutdownStep
    <2>1. CASE ShutdownBegin
      BY <2>1 DEF ShutdownBegin, Steady, Current
    <2>2. CASE ShutdownSnapshot
      BY <2>2 DEF ShutdownSnapshot, Steady, Current
    <2>3. CASE ShutdownTimeout
      BY <2>3 DEF ShutdownTimeout, Steady, Current
    <2>4. CASE ShutdownPersist
      BY <2>4 DEF ShutdownPersist, Steady, Current
    <2>5. ASSUME NEW i \in Instances, ShutdownSkip(i) PROVE Steady
      BY <2>5 DEF ShutdownSkip, Steady, Current
    <2>6. ASSUME NEW i \in Instances, ShutdownStop(i) PROVE Steady
      BY <2>6, PendingTarget DEF ShutdownStop, BeginStop, Steady, Current,
         Pending, SlotInv, Live, TypeOK, Ops
    <2> QED BY <1>6, <2>1, <2>2, <2>3, <2>4, <2>5, <2>6 DEF ShutdownStep
  <1>7. ASSUME NEW r \in Restarts, NEW i \in Instances, RestartLookup(r, i) PROVE Steady
    BY <1>7, PendingTarget DEF RestartLookup, Steady, Current, Pending,
       SlotInv, Live, TypeOK, Ops
  <1>8. ASSUME NEW i \in Instances, UserStop(i) PROVE Steady
    BY <1>8, PendingTarget DEF UserStop, BeginStop, Steady, Current, Pending,
       SlotInv, Live, TypeOK, Ops
  <1>9. ASSUME NEW i \in Instances, DeleteRecord(i) PROVE Steady
    BY <1>9 DEF DeleteRecord, Steady, Current
  <1>10. ASSUME NEW i \in Instances, ForgetCleaned(i) PROVE Steady
    BY <1>10 DEF ForgetCleaned, Steady, Current
  <1>11. ASSUME NEW op \in Ops, ProcessExit(op) PROVE Steady
    BY <1>11 DEF ProcessExit, Steady, Current
  <1>12. CASE Signal
    BY <1>12 DEF Signal, Steady, Current
  <1>13. ASSUME NEW m \in Models, ResolveOrphan(m) PROVE Steady
    BY <1>13 DEF ResolveOrphan, Steady, Current
  <1>14. CASE UNCHANGED vars
    BY <1>14, PendingTarget DEF vars, Steady, Current, Pending, SlotInv, Live,
       TypeOK, Ops
  <1> QED BY <1>1, <1>2, <1>3, <1>4, <1>5, <1>6, <1>7, <1>8, <1>9, <1>10,
     <1>11, <1>12, <1>13, <1>14 DEF Next

\* Only the current generation may have a process.
LEMMA NewestStep ==
    ASSUME TypeOK, TargetsInv, SlotInv, RunInv, HeldInv, NewestInv, Moves, Steady
    PROVE  NewestInv'
  <1> SUFFICES ASSUME NEW o \in Ops, Pending(o)'
               PROVE  (RolledBack(target[o]) \/ Current(o))'
    BY DEF NewestInv, Current
  <1>1. CASE SpawnOk(o)
    <2>1. target[o] \in Instances /\ o \notin runDone /\ run[target[o]] = o
      BY <1>1, TargetOf DEF SpawnOk, HeldInv, RunInv, OwnSlot
    <2> QED BY <1>1, <2>1 DEF SpawnOk, Current, Live, TypeOK
  <1>2. CASE Pending(o) /\ target'[o] = target[o]
    <2>1. CASE RolledBack(target[o])
      BY <1>2, <2>1, RolledStill
    <2>2. CASE Current(o)
      BY <1>2, <2>2 DEF Steady
    <2> QED BY <1>2, <2>1, <2>2 DEF NewestInv, Current
  <1> QED BY <1>1, <1>2 DEF Moves

-----------------------------------------------------------------------------
(* Theorems                                                                *)

\* What is proved about generations, on top of IInv.
GenInv ==
    LeakInv /\ PlacesInv /\ HeldInv /\ WaitInv /\ NewestInv /\ ClearedInv

\* Initially nobody holds anything.
LEMMA InitGen == Init => GenInv
  <1> SUFFICES ASSUME Init PROVE GenInv
    OBVIOUS
  <1>1. \A op \in Ops : pc[op] = "idle" /\ waitPc[op] = "none" /\ op \notin slot
                           /\ op \notin runDone
    BY DEF Init
  <1>2. LeakInv
    <2>1. RecordInv /\ MuInv /\ ArbInv
      BY ConstantsAssumption DEF Init, RecordInv, OwnRecord, MuInv, OwnMu,
         ArbInv, OwnLock
    <2>2. RunInv
      BY <1>1 DEF RunInv, OwnSlot
    <2> QED BY <2>1, <2>2 DEF LeakInv
  <1>3. PlacesInv /\ HeldInv /\ WaitInv /\ NewestInv
    BY <1>1 DEF PlacesInv, HeldInv, WaitInv, NewestInv, Pending, Ops
  <1>4. ClearedInv
    BY <1>1 DEF Init, ClearedInv, Ahead, Ops
  <1> QED BY <1>2, <1>3, <1>4 DEF GenInv

\* Every step keeps it.
LEMMA NextGen == IInv /\ GenInv /\ [Next]_vars => GenInv'
  <1> SUFFICES ASSUME IInv, GenInv, [Next]_vars PROVE GenInv'
    OBVIOUS
  <1>1. TypeOK /\ ClaimInv /\ SlotInv /\ TargetsInv
    BY DEF IInv, ClaimInv
  <1>2. LeakInv'
    BY <1>1, RecordStep, MuStep, ArbStep, RunStep DEF GenInv, LeakInv
  <1>3. PlacesInv' /\ HeldInv' /\ WaitInv'
    BY <1>1, PlacesStep, HeldStep, WaitStepKeeps DEF GenInv
  <1>4. Moves
    BY <1>1, MovesStep
  <1>5. ClearedInv'
    BY <1>1, <1>4, ClearedStep DEF GenInv
  <1>6. Steady
    BY <1>1, <1>4, SteadyStep DEF GenInv
  <1>7. NewestInv'
    BY <1>1, <1>4, <1>6, NewestStep DEF GenInv, LeakInv
  <1> QED BY <1>2, <1>3, <1>5, <1>7 DEF GenInv

(* What operations hold, and what is pending when a generation is spawned, is
   as the supervisor's locks, records and runs promise, in every state. *)
THEOREM GenerationsInvariant == Spec => [](IInv /\ GenInv)
  BY InitInv, NextInv, InitGen, NextGen, PTL DEF Spec

(* A finished operation holds no lock and no record, and a slot only while its
   process may live: no error path of startPostAdmit, startCore, stop or
   restartWithRefresh leaks one. *)
THEOREM LeavesNothing == Spec => []NothingLeaks
  <1>1. IInv /\ GenInv => NothingLeaks
    <2> SUFFICES ASSUME IInv, GenInv, NEW op \in Ops
                 PROVE  /\ op \in runDone => op \notin slot
                        /\ pc[op] \in Finished =>
                              /\ \A i \in Instances : active[i] # op /\ lifecycleMu[i] # op
                              /\ \A m \in Models : arbLock[m] # op
                              /\ proc[op] = "none" => op \notin slot
      BY DEF NothingLeaks
    <2>1. OwnRecord(op) /\ OwnMu(op) /\ OwnLock(op) /\ OwnSlot(op)
      BY DEF GenInv, LeakInv, RecordInv, MuInv, ArbInv, RunInv
    <2>2. \A i \in Instances : pc[op] \in Finished => active[i] # op
      BY <2>1 DEF OwnRecord, Finished, LaunchHolds, RestartHolds
    <2>3. \A i \in Instances : pc[op] \in Finished => lifecycleMu[i] # op
      BY <2>1 DEF OwnMu, Finished
    <2>4. \A m \in Models : pc[op] \in Finished => arbLock[m] # op
      BY <2>1 DEF OwnLock, Finished
    <2>5. /\ op \in runDone => op \notin slot
          /\ pc[op] \in Finished /\ proc[op] = "none" => op \notin slot
      BY <2>1 DEF OwnSlot, Finished
    <2> QED BY <2>2, <2>3, <2>4, <2>5
  <1> QED BY <1>1, GenerationsInvariant, PTL

(* manager.Start is never asked to spawn over a process that still lives, unless
   a generation of the controller was rolled back before. *)
THEOREM SpawnsClear == Spec => []SpawnsOverNothing
  <1>1. IInv /\ GenInv => SpawnsOverNothing
    <2> SUFFICES ASSUME IInv, GenInv, NEW op \in Ops, pc[op] = "starting",
                        ~RolledBack(target[op]), NEW o \in Alive
                 PROVE  target[o] # target[op]
      BY DEF SpawnsOverNothing
    <2>1. TypeOK /\ TargetsInv /\ SlotInv /\ PlacesInv /\ ClearedInv /\ WaitInv
      BY DEF IInv, ClaimInv, GenInv
    <2>2. Clear(target[op])
      BY <2>1, ClearAhead
    <2>3. o \in Ops /\ Pending(o)
      <3>1. o \in Ops /\ proc[o] = "alive"
        BY DEF Alive
      <3>2. pc[o] \in {"spawned", "ok", "residual"}
        BY <2>1, <3>1 DEF SlotInv
      <3>3. pc[o] # "spawned" => waitPc[o] # "none"
        BY <2>1, <3>1, <3>2 DEF WaitInv
      <3>4. waitPc[o] \in {"none", "waiting"}
        BY <2>1, <3>1 DEF SlotInv
      <3> QED BY <3>1, <3>3, <3>4 DEF Pending
    <2> QED BY <2>2, <2>3 DEF Clear
  <1> QED BY <1>1, GenerationsInvariant, PTL

-----------------------------------------------------------------------------
(* What leaves the registry                                                *)

\* The run of a controller is that of a generation of its own, which has got
\* past commit C; it is complete unless the generation may have a process.
RunsInv ==
    \A i \in Instances : run[i] # NoOp =>
        /\ run[i] \in Ops /\ target[run[i]] = i
        /\ \/ pc[run[i]] \in {"starting", "spawned", "ok", "residual"}
           \/ run[i] \in runDone

\* Every step keeps the runs so.
LEMMA RunsStep ==
    ASSUME TypeOK, ClaimInv, RunInv, RunsInv, [Next]_vars
    PROVE  RunsInv'
  <1>1. ASSUME NEW op \in Ops, OpStep(op) PROVE RunsInv'
    <2>1. CASE ArbCheck(op)
      BY <2>1, ConstantsAssumption DEF ArbCheck, AtArbitrate, RunsInv, RunInv, OwnSlot,
         TypeOK, Ops
    <2>2. CASE ArbReject(op)
      BY <2>2, ConstantsAssumption DEF ArbReject, AtArbitrate, RunsInv,
         TypeOK, Ops
    <2>3. CASE ArbPublish(op)
      BY <2>3, ConstantsAssumption DEF ArbPublish, Admissible, Restartable,
         ClaimInv, ClaimHeld, LockInv, TargetsInv, Fresh, RunsInv, TypeOK,
         Ops
    <2>4. CASE AcquireSlot(op)
      BY <2>4, ConstantsAssumption DEF AcquireSlot, LaunchPCs, Finished,
         RunsInv, TypeOK, Ops
    <2>5. CASE Commit(op)
      BY <2>5, ConstantsAssumption DEF Commit, AtCommit, RunsInv, TypeOK,
         Ops
    <2>6. CASE CommitAbort(op)
      BY <2>6, ConstantsAssumption DEF CommitAbort, AtCommit, RunsInv,
         TypeOK, Ops
    <2>7. CASE SpawnPersistFails(op)
      BY <2>7, ConstantsAssumption DEF SpawnPersistFails, EndUnspawned,
         RunsInv, TypeOK, Ops
    <2>8. CASE SpawnStartFails(op)
      BY <2>8, ConstantsAssumption DEF SpawnStartFails, EndUnspawned,
         RunsInv, TypeOK, Ops
    <2>9. CASE SpawnOk(op)
      BY <2>9, ConstantsAssumption DEF SpawnOk, RunsInv, TypeOK, Ops
    <2>10. CASE RunningDurable(op)
      BY <2>10, ConstantsAssumption DEF RunningDurable, RunsInv, TypeOK, Ops
    <2>11. CASE RollbackConfirmed(op)
      BY <2>11, ConstantsAssumption DEF RollbackConfirmed, RunsInv, TypeOK,
         Ops
    <2>12. CASE RollbackResidual(op)
      BY <2>12, ConstantsAssumption DEF RollbackResidual, RunsInv, TypeOK,
         Ops
    <2> QED BY <1>1, <2>1, <2>2, <2>3, <2>4, <2>5, <2>6, <2>7, <2>8, <2>9,
       <2>10, <2>11, <2>12 DEF OpStep
  <1>2. ASSUME NEW i \in Instances, LaunchStep(i) PROVE RunsInv'
    <2>1. CASE LaunchSlotFails(i)
      BY <2>1, ConstantsAssumption DEF LaunchSlotFails, AbortAdmission,
         RunsInv, TypeOK, Ops
    <2>2. CASE CreateRecord(i)
      BY <2>2, ConstantsAssumption DEF CreateRecord, RunsInv, TypeOK, Ops
    <2>3. CASE CreateRecordFails(i)
      BY <2>3, ConstantsAssumption DEF CreateRecordFails, AbortAdmission,
         RunsInv, TypeOK, Ops
    <2>4. CASE LaunchCleanup(i)
      BY <2>4, ConstantsAssumption DEF LaunchCleanup, RunsInv, TypeOK, Ops
    <2> QED BY <1>2, <2>1, <2>2, <2>3, <2>4 DEF LaunchStep
  <1>3. ASSUME NEW r \in Restarts, RestartStep(r) PROVE RunsInv'
    <2>1. CASE RestartBegin(r)
      BY <2>1, ConstantsAssumption DEF RestartBegin, RunsInv, TypeOK, Ops
    <2>2. CASE RestartStop(r)
      BY <2>2, ConstantsAssumption DEF RestartStop, BeginStop, RunsInv,
         TypeOK, Ops
    <2>3. CASE RestartAwait(r)
      BY <2>3, ConstantsAssumption DEF RestartAwait, RunsInv, TypeOK, Ops
    <2>4. CASE RestartGivesUp(r)
      BY <2>4, ConstantsAssumption DEF RestartGivesUp, RunsInv, TypeOK, Ops
    <2> QED BY <1>3, <2>1, <2>2, <2>3, <2>4 DEF RestartStep
  <1>4. ASSUME NEW i \in Instances, StopStep(i) PROVE RunsInv'
    <2>1. CASE StopSignal(i)
      BY <2>1 DEF StopSignal, RunsInv
    <2>2. CASE StopPersist(i)
      BY <2>2 DEF StopPersist, RunsInv
    <2>3. CASE StopAwait(i)
      BY <2>3 DEF StopAwait, RunsInv
    <2>4. CASE StopTimeout(i)
      BY <2>4 DEF StopTimeout, RunsInv
    <2>5. CASE StopPersistFails(i)
      <3>1. CASE lifecycleMu[i] \in {User, Drain}
        BY <2>5, <3>1, ConstantsAssumption DEF StopPersistFails, StopReturn,
           RunsInv, TypeOK, Ops
      <3>2. ASSUME NEW r \in Restarts, lifecycleMu[i] = r, target[r] = i, pc[r] = "stopOld"
            PROVE  RunsInv'
        BY <2>5, <3>2, ConstantsAssumption DEF StopPersistFails, StopReturn,
           RunsInv, TypeOK, Ops
      <3> QED BY <2>5, <3>1, <3>2 DEF StopPersistFails, ClaimInv, StopInv
    <2>6. CASE StopFinal(i)
      <3>1. CASE lifecycleMu[i] \in {User, Drain}
        BY <2>6, <3>1, ConstantsAssumption DEF StopFinal, StopReturn, RunsInv,
           TypeOK, Ops
      <3>2. ASSUME NEW r \in Restarts, lifecycleMu[i] = r, target[r] = i, pc[r] = "stopOld"
            PROVE  RunsInv'
        BY SMTT(30), <2>6, <3>2, ConstantsAssumption DEF StopFinal, StopReturn, RunsInv,
           TypeOK, Ops
      <3> QED BY <2>6, <3>1, <3>2 DEF StopFinal, ClaimInv, StopInv
    <2> QED BY <1>4, <2>1, <2>2, <2>3, <2>4, <2>5, <2>6 DEF StopStep
  <1>5. ASSUME NEW op \in Ops, WaitStep(op) PROVE RunsInv'
    <2>1. CASE WaitTerminal(op)
      BY <2>1 DEF WaitTerminal, RunsInv
    <2>2. CASE WaitPersist(op)
      BY <2>2 DEF WaitPersist, RunsInv
    <2>3. CASE WaitFinish(op)
      BY <2>3 DEF WaitFinish, RunsInv
    <2> QED BY <1>5, <2>1, <2>2, <2>3 DEF WaitStep
  <1>6. CASE ShutdownStep
    <2>1. CASE ShutdownBegin
      BY <2>1 DEF ShutdownBegin, RunsInv
    <2>2. CASE ShutdownSnapshot
      BY <2>2 DEF ShutdownSnapshot, RunsInv
    <2>3. CASE ShutdownTimeout
      BY <2>3 DEF ShutdownTimeout, RunsInv
    <2>4. CASE ShutdownPersist
      BY <2>4 DEF ShutdownPersist, RunsInv
    <2>5. ASSUME NEW i \in Instances, ShutdownSkip(i) PROVE RunsInv'
      BY <2>5 DEF ShutdownSkip, RunsInv
    <2>6. ASSUME NEW i \in Instances, ShutdownStop(i) PROVE RunsInv'
      BY <2>6 DEF ShutdownStop, RunsInv
    <2> QED BY <1>6, <2>1, <2>2, <2>3, <2>4, <2>5, <2>6 DEF ShutdownStep
  <1>7. ASSUME NEW r \in Restarts, NEW i \in Instances, RestartLookup(r, i) PROVE RunsInv'
    <2>1. /\ pc[r] = "idle" /\ UNCHANGED <<run, runDone>>
          /\ target' = [target EXCEPT ![r] = i] /\ pc' = [pc EXCEPT ![r] = "lookedUp"]
      BY <1>7 DEF RestartLookup
    <2>2. r \notin runDone
      BY <2>1 DEF RunInv, OwnSlot, Ops
    <2>3. \A j \in Instances : run[j] # r \/ run[j] = NoOp
      BY <2>1, <2>2 DEF RunsInv
    <2> QED BY <2>1, <2>3, ConstantsAssumption DEF RunsInv, TypeOK, Ops
  <1>8. ASSUME NEW i \in Instances, UserStop(i) PROVE RunsInv'
    BY <1>8 DEF UserStop, RunsInv
  <1>9. ASSUME NEW i \in Instances, DeleteRecord(i) PROVE RunsInv'
    BY <1>9 DEF DeleteRecord, RunsInv
  <1>10. ASSUME NEW i \in Instances, ForgetCleaned(i) PROVE RunsInv'
    BY <1>10 DEF ForgetCleaned, RunsInv
  <1>11. ASSUME NEW op \in Ops, ProcessExit(op) PROVE RunsInv'
    BY <1>11 DEF ProcessExit, RunsInv
  <1>12. CASE Signal
    BY <1>12 DEF Signal, RunsInv
  <1>13. ASSUME NEW m \in Models, ResolveOrphan(m) PROVE RunsInv'
    BY <1>13 DEF ResolveOrphan, RunsInv
  <1>14. CASE UNCHANGED vars
    BY <1>14, ConstantsAssumption DEF vars, RunsInv, TypeOK, Ops
  <1> QED BY <1>1, <1>2, <1>3, <1>4, <1>5, <1>6, <1>7, <1>8, <1>9, <1>10,
     <1>11, <1>12, <1>13, <1>14 DEF Next

\* What leaves the registry is out of nobody's reach who needs it.
Leaves(i) ==
    /\ active'[i] \in {NoOp, i}
    /\ run'[i] # NoOp => run'[i] \in runDone'
    /\ \/ \A op \in Ops : target'[op] = i => proc'[op] # "alive"
       \/ RolledBack(i)

\* A live process is one whose wait() has not seen its end.
LEMMA AlivePending ==
    ASSUME SlotInv, WaitInv, NEW op \in Ops, proc[op] = "alive"
    PROVE  Pending(op)
  <1>1. pc[op] \in {"spawned", "ok", "residual"} /\ waitPc[op] \in {"none", "waiting"}
    BY DEF SlotInv
  <1> QED BY <1>1 DEF WaitInv, Pending

\* Until a launch commits its controller has no run, and none but a complete
\* one once its spawn has failed.
LEMMA LaunchRun ==
    ASSUME TypeOK, TargetsInv, RunInv, PlacesInv, RunsInv, NEW i \in Instances,
           pc[i] \in LaunchHolds \ {"starting", "spawned"}
    PROVE  run[i] # NoOp => run[i] \in runDone
  <1> SUFFICES ASSUME run[i] # NoOp, run[i] \notin runDone PROVE FALSE
    OBVIOUS
  <1>1. PICK o \in Ops : /\ o = run[i] /\ target[o] = i
                         /\ pc[o] \in {"starting", "spawned", "ok", "residual"}
    BY DEF RunsInv
  <1>2. CASE o \in Instances
    <2>1. o = i
      BY <1>1, <1>2 DEF TargetsInv
    <2> QED BY <1>1, <2>1 DEF LaunchHolds
  <1>3. CASE o \in Restarts
    BY <1>1, <1>3 DEF PlacesInv, LaunchHolds
  <1> QED BY <1>2, <1>3 DEF Ops

\* A failed launch that unregisters its controller leaves nothing of it.
LEMMA LaunchLeaves ==
    ASSUME IInv, GenInv, RunsInv, NEW i \in Instances,
           pc[i] \in LaunchHolds \ {"starting", "spawned"},
           ReleaseOp(i, i), target' = target, UNCHANGED <<run, runDone, proc>>
    PROVE  Leaves(i)
  <1>1. /\ TypeOK /\ TargetsInv /\ SlotInv /\ ClaimHeld
        /\ RunInv /\ PlacesInv /\ WaitInv
    BY DEF IInv, ClaimInv, GenInv, LeakInv
  <1>2. active'[i] = NoOp
    BY <1>1 DEF ClaimHeld, TypeOK, Ops
  <1>3. run'[i] # NoOp => run'[i] \in runDone'
    BY <1>1, LaunchRun
  <1>4. \/ \A op \in Ops : target'[op] = i => proc'[op] # "alive"
        \/ RolledBack(i)
    <2>1. CASE pc[i] # "forget"
      <3>1. Clear(i)
        BY <1>1, <2>1, LaunchClear
      <3> QED BY <1>1, <3>1, AlivePending DEF Clear
    <2>2. CASE pc[i] = "forget"
      <3>1. target[i] = i /\ i \in Ops /\ waitPc[i] # "none"
        BY <1>1, <2>2 DEF TargetsInv, WaitInv, Ops
      <3> QED BY <2>2, <3>1 DEF RolledBack
    <2> QED BY <2>1, <2>2
  <1> QED BY <1>2, <1>3, <1>4 DEF Leaves

\* The steps that unregister a controller.
LEMMA Unregistering ==
    ASSUME TypeOK, [Next]_vars, NEW i \in registry \ registry'
    PROVE  \/ \E j \in Instances :
                 LaunchSlotFails(j) \/ CreateRecordFails(j) \/ LaunchCleanup(j)
           \/ \E op \in Ops : CommitAbort(op) \/ SpawnPersistFails(op)
           \/ \E j \in Instances : ForgetCleaned(j)
  <1>1. ASSUME NEW op \in Ops, OpStep(op), ~CommitAbort(op), ~SpawnPersistFails(op) PROVE FALSE
    BY <1>1 DEF OpStep, ArbCheck, ArbReject, ArbPublish, AcquireSlot, Commit,
       SpawnStartFails, SpawnOk, RunningDurable, RollbackConfirmed, RollbackResidual
  <1>2. ASSUME NEW op \in Ops, WaitStep(op) \/ ProcessExit(op) PROVE FALSE
    BY <1>2 DEF WaitStep, WaitTerminal, WaitPersist, WaitFinish, ProcessExit
  <1>3. ASSUME NEW j \in Instances, CreateRecord(j) \/ UserStop(j) \/ DeleteRecord(j)
        PROVE  FALSE
    BY <1>3 DEF CreateRecord, UserStop, DeleteRecord
  <1>4. ASSUME NEW j \in Instances, StopStep(j) PROVE FALSE
    BY <1>4 DEF StopStep, StopSignal, StopPersist, StopAwait, StopTimeout,
       StopPersistFails, StopFinal
  <1>5. ASSUME NEW r \in Restarts,
               RestartStep(r) \/ \E j \in Instances : RestartLookup(r, j)
        PROVE  FALSE
    BY <1>5 DEF RestartStep, RestartBegin, RestartStop, RestartAwait,
       RestartGivesUp, RestartLookup
  <1>6. CASE ShutdownStep
    BY <1>6 DEF ShutdownStep, ShutdownBegin, ShutdownSnapshot, ShutdownTimeout,
       ShutdownPersist, ShutdownSkip, ShutdownStop
  <1>7. CASE Signal \/ (\E m \in Models : ResolveOrphan(m)) \/ UNCHANGED vars
    BY <1>7 DEF Signal, ResolveOrphan, vars
  <1> QED BY <1>1, <1>2, <1>3, <1>4, <1>5, <1>6, <1>7 DEF Next, LaunchStep

\* So does every step, launch or not, that unregisters one.
LEMMA LeavesStep ==
    ASSUME IInv, GenInv, RunsInv, [Next]_vars, NEW i \in registry \ registry'
    PROVE  Leaves(i)
  <1>0. /\ TypeOK /\ TargetsInv /\ SlotInv /\ ClaimHeld /\ i \in Instances
        /\ RunInv /\ PlacesInv /\ WaitInv /\ HeldInv /\ ClearedInv
    BY DEF IInv, ClaimInv, GenInv, LeakInv, TypeOK
  <1>1. CASE \E j \in Instances :
                LaunchSlotFails(j) \/ CreateRecordFails(j) \/ LaunchCleanup(j)
    <2>1. PICK j \in Instances :
             LaunchSlotFails(j) \/ CreateRecordFails(j) \/ LaunchCleanup(j)
      BY <1>1
    <2>2. /\ pc[j] \in LaunchHolds \ {"starting", "spawned"}
          /\ registry' = registry \ {j}
          /\ ReleaseOp(j, j) /\ target' = target /\ UNCHANGED <<run, runDone, proc>>
      BY <2>1 DEF LaunchSlotFails, CreateRecordFails, LaunchCleanup,
         AbortAdmission, LaunchHolds
    <2>3. i = j
      BY <2>2
    <2> QED BY <2>2, <2>3, LaunchLeaves
  <1>2. ASSUME NEW op \in Ops, CommitAbort(op) PROVE Leaves(i)
    <2>1. op \in Instances /\ target[op] = op
      BY <1>0, <1>2 DEF CommitAbort, TargetsInv
    <2>2. /\ pc[op] \in LaunchHolds \ {"starting", "spawned"} /\ i = op
          /\ ReleaseOp(op, op) /\ target' = target /\ UNCHANGED <<run, runDone, proc>>
      BY <1>2, <2>1 DEF CommitAbort, AtCommit, LaunchHolds
    <2> QED BY <2>1, <2>2, LaunchLeaves
  <1>3. ASSUME NEW op \in Ops, SpawnPersistFails(op) PROVE Leaves(i)
    <2>1. /\ target[op] = i /\ pc[op] = "starting" /\ target' = target
          /\ UNCHANGED <<run, proc>> /\ runDone' = runDone \cup {op}
      BY <1>3 DEF SpawnPersistFails, EndUnspawned
    <2>2. run'[i] = op /\ op \in runDone'
      BY <1>0, <2>1 DEF HeldInv
    <2>3. active'[i] \in {NoOp, i}
      <3>1. CASE op \in Instances
        <4>1. op = i /\ active[i] = i /\ active' = active
          BY <1>0, <1>3, <2>1, <3>1 DEF SpawnPersistFails, EndUnspawned, TargetsInv,
             ClaimHeld, LaunchHolds
        <4> QED BY <4>1
      <3>2. CASE op \in Restarts
        <4>1. active[i] = op
          BY <1>0, <2>1, <3>2 DEF ClaimHeld, RestartHolds
        <4>2. active' = [active EXCEPT ![i] = NoOp]
          BY <1>3, <2>1, <3>2, <4>1, ConstantsAssumption DEF SpawnPersistFails,
             EndUnspawned
        <4> QED BY <1>0, <4>2 DEF TypeOK
      <3> QED BY <3>1, <3>2 DEF Ops
    <2>4. Clear(i) \/ RolledBack(i)
      BY <1>0, <2>1, ClearAhead
    <2>5. Clear(i) => \A o \in Ops : target'[o] = i => proc'[o] # "alive"
      BY <1>0, <2>1, AlivePending DEF Clear
    <2> QED BY <2>2, <2>3, <2>4, <2>5 DEF Leaves
  <1>4. ASSUME NEW j \in Instances, ForgetCleaned(j) PROVE Leaves(i)
    <2>1. i = j
      BY <1>4 DEF ForgetCleaned
    <2> QED BY <1>4, <2>1 DEF ForgetCleaned, Leaves
  <1> QED BY <1>0, <1>1, <1>2, <1>3, <1>4, Unregistering

(* Failed launches, failed writes of starting and cleanup on stale lists never
   unregister a controller that a restart has reserved or whose run goes on,
   nor one with a live process, unless it was rolled back before. *)
THEOREM OwnedStays == Spec => OwnedStayRegistered
  <1>1. Init => RunsInv
    BY DEF Init, RunsInv
  <1>2. IInv /\ GenInv /\ RunsInv /\ [Next]_vars => RunsInv'
    BY RunsStep DEF IInv, GenInv, LeakInv
  <1>3. IInv /\ GenInv /\ RunsInv /\ [Next]_vars =>
           [\A i \in registry \ registry' : Leaves(i)]_vars
    BY LeavesStep
  <1>4. [\A i \in registry \ registry' : Leaves(i)]_vars =>
           [\A i \in registry \ registry' :
              /\ active'[i] \in {NoOp, i}
              /\ run'[i] # NoOp => run'[i] \in runDone'
              /\ \/ \A op \in Ops : target'[op] = i => proc'[op] # "alive"
                 \/ RolledBack(i)]_vars
    BY DEF Leaves
  <1> QED BY <1>1, <1>2, <1>3, <1>4, GenerationsInvariant, PTL DEF Spec, OwnedStayRegistered
=============================================================================
