-------------------------- MODULE SupervisorProofs --------------------------
(***************************************************************************)
(* Theorems about Supervisor, for all instances, restarts, models, owners  *)
(* and concurrency limits.  IInv of SupervisorProperties is inductive; the *)
(* type invariant, VisibleExclusion, ClaimHeld, DrainAccounting and        *)
(* LiveHoldsSlot follow from it, and so does the refinement of             *)
(* ModelExclusion.                                                         *)
(***************************************************************************)
EXTENDS SupervisorProperties, FiniteSetTheorems, TLAPS

USE DEF opVars, ctrlVars, drainVars, genVars, lockVars, shutVars, envVars,
        Goto, ReleaseOp, Unlock

\* A step takes controllers out of sight one by one and brings none in sight.
Shrinks ==
    /\ \A i \in Instances : Visible(i)' => Visible(i)
    /\ \A i, j \in Instances :
          Visible(i) /\ ~Visible(i)' /\ Visible(j) /\ ~Visible(j)' => i = j

\* The only step that brings a controller in sight.
Publishes(op) == ArbPublish(op) /\ ~draining

\* An operation enters arbitration by its checks only.
Enters ==
    \A o \in Ops : pc'[o] = "arbitrating" =>
        ArbCheck(o) \/ (pc[o] = "arbitrating" /\ target'[o] = target[o])

\* What a stop that returns does to the restart r that called it.
ReturnsTo(r, i) ==
    /\ pc[r] = "stopOld" /\ target[r] = i
    /\ \/ pc' = [pc EXCEPT ![r] = "needSlot"] /\ UNCHANGED active
       \/ pc' = [pc EXCEPT ![r] = "failed"] /\ ReleaseOp(r, i)

\* What TypeOK says of where the operations are.
PcTyped ==
    /\ pc \in [Ops -> LaunchPCs \cup RestartPCs]
    /\ \A i \in Instances : pc[i] \in LaunchPCs
    /\ \A r \in Restarts : pc[r] \in RestartPCs

-----------------------------------------------------------------------------
(* Lemmas about the state                                                  *)

\* A launch that moves to a place of launches keeps every place typed.
LEMMA GotoLaunch ==
    ASSUME TypeOK, NEW op \in Instances, NEW l \in LaunchPCs, Goto(op, l)
    PROVE  PcTyped'
  <1>1. op \notin Restarts
    BY ConstantsAssumption
  <1> QED BY <1>1 DEF PcTyped, TypeOK, Ops

\* A restart that moves to a place of restarts keeps every place typed.
LEMMA GotoRestart ==
    ASSUME TypeOK, NEW op \in Restarts, NEW l \in RestartPCs, Goto(op, l)
    PROVE  PcTyped'
  <1>1. op \notin Instances
    BY ConstantsAssumption
  <1> QED BY <1>1 DEF PcTyped, TypeOK, Ops

\* An operation under way works on an instance.
LEMMA TargetOf ==
    ASSUME TypeOK, TargetsInv, NEW op \in Ops, pc[op] # "idle" \/ op \in Instances
    PROVE  target[op] \in Instances
  BY DEF TargetsInv, Ops, TypeOK

\* A stop returns to a user, to Shutdown, or to the one restart that waits.
LEMMA StopReturns ==
    ASSUME TypeOK, ClaimInv, NEW i \in Instances, stopPc[i] # "none",
           NEW ok \in BOOLEAN, StopReturn(i, ok)
    PROVE  UNCHANGED <<pc, active>> \/ \E r \in Restarts : ReturnsTo(r, i)
  <1>1. CASE lifecycleMu[i] \in {User, Drain}
    BY <1>1, ConstantsAssumption DEF StopReturn, Ops
  <1>2. ASSUME NEW r \in Restarts, lifecycleMu[i] = r, target[r] = i, pc[r] = "stopOld"
        PROVE  ReturnsTo(r, i)
    BY <1>2 DEF StopReturn, ReturnsTo
  <1> QED BY <1>1, <1>2 DEF ClaimInv, StopInv

\* Taking a free slot respects the limit.
LEMMA SlotTaken ==
    ASSUME TypeOK, SlotInv, SlotFree, NEW op \in Ops
    PROVE  /\ IsFiniteSet(slot \cup {op})
           /\ MaxConcurrent # 0 => Cardinality(slot \cup {op}) <= MaxConcurrent
  <1>1. IsFiniteSet(slot) /\ Cardinality(slot) \in Nat
    BY FS_CardinalityType DEF SlotInv
  <1>2. /\ IsFiniteSet(slot \cup {op})
        /\ Cardinality(slot \cup {op}) \in {Cardinality(slot), Cardinality(slot) + 1}
    BY <1>1, FS_AddElement
  <1> QED BY <1>1, <1>2, ConstantsAssumption DEF SlotFree, SlotInv

\* Returning a slot respects the limit.
LEMMA SlotReturned ==
    ASSUME TypeOK, SlotInv, NEW op \in Ops
    PROVE  IsFiniteSet(slot \ {op}) /\ Cardinality(slot \ {op}) <= MaxConcurrent
  <1>1. IsFiniteSet(slot) /\ Cardinality(slot) \in Nat
    BY FS_CardinalityType DEF SlotInv
  <1>2. /\ IsFiniteSet(slot \ {op})
        /\ Cardinality(slot \ {op}) \in {Cardinality(slot), Cardinality(slot) - 1}
    BY <1>1, FS_RemoveElement
  <1> QED BY <1>1, <1>2, ConstantsAssumption DEF SlotInv

\* The pre-spawn tokens are finitely many.
LEMMA TokensFinite == ASSUME TypeOK PROVE IsFiniteSet(tokens)
  BY ConstantsAssumption, FS_Subset DEF TypeOK

\* A token that is out is counted.
LEMMA TokenCounted ==
    ASSUME TypeOK, TokenInv, NEW i \in tokens
    PROVE  preSpawnInFlight - 1 \in Nat
  <1>1. Cardinality(tokens) # 0
    BY TokensFinite, FS_EmptySet
  <1> QED BY <1>1 DEF TokenInv, TypeOK

\* Steps outside the pre-spawn window leave the accounting alone.
LEMMA TokensKept ==
    ASSUME TokenInv, UNCHANGED drainVars,
           \A i \in Instances : pc'[i] \in PreSpawn <=> pc[i] \in PreSpawn
    PROVE  TokenInv'
  <1>1. tokens' = {i \in Instances : pc'[i] \in PreSpawn}
    BY DEF TokenInv
  <1> QED BY <1>1 DEF TokenInv, PreSpawn

\* Consuming a token, or finding it consumed, keeps the accounting.
LEMMA TokenConsumed ==
    ASSUME TypeOK, TokenInv, NEW i \in Instances, ConsumeToken(i)
    PROVE  /\ tokens' = tokens \ {i}
           /\ preSpawnInFlight' = Cardinality(tokens')
           /\ zeroSig' => draining' /\ preSpawnInFlight' = 0
  <1>1. IsFiniteSet(tokens) /\ preSpawnInFlight \in Nat
    BY TokensFinite DEF TypeOK
  <1>2. CASE i \in tokens
    <2>1. Cardinality(tokens \ {i}) = Cardinality(tokens) - 1
      BY <1>1, <1>2, FS_RemoveElement
    <2>2. ~zeroSig
      <3>1. Cardinality(tokens) # 0
        BY <1>1, <1>2, FS_EmptySet
      <3> QED BY <3>1 DEF TokenInv
    <2>3. /\ tokens' = tokens \ {i} /\ preSpawnInFlight' = preSpawnInFlight - 1
          /\ draining' = draining
          /\ zeroSig' => draining /\ preSpawnInFlight = 1
      BY <1>2, <2>2 DEF ConsumeToken
    <2> QED BY <1>1, <2>1, <2>3 DEF TokenInv
  <1>3. CASE i \notin tokens
    <2>1. tokens \ {i} = tokens
      BY <1>3
    <2> QED BY <1>3, <2>1 DEF ConsumeToken, TokenInv
  <1> QED BY <1>2, <1>3

-----------------------------------------------------------------------------
(* Steps                                                                   *)

\* Restarts keep working on controllers that were published.
LEMMA TargetsStep ==
    ASSUME TypeOK, ClaimInv, [Next]_vars
    PROVE  TargetsInv'
  <1> USE DEF ClaimInv
  <1>1. ASSUME NEW op \in Ops, OpStep(op) PROVE TargetsInv'
    <2>1. CASE ArbCheck(op)
      BY <2>1, ConstantsAssumption DEF ArbCheck, AtArbitrate, TargetsInv,
           Fresh, TypeOK, Ops
    <2>2. CASE ArbReject(op)
      BY <2>2, ConstantsAssumption DEF ArbReject, AtArbitrate, TargetsInv,
           Fresh, TypeOK, Ops
    <2>3. CASE ArbPublish(op)
      BY <2>3, ConstantsAssumption DEF ArbPublish, TargetsInv, Fresh, TypeOK,
           Ops
    <2>4. CASE AcquireSlot(op)
      BY <2>4 DEF AcquireSlot, TargetsInv, Fresh, TypeOK, Ops
    <2>5. CASE Commit(op)
      BY <2>5 DEF Commit, AtCommit, TargetsInv, Fresh, TypeOK, Ops
    <2>6. CASE CommitAbort(op)
      <3>1. pc' = [pc EXCEPT ![op] = "failed"] /\ UNCHANGED target
        BY <2>6 DEF CommitAbort
      <3>2. registry' \subseteq registry
        BY <2>6 DEF CommitAbort
      <3>3. \A j \in Instances : active'[j] \in {active[j], NoOp}
        BY <2>6 DEF CommitAbort, TypeOK
      <3>4. op \in Instances => ~Fresh(op)
        BY <2>6 DEF CommitAbort, AtCommit, Fresh
      <3>5. \A j \in Instances : Fresh(j)' <=> Fresh(j)
        BY <3>1, <3>4 DEF Fresh, TypeOK, Ops
      <3>6. \A q \in Restarts : pc'[q] # "idle" => pc[q] # "idle"
        BY <2>6, <3>1 DEF CommitAbort, AtCommit, TypeOK, Ops
      <3> QED BY <3>1, <3>2, <3>3, <3>5, <3>6 DEF TargetsInv
    <2>7. CASE SpawnPersistFails(op)
      BY <2>7 DEF SpawnPersistFails, EndUnspawned, TargetsInv, Fresh, TypeOK,
           Ops
    <2>8. CASE SpawnStartFails(op)
      BY <2>8 DEF SpawnStartFails, EndUnspawned, TargetsInv, Fresh, TypeOK, Ops
    <2>9. CASE SpawnOk(op)
      BY <2>9 DEF SpawnOk, TargetsInv, Fresh, TypeOK, Ops
    <2>10. CASE RunningDurable(op)
      BY <2>10 DEF RunningDurable, TargetsInv, Fresh, TypeOK, Ops
    <2>11. CASE RollbackConfirmed(op)
      BY <2>11 DEF RollbackConfirmed, TargetsInv, Fresh, TypeOK, Ops
    <2>12. CASE RollbackResidual(op)
      BY <2>12 DEF RollbackResidual, TargetsInv, Fresh, TypeOK, Ops
    <2> QED BY <1>1, <2>1, <2>2, <2>3, <2>4, <2>5, <2>6, <2>7, <2>8, <2>9, <2>10,
      <2>11, <2>12 DEF OpStep
  <1>2. ASSUME NEW i \in Instances, LaunchStep(i) PROVE TargetsInv'
    <2>1. CASE LaunchSlotFails(i)
      BY <2>1 DEF LaunchSlotFails, AbortAdmission, TargetsInv, Fresh, TypeOK,
           Ops
    <2>2. CASE CreateRecord(i)
      BY <2>2 DEF CreateRecord, TargetsInv, Fresh, TypeOK, Ops
    <2>3. CASE CreateRecordFails(i)
      BY <2>3 DEF CreateRecordFails, AbortAdmission, TargetsInv, Fresh, TypeOK,
           Ops
    <2>4. CASE LaunchCleanup(i)
      BY <2>4 DEF LaunchCleanup, TargetsInv, Fresh, TypeOK, Ops
    <2> QED BY <1>2, <2>1, <2>2, <2>3, <2>4 DEF LaunchStep
  <1>3. ASSUME NEW r \in Restarts, RestartStep(r) PROVE TargetsInv'
    <2>1. CASE RestartBegin(r)
      BY <2>1 DEF RestartBegin, TargetsInv, Fresh, TypeOK, Ops
    <2>2. CASE RestartStop(r)
      BY <2>2 DEF RestartStop, TargetsInv, Fresh, TypeOK, Ops
    <2>3. CASE RestartAwait(r)
      BY <2>3 DEF RestartAwait, TargetsInv, Fresh, TypeOK, Ops
    <2>4. CASE RestartGivesUp(r)
      BY <2>4 DEF RestartGivesUp, TargetsInv, Fresh, TypeOK, Ops
    <2> QED BY <1>3, <2>1, <2>2, <2>3, <2>4 DEF RestartStep
  <1>4. ASSUME NEW i \in Instances, StopStep(i) PROVE TargetsInv'
    <2>1. CASE StopSignal(i)
      BY <2>1 DEF StopSignal, TargetsInv, Fresh, TypeOK, Ops
    <2>2. CASE StopPersist(i)
      BY <2>2 DEF StopPersist, TargetsInv, Fresh, TypeOK, Ops
    <2>3. CASE StopAwait(i)
      BY <2>3 DEF StopAwait, TargetsInv, Fresh, TypeOK, Ops
    <2>4. CASE StopTimeout(i)
      BY <2>4 DEF StopTimeout, TargetsInv, Fresh, TypeOK, Ops
    <2>5. CASE StopPersistFails(i)
      <3>1. CASE UNCHANGED <<pc, active>>
        BY <2>5, <3>1 DEF StopPersistFails, TargetsInv, Fresh, TypeOK, Ops
      <3>2. ASSUME NEW r \in Restarts, ReturnsTo(r, i) PROVE TargetsInv'
        BY <2>5, <3>2, ConstantsAssumption
          DEF StopPersistFails, ReturnsTo, TargetsInv, Fresh, TypeOK, Ops
      <3> QED BY <2>5, <3>1, <3>2, StopReturns DEF StopPersistFails
    <2>6. CASE StopFinal(i)
      <3>1. CASE UNCHANGED <<pc, active>>
        BY <2>6, <3>1 DEF StopFinal, TargetsInv, Fresh, TypeOK, Ops
      <3>2. ASSUME NEW r \in Restarts, ReturnsTo(r, i) PROVE TargetsInv'
        BY <2>6, <3>2, ConstantsAssumption
          DEF StopFinal, ReturnsTo, TargetsInv, Fresh, TypeOK, Ops
      <3> QED BY <2>6, <3>1, <3>2, StopReturns DEF StopFinal
    <2> QED BY <1>4, <2>1, <2>2, <2>3, <2>4, <2>5, <2>6 DEF StopStep
  <1>5. ASSUME NEW op \in Ops, WaitStep(op) PROVE TargetsInv'
    <2>1. CASE WaitTerminal(op)
      BY <2>1 DEF WaitTerminal, TargetsInv, Fresh, TypeOK, Ops
    <2>2. CASE WaitPersist(op)
      BY <2>2 DEF WaitPersist, TargetsInv, Fresh, TypeOK, Ops
    <2>3. CASE WaitFinish(op)
      BY <2>3 DEF WaitFinish, TargetsInv, Fresh, TypeOK, Ops
    <2> QED BY <1>5, <2>1, <2>2, <2>3 DEF WaitStep
  <1>6. CASE ShutdownStep
    <2>1. CASE ShutdownBegin
      BY <2>1 DEF ShutdownBegin, TargetsInv, Fresh, TypeOK, Ops
    <2>2. CASE ShutdownSnapshot
      BY <2>2 DEF ShutdownSnapshot, TargetsInv, Fresh, TypeOK, Ops
    <2>3. CASE ShutdownTimeout
      BY <2>3 DEF ShutdownTimeout, TargetsInv, Fresh, TypeOK, Ops
    <2>4. CASE ShutdownPersist
      BY <2>4 DEF ShutdownPersist, TargetsInv, Fresh, TypeOK, Ops
    <2>5. ASSUME NEW i \in Instances, ShutdownSkip(i) PROVE TargetsInv'
      BY <2>5 DEF ShutdownSkip, TargetsInv, Fresh, TypeOK, Ops
    <2>6. ASSUME NEW i \in Instances, ShutdownStop(i) PROVE TargetsInv'
      BY <2>6 DEF ShutdownStop, TargetsInv, Fresh, TypeOK, Ops
    <2> QED BY <1>6, <2>1, <2>2, <2>3, <2>4, <2>5, <2>6 DEF ShutdownStep
  <1>7. ASSUME NEW r \in Restarts, NEW i \in Instances, RestartLookup(r, i)
        PROVE  TargetsInv'
    BY <1>7, ConstantsAssumption DEF RestartLookup, TargetsInv, Fresh, TypeOK,
         Ops
  <1>8. ASSUME NEW i \in Instances, UserStop(i) PROVE TargetsInv'
    BY <1>8 DEF UserStop, TargetsInv, Fresh, TypeOK, Ops
  <1>9. ASSUME NEW i \in Instances, DeleteRecord(i) PROVE TargetsInv'
    BY <1>9 DEF DeleteRecord, TargetsInv, Fresh, TypeOK, Ops
  <1>10. ASSUME NEW i \in Instances, ForgetCleaned(i) PROVE TargetsInv'
    BY <1>10 DEF ForgetCleaned, TargetsInv, Fresh, TypeOK, Ops
  <1>11. ASSUME NEW op \in Ops, ProcessExit(op) PROVE TargetsInv'
    BY <1>11 DEF ProcessExit, TargetsInv, Fresh, TypeOK, Ops
  <1>12. CASE Signal
    BY <1>12 DEF Signal, TargetsInv, Fresh, TypeOK, Ops
  <1>13. ASSUME NEW m \in Models, ResolveOrphan(m) PROVE TargetsInv'
    BY <1>13 DEF ResolveOrphan, TargetsInv, Fresh, TypeOK, Ops
  <1>14. CASE UNCHANGED vars
    BY <1>14 DEF vars, TargetsInv, Fresh, TypeOK, Ops
  <1> QED
    BY <1>1, <1>2, <1>3, <1>4, <1>5, <1>6, <1>7,
       <1>8, <1>9, <1>10, <1>11, <1>12, <1>13, <1>14 DEF Next

\* What arbitration holds, no other operation takes.
LEMMA LockStep ==
    ASSUME TypeOK, ClaimInv, [Next]_vars
    PROVE  LockInv' /\ Enters
  <1> USE DEF ClaimInv
  <1>1. ASSUME NEW op \in Ops, OpStep(op) PROVE LockInv' /\ Enters
    <2>1. CASE ArbCheck(op)
      <3>1. target[op] \in Instances /\ active[target[op]] = NoOp
        BY <2>1, TargetOf DEF ArbCheck, AtArbitrate, Admissible, Restartable,
             TargetsInv, Fresh, Ops
      <3>2. \A o \in Ops : pc[o] = "arbitrating" => target[o] \in Instances
        BY TargetOf
      <3> QED
        <4>1. LockInv'
          BY <2>1, <3>1, <3>2, ConstantsAssumption DEF ArbCheck, LockInv, TypeOK, Ops
        <4>2. Enters
          BY ZenonT(40), <2>1 DEF ArbCheck, Enters, TypeOK
        <4> QED BY <4>1, <4>2
    <2>2. CASE ArbReject(op)
      BY <2>2, TargetOf DEF ArbReject, AtArbitrate, Enters, LockInv, TypeOK, Ops
    <2>3. CASE ArbPublish(op)
      BY <2>3, TargetOf, ConstantsAssumption DEF ArbPublish, Enters, LockInv,
           TypeOK, Ops
    <2>4. CASE AcquireSlot(op)
      BY <2>4, TargetOf DEF AcquireSlot, Enters, LockInv, TypeOK, Ops
    <2>5. CASE Commit(op)
      BY <2>5, TargetOf DEF Commit, AtCommit, Enters, LockInv, TypeOK, Ops
    <2>6. CASE CommitAbort(op)
      BY <2>6, TargetOf DEF CommitAbort, AtCommit, Enters, LockInv, TypeOK, Ops
    <2>7. CASE SpawnPersistFails(op)
      BY <2>7, TargetOf DEF SpawnPersistFails, EndUnspawned, Enters, LockInv,
           TypeOK, Ops
    <2>8. CASE SpawnStartFails(op)
      BY <2>8, TargetOf DEF SpawnStartFails, EndUnspawned, Enters, LockInv,
           TypeOK, Ops
    <2>9. CASE SpawnOk(op)
      BY <2>9, TargetOf DEF SpawnOk, Enters, LockInv, TypeOK, Ops
    <2>10. CASE RunningDurable(op)
      BY <2>10, TargetOf DEF RunningDurable, Enters, LockInv, TypeOK, Ops
    <2>11. CASE RollbackConfirmed(op)
      BY <2>11, TargetOf DEF RollbackConfirmed, Enters, LockInv, TypeOK, Ops
    <2>12. CASE RollbackResidual(op)
      BY <2>12, TargetOf DEF RollbackResidual, Enters, LockInv, TypeOK, Ops
    <2> QED BY <1>1, <2>1, <2>2, <2>3, <2>4, <2>5, <2>6, <2>7, <2>8, <2>9, <2>10,
      <2>11, <2>12 DEF OpStep
  <1>2. ASSUME NEW i \in Instances, LaunchStep(i) PROVE LockInv' /\ Enters
    <2>1. CASE LaunchSlotFails(i)
      BY <2>1 DEF LaunchSlotFails, AbortAdmission, Enters, LockInv, TypeOK, Ops
    <2>2. CASE CreateRecord(i)
      BY <2>2 DEF CreateRecord, Enters, LockInv, TypeOK, Ops
    <2>3. CASE CreateRecordFails(i)
      BY <2>3 DEF CreateRecordFails, AbortAdmission, Enters, LockInv, TypeOK,
           Ops
    <2>4. CASE LaunchCleanup(i)
      BY <2>4 DEF LaunchCleanup, Enters, LockInv, TypeOK, Ops
    <2> QED BY <1>2, <2>1, <2>2, <2>3, <2>4 DEF LaunchStep
  <1>3. ASSUME NEW r \in Restarts, RestartStep(r) PROVE LockInv' /\ Enters
    <2>1. CASE RestartBegin(r)
      BY <2>1, TargetOf DEF RestartBegin, Enters, LockInv, TypeOK, Ops
    <2>2. CASE RestartStop(r)
      BY <2>2, TargetOf DEF RestartStop, Enters, LockInv, TypeOK, Ops
    <2>3. CASE RestartAwait(r)
      BY <2>3, TargetOf DEF RestartAwait, Enters, LockInv, TypeOK, Ops
    <2>4. CASE RestartGivesUp(r)
      BY <2>4, TargetOf DEF RestartGivesUp, Enters, LockInv, TypeOK, Ops
    <2> QED BY <1>3, <2>1, <2>2, <2>3, <2>4 DEF RestartStep
  <1>4. ASSUME NEW i \in Instances, StopStep(i) PROVE LockInv' /\ Enters
    <2>1. CASE StopSignal(i)
      BY <2>1 DEF StopSignal, Enters, LockInv, TypeOK, Ops
    <2>2. CASE StopPersist(i)
      BY <2>2 DEF StopPersist, Enters, LockInv, TypeOK, Ops
    <2>3. CASE StopAwait(i)
      BY <2>3 DEF StopAwait, Enters, LockInv, TypeOK, Ops
    <2>4. CASE StopTimeout(i)
      BY <2>4 DEF StopTimeout, Enters, LockInv, TypeOK, Ops
    <2>5. CASE StopPersistFails(i)
      <3>1. CASE UNCHANGED <<pc, active>>
        BY TargetOf, <2>5, <3>1 DEF StopPersistFails, Enters, LockInv, TypeOK, Ops
      <3>2. ASSUME NEW r \in Restarts, ReturnsTo(r, i) PROVE LockInv' /\ Enters
        BY TargetOf, <2>5, <3>2, ConstantsAssumption
          DEF StopPersistFails, ReturnsTo, Enters, LockInv, TypeOK, Ops
      <3> QED BY <2>5, <3>1, <3>2, StopReturns DEF StopPersistFails
    <2>6. CASE StopFinal(i)
      <3>1. CASE UNCHANGED <<pc, active>>
        BY TargetOf, <2>6, <3>1 DEF StopFinal, Enters, LockInv, TypeOK, Ops
      <3>2. ASSUME NEW r \in Restarts, ReturnsTo(r, i) PROVE LockInv' /\ Enters
        BY TargetOf, <2>6, <3>2, ConstantsAssumption
          DEF StopFinal, ReturnsTo, Enters, LockInv, TypeOK, Ops
      <3> QED BY <2>6, <3>1, <3>2, StopReturns DEF StopFinal
    <2> QED BY <1>4, <2>1, <2>2, <2>3, <2>4, <2>5, <2>6 DEF StopStep
  <1>5. ASSUME NEW op \in Ops, WaitStep(op) PROVE LockInv' /\ Enters
    <2>1. CASE WaitTerminal(op)
      BY <2>1, TargetOf DEF WaitTerminal, Enters, LockInv, TypeOK, Ops
    <2>2. CASE WaitPersist(op)
      BY <2>2, TargetOf DEF WaitPersist, Enters, LockInv, TypeOK, Ops
    <2>3. CASE WaitFinish(op)
      BY <2>3, TargetOf DEF WaitFinish, Enters, LockInv, TypeOK, Ops
    <2> QED BY <1>5, <2>1, <2>2, <2>3 DEF WaitStep
  <1>6. CASE ShutdownStep
    <2>1. CASE ShutdownBegin
      BY <2>1 DEF ShutdownBegin, Enters, LockInv, TypeOK, Ops
    <2>2. CASE ShutdownSnapshot
      BY <2>2 DEF ShutdownSnapshot, Enters, LockInv, TypeOK, Ops
    <2>3. CASE ShutdownTimeout
      BY <2>3 DEF ShutdownTimeout, Enters, LockInv, TypeOK, Ops
    <2>4. CASE ShutdownPersist
      BY <2>4 DEF ShutdownPersist, Enters, LockInv, TypeOK, Ops
    <2>5. ASSUME NEW i \in Instances, ShutdownSkip(i) PROVE LockInv' /\ Enters
      BY <2>5 DEF ShutdownSkip, Enters, LockInv, TypeOK, Ops
    <2>6. ASSUME NEW i \in Instances, ShutdownStop(i) PROVE LockInv' /\ Enters
      BY <2>6 DEF ShutdownStop, Enters, LockInv, TypeOK, Ops
    <2> QED BY <1>6, <2>1, <2>2, <2>3, <2>4, <2>5, <2>6 DEF ShutdownStep
  <1>7. ASSUME NEW r \in Restarts, NEW i \in Instances, RestartLookup(r, i)
        PROVE  LockInv' /\ Enters
    BY <1>7, ConstantsAssumption DEF RestartLookup, Enters, LockInv, TypeOK, Ops
  <1>8. ASSUME NEW i \in Instances, UserStop(i) PROVE LockInv' /\ Enters
    BY <1>8 DEF UserStop, Enters, LockInv, TypeOK, Ops
  <1>9. ASSUME NEW i \in Instances, DeleteRecord(i) PROVE LockInv' /\ Enters
    BY <1>9 DEF DeleteRecord, Enters, LockInv, TypeOK, Ops
  <1>10. ASSUME NEW i \in Instances, ForgetCleaned(i) PROVE LockInv' /\ Enters
    BY <1>10 DEF ForgetCleaned, Enters, LockInv, TypeOK, Ops
  <1>11. ASSUME NEW op \in Ops, ProcessExit(op) PROVE LockInv' /\ Enters
    BY <1>11 DEF ProcessExit, Enters, LockInv, TypeOK, Ops
  <1>12. CASE Signal
    BY <1>12 DEF Signal, Enters, LockInv, TypeOK, Ops
  <1>13. ASSUME NEW m \in Models, ResolveOrphan(m) PROVE LockInv' /\ Enters
    BY <1>13 DEF ResolveOrphan, Enters, LockInv, TypeOK, Ops
  <1>14. CASE UNCHANGED vars
    BY <1>14 DEF vars, Enters, LockInv, TypeOK, Ops
  <1> QED
    BY <1>1, <1>2, <1>3, <1>4, <1>5, <1>6, <1>7,
       <1>8, <1>9, <1>10, <1>11, <1>12, <1>13, <1>14 DEF Next

\* A stop in progress keeps its lifecycleMu.
LEMMA StopInvStep ==
    ASSUME TypeOK, ClaimInv, [Next]_vars
    PROVE  StopInv'
  <1> USE DEF ClaimInv
  <1>1. ASSUME NEW op \in Ops, OpStep(op) PROVE StopInv'
    <2>1. CASE ArbCheck(op)
      BY <2>1, ConstantsAssumption, TargetOf DEF ArbCheck, AtArbitrate,
           StopInv, TypeOK, Ops
    <2>2. CASE ArbReject(op)
      BY <2>2, ConstantsAssumption, TargetOf DEF ArbReject, AtArbitrate,
           StopInv, TypeOK, Ops
    <2>3. CASE ArbPublish(op)
      BY <2>3, ConstantsAssumption, TargetOf DEF ArbPublish, StopInv, TypeOK,
           Ops
    <2>4. CASE AcquireSlot(op)
      BY <2>4, ConstantsAssumption, TargetOf DEF AcquireSlot, StopInv, TypeOK,
           Ops
    <2>5. CASE Commit(op)
      BY <2>5, ConstantsAssumption, TargetOf DEF Commit, AtCommit, StopInv,
           TypeOK, Ops
    <2>6. CASE CommitAbort(op)
      BY <2>6, ConstantsAssumption, TargetOf DEF CommitAbort, AtCommit,
           StopInv, TypeOK, Ops
    <2>7. CASE SpawnPersistFails(op)
      BY <2>7, ConstantsAssumption, TargetOf DEF SpawnPersistFails,
           EndUnspawned, StopInv, TypeOK, Ops
    <2>8. CASE SpawnStartFails(op)
      BY <2>8, ConstantsAssumption, TargetOf DEF SpawnStartFails, EndUnspawned,
           StopInv, TypeOK, Ops
    <2>9. CASE SpawnOk(op)
      BY <2>9, ConstantsAssumption, TargetOf DEF SpawnOk, StopInv, TypeOK, Ops
    <2>10. CASE RunningDurable(op)
      BY <2>10, ConstantsAssumption, TargetOf DEF RunningDurable, StopInv,
           TypeOK, Ops
    <2>11. CASE RollbackConfirmed(op)
      BY <2>11, ConstantsAssumption, TargetOf DEF RollbackConfirmed, StopInv,
           TypeOK, Ops
    <2>12. CASE RollbackResidual(op)
      BY <2>12, ConstantsAssumption, TargetOf DEF RollbackResidual, StopInv,
           TypeOK, Ops
    <2> QED BY <1>1, <2>1, <2>2, <2>3, <2>4, <2>5, <2>6, <2>7, <2>8, <2>9, <2>10,
      <2>11, <2>12 DEF OpStep
  <1>2. ASSUME NEW i \in Instances, LaunchStep(i) PROVE StopInv'
    <2>1. CASE LaunchSlotFails(i)
      BY <2>1, ConstantsAssumption, TargetOf DEF LaunchSlotFails,
           AbortAdmission, StopInv, TypeOK, Ops
    <2>2. CASE CreateRecord(i)
      BY <2>2, ConstantsAssumption, TargetOf DEF CreateRecord, StopInv, TypeOK,
           Ops
    <2>3. CASE CreateRecordFails(i)
      BY <2>3, ConstantsAssumption, TargetOf DEF CreateRecordFails,
           AbortAdmission, StopInv, TypeOK, Ops
    <2>4. CASE LaunchCleanup(i)
      BY <2>4, ConstantsAssumption, TargetOf DEF LaunchCleanup, StopInv,
           TypeOK, Ops
    <2> QED BY <1>2, <2>1, <2>2, <2>3, <2>4 DEF LaunchStep
  <1>3. ASSUME NEW r \in Restarts, RestartStep(r) PROVE StopInv'
    <2>1. CASE RestartBegin(r)
      BY <2>1, ConstantsAssumption, TargetOf DEF RestartBegin, StopInv, TypeOK,
           Ops
    <2>2. CASE RestartStop(r)
      BY <2>2, ConstantsAssumption, TargetOf DEF RestartStop, BeginStop,
           StopInv, TypeOK, Ops
    <2>3. CASE RestartAwait(r)
      BY <2>3, ConstantsAssumption, TargetOf DEF RestartAwait, StopInv, TypeOK,
           Ops
    <2>4. CASE RestartGivesUp(r)
      BY <2>4, ConstantsAssumption, TargetOf DEF RestartGivesUp, StopInv,
           TypeOK, Ops
    <2> QED BY <1>3, <2>1, <2>2, <2>3, <2>4 DEF RestartStep
  <1>4. ASSUME NEW i \in Instances, StopStep(i) PROVE StopInv'
    <2>1. CASE StopSignal(i)
      BY <2>1, ConstantsAssumption, TargetOf DEF StopSignal, StopInv, TypeOK,
           Ops
    <2>2. CASE StopPersist(i)
      BY <2>2, ConstantsAssumption, TargetOf DEF StopPersist, StopInv, TypeOK,
           Ops
    <2>3. CASE StopAwait(i)
      BY <2>3, ConstantsAssumption, TargetOf DEF StopAwait, StopInv, TypeOK, Ops
    <2>4. CASE StopTimeout(i)
      BY <2>4, ConstantsAssumption, TargetOf DEF StopTimeout, StopInv, TypeOK,
           Ops
    <2>5. CASE StopPersistFails(i)
      BY <2>5, ConstantsAssumption, TargetOf DEF StopPersistFails, StopReturn,
           StopInv, TypeOK, Ops
    <2>6. CASE StopFinal(i)
      BY <2>6, ConstantsAssumption, TargetOf DEF StopFinal, StopReturn,
           StopInv, TypeOK, Ops
    <2> QED BY <1>4, <2>1, <2>2, <2>3, <2>4, <2>5, <2>6 DEF StopStep
  <1>5. ASSUME NEW op \in Ops, WaitStep(op) PROVE StopInv'
    <2>1. CASE WaitTerminal(op)
      BY <2>1 DEF WaitTerminal, StopInv, TypeOK, Ops
    <2>2. CASE WaitPersist(op)
      BY <2>2 DEF WaitPersist, StopInv, TypeOK, Ops
    <2>3. CASE WaitFinish(op)
      BY <2>3 DEF WaitFinish, StopInv, TypeOK, Ops
    <2> QED BY <1>5, <2>1, <2>2, <2>3 DEF WaitStep
  <1>6. CASE ShutdownStep
    <2>1. CASE ShutdownBegin
      BY <2>1 DEF ShutdownBegin, StopInv, TypeOK, Ops
    <2>2. CASE ShutdownSnapshot
      BY <2>2 DEF ShutdownSnapshot, StopInv, TypeOK, Ops
    <2>3. CASE ShutdownTimeout
      BY <2>3 DEF ShutdownTimeout, StopInv, TypeOK, Ops
    <2>4. CASE ShutdownPersist
      BY <2>4 DEF ShutdownPersist, StopInv, TypeOK, Ops
    <2>5. ASSUME NEW i \in Instances, ShutdownSkip(i) PROVE StopInv'
      BY <2>5, ConstantsAssumption, TargetOf DEF ShutdownSkip, StopInv, TypeOK,
           Ops
    <2>6. ASSUME NEW i \in Instances, ShutdownStop(i) PROVE StopInv'
      BY <2>6, ConstantsAssumption, TargetOf DEF ShutdownStop, BeginStop,
           StopInv, TypeOK, Ops
    <2> QED BY <1>6, <2>1, <2>2, <2>3, <2>4, <2>5, <2>6 DEF ShutdownStep
  <1>7. ASSUME NEW r \in Restarts, NEW i \in Instances, RestartLookup(r, i)
        PROVE  StopInv'
    BY <1>7 DEF RestartLookup, StopInv, TypeOK, Ops
  <1>8. ASSUME NEW i \in Instances, UserStop(i) PROVE StopInv'
    BY <1>8, ConstantsAssumption, TargetOf DEF UserStop, BeginStop, StopInv,
         TypeOK, Ops
  <1>9. ASSUME NEW i \in Instances, DeleteRecord(i) PROVE StopInv'
    BY <1>9 DEF DeleteRecord, StopInv, TypeOK, Ops
  <1>10. ASSUME NEW i \in Instances, ForgetCleaned(i) PROVE StopInv'
    BY <1>10 DEF ForgetCleaned, StopInv, TypeOK, Ops
  <1>11. ASSUME NEW op \in Ops, ProcessExit(op) PROVE StopInv'
    BY <1>11 DEF ProcessExit, StopInv, TypeOK, Ops
  <1>12. CASE Signal
    BY <1>12 DEF Signal, StopInv, TypeOK, Ops
  <1>13. ASSUME NEW m \in Models, ResolveOrphan(m) PROVE StopInv'
    BY <1>13 DEF ResolveOrphan, StopInv, TypeOK, Ops
  <1>14. CASE UNCHANGED vars
    BY <1>14 DEF vars, StopInv, TypeOK, Ops
  <1> QED
    BY <1>1, <1>2, <1>3, <1>4, <1>5, <1>6, <1>7,
       <1>8, <1>9, <1>10, <1>11, <1>12, <1>13, <1>14 DEF Next

\* No step takes a published record away from its owner.
LEMMA ClaimStep ==
    ASSUME TypeOK, ClaimInv, [Next]_vars
    PROVE  ClaimHeld'
  <1> USE DEF ClaimInv
  <1>1. ASSUME NEW op \in Ops, OpStep(op) PROVE ClaimHeld'
    <2>1. CASE ArbCheck(op)
      BY <2>1, ConstantsAssumption, TargetOf DEF ArbCheck, AtArbitrate,
           ClaimHeld, TypeOK, Ops, LaunchHolds, RestartHolds
    <2>2. CASE ArbReject(op)
      BY <2>2, ConstantsAssumption, TargetOf DEF ArbReject, AtArbitrate,
           ClaimHeld, TypeOK, Ops, LaunchHolds, RestartHolds
    <2>3. CASE ArbPublish(op)
      BY <2>3, ConstantsAssumption, TargetOf DEF ArbPublish, LockInv,
           TargetsInv, Fresh, ClaimHeld, TypeOK, Ops, LaunchHolds, RestartHolds
    <2>4. CASE AcquireSlot(op)
      BY <2>4, ConstantsAssumption, TargetOf DEF AcquireSlot, LaunchPCs,
           RestartPCs, Finished, ClaimHeld, TypeOK, Ops, LaunchHolds,
           RestartHolds
    <2>5. CASE Commit(op)
      BY <2>5, ConstantsAssumption, TargetOf DEF Commit, AtCommit, ClaimHeld,
           TypeOK, Ops, LaunchHolds, RestartHolds
    <2>6. CASE CommitAbort(op)
      BY <2>6, ConstantsAssumption, TargetOf DEF CommitAbort, AtCommit,
           ClaimHeld, TypeOK, Ops, LaunchHolds, RestartHolds
    <2>7. CASE SpawnPersistFails(op)
      BY <2>7, ConstantsAssumption, TargetOf DEF SpawnPersistFails,
           EndUnspawned, ClaimHeld, TypeOK, Ops, LaunchHolds, RestartHolds
    <2>8. CASE SpawnStartFails(op)
      BY SMTT(30), <2>8, ConstantsAssumption, TargetOf DEF SpawnStartFails, EndUnspawned,
           ClaimHeld, TypeOK, Ops, LaunchHolds, RestartHolds
    <2>9. CASE SpawnOk(op)
      BY <2>9, ConstantsAssumption, TargetOf DEF SpawnOk, ClaimHeld, TypeOK,
           Ops, LaunchHolds, RestartHolds
    <2>10. CASE RunningDurable(op)
      BY <2>10, ConstantsAssumption, TargetOf DEF RunningDurable, ClaimHeld,
           TypeOK, Ops, LaunchHolds, RestartHolds
    <2>11. CASE RollbackConfirmed(op)
      BY SMTT(30), <2>11, ConstantsAssumption, TargetOf DEF RollbackConfirmed, ClaimHeld,
           TypeOK, Ops, LaunchHolds, RestartHolds
    <2>12. CASE RollbackResidual(op)
      BY <2>12, ConstantsAssumption, TargetOf DEF RollbackResidual, ClaimHeld,
           TypeOK, Ops, LaunchHolds, RestartHolds
    <2> QED BY <1>1, <2>1, <2>2, <2>3, <2>4, <2>5, <2>6, <2>7, <2>8, <2>9, <2>10,
      <2>11, <2>12 DEF OpStep
  <1>2. ASSUME NEW i \in Instances, LaunchStep(i) PROVE ClaimHeld'
    <2>1. CASE LaunchSlotFails(i)
      BY <2>1, ConstantsAssumption, TargetOf DEF LaunchSlotFails,
           AbortAdmission, ClaimHeld, TypeOK, Ops, LaunchHolds, RestartHolds
    <2>2. CASE CreateRecord(i)
      BY <2>2, ConstantsAssumption, TargetOf DEF CreateRecord, ClaimHeld,
           TypeOK, Ops, LaunchHolds, RestartHolds
    <2>3. CASE CreateRecordFails(i)
      BY <2>3, ConstantsAssumption, TargetOf DEF CreateRecordFails,
           AbortAdmission, ClaimHeld, TypeOK, Ops, LaunchHolds, RestartHolds
    <2>4. CASE LaunchCleanup(i)
      BY <2>4, ConstantsAssumption, TargetOf DEF LaunchCleanup, ClaimHeld,
           TypeOK, Ops, LaunchHolds, RestartHolds
    <2> QED BY <1>2, <2>1, <2>2, <2>3, <2>4 DEF LaunchStep
  <1>3. ASSUME NEW r \in Restarts, RestartStep(r) PROVE ClaimHeld'
    <2>1. CASE RestartBegin(r)
      BY <2>1, ConstantsAssumption, TargetOf DEF RestartBegin, ClaimHeld,
           TypeOK, Ops, LaunchHolds, RestartHolds
    <2>2. CASE RestartStop(r)
      BY <2>2, ConstantsAssumption, TargetOf DEF RestartStop, ClaimHeld,
           TypeOK, Ops, LaunchHolds, RestartHolds
    <2>3. CASE RestartAwait(r)
      BY <2>3, ConstantsAssumption, TargetOf DEF RestartAwait, ClaimHeld,
           TypeOK, Ops, LaunchHolds, RestartHolds
    <2>4. CASE RestartGivesUp(r)
      BY <2>4, ConstantsAssumption, TargetOf DEF RestartGivesUp, ClaimHeld,
           TypeOK, Ops, LaunchHolds, RestartHolds
    <2> QED BY <1>3, <2>1, <2>2, <2>3, <2>4 DEF RestartStep
  <1>4. ASSUME NEW i \in Instances, StopStep(i) PROVE ClaimHeld'
    <2>1. CASE StopSignal(i)
      BY <2>1, ConstantsAssumption, TargetOf DEF StopSignal, ClaimHeld, TypeOK,
           Ops, LaunchHolds, RestartHolds
    <2>2. CASE StopPersist(i)
      BY <2>2, ConstantsAssumption, TargetOf DEF StopPersist, ClaimHeld,
           TypeOK, Ops, LaunchHolds, RestartHolds
    <2>3. CASE StopAwait(i)
      BY <2>3, ConstantsAssumption, TargetOf DEF StopAwait, ClaimHeld, TypeOK,
           Ops, LaunchHolds, RestartHolds
    <2>4. CASE StopTimeout(i)
      BY <2>4, ConstantsAssumption, TargetOf DEF StopTimeout, ClaimHeld,
           TypeOK, Ops, LaunchHolds, RestartHolds
    <2>5. CASE StopPersistFails(i)
      <3>1. CASE UNCHANGED <<pc, active>>
        BY <2>5, <3>1 DEF StopPersistFails, ClaimHeld
      <3>2. ASSUME NEW r \in Restarts, ReturnsTo(r, i) PROVE ClaimHeld'
        BY <2>5, <3>2, ConstantsAssumption, TargetOf
           DEF StopPersistFails, ReturnsTo, ClaimHeld, TypeOK, Ops,
               LaunchHolds, RestartHolds
      <3> QED BY <2>5, <3>1, <3>2, StopReturns DEF StopPersistFails
    <2>6. CASE StopFinal(i)
      <3>1. CASE UNCHANGED <<pc, active>>
        BY <2>6, <3>1 DEF StopFinal, ClaimHeld
      <3>2. ASSUME NEW r \in Restarts, ReturnsTo(r, i) PROVE ClaimHeld'
        BY <2>6, <3>2, ConstantsAssumption, TargetOf
           DEF StopFinal, ReturnsTo, ClaimHeld, TypeOK, Ops,
               LaunchHolds, RestartHolds
      <3> QED BY <2>6, <3>1, <3>2, StopReturns DEF StopFinal
    <2> QED BY <1>4, <2>1, <2>2, <2>3, <2>4, <2>5, <2>6 DEF StopStep
  <1>5. ASSUME NEW op \in Ops, WaitStep(op) PROVE ClaimHeld'
    <2>1. CASE WaitTerminal(op)
      BY <2>1 DEF WaitTerminal, ClaimHeld, TypeOK, Ops, LaunchHolds,
           RestartHolds
    <2>2. CASE WaitPersist(op)
      BY <2>2 DEF WaitPersist, ClaimHeld, TypeOK, Ops, LaunchHolds, RestartHolds
    <2>3. CASE WaitFinish(op)
      BY <2>3 DEF WaitFinish, ClaimHeld, TypeOK, Ops, LaunchHolds, RestartHolds
    <2> QED BY <1>5, <2>1, <2>2, <2>3 DEF WaitStep
  <1>6. CASE ShutdownStep
    <2>1. CASE ShutdownBegin
      BY <2>1 DEF ShutdownBegin, ClaimHeld, TypeOK, Ops, LaunchHolds,
           RestartHolds
    <2>2. CASE ShutdownSnapshot
      BY <2>2 DEF ShutdownSnapshot, ClaimHeld, TypeOK, Ops, LaunchHolds,
           RestartHolds
    <2>3. CASE ShutdownTimeout
      BY <2>3 DEF ShutdownTimeout, ClaimHeld, TypeOK, Ops, LaunchHolds,
           RestartHolds
    <2>4. CASE ShutdownPersist
      BY <2>4 DEF ShutdownPersist, ClaimHeld, TypeOK, Ops, LaunchHolds,
           RestartHolds
    <2>5. ASSUME NEW i \in Instances, ShutdownSkip(i) PROVE ClaimHeld'
      BY <2>5, ConstantsAssumption, TargetOf DEF ShutdownSkip, ClaimHeld,
           TypeOK, Ops, LaunchHolds, RestartHolds
    <2>6. ASSUME NEW i \in Instances, ShutdownStop(i) PROVE ClaimHeld'
      BY <2>6, ConstantsAssumption, TargetOf DEF ShutdownStop, ClaimHeld,
           TypeOK, Ops, LaunchHolds, RestartHolds
    <2> QED BY <1>6, <2>1, <2>2, <2>3, <2>4, <2>5, <2>6 DEF ShutdownStep
  <1>7. ASSUME NEW r \in Restarts, NEW i \in Instances, RestartLookup(r, i)
        PROVE  ClaimHeld'
    BY <1>7 DEF RestartLookup, ClaimHeld, TypeOK, Ops, LaunchHolds, RestartHolds
  <1>8. ASSUME NEW i \in Instances, UserStop(i) PROVE ClaimHeld'
    BY <1>8 DEF UserStop, ClaimHeld, TypeOK, Ops, LaunchHolds, RestartHolds
  <1>9. ASSUME NEW i \in Instances, DeleteRecord(i) PROVE ClaimHeld'
    BY <1>9 DEF DeleteRecord, ClaimHeld, TypeOK, Ops, LaunchHolds, RestartHolds
  <1>10. ASSUME NEW i \in Instances, ForgetCleaned(i) PROVE ClaimHeld'
    BY <1>10 DEF ForgetCleaned, ClaimHeld, TypeOK, Ops, LaunchHolds,
         RestartHolds
  <1>11. ASSUME NEW op \in Ops, ProcessExit(op) PROVE ClaimHeld'
    BY <1>11 DEF ProcessExit, ClaimHeld, TypeOK, Ops, LaunchHolds, RestartHolds
  <1>12. CASE Signal
    BY <1>12 DEF Signal, ClaimHeld, TypeOK, Ops, LaunchHolds, RestartHolds
  <1>13. ASSUME NEW m \in Models, ResolveOrphan(m) PROVE ClaimHeld'
    BY <1>13 DEF ResolveOrphan, ClaimHeld, TypeOK, Ops, LaunchHolds,
         RestartHolds
  <1>14. CASE UNCHANGED vars
    BY <1>14 DEF vars, ClaimHeld, TypeOK, Ops, LaunchHolds, RestartHolds
  <1> QED
    BY <1>1, <1>2, <1>3, <1>4, <1>5, <1>6, <1>7,
       <1>8, <1>9, <1>10, <1>11, <1>12, <1>13, <1>14 DEF Next

\* Only a publication brings a controller in sight.
LEMMA VisibleStep ==
    ASSUME TypeOK, ClaimInv, [Next]_vars
    PROVE  Shrinks \/ \E o \in Ops : Publishes(o)
  <1> USE DEF ClaimInv
  <1>1. ASSUME NEW op \in Ops, OpStep(op) PROVE Shrinks \/ \E o \in Ops : Publishes(o)
    <2>1. CASE ArbCheck(op)
      BY <2>1, ConstantsAssumption, TargetOf DEF ArbCheck, AtArbitrate,
           Shrinks, Visible, TypeOK, Ops, InFlight, Live, Terminal
    <2>2. CASE ArbReject(op)
      BY <2>2, ConstantsAssumption, TargetOf DEF ArbReject, AtArbitrate,
           Shrinks, Visible, TypeOK, Ops, InFlight, Live, Terminal
    <2>3. CASE ArbPublish(op)
      BY <2>3, ConstantsAssumption, TargetOf DEF ArbPublish, Publishes,
           Shrinks, Visible, TypeOK, Ops, InFlight, Live, Terminal
    <2>4. CASE AcquireSlot(op)
      BY <2>4, ConstantsAssumption, TargetOf DEF AcquireSlot, Shrinks, Visible,
           TypeOK, Ops, InFlight, Live, Terminal
    <2>5. CASE Commit(op)
      BY <2>5, ConstantsAssumption, TargetOf DEF Commit, AtCommit, ClaimHeld,
           LaunchHolds, RestartHolds, Shrinks, Visible, TypeOK, Ops, InFlight,
           Live, Terminal
    <2>6. CASE CommitAbort(op)
      <3>1. target[op] \in Instances /\ active[target[op]] = op
        BY <2>6, TargetOf DEF CommitAbort, AtCommit
      <3>2. CASE op \in Instances
        BY <2>6, <3>1, <3>2, ConstantsAssumption
          DEF CommitAbort, Shrinks, Visible, TypeOK
      <3>3. CASE op \notin Instances
        BY <2>6, <3>1, <3>3, ConstantsAssumption
          DEF CommitAbort, Shrinks, Visible, TypeOK
      <3> QED BY <3>2, <3>3
    <2>7. CASE SpawnPersistFails(op)
      BY <2>7, ConstantsAssumption, TargetOf DEF SpawnPersistFails,
           EndUnspawned, Shrinks, Visible, TypeOK, Ops, InFlight, Live, Terminal
    <2>8. CASE SpawnStartFails(op)
      BY <2>8, ConstantsAssumption, TargetOf DEF SpawnStartFails, EndUnspawned,
           Shrinks, Visible, TypeOK, Ops, InFlight, Live, Terminal
    <2>9. CASE SpawnOk(op)
      <3>1. target[op] \in Instances /\ active[target[op]] = op
        BY <2>9, TargetOf DEF SpawnOk, ClaimHeld, TargetsInv, LaunchHolds,
             RestartHolds, Ops
      <3> QED
        BY <2>9, <3>1, ConstantsAssumption DEF SpawnOk, Shrinks, Visible, TypeOK, Ops
    <2>10. CASE RunningDurable(op)
      BY <2>10, ConstantsAssumption, TargetOf DEF RunningDurable, Shrinks,
           Visible, TypeOK, Ops, InFlight, Live, Terminal
    <2>11. CASE RollbackConfirmed(op)
      BY <2>11, ConstantsAssumption, TargetOf DEF RollbackConfirmed, Shrinks,
           Visible, TypeOK, Ops, InFlight, Live, Terminal
    <2>12. CASE RollbackResidual(op)
      <3>1. target[op] \in Instances /\ active[target[op]] = op
        BY <2>12, TargetOf DEF RollbackResidual, ClaimHeld, TargetsInv, LaunchHolds,
             RestartHolds, Ops
      <3> QED
        BY <2>12, <3>1, ConstantsAssumption
          DEF RollbackResidual, Shrinks, Visible, TypeOK, Ops
    <2> QED BY <1>1, <2>1, <2>2, <2>3, <2>4, <2>5, <2>6, <2>7, <2>8, <2>9, <2>10,
      <2>11, <2>12 DEF OpStep
  <1>2. ASSUME NEW i \in Instances,
    LaunchStep(i) PROVE Shrinks \/ \E o \in Ops : Publishes(o)
    <2>1. CASE LaunchSlotFails(i)
      BY <2>1, ConstantsAssumption, TargetOf DEF LaunchSlotFails,
           AbortAdmission, Shrinks, Visible, TypeOK, Ops, InFlight, Live,
           Terminal
    <2>2. CASE CreateRecord(i)
      BY <2>2, ConstantsAssumption, TargetOf DEF CreateRecord, Shrinks,
           Visible, TypeOK, Ops, InFlight, Live, Terminal
    <2>3. CASE CreateRecordFails(i)
      BY <2>3, ConstantsAssumption, TargetOf DEF CreateRecordFails,
           AbortAdmission, Shrinks, Visible, TypeOK, Ops, InFlight, Live,
           Terminal
    <2>4. CASE LaunchCleanup(i)
      BY <2>4, ConstantsAssumption, TargetOf DEF LaunchCleanup, Shrinks,
           Visible, TypeOK, Ops, InFlight, Live, Terminal
    <2> QED BY <1>2, <2>1, <2>2, <2>3, <2>4 DEF LaunchStep
  <1>3. ASSUME NEW r \in Restarts,
    RestartStep(r) PROVE Shrinks \/ \E o \in Ops : Publishes(o)
    <2>1. CASE RestartBegin(r)
      BY <2>1, ConstantsAssumption, TargetOf DEF RestartBegin, Shrinks,
           Visible, TypeOK, Ops, InFlight, Live, Terminal
    <2>2. CASE RestartStop(r)
      BY <2>2, ConstantsAssumption, TargetOf DEF RestartStop, BeginStop,
           ClaimHeld, LaunchHolds, RestartHolds, Shrinks, Visible, TypeOK, Ops,
           InFlight, Live, Terminal
    <2>3. CASE RestartAwait(r)
      BY <2>3, ConstantsAssumption, TargetOf DEF RestartAwait, Shrinks,
           Visible, TypeOK, Ops, InFlight, Live, Terminal
    <2>4. CASE RestartGivesUp(r)
      BY <2>4, ConstantsAssumption, TargetOf DEF RestartGivesUp, Shrinks,
           Visible, TypeOK, Ops, InFlight, Live, Terminal
    <2> QED BY <1>3, <2>1, <2>2, <2>3, <2>4 DEF RestartStep
  <1>4. ASSUME NEW i \in Instances,
    StopStep(i) PROVE Shrinks \/ \E o \in Ops : Publishes(o)
    <2>1. CASE StopSignal(i)
      BY <2>1, ConstantsAssumption, TargetOf DEF StopSignal, Shrinks, Visible,
           TypeOK, Ops, InFlight, Live, Terminal
    <2>2. CASE StopPersist(i)
      BY <2>2, ConstantsAssumption, TargetOf DEF StopPersist, Shrinks, Visible,
           TypeOK, Ops, InFlight, Live, Terminal
    <2>3. CASE StopAwait(i)
      BY <2>3, ConstantsAssumption, TargetOf DEF StopAwait, Shrinks, Visible,
           TypeOK, Ops, InFlight, Live, Terminal
    <2>4. CASE StopTimeout(i)
      BY <2>4, ConstantsAssumption, TargetOf DEF StopTimeout, Shrinks, Visible,
           TypeOK, Ops, InFlight, Live, Terminal
    <2>5. CASE StopPersistFails(i)
      BY <2>5, ConstantsAssumption, TargetOf DEF StopPersistFails, StopReturn,
           StopInv, Shrinks, Visible, TypeOK, Ops, InFlight, Live, Terminal
    <2>6. CASE StopFinal(i)
      BY <2>6, ConstantsAssumption, TargetOf DEF StopFinal, StopReturn,
           StopInv, Shrinks, Visible, TypeOK, Ops, InFlight, Live, Terminal
    <2> QED BY <1>4, <2>1, <2>2, <2>3, <2>4, <2>5, <2>6 DEF StopStep
  <1>5. ASSUME NEW op \in Ops, WaitStep(op) PROVE Shrinks \/ \E o \in Ops : Publishes(o)
    <2>1. CASE WaitTerminal(op)
      BY <2>1, ConstantsAssumption, TargetOf DEF WaitTerminal, Shrinks,
           Visible, TypeOK, Ops, InFlight, Live, Terminal
    <2>2. CASE WaitPersist(op)
      BY <2>2, ConstantsAssumption, TargetOf DEF WaitPersist, Shrinks, Visible,
           TypeOK, Ops, InFlight, Live, Terminal
    <2>3. CASE WaitFinish(op)
      BY <2>3, ConstantsAssumption, TargetOf DEF WaitFinish, Shrinks, Visible,
           TypeOK, Ops, InFlight, Live, Terminal
    <2> QED BY <1>5, <2>1, <2>2, <2>3 DEF WaitStep
  <1>6. CASE ShutdownStep
    <2>1. CASE ShutdownBegin
      BY <2>1 DEF ShutdownBegin, Shrinks, Visible, TypeOK, Ops, InFlight, Live,
           Terminal
    <2>2. CASE ShutdownSnapshot
      BY <2>2 DEF ShutdownSnapshot, Shrinks, Visible, TypeOK, Ops, InFlight,
           Live, Terminal
    <2>3. CASE ShutdownTimeout
      BY <2>3 DEF ShutdownTimeout, Shrinks, Visible, TypeOK, Ops, InFlight,
           Live, Terminal
    <2>4. CASE ShutdownPersist
      BY <2>4 DEF ShutdownPersist, Shrinks, Visible, TypeOK, Ops, InFlight,
           Live, Terminal
    <2>5. ASSUME NEW i \in Instances,
      ShutdownSkip(i) PROVE Shrinks \/ \E o \in Ops : Publishes(o)
      BY <2>5, ConstantsAssumption, TargetOf DEF ShutdownSkip, Shrinks,
           Visible, TypeOK, Ops, InFlight, Live, Terminal
    <2>6. ASSUME NEW i \in Instances,
      ShutdownStop(i) PROVE Shrinks \/ \E o \in Ops : Publishes(o)
      BY <2>6, ConstantsAssumption, TargetOf DEF ShutdownStop, BeginStop,
           Shrinks, Visible, TypeOK, Ops, InFlight, Live, Terminal
    <2> QED BY <1>6, <2>1, <2>2, <2>3, <2>4, <2>5, <2>6 DEF ShutdownStep
  <1>7. ASSUME NEW r \in Restarts, NEW i \in Instances, RestartLookup(r, i)
        PROVE  Shrinks \/ \E o \in Ops : Publishes(o)
    BY <1>7 DEF RestartLookup, Shrinks, Visible, TypeOK, Ops, InFlight, Live,
         Terminal
  <1>8. ASSUME NEW i \in Instances,
    UserStop(i) PROVE Shrinks \/ \E o \in Ops : Publishes(o)
    BY <1>8 DEF UserStop, BeginStop, Shrinks, Visible, TypeOK, Ops, InFlight,
         Live, Terminal
  <1>9. ASSUME NEW i \in Instances,
    DeleteRecord(i) PROVE Shrinks \/ \E o \in Ops : Publishes(o)
    BY <1>9 DEF DeleteRecord, Shrinks, Visible, TypeOK, Ops, InFlight, Live,
         Terminal
  <1>10. ASSUME NEW i \in Instances,
    ForgetCleaned(i) PROVE Shrinks \/ \E o \in Ops : Publishes(o)
    BY <1>10 DEF ForgetCleaned, Shrinks, Visible, TypeOK, Ops, InFlight, Live,
         Terminal
  <1>11. ASSUME NEW op \in Ops,
    ProcessExit(op) PROVE Shrinks \/ \E o \in Ops : Publishes(o)
    BY <1>11 DEF ProcessExit, Shrinks, Visible, TypeOK, Ops, InFlight, Live,
         Terminal
  <1>12. CASE Signal
    BY <1>12 DEF Signal, Shrinks, Visible, TypeOK, Ops, InFlight, Live, Terminal
  <1>13. ASSUME NEW m \in Models,
    ResolveOrphan(m) PROVE Shrinks \/ \E o \in Ops : Publishes(o)
    BY <1>13 DEF ResolveOrphan, Shrinks, Visible, TypeOK, Ops, InFlight, Live,
         Terminal
  <1>14. CASE UNCHANGED vars
    BY <1>14 DEF vars, Shrinks, Visible, TypeOK, Ops, InFlight, Live, Terminal
  <1> QED
    BY <1>1, <1>2, <1>3, <1>4, <1>5, <1>6, <1>7,
       <1>8, <1>9, <1>10, <1>11, <1>12, <1>13, <1>14 DEF Next

\* The drain's counter follows the launches.
LEMMA TokenStep ==
    ASSUME TypeOK, ClaimInv, TokenInv, [Next]_vars
    PROVE  TokenInv'
  <1> USE DEF ClaimInv
  <1>1. ASSUME NEW op \in Ops, OpStep(op) PROVE TokenInv'
    <2>1. CASE ArbCheck(op)
      BY <2>1, ConstantsAssumption DEF ArbCheck, AtArbitrate, TokenInv,
           PreSpawn, TypeOK, Ops
    <2>2. CASE ArbReject(op)
      BY <2>2, ConstantsAssumption DEF ArbReject, AtArbitrate, TokenInv,
           PreSpawn, TypeOK, Ops
    <2>3. CASE ArbPublish(op)
      <3>1. CASE op \in Instances /\ ~draining
        <4>1. /\ tokens' = tokens \cup {op} /\ op \notin tokens
              /\ pc' = [pc EXCEPT ![op] = "admitted"]
              /\ preSpawnInFlight' = preSpawnInFlight + 1
              /\ UNCHANGED <<draining, zeroSig>>
          BY <2>3, <3>1 DEF ArbPublish, TargetsInv, TokenInv, PreSpawn
        <4>2. Cardinality(tokens') = Cardinality(tokens) + 1
          BY <4>1, TokensFinite, FS_AddElement
        <4> QED
          BY <3>1, <4>1, <4>2 DEF TokenInv, PreSpawn, TypeOK, Ops
      <3>2. CASE op \notin Instances \/ draining
        <4>1. UNCHANGED drainVars
          BY <2>3, <3>2, ConstantsAssumption DEF ArbPublish, Ops
        <4>2. \A i \in Instances : pc'[i] \in PreSpawn <=> pc[i] \in PreSpawn
          BY <2>3, <3>2, ConstantsAssumption DEF ArbPublish, PreSpawn, TypeOK, Ops
        <4> QED BY <4>1, <4>2, TokensKept
      <3> QED BY <3>1, <3>2
    <2>4. CASE AcquireSlot(op)
      BY <2>4, ConstantsAssumption DEF AcquireSlot, TokenInv, PreSpawn, LaunchPCs,
             LaunchHolds, Finished, TypeOK, Ops
    <2>5. CASE Commit(op)
      <3>1. /\ target[op] \in Instances /\ active[target[op]] = op
            /\ pc[op] = "ready" /\ pc' = [pc EXCEPT ![op] = "starting"]
            /\ ConsumeToken(target[op])
        BY <2>5, TargetOf DEF Commit, AtCommit
      <3>2. CASE op \in Instances
        BY <3>1, <3>2, TokenConsumed DEF TargetsInv, TokenInv, PreSpawn, TypeOK, Ops
      <3>3. CASE op \in Restarts
        <4>1. target[op] \notin tokens
          BY <3>1, <3>3, ConstantsAssumption
            DEF ClaimHeld, LaunchHolds, TokenInv, PreSpawn
        <4> QED
          BY <3>1, <3>3, <4>1, TokenConsumed, ConstantsAssumption
            DEF TokenInv, PreSpawn, TypeOK, Ops
      <3> QED BY <3>2, <3>3 DEF Ops
    <2>6. CASE CommitAbort(op)
      <3>1. CASE op \in Instances
        <4>1. ConsumeToken(op) /\ pc' = [pc EXCEPT ![op] = "failed"]
          BY <2>6, <3>1 DEF CommitAbort, TargetsInv
        <4> QED
          BY <3>1, <4>1, TokenConsumed DEF TokenInv, PreSpawn, TypeOK, Ops
      <3>2. CASE op \notin Instances
        <4>1. UNCHANGED drainVars
          BY <2>6, <3>2 DEF CommitAbort
        <4>2. \A i \in Instances : pc'[i] \in PreSpawn <=> pc[i] \in PreSpawn
          BY <2>6, <3>2 DEF CommitAbort, PreSpawn, TypeOK, Ops
        <4> QED BY <4>1, <4>2, TokensKept
      <3> QED BY <3>1, <3>2
    <2>7. CASE SpawnPersistFails(op)
      BY <2>7, ConstantsAssumption DEF SpawnPersistFails, EndUnspawned,
           TokenInv, PreSpawn, TypeOK, Ops
    <2>8. CASE SpawnStartFails(op)
      BY <2>8, ConstantsAssumption DEF SpawnStartFails, EndUnspawned, TokenInv,
           PreSpawn, TypeOK, Ops
    <2>9. CASE SpawnOk(op)
      BY <2>9, ConstantsAssumption DEF SpawnOk, TokenInv, PreSpawn, TypeOK, Ops
    <2>10. CASE RunningDurable(op)
      BY <2>10, ConstantsAssumption DEF RunningDurable, TokenInv, PreSpawn,
           TypeOK, Ops
    <2>11. CASE RollbackConfirmed(op)
      BY <2>11, ConstantsAssumption DEF RollbackConfirmed, TokenInv, PreSpawn,
           TypeOK, Ops
    <2>12. CASE RollbackResidual(op)
      BY <2>12, ConstantsAssumption DEF RollbackResidual, TokenInv, PreSpawn,
           TypeOK, Ops
    <2> QED BY <1>1, <2>1, <2>2, <2>3, <2>4, <2>5, <2>6, <2>7, <2>8, <2>9, <2>10,
      <2>11, <2>12 DEF OpStep
  <1>2. ASSUME NEW i \in Instances, LaunchStep(i) PROVE TokenInv'
    <2>1. CASE LaunchSlotFails(i)
      <3>1. ConsumeToken(i) /\ pc' = [pc EXCEPT ![i] = "failed"]
        BY <2>1 DEF LaunchSlotFails, AbortAdmission
      <3> QED
        BY <3>1, TokenConsumed DEF TokenInv, PreSpawn, TypeOK, Ops
    <2>2. CASE CreateRecord(i)
      BY <2>2 DEF CreateRecord, TokenInv, PreSpawn, TypeOK, Ops
    <2>3. CASE CreateRecordFails(i)
      <3>1. ConsumeToken(i) /\ pc' = [pc EXCEPT ![i] = "failed"]
        BY <2>3 DEF CreateRecordFails, AbortAdmission
      <3> QED
        BY <3>1, TokenConsumed DEF TokenInv, PreSpawn, TypeOK, Ops
    <2>4. CASE LaunchCleanup(i)
      BY <2>4 DEF LaunchCleanup, TokenInv, PreSpawn, TypeOK, Ops
    <2> QED BY <1>2, <2>1, <2>2, <2>3, <2>4 DEF LaunchStep
  <1>3. ASSUME NEW r \in Restarts, RestartStep(r) PROVE TokenInv'
    <2>1. CASE RestartBegin(r)
      BY <2>1, ConstantsAssumption DEF RestartBegin, TokenInv, PreSpawn,
           TypeOK, Ops
    <2>2. CASE RestartStop(r)
      BY <2>2, ConstantsAssumption DEF RestartStop, TokenInv, PreSpawn, TypeOK,
           Ops
    <2>3. CASE RestartAwait(r)
      BY <2>3, ConstantsAssumption DEF RestartAwait, TokenInv, PreSpawn,
           TypeOK, Ops
    <2>4. CASE RestartGivesUp(r)
      BY <2>4, ConstantsAssumption DEF RestartGivesUp, TokenInv, PreSpawn,
           TypeOK, Ops
    <2> QED BY <1>3, <2>1, <2>2, <2>3, <2>4 DEF RestartStep
  <1>4. ASSUME NEW i \in Instances, StopStep(i) PROVE TokenInv'
    <2>1. CASE StopSignal(i)
      BY <2>1 DEF StopSignal, TokenInv, PreSpawn, TypeOK, Ops
    <2>2. CASE StopPersist(i)
      BY <2>2 DEF StopPersist, TokenInv, PreSpawn, TypeOK, Ops
    <2>3. CASE StopAwait(i)
      BY <2>3 DEF StopAwait, TokenInv, PreSpawn, TypeOK, Ops
    <2>4. CASE StopTimeout(i)
      BY <2>4 DEF StopTimeout, TokenInv, PreSpawn, TypeOK, Ops
    <2>5. CASE StopPersistFails(i)
      <3>1. CASE UNCHANGED <<pc, active>>
        BY <2>5, <3>1 DEF StopPersistFails, TokenInv, PreSpawn, TypeOK, Ops
      <3>2. ASSUME NEW r \in Restarts, ReturnsTo(r, i) PROVE TokenInv'
        BY <2>5, <3>2, ConstantsAssumption
          DEF StopPersistFails, ReturnsTo, TokenInv, PreSpawn, TypeOK, Ops
      <3> QED BY <2>5, <3>1, <3>2, StopReturns DEF StopPersistFails
    <2>6. CASE StopFinal(i)
      <3>1. CASE UNCHANGED <<pc, active>>
        BY <2>6, <3>1 DEF StopFinal, TokenInv, PreSpawn, TypeOK, Ops
      <3>2. ASSUME NEW r \in Restarts, ReturnsTo(r, i) PROVE TokenInv'
        BY <2>6, <3>2, ConstantsAssumption
          DEF StopFinal, ReturnsTo, TokenInv, PreSpawn, TypeOK, Ops
      <3> QED BY <2>6, <3>1, <3>2, StopReturns DEF StopFinal
    <2> QED BY <1>4, <2>1, <2>2, <2>3, <2>4, <2>5, <2>6 DEF StopStep
  <1>5. ASSUME NEW op \in Ops, WaitStep(op) PROVE TokenInv'
    <2>1. CASE WaitTerminal(op)
      BY <2>1 DEF WaitTerminal, TokenInv, PreSpawn, TypeOK, Ops
    <2>2. CASE WaitPersist(op)
      BY <2>2 DEF WaitPersist, TokenInv, PreSpawn, TypeOK, Ops
    <2>3. CASE WaitFinish(op)
      BY <2>3 DEF WaitFinish, TokenInv, PreSpawn, TypeOK, Ops
    <2> QED BY <1>5, <2>1, <2>2, <2>3 DEF WaitStep
  <1>6. CASE ShutdownStep
    <2>1. CASE ShutdownBegin
      BY <2>1 DEF ShutdownBegin, TokenInv, PreSpawn, TypeOK, Ops
    <2>2. CASE ShutdownSnapshot
      BY <2>2 DEF ShutdownSnapshot, TokenInv, PreSpawn, TypeOK, Ops
    <2>3. CASE ShutdownTimeout
      BY <2>3 DEF ShutdownTimeout, TokenInv, PreSpawn, TypeOK, Ops
    <2>4. CASE ShutdownPersist
      BY <2>4 DEF ShutdownPersist, TokenInv, PreSpawn, TypeOK, Ops
    <2>5. ASSUME NEW i \in Instances, ShutdownSkip(i) PROVE TokenInv'
      BY <2>5 DEF ShutdownSkip, TokenInv, PreSpawn, TypeOK, Ops
    <2>6. ASSUME NEW i \in Instances, ShutdownStop(i) PROVE TokenInv'
      BY <2>6 DEF ShutdownStop, TokenInv, PreSpawn, TypeOK, Ops
    <2> QED BY <1>6, <2>1, <2>2, <2>3, <2>4, <2>5, <2>6 DEF ShutdownStep
  <1>7. ASSUME NEW r \in Restarts, NEW i \in Instances, RestartLookup(r, i)
        PROVE  TokenInv'
    BY <1>7 DEF RestartLookup, TokenInv, PreSpawn, TypeOK, Ops
  <1>8. ASSUME NEW i \in Instances, UserStop(i) PROVE TokenInv'
    BY <1>8 DEF UserStop, TokenInv, PreSpawn, TypeOK, Ops
  <1>9. ASSUME NEW i \in Instances, DeleteRecord(i) PROVE TokenInv'
    BY <1>9 DEF DeleteRecord, TokenInv, PreSpawn, TypeOK, Ops
  <1>10. ASSUME NEW i \in Instances, ForgetCleaned(i) PROVE TokenInv'
    BY <1>10 DEF ForgetCleaned, TokenInv, PreSpawn, TypeOK, Ops
  <1>11. ASSUME NEW op \in Ops, ProcessExit(op) PROVE TokenInv'
    BY <1>11 DEF ProcessExit, TokenInv, PreSpawn, TypeOK, Ops
  <1>12. CASE Signal
    BY <1>12 DEF Signal, TokenInv, PreSpawn, TypeOK, Ops
  <1>13. ASSUME NEW m \in Models, ResolveOrphan(m) PROVE TokenInv'
    BY <1>13 DEF ResolveOrphan, TokenInv, PreSpawn, TypeOK, Ops
  <1>14. CASE UNCHANGED vars
    BY <1>14 DEF vars, TokenInv, PreSpawn, TypeOK, Ops
  <1> QED
    BY <1>1, <1>2, <1>3, <1>4, <1>5, <1>6, <1>7,
       <1>8, <1>9, <1>10, <1>11, <1>12, <1>13, <1>14 DEF Next

\* Live generations keep their slots.
LEMMA SlotStep ==
    ASSUME TypeOK, ClaimInv, SlotInv, [Next]_vars
    PROVE  SlotInv'
  <1> USE DEF ClaimInv
  <1>1. ASSUME NEW op \in Ops, OpStep(op) PROVE SlotInv'
    <2>1. CASE ArbCheck(op)
      BY <2>1, ConstantsAssumption DEF ArbCheck, AtArbitrate, SlotInv, TypeOK,
           Ops
    <2>2. CASE ArbReject(op)
      BY <2>2, ConstantsAssumption DEF ArbReject, AtArbitrate, SlotInv, TypeOK,
           Ops
    <2>3. CASE ArbPublish(op)
      BY <2>3, ConstantsAssumption DEF ArbPublish, SlotInv, TypeOK, Ops
    <2>4. CASE AcquireSlot(op)
      <3>1. IsFiniteSet(slot') /\ Cardinality(slot') <= MaxConcurrent
        BY <2>4, SlotTaken DEF AcquireSlot, SlotInv
      <3> QED
        BY <2>4, <3>1, ConstantsAssumption DEF AcquireSlot, SlotInv, TypeOK, Ops
    <2>5. CASE Commit(op)
      BY <2>5, ConstantsAssumption DEF Commit, AtCommit, SlotInv, TypeOK, Ops
    <2>6. CASE CommitAbort(op)
      <3>1. slot' = slot \ {op}
        BY <2>6 DEF CommitAbort, AtCommit
      <3>2. IsFiniteSet(slot') /\ Cardinality(slot') <= MaxConcurrent
        BY <3>1, SlotReturned DEF Ops
      <3> QED
        BY <2>6, <3>1, <3>2, ConstantsAssumption
          DEF CommitAbort, AtCommit, SlotInv, TypeOK, Ops
    <2>7. CASE SpawnPersistFails(op)
      <3>1. slot' = slot \ {op}
        BY <2>7 DEF SpawnPersistFails, EndUnspawned
      <3>2. IsFiniteSet(slot') /\ Cardinality(slot') <= MaxConcurrent
        BY <3>1, SlotReturned DEF Ops
      <3> QED
        BY <2>7, <3>1, <3>2, ConstantsAssumption
          DEF SpawnPersistFails, EndUnspawned, SlotInv, TypeOK, Ops
    <2>8. CASE SpawnStartFails(op)
      <3>1. slot' = slot \ {op}
        BY <2>8 DEF SpawnStartFails, EndUnspawned
      <3>2. IsFiniteSet(slot') /\ Cardinality(slot') <= MaxConcurrent
        BY <3>1, SlotReturned DEF Ops
      <3> QED
        BY <2>8, <3>1, <3>2, ConstantsAssumption
          DEF SpawnStartFails, EndUnspawned, SlotInv, TypeOK, Ops
    <2>9. CASE SpawnOk(op)
      BY <2>9, ConstantsAssumption DEF SpawnOk, SlotInv, TypeOK, Ops
    <2>10. CASE RunningDurable(op)
      BY <2>10, ConstantsAssumption DEF RunningDurable, SlotInv, TypeOK, Ops
    <2>11. CASE RollbackConfirmed(op)
      <3>1. slot' = slot \ {op}
        BY <2>11 DEF RollbackConfirmed
      <3>2. IsFiniteSet(slot') /\ Cardinality(slot') <= MaxConcurrent
        BY <3>1, SlotReturned DEF Ops
      <3> QED
        BY <2>11, <3>1, <3>2, ConstantsAssumption
          DEF RollbackConfirmed, SlotInv, TypeOK, Ops
    <2>12. CASE RollbackResidual(op)
      BY <2>12, ConstantsAssumption DEF RollbackResidual, SlotInv, TypeOK, Ops
    <2> QED BY <1>1, <2>1, <2>2, <2>3, <2>4, <2>5, <2>6, <2>7, <2>8, <2>9, <2>10,
      <2>11, <2>12 DEF OpStep
  <1>2. ASSUME NEW i \in Instances, LaunchStep(i) PROVE SlotInv'
    <2>1. CASE LaunchSlotFails(i)
      <3>1. slot' = slot \ {i}
        BY <2>1 DEF LaunchSlotFails, AbortAdmission
      <3>2. IsFiniteSet(slot') /\ Cardinality(slot') <= MaxConcurrent
        BY <3>1, SlotReturned DEF Ops
      <3> QED
        BY <2>1, <3>1, <3>2, ConstantsAssumption
          DEF LaunchSlotFails, AbortAdmission, SlotInv, TypeOK, Ops
    <2>2. CASE CreateRecord(i)
      BY <2>2, ConstantsAssumption DEF CreateRecord, SlotInv, TypeOK, Ops
    <2>3. CASE CreateRecordFails(i)
      <3>1. slot' = slot \ {i}
        BY <2>3 DEF CreateRecordFails, AbortAdmission
      <3>2. IsFiniteSet(slot') /\ Cardinality(slot') <= MaxConcurrent
        BY <3>1, SlotReturned DEF Ops
      <3> QED
        BY <2>3, <3>1, <3>2, ConstantsAssumption
          DEF CreateRecordFails, AbortAdmission, SlotInv, TypeOK, Ops
    <2>4. CASE LaunchCleanup(i)
      BY <2>4, ConstantsAssumption DEF LaunchCleanup, SlotInv, TypeOK, Ops
    <2> QED BY <1>2, <2>1, <2>2, <2>3, <2>4 DEF LaunchStep
  <1>3. ASSUME NEW r \in Restarts, RestartStep(r) PROVE SlotInv'
    <2>1. CASE RestartBegin(r)
      BY <2>1, ConstantsAssumption DEF RestartBegin, SlotInv, TypeOK, Ops
    <2>2. CASE RestartStop(r)
      BY <2>2, ConstantsAssumption DEF RestartStop, SlotInv, TypeOK, Ops
    <2>3. CASE RestartAwait(r)
      BY <2>3, ConstantsAssumption DEF RestartAwait, SlotInv, TypeOK, Ops
    <2>4. CASE RestartGivesUp(r)
      BY <2>4, ConstantsAssumption DEF RestartGivesUp, SlotInv, TypeOK, Ops
    <2> QED BY <1>3, <2>1, <2>2, <2>3, <2>4 DEF RestartStep
  <1>4. ASSUME NEW i \in Instances, StopStep(i) PROVE SlotInv'
    <2>1. CASE StopSignal(i)
      BY <2>1 DEF StopSignal, SlotInv, TypeOK, Ops
    <2>2. CASE StopPersist(i)
      BY <2>2 DEF StopPersist, SlotInv, TypeOK, Ops
    <2>3. CASE StopAwait(i)
      BY <2>3 DEF StopAwait, SlotInv, TypeOK, Ops
    <2>4. CASE StopTimeout(i)
      BY <2>4 DEF StopTimeout, SlotInv, TypeOK, Ops
    <2>5. CASE StopPersistFails(i)
      <3>1. CASE UNCHANGED <<pc, active>>
        BY <2>5, <3>1 DEF StopPersistFails, SlotInv, TypeOK, Ops
      <3>2. ASSUME NEW r \in Restarts, ReturnsTo(r, i) PROVE SlotInv'
        BY <2>5, <3>2, ConstantsAssumption
          DEF StopPersistFails, ReturnsTo, SlotInv, TypeOK, Ops
      <3> QED BY <2>5, <3>1, <3>2, StopReturns DEF StopPersistFails
    <2>6. CASE StopFinal(i)
      <3>1. CASE UNCHANGED <<pc, active>>
        BY <2>6, <3>1 DEF StopFinal, SlotInv, TypeOK, Ops
      <3>2. ASSUME NEW r \in Restarts, ReturnsTo(r, i) PROVE SlotInv'
        BY SMTT(30), <2>6, <3>2, ConstantsAssumption
          DEF StopFinal, ReturnsTo, SlotInv, TypeOK, Ops
      <3> QED BY <2>6, <3>1, <3>2, StopReturns DEF StopFinal
    <2> QED BY <1>4, <2>1, <2>2, <2>3, <2>4, <2>5, <2>6 DEF StopStep
  <1>5. ASSUME NEW op \in Ops, WaitStep(op) PROVE SlotInv'
    <2>1. CASE WaitTerminal(op)
      BY <2>1 DEF WaitTerminal, Terminal, SlotInv, TypeOK, Ops
    <2>2. CASE WaitPersist(op)
      BY <2>2 DEF WaitPersist, SlotInv, TypeOK, Ops
    <2>3. CASE WaitFinish(op)
      <3>1. slot' = slot \ {op}
        BY <2>3 DEF WaitFinish
      <3>2. IsFiniteSet(slot') /\ Cardinality(slot') <= MaxConcurrent
        BY <3>1, SlotReturned DEF Ops
      <3> QED
        BY <2>3, <3>1, <3>2, ConstantsAssumption DEF WaitFinish, SlotInv, TypeOK, Ops
    <2> QED BY <1>5, <2>1, <2>2, <2>3 DEF WaitStep
  <1>6. CASE ShutdownStep
    <2>1. CASE ShutdownBegin
      BY <2>1 DEF ShutdownBegin, SlotInv, TypeOK, Ops
    <2>2. CASE ShutdownSnapshot
      BY <2>2 DEF ShutdownSnapshot, SlotInv, TypeOK, Ops
    <2>3. CASE ShutdownTimeout
      BY <2>3 DEF ShutdownTimeout, SlotInv, TypeOK, Ops
    <2>4. CASE ShutdownPersist
      BY <2>4 DEF ShutdownPersist, SlotInv, TypeOK, Ops
    <2>5. ASSUME NEW i \in Instances, ShutdownSkip(i) PROVE SlotInv'
      BY <2>5 DEF ShutdownSkip, SlotInv, TypeOK, Ops
    <2>6. ASSUME NEW i \in Instances, ShutdownStop(i) PROVE SlotInv'
      BY <2>6 DEF ShutdownStop, SlotInv, TypeOK, Ops
    <2> QED BY <1>6, <2>1, <2>2, <2>3, <2>4, <2>5, <2>6 DEF ShutdownStep
  <1>7. ASSUME NEW r \in Restarts, NEW i \in Instances, RestartLookup(r, i)
        PROVE  SlotInv'
    BY <1>7 DEF RestartLookup, SlotInv, TypeOK, Ops
  <1>8. ASSUME NEW i \in Instances, UserStop(i) PROVE SlotInv'
    BY <1>8 DEF UserStop, SlotInv, TypeOK, Ops
  <1>9. ASSUME NEW i \in Instances, DeleteRecord(i) PROVE SlotInv'
    BY <1>9 DEF DeleteRecord, SlotInv, TypeOK, Ops
  <1>10. ASSUME NEW i \in Instances, ForgetCleaned(i) PROVE SlotInv'
    BY <1>10 DEF ForgetCleaned, SlotInv, TypeOK, Ops
  <1>11. ASSUME NEW op \in Ops, ProcessExit(op) PROVE SlotInv'
    BY <1>11 DEF ProcessExit, SlotInv, TypeOK, Ops
  <1>12. CASE Signal
    BY <1>12 DEF Signal, SlotInv, TypeOK, Ops
  <1>13. ASSUME NEW m \in Models, ResolveOrphan(m) PROVE SlotInv'
    BY <1>13 DEF ResolveOrphan, SlotInv, TypeOK, Ops
  <1>14. CASE UNCHANGED vars
    BY <1>14 DEF vars, SlotInv, TypeOK, Ops
  <1> QED
    BY <1>1, <1>2, <1>3, <1>4, <1>5, <1>6, <1>7,
       <1>8, <1>9, <1>10, <1>11, <1>12, <1>13, <1>14 DEF Next

\* Every step preserves the types.
LEMMA TypeStep ==
    ASSUME TypeOK, ClaimInv, TokenInv, SlotInv, [Next]_vars
    PROVE  TypeOK'
  <1> USE DEF ClaimInv
  <1>1. ASSUME NEW op \in Ops, OpStep(op) PROVE TypeOK'
    <2>1. CASE ArbCheck(op)
      BY <2>1, TargetOf, ConstantsAssumption DEF ArbCheck, AtArbitrate,
           LaunchPCs, RestartPCs, LaunchHolds, RestartHolds, Finished, Ops,
           TypeOK
    <2>2. CASE ArbReject(op)
      BY <2>2, TargetOf, ConstantsAssumption DEF ArbReject, AtArbitrate,
           LaunchPCs, RestartPCs, LaunchHolds, RestartHolds, Finished, Ops,
           TypeOK
    <2>3. CASE ArbPublish(op)
      <3>1. target[op] \in Instances
        BY <2>3, TargetOf DEF ArbPublish
      <3>2. CASE draining
        BY <2>3, <3>1, <3>2, ConstantsAssumption
           DEF ArbPublish, LaunchPCs, RestartPCs, Finished, TypeOK, Ops
      <3>3. CASE ~draining /\ op \in Instances
        <4>1. active' \in [Instances -> Ops \cup {NoOp}]
          BY <2>3, <3>1, <3>3 DEF ArbPublish, TypeOK
        <4>2. /\ pc' \in [Ops -> LaunchPCs \cup RestartPCs]
              /\ \A i \in Instances : pc'[i] \in LaunchPCs
              /\ \A r \in Restarts : pc'[r] \in RestartPCs
          BY <2>3, <3>3, ConstantsAssumption
             DEF ArbPublish, LaunchPCs, LaunchHolds, TypeOK, Ops
        <4>3. /\ preSpawnInFlight' \in Nat
              /\ registry' \subseteq Instances /\ tokens' \subseteq Instances
          BY <2>3, <3>1, <3>3 DEF ArbPublish, TypeOK
        <4>4. arbLock' \in [Models -> Ops \cup {NoOp}]
          BY <2>3 DEF ArbPublish, TypeOK
        <4> QED BY <2>3, <3>3, <4>1, <4>2, <4>3, <4>4 DEF ArbPublish, TypeOK
      <3>4. CASE ~draining /\ op \notin Instances
        <4>1. active' \in [Instances -> Ops \cup {NoOp}]
          BY <2>3, <3>1, <3>4 DEF ArbPublish, TypeOK
        <4>2. /\ pc' \in [Ops -> LaunchPCs \cup RestartPCs]
              /\ \A i \in Instances : pc'[i] \in LaunchPCs
              /\ \A r \in Restarts : pc'[r] \in RestartPCs
          BY <2>3, <3>4 DEF ArbPublish, RestartPCs, RestartHolds, TypeOK, Ops
        <4>3. arbLock' \in [Models -> Ops \cup {NoOp}]
          BY <2>3 DEF ArbPublish, TypeOK
        <4> QED BY <2>3, <3>4, <4>1, <4>2, <4>3 DEF ArbPublish, TypeOK
      <3> QED BY <3>2, <3>3, <3>4
    <2>4. CASE AcquireSlot(op)
      BY <2>4, TargetOf, ConstantsAssumption DEF AcquireSlot, LaunchPCs,
           RestartPCs, LaunchHolds, RestartHolds, Finished, Ops, TypeOK
    <2>5. CASE Commit(op)
      BY <2>5, TargetOf, TokenCounted, ConstantsAssumption DEF Commit,
           AtCommit, ConsumeToken, LaunchPCs, RestartPCs, LaunchHolds,
           RestartHolds, Finished, Ops, States, InFlight, Live, Terminal, TypeOK
    <2>6. CASE CommitAbort(op)
      <3>1. target[op] \in Instances
        BY <2>6, TargetOf DEF CommitAbort, AtCommit
      <3>2. CASE op \in Instances
        BY SMTT(30), <2>6, <3>1, <3>2, TokenCounted, ConstantsAssumption
           DEF CommitAbort, ConsumeToken, BestEffort, LaunchPCs, RestartPCs,
               Finished, States, InFlight, Terminal, TypeOK, Ops
      <3>3. CASE op \notin Instances
        BY <2>6, <3>1, <3>3, ConstantsAssumption
           DEF CommitAbort, LaunchPCs, RestartPCs, Finished, TypeOK, Ops
      <3> QED BY <3>2, <3>3
    <2>7. CASE SpawnPersistFails(op)
      <3>1. target[op] \in Instances
        BY <2>7, TargetOf DEF SpawnPersistFails
      <3>2. CASE op \in Instances
        BY <2>7, <3>1, <3>2, ConstantsAssumption
           DEF SpawnPersistFails, EndUnspawned, LaunchPCs, LaunchHolds, Finished,
               States, InFlight, Terminal, Live, TypeOK, Ops
      <3>3. CASE op \notin Instances
        BY SMTT(30), <2>7, <3>1, <3>3, ConstantsAssumption
           DEF SpawnPersistFails, EndUnspawned, RestartPCs, Finished, States, InFlight,
               Terminal, Live, TypeOK, Ops
      <3> QED BY <3>2, <3>3
    <2>8. CASE SpawnStartFails(op)
      <3>1. target[op] \in Instances
        BY <2>8, TargetOf DEF SpawnStartFails
      <3>2. /\ istate' \in [Instances -> States]
            /\ durable' \in [Instances -> States \cup {"absent"}]
            /\ lifecycleMu' \in [Instances -> Ops \cup {NoOp, User, Drain}]
            /\ active' \in [Instances -> Ops \cup {NoOp}]
            /\ slot' \subseteq Ops /\ runDone' \subseteq Ops
        BY <2>8, <3>1 DEF SpawnStartFails, EndUnspawned, States, InFlight, Live,
             Terminal, TypeOK
      <3>3. CASE op \in Instances
        <4>1. Goto(op, "cleanup")
          BY <2>8, <3>3 DEF SpawnStartFails, EndUnspawned
        <4>2. PcTyped'
          BY <3>3, <4>1, GotoLaunch DEF LaunchPCs, LaunchHolds
        <4> QED BY <2>8, <3>2, <4>2 DEF SpawnStartFails, PcTyped, TypeOK
      <3>4. CASE op \notin Instances
        <4>1. Goto(op, "failed")
          BY <2>8, <3>4 DEF SpawnStartFails, EndUnspawned
        <4>2. PcTyped'
          BY <3>4, <4>1, GotoRestart DEF RestartPCs, Finished, Ops
        <4> QED BY <2>8, <3>2, <4>2 DEF SpawnStartFails, PcTyped, TypeOK
      <3> QED BY <3>3, <3>4
    <2>9. CASE SpawnOk(op)
      BY <2>9, TargetOf, ConstantsAssumption DEF SpawnOk, LaunchPCs,
           RestartPCs, LaunchHolds, RestartHolds, Finished, Ops, States,
           InFlight, Live, Terminal, TypeOK
    <2>10. CASE RunningDurable(op)
      BY <2>10, TargetOf, ConstantsAssumption DEF RunningDurable, LaunchPCs,
           RestartPCs, LaunchHolds, RestartHolds, Finished, Ops, States,
           InFlight, Live, Terminal, TypeOK
    <2>11. CASE RollbackConfirmed(op)
      <3>1. target[op] \in Instances
        BY <2>11, TargetOf DEF RollbackConfirmed
      <3>2. /\ istate' \in [Instances -> States]
            /\ durable' \in [Instances -> States \cup {"absent"}]
            /\ lifecycleMu' \in [Instances -> Ops \cup {NoOp, User, Drain}]
            /\ active' \in [Instances -> Ops \cup {NoOp}]
        BY <2>11, <3>1 DEF RollbackConfirmed, BestEffort, States,
             InFlight, Live, Terminal, TypeOK
      <3>3. /\ proc' \in [Ops -> {"none", "alive", "gone"}]
            /\ waitPc' \in [Ops -> {"none", "waiting", "persist", "finish", "done"}]
            /\ slot' \subseteq Ops /\ runDone' \subseteq Ops
        BY <2>11 DEF RollbackConfirmed, TypeOK
      <3>4. PcTyped'
        <4>1. CASE op \in Instances
          BY <2>11, <4>1, GotoLaunch DEF RollbackConfirmed, LaunchPCs, LaunchHolds
        <4>2. CASE op \notin Instances
          BY <2>11, <4>2, GotoRestart DEF RollbackConfirmed, RestartPCs, Finished, Ops
        <4> QED BY <4>1, <4>2
      <3> QED BY <2>11, <3>2, <3>3, <3>4 DEF RollbackConfirmed, PcTyped, TypeOK
    <2>12. CASE RollbackResidual(op)
      BY <2>12, TargetOf, ConstantsAssumption DEF RollbackResidual, LaunchPCs,
           RestartPCs, LaunchHolds, RestartHolds, Finished, Ops, States,
           InFlight, Live, Terminal, TypeOK
    <2> QED BY <1>1, <2>1, <2>2, <2>3, <2>4, <2>5, <2>6, <2>7, <2>8, <2>9, <2>10,
      <2>11, <2>12 DEF OpStep
  <1>2. ASSUME NEW i \in Instances, LaunchStep(i) PROVE TypeOK'
    <2>1. CASE LaunchSlotFails(i)
      BY <2>1, TokenCounted, ConstantsAssumption DEF LaunchSlotFails,
           AbortAdmission, ConsumeToken, LaunchPCs, RestartPCs, LaunchHolds,
           RestartHolds, Finished, Ops, TypeOK
    <2>2. CASE CreateRecord(i)
      BY <2>2, ConstantsAssumption DEF CreateRecord, LaunchPCs, RestartPCs,
           LaunchHolds, RestartHolds, Finished, Ops, States, InFlight, Live,
           Terminal, TypeOK
    <2>3. CASE CreateRecordFails(i)
      BY <2>3, TokenCounted, ConstantsAssumption DEF CreateRecordFails,
           AbortAdmission, ConsumeToken, LaunchPCs, RestartPCs, LaunchHolds,
           RestartHolds, Finished, Ops, TypeOK
    <2>4. CASE LaunchCleanup(i)
      BY <2>4, ConstantsAssumption DEF LaunchCleanup, BestEffort, LaunchPCs,
           RestartPCs, LaunchHolds, RestartHolds, Finished, Ops, States,
           InFlight, Live, Terminal, TypeOK
    <2> QED BY <1>2, <2>1, <2>2, <2>3, <2>4 DEF LaunchStep
  <1>3. ASSUME NEW r \in Restarts, RestartStep(r) PROVE TypeOK'
    <2>1. CASE RestartBegin(r)
      BY <2>1, TargetOf, ConstantsAssumption DEF RestartBegin, LaunchPCs,
           RestartPCs, LaunchHolds, RestartHolds, Finished, Ops, TypeOK
    <2>2. CASE RestartStop(r)
      <3>1. target[r] \in Instances
        BY <2>2, TargetOf DEF RestartStop, Ops
      <3>2. CASE istate[target[r]] \in Terminal
        BY <2>2, <3>1, <3>2, ConstantsAssumption
           DEF RestartStop, RestartPCs, RestartHolds, TypeOK, Ops
      <3>3. CASE istate[target[r]] \notin Terminal
        BY <2>2, <3>1, <3>3
           DEF RestartStop, BeginStop, StopPCs, States, InFlight, Live, TypeOK
      <3> QED BY <3>2, <3>3
    <2>3. CASE RestartAwait(r)
      BY <2>3, TargetOf, ConstantsAssumption DEF RestartAwait, LaunchPCs,
           RestartPCs, LaunchHolds, RestartHolds, Finished, Ops, TypeOK
    <2>4. CASE RestartGivesUp(r)
      BY <2>4, TargetOf, ConstantsAssumption DEF RestartGivesUp, LaunchPCs,
           RestartPCs, LaunchHolds, RestartHolds, Finished, Ops, TypeOK
    <2> QED BY <1>3, <2>1, <2>2, <2>3, <2>4 DEF RestartStep
  <1>4. ASSUME NEW i \in Instances, StopStep(i) PROVE TypeOK'
    <2>1. CASE StopSignal(i)
      BY <2>1 DEF StopSignal, StopPCs, TypeOK
    <2>2. CASE StopPersist(i)
      BY <2>2 DEF StopPersist, StopPCs, TypeOK
    <2>3. CASE StopAwait(i)
      BY <2>3 DEF StopAwait, StopPCs, TypeOK
    <2>4. CASE StopTimeout(i)
      BY <2>4 DEF StopTimeout, StopPCs, TypeOK
    <2>5. CASE StopPersistFails(i)
      <3>1. stopPc' \in [Instances -> StopPCs]
        BY <2>5 DEF StopPersistFails, StopReturn, StopPCs, TypeOK
      <3>2. CASE UNCHANGED <<pc, active>>
        BY <2>5, <3>1, <3>2 DEF StopPersistFails, StopReturn, TypeOK
      <3>3. ASSUME NEW r \in Restarts, ReturnsTo(r, i) PROVE TypeOK'
        <4>1. PcTyped'
          BY <3>3, GotoRestart DEF ReturnsTo, RestartPCs, RestartHolds, Finished
        <4>2. /\ active' \in [Instances -> Ops \cup {NoOp}]
              /\ lifecycleMu' \in [Instances -> Ops \cup {NoOp, User, Drain}]
              /\ shutdownTodo' \subseteq Instances /\ shutdownErr' \in BOOLEAN
          BY <2>5, <3>3 DEF StopPersistFails, StopReturn, ReturnsTo, TypeOK
        <4> QED BY <2>5, <3>1, <4>1, <4>2 DEF StopPersistFails, PcTyped, TypeOK
      <3> QED BY <2>5, <3>2, <3>3, StopReturns DEF StopPersistFails
    <2>6. CASE StopFinal(i)
      <3>1. stopPc' \in [Instances -> StopPCs]
        BY <2>6 DEF StopFinal, StopReturn, StopPCs, TypeOK
      <3>2. CASE UNCHANGED <<pc, active>>
        BY <2>6, <3>1, <3>2 DEF StopFinal, StopReturn, TypeOK
      <3>3. ASSUME NEW r \in Restarts, ReturnsTo(r, i) PROVE TypeOK'
        <4>1. PcTyped'
          BY <3>3, GotoRestart DEF ReturnsTo, RestartPCs, RestartHolds, Finished
        <4>2. /\ active' \in [Instances -> Ops \cup {NoOp}]
              /\ lifecycleMu' \in [Instances -> Ops \cup {NoOp, User, Drain}]
              /\ shutdownTodo' \subseteq Instances /\ shutdownErr' \in BOOLEAN
          BY <2>6, <3>3 DEF StopFinal, StopReturn, ReturnsTo, TypeOK
        <4> QED BY <2>6, <3>1, <4>1, <4>2 DEF StopFinal, PcTyped, TypeOK
      <3> QED BY <2>6, <3>2, <3>3, StopReturns DEF StopFinal
    <2> QED BY <1>4, <2>1, <2>2, <2>3, <2>4, <2>5, <2>6 DEF StopStep
  <1>5. ASSUME NEW op \in Ops, WaitStep(op) PROVE TypeOK'
    <2>1. CASE WaitTerminal(op)
      <3>1. PICK s \in Terminal :
               /\ istate' = [istate EXCEPT ![target[op]] = s]
               /\ waitEntry' = [waitEntry EXCEPT ![op] = s]
        BY <2>1 DEF WaitTerminal, Terminal
      <3> QED BY <2>1, <3>1 DEF WaitTerminal, States, TypeOK
    <2>2. CASE WaitPersist(op)
      BY <2>2 DEF WaitPersist, BestEffort, SlotInv, States, TypeOK
    <2>3. CASE WaitFinish(op)
      BY <2>3 DEF WaitFinish, TypeOK
    <2> QED BY <1>5, <2>1, <2>2, <2>3 DEF WaitStep
  <1>6. CASE ShutdownStep
    <2>1. CASE ShutdownBegin
      BY <2>1 DEF ShutdownBegin, TypeOK
    <2>2. CASE ShutdownSnapshot
      BY <2>2 DEF ShutdownSnapshot, TypeOK
    <2>3. CASE ShutdownTimeout
      BY <2>3 DEF ShutdownTimeout, TypeOK
    <2>4. CASE ShutdownPersist
      BY <2>4 DEF ShutdownPersist, States, InFlight, Live, Terminal, TypeOK
    <2>5. ASSUME NEW i \in Instances, ShutdownSkip(i) PROVE TypeOK'
      BY <2>5 DEF ShutdownSkip, TypeOK
    <2>6. ASSUME NEW i \in Instances, ShutdownStop(i) PROVE TypeOK'
      BY <2>6 DEF ShutdownStop, BeginStop, StopPCs, States, InFlight, Live,
           Terminal, TypeOK
    <2> QED BY <1>6, <2>1, <2>2, <2>3, <2>4, <2>5, <2>6 DEF ShutdownStep
  <1>7. ASSUME NEW r \in Restarts, NEW i \in Instances, RestartLookup(r, i)
        PROVE  TypeOK'
    BY <1>7, ConstantsAssumption DEF RestartLookup, LaunchPCs, RestartPCs,
         LaunchHolds, RestartHolds, Finished, Ops, TypeOK
  <1>8. ASSUME NEW i \in Instances, UserStop(i) PROVE TypeOK'
    BY <1>8 DEF UserStop, BeginStop, StopPCs, States, InFlight, Live, Terminal,
         TypeOK
  <1>9. ASSUME NEW i \in Instances, DeleteRecord(i) PROVE TypeOK'
    BY <1>9 DEF DeleteRecord, TypeOK
  <1>10. ASSUME NEW i \in Instances, ForgetCleaned(i) PROVE TypeOK'
    BY <1>10 DEF ForgetCleaned, TypeOK
  <1>11. ASSUME NEW op \in Ops, ProcessExit(op) PROVE TypeOK'
    BY <1>11 DEF ProcessExit, TypeOK
  <1>12. CASE Signal
    BY <1>12 DEF Signal, TypeOK
  <1>13. ASSUME NEW m \in Models, ResolveOrphan(m) PROVE TypeOK'
    BY <1>13 DEF ResolveOrphan, TypeOK
  <1>14. CASE UNCHANGED vars
    BY <1>14 DEF vars, TypeOK
  <1> QED
    BY <1>1, <1>2, <1>3, <1>4, <1>5, <1>6, <1>7,
       <1>8, <1>9, <1>10, <1>11, <1>12, <1>13, <1>14 DEF Next

\* A publication makes its own controller visible, if it is registered, and no
\* other.
LEMMA PublishedVisible ==
    ASSUME TypeOK, ClaimInv, NEW op \in Ops, Publishes(op)
    PROVE  /\ target[op] \in Instances
           /\ \A j \in Instances \ {target[op]} : Visible(j)' <=> Visible(j)
           /\ Visible(target[op]) => Visible(target[op])'
  <1>1. target[op] \in Instances
    BY TargetOf DEF Publishes, ArbPublish, ClaimInv
  <1> QED
    BY <1>1, ConstantsAssumption
       DEF Publishes, ArbPublish, Visible, TypeOK, Ops, ClaimInv, TargetsInv

\* Visible controllers are registered.
LEMMA VisibleRegistered ==
    ASSUME NEW i, Visible(i)
    PROVE  i \in registry
  BY DEF Visible

\* While an operation holds its model's lock nobody else publishes there, so
\* its scan stays true.
LEMMA ScanStep ==
    ASSUME TypeOK, TypeOK', ClaimInv, ScanInv, [Next]_vars, Enters
    PROVE  ScanInv'
  <1> SUFFICES ASSUME NEW o \in Ops, pc'[o] = "arbitrating"
               PROVE  NoConflict(target[o])'
    BY DEF ScanInv
  <1>1. CASE ArbCheck(o)
    BY <1>1 DEF ArbCheck, Admissible, NoConflict, Visible
  <1>2. CASE ~ArbCheck(o)
    <2>1. pc[o] = "arbitrating" /\ target'[o] = target[o] /\ NoConflict(target[o])
      BY <1>2 DEF Enters, ScanInv
    <2> SUFFICES ASSUME NEW j \in registry' \ {target[o]},
                        ModelOf[j] = ModelOf[target[o]], Visible(j)'
                 PROVE  Compatible(OwnerOf[target[o]], OwnerOf[j])
      BY <2>1 DEF NoConflict
    <2>2. j \in Instances
      BY DEF TypeOK
    <2>3. Visible(j)
      <3>1. CASE Shrinks
        BY <2>2, <3>1 DEF Shrinks
      <3>2. ASSUME NEW op \in Ops, Publishes(op) PROVE Visible(j)
        <4>1. j # target[op]
          BY <2>1, <3>2, TargetOf, ConstantsAssumption
             DEF Publishes, ArbPublish, ClaimInv, LockInv, TypeOK, Ops
        <4> QED BY <2>2, <3>2, <4>1, PublishedVisible
      <3> QED BY <3>1, <3>2, VisibleStep
    <2> QED BY <2>1, <2>3, VisibleRegistered DEF NoConflict
  <1> QED BY <1>1, <1>2

\* A publication joins only controllers it is compatible with.
LEMMA ExclusionStep ==
    ASSUME TypeOK, ClaimInv, ScanInv, VisibleExclusion, [Next]_vars
    PROVE  VisibleExclusion'
  <1> SUFFICES ASSUME NEW i \in Instances, NEW j \in Instances,
                      SameModel(i, j), Visible(i)', Visible(j)'
               PROVE  MayCoexist(OwnerOf[i], OwnerOf[j])
    BY DEF VisibleExclusion, SameModel, MayCoexist
  <1>1. CASE Shrinks
    BY <1>1 DEF Shrinks, VisibleExclusion
  <1>2. ASSUME NEW op \in Ops, Publishes(op)
        PROVE  MayCoexist(OwnerOf[i], OwnerOf[j])
    <2>1. NoConflict(target[op])
      BY <1>2 DEF Publishes, ArbPublish, ScanInv
    <2>2. CASE i = target[op]
      <3>1. Visible(j) /\ j \in registry \ {i}
        BY <1>2, <2>2, PublishedVisible, VisibleRegistered DEF SameModel
      <3> QED BY <2>1, <2>2, <3>1 DEF NoConflict, SameModel, Compatible, MayCoexist
    <2>3. CASE j = target[op]
      <3>1. Visible(i) /\ i \in registry \ {j}
        BY <1>2, <2>3, PublishedVisible, VisibleRegistered DEF SameModel
      <3> QED BY <2>1, <2>3, <3>1 DEF NoConflict, SameModel, Compatible, MayCoexist
    <2>4. CASE i # target[op] /\ j # target[op]
      BY <1>2, <2>4, PublishedVisible DEF VisibleExclusion
    <2> QED BY <2>2, <2>3, <2>4
  <1> QED BY <1>1, <1>2, VisibleStep

-----------------------------------------------------------------------------
(* The inductive invariant                                                 *)

\* The initial states have the types.
LEMMA InitTypes ==
    ASSUME Init
    PROVE  TypeOK
  <1>1. /\ registry \subseteq Instances
        /\ istate \in [Instances -> States]
        /\ active \in [Instances -> Ops \cup {NoOp}]
        /\ run \in [Instances -> Ops \cup {NoOp}]
        /\ tokens \subseteq Instances
        /\ preSpawnInFlight \in Nat
    BY DEF Init, States, InFlight
  <1>2. /\ draining \in BOOLEAN /\ zeroSig \in BOOLEAN
        /\ cancelled \in BOOLEAN /\ shutdownErr \in BOOLEAN
    BY DEF Init
  <1>3. /\ arbLock \in [Models -> Ops \cup {NoOp}]
        /\ lifecycleMu \in [Instances -> Ops \cup {NoOp, User, Drain}]
    BY DEF Init
  <1>4. /\ pc \in [Ops -> LaunchPCs \cup RestartPCs]
        /\ \A i \in Instances : pc[i] \in LaunchPCs
        /\ \A r \in Restarts : pc[r] \in RestartPCs
        /\ target \in [Ops -> Instances \cup {NoOp}]
    BY DEF Init, Ops, LaunchPCs, RestartPCs
  <1>5. /\ slot \subseteq Ops /\ runDone \subseteq Ops
        /\ proc \in [Ops -> {"none", "alive", "gone"}]
        /\ waitPc \in [Ops -> {"none", "waiting", "persist", "finish", "done"}]
        /\ waitEntry \in [Ops -> Terminal \cup {"none"}]
    BY DEF Init
  <1>6. /\ stopPc \in [Instances -> StopPCs]
        /\ durable \in [Instances -> States \cup {"absent"}]
        /\ orphans \subseteq Models
        /\ shutdown \in {"idle", "drain", "stop", "ok", "err"}
        /\ shutdownTodo \subseteq Instances
    BY ConstantsAssumption DEF Init, StopPCs
  <1> QED BY <1>1, <1>2, <1>3, <1>4, <1>5, <1>6 DEF TypeOK

\* The initial states satisfy the inductive invariant.
LEMMA InitInv == Init => IInv
  <1> SUFFICES ASSUME Init PROVE IInv
    OBVIOUS
  <1>1. TypeOK
    BY InitTypes
  <1>2. TargetsInv
    BY ConstantsAssumption DEF Init, TargetsInv, Ops
  <1>3. LockInv /\ ScanInv /\ StopInv /\ ClaimHeld
    BY DEF Init, LockInv, ScanInv, StopInv, ClaimHeld, LaunchHolds, RestartHolds, Ops
  <1>4. VisibleExclusion
    BY DEF Init, VisibleExclusion, Visible
  <1>5. IsFiniteSet({}) /\ Cardinality({}) = 0
    BY FS_EmptySet
  <1>6. TokenInv
    BY <1>5 DEF Init, TokenInv, PreSpawn, Ops
  <1>7. SlotInv
    <2>1. slot = {} /\ MaxConcurrent >= 0
      BY ConstantsAssumption DEF Init
    <2>2. \A op \in Ops : pc[op] = "idle" /\ proc[op] = "none" /\ waitPc[op] = "none"
      BY DEF Init
    <2> QED BY <1>5, <2>1, <2>2 DEF SlotInv
  <1> QED BY <1>1, <1>2, <1>3, <1>4, <1>6, <1>7 DEF IInv, ClaimInv

\* Every step preserves the inductive invariant.
LEMMA NextInv == IInv /\ [Next]_vars => IInv'
  <1> SUFFICES ASSUME IInv, [Next]_vars PROVE IInv'
    OBVIOUS
  <1>1. TypeOK /\ ClaimInv /\ ScanInv /\ VisibleExclusion /\ TokenInv /\ SlotInv
    BY DEF IInv
  <1>2. TypeOK'
    BY <1>1, TypeStep
  <1>3. TargetsInv' /\ LockInv' /\ Enters /\ StopInv' /\ ClaimHeld'
    BY <1>1, TargetsStep, LockStep, StopInvStep, ClaimStep
  <1>4. ScanInv' /\ VisibleExclusion'
    BY <1>1, <1>2, <1>3, ScanStep, ExclusionStep
  <1>5. TokenInv' /\ SlotInv'
    BY <1>1, TokenStep, SlotStep
  <1> QED BY <1>2, <1>3, <1>4, <1>5 DEF IInv, ClaimInv

\* IInv holds in every reachable state.
THEOREM Invariance == Spec => []IInv
  BY InitInv, NextInv, PTL DEF Spec

-----------------------------------------------------------------------------
(* Theorems                                                                *)

\* Every variable keeps its type.
THEOREM TypeCorrectness == Spec => []TypeOK
  <1>1. IInv => TypeOK
    BY DEF IInv
  <1> QED BY <1>1, Invariance, PTL

\* Conflict-visible controllers of one model may coexist.
THEOREM ExclusionHolds == Spec => []VisibleExclusion
  <1>1. IInv => VisibleExclusion
    BY DEF IInv
  <1> QED BY <1>1, Invariance, PTL

\* A published operation keeps its controller until it releases it.
THEOREM ClaimsHold == Spec => []ClaimHeld
  <1>1. IInv => ClaimHeld
    BY DEF IInv, ClaimInv
  <1> QED BY <1>1, Invariance, PTL

\* The drain counts the launches in their pre-spawn window, and ends at zero.
THEOREM DrainCounts == Spec => []DrainAccounting
  <1>1. IInv => DrainAccounting
    BY DEF IInv, TokenInv, DrainAccounting
  <1> QED BY <1>1, Invariance, PTL

\* Live processes hold slots, and there are no more slots than the limit.
THEOREM SlotsBoundProcesses == Spec => []LiveHoldsSlot
  <1>1. IInv => LiveHoldsSlot
    BY ConstantsAssumption DEF IInv, SlotInv, LiveHoldsSlot, Alive
  <1> QED BY <1>1, Invariance, PTL

\* The supervisor implements the abstract lock: its steps claim, release or
\* leave the set of conflict-visible controllers.
THEOREM Refinement == Spec => ImplementsExclusion
  <1> DEFINE held == {i \in Instances : Visible(i)}
  <1>1. Init => Exclusion!Init
    BY DEF Init, Exclusion!Init, Visible
  <1>2. IInv /\ [Next]_vars => [Exclusion!Next]_held
    <2> SUFFICES ASSUME IInv, [Next]_vars PROVE [Exclusion!Next]_held
      OBVIOUS
    <2>1. TypeOK /\ ClaimInv /\ ScanInv
      BY DEF IInv
    <2>2. CASE Shrinks
      <3>1. CASE held' = held
        BY <3>1
      <3>2. CASE held' # held
        <4>1. PICK h \in Instances : Visible(h) /\ ~Visible(h)'
          BY <2>2, <3>2 DEF Shrinks
        <4>2. held' = held \ {h}
          BY <2>2, <4>1 DEF Shrinks
        <4> QED BY <4>1, <4>2 DEF Exclusion!Next, Exclusion!Release
      <3> QED BY <3>1, <3>2
    <2>3. ASSUME NEW op \in Ops, Publishes(op) PROVE [Exclusion!Next]_held
      <3>1. PICK h \in Instances :
               /\ h = target[op]
               /\ \A j \in Instances \ {h} : Visible(j)' <=> Visible(j)
               /\ Visible(h) => Visible(h)'
        BY <2>1, <2>3, PublishedVisible DEF Publishes, ArbPublish
      <3>2. CASE ~Visible(h)'
        <4>1. \A j \in Instances : Visible(j)' <=> Visible(j)
          BY <3>1, <3>2
        <4>2. held' = held
          BY <4>1
        <4> QED BY <4>2
      <3>3. CASE Visible(h)'
        <4>0. \A j \in Instances : Visible(j)' <=> Visible(j) \/ j = h
          BY <3>1, <3>3
        <4>1. held' = held \cup {h}
          BY <3>1, <4>0
        <4>2. NoConflict(h)
          BY <2>1, <2>3, <3>1 DEF Publishes, ArbPublish, ScanInv
        <4>3. ASSUME NEW g \in held, SameModel(h, g)
              PROVE  Compatible(OwnerOf[h], OwnerOf[g])
          BY <4>2, <4>3, VisibleRegistered DEF NoConflict, SameModel
        <4> QED BY <3>1, <4>1, <4>3 DEF Exclusion!Next, Exclusion!Claim
      <3> QED BY <3>2, <3>3
    <2> QED BY <2>1, <2>2, <2>3, VisibleStep
  <1> QED
    BY <1>1, <1>2, Invariance, PTL DEF Spec, ImplementsExclusion, Exclusion!Spec
====
