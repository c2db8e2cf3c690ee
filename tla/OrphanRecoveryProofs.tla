----------------------- MODULE OrphanRecoveryProofs -----------------------
(***************************************************************************)
(* OrphanRecovery for every set of records, models and requests: IInv is   *)
(* inductive, one lemma for each of its parts and in it one step for each  *)
(* action, and implies the safety properties.                              *)
(***************************************************************************)
EXTENDS OrphanRecovery, TLAPS

USE DEF reqVars, goalVars, history
-----------------------------------------------------------------------------

\* The outcomes of one round of Recover's loop.
LEMMA ClassifyOutcomes ==
    ASSUME NEW r \in Records, Classify(r)
    PROVE  \/ unsaved' = TRUE /\ UNCHANGED <<rec, givenUp>>
           \/ /\ rec' = Resolved(r, "orphan", "") /\ UNCHANGED <<givenUp, unsaved>>
              /\ rec[r].pid /\ at[r] \in {"own", "samePath"}
           \/ /\ GiveUp(r) /\ UNCHANGED unsaved
              /\ \E why \in {"pid-not-found", "identity-unconfirmed"} :
                    rec' = Resolved(r, "stale", why)
  <1>1. CASE unsaved' = TRUE /\ UNCHANGED <<rec, givenUp>>
    BY <1>1
  <1>2. ASSUME NEW v \in Verdicts(r), rec' = Resolved(r, v[1], v[2]),
               IF v[1] = "stale" THEN GiveUp(r) ELSE UNCHANGED givenUp,
               UNCHANGED unsaved
        PROVE  \/ /\ rec' = Resolved(r, "orphan", "") /\ UNCHANGED <<givenUp, unsaved>>
                  /\ rec[r].pid /\ at[r] \in {"own", "samePath"}
               \/ /\ GiveUp(r) /\ UNCHANGED unsaved
                  /\ \E why \in {"pid-not-found", "identity-unconfirmed"} :
                        rec' = Resolved(r, "stale", why)
    <2>1. CASE v = <<"stale", "pid-not-found">>
      BY <1>2, <2>1
    <2>2. CASE v = <<"stale", "identity-unconfirmed">>
      BY <1>2, <2>2
    <2>3. CASE v = <<"orphan", "">> /\ rec[r].pid /\ at[r] \in {"own", "samePath"}
      BY <1>2, <2>3
    <2> QED BY <2>1, <2>2, <2>3 DEF Verdicts
  <1> QED BY <1>1, <1>2 DEF Classify

-----------------------------------------------------------------------------

\* Type correctness is preserved by every step.
LEMMA TypeOKStep == IInv /\ [Next]_vars => TypeOK'
  <1> SUFFICES ASSUME IInv, [Next]_vars PROVE TypeOK'
    OBVIOUS
  <1> USE DEF IInv
  <1>1. ASSUME NEW r \in Records, ProcessDies(r) PROVE TypeOK'
    BY <1>1 DEF ProcessDies, TypeOK, Strangers, KillPCs, Requests, RecStates,
       Reasons
  <1>2. ASSUME NEW r \in Records, PidRecycled(r) PROVE TypeOK'
    <2>1. PICK who \in {"none"} \cup Strangers : at' = [at EXCEPT ![r] = who]
      BY <1>2 DEF PidRecycled
    <2>2. at' \in [Records -> {"unborn", "own", "none"} \cup Strangers]
      BY <2>1 DEF TypeOK
    <2> QED BY <1>2, <2>2 DEF PidRecycled, TypeOK
  <1>3. ASSUME NEW r \in Records, LaunchAdmit(r) PROVE TypeOK'
    BY <1>3 DEF LaunchAdmit, Resolved, Admissible, TypeOK, Strangers, KillPCs,
       Requests, RecStates, Reasons
  <1>4. ASSUME NEW r \in Records, LaunchSpawn(r) PROVE TypeOK'
    BY <1>4 DEF LaunchSpawn, TypeOK, Strangers, KillPCs, Requests, RecStates,
       Reasons
  <1>5. ASSUME NEW r \in Records, LaunchRunning(r) PROVE TypeOK'
    BY <1>5, ZenonT(40) DEF LaunchRunning, TypeOK, Strangers, KillPCs, Requests, RecStates,
       Reasons
  <1>6. ASSUME NEW r \in Records, LaunchExit(r) PROVE TypeOK'
    <2>1. CASE UNCHANGED rec
      BY <1>6, <2>1 DEF LaunchExit, Resolved, TypeOK, Strangers, KillPCs, Requests,
         RecStates, Reasons
    <2>2. CASE rec' = Resolved(r, "exited", "")
      BY <1>6, <2>2 DEF LaunchExit, Resolved, TypeOK, Strangers, KillPCs, Requests,
         RecStates, Reasons
    <2> QED BY <1>6, <2>1, <2>2 DEF LaunchExit
  <1>7. ASSUME NEW r \in Records, CleanHistory(r) PROVE TypeOK'
    BY <1>7, ZenonT(40) DEF CleanHistory, TypeOK, Strangers, KillPCs, Requests, RecStates,
       Reasons
  <1>8. ASSUME NEW r \in Records, Classify(r) PROVE TypeOK'
    <2>1. \E s \in RecStates, why \in Reasons :
             rec' = rec \/ rec' = Resolved(r, s, why)
      BY <1>8, ClassifyOutcomes DEF RecStates, Reasons
    <2>2. rec' \in [Records -> [state : RecStates, pid : BOOLEAN, reason : Reasons]]
      BY <2>1 DEF TypeOK, Resolved
    <2>3. givenUp' \subseteq Records /\ unsaved' \in BOOLEAN
      BY <1>8, ClassifyOutcomes DEF TypeOK, GiveUp
    <2> QED BY <1>8, <2>2, <2>3 DEF Classify, TypeOK
  <1>9. CASE Crash
    BY <1>9 DEF Crash, TypeOK, Strangers, KillPCs, Requests, RecStates, Reasons
  <1>10. CASE Boot
    BY <1>10 DEF Boot, TypeOK, Strangers, KillPCs, Requests, RecStates, Reasons
  <1>11. CASE RecoverEnds
    BY <1>11 DEF RecoverEnds, TypeOK, Strangers, KillPCs, Requests, RecStates,
       Reasons
  <1>12. ASSUME NEW d \in Dismisses, DismissGet(d) PROVE TypeOK'
    BY <1>12 DEF DismissGet, TypeOK, Strangers, KillPCs, Requests, RecStates,
       Reasons
  <1>13. ASSUME NEW d \in Dismisses, DismissWrite(d) PROVE TypeOK'
    <2>0. object[d] \in Records
      BY DEF TypeOK, Requests
    <2>1. CASE UNCHANGED <<rec, givenUp>>
      BY <1>13, <2>0, <2>1 DEF DismissWrite, Resolved, GiveUp, TypeOK, Strangers,
         KillPCs, Requests, RecStates, Reasons
    <2>2. CASE /\ rec' = Resolved(object[d], "stale", "reconciled-by-user")
             /\ GiveUp(object[d])
      BY <1>13, <2>0, <2>2 DEF DismissWrite, Resolved, GiveUp, TypeOK, Strangers,
         KillPCs, Requests, RecStates, Reasons
    <2> QED BY <1>13, <2>1, <2>2 DEF DismissWrite
  <1>14. ASSUME NEW k \in Kills, KillGet(k) PROVE TypeOK'
    BY <1>14 DEF KillGet, KillGoto, TypeOK, Strangers, KillPCs, Requests,
       RecStates, Reasons
  <1>15. ASSUME NEW k \in Kills, KillVerify(k) PROVE TypeOK'
    <2>1. killPc' \in [Kills -> KillPCs] /\ reason' \in [Kills -> Reasons]
      BY <1>15 DEF KillVerify, KillGoto, ToFinish, TypeOK, KillPCs, Reasons
    <2>2. object[k] \in Records
      BY DEF TypeOK, Requests
    <2>3. givenUp' \subseteq Records
      BY <1>15, <2>2 DEF KillVerify, GiveUp, TypeOK
    <2> QED BY <1>15, <2>1, <2>3 DEF KillVerify, KillGoto, ToFinish, TypeOK
  <1>16. ASSUME NEW k \in Kills, KillTerm(k) PROVE TypeOK'
    <2>1. CASE ToFinish(k, "pid-gone") /\ ~Alive(object[k])
      BY <1>16, <2>1 DEF KillTerm, KillGoto, ToFinish, Alive, TypeOK, Strangers,
         KillPCs, Requests, RecStates, Reasons
    <2>2. CASE KillGoto(k, "grace") /\ UNCHANGED reason
      BY <1>16, <2>2 DEF KillTerm, KillGoto, ToFinish, Alive, TypeOK, Strangers,
         KillPCs, Requests, RecStates, Reasons
    <2>3. CASE KillGoto(k, "refuse") /\ UNCHANGED reason
      BY <1>16, <2>3 DEF KillTerm, KillGoto, ToFinish, Alive, TypeOK, Strangers,
         KillPCs, Requests, RecStates, Reasons
    <2> QED BY <1>16, <2>1, <2>2, <2>3 DEF KillTerm
  <1>17. ASSUME NEW k \in Kills, KillGrace(k) PROVE TypeOK'
    BY <1>17, ZenonT(40) DEF KillGrace, KillGoto, ToFinish, Alive, TypeOK, Strangers, KillPCs,
       Requests, RecStates, Reasons
  <1>18. ASSUME NEW k \in Kills, KillRecheck(k) PROVE TypeOK'
    BY <1>18, ZenonT(40) DEF KillRecheck, KillGoto, ToFinish, IsOwn, Alive, TypeOK, Strangers,
       KillPCs, Requests, RecStates, Reasons
  <1>19. ASSUME NEW k \in Kills, KillForce(k) PROVE TypeOK'
    <2>1. CASE ToFinish(k, "killed-by-user") /\ ~Alive(object[k])
      BY <1>19, <2>1 DEF KillForce, KillGoto, ToFinish, Alive, TypeOK, Strangers,
         KillPCs, Requests, RecStates, Reasons
    <2>2. CASE ToFinish(k, "pid-gone") /\ ~Alive(object[k])
      BY <1>19, <2>2 DEF KillForce, KillGoto, ToFinish, Alive, TypeOK, Strangers,
         KillPCs, Requests, RecStates, Reasons
    <2>3. CASE KillGoto(k, "confirm") /\ UNCHANGED reason
      BY <1>19, <2>3 DEF KillForce, KillGoto, ToFinish, Alive, TypeOK, Strangers,
         KillPCs, Requests, RecStates, Reasons
    <2>4. CASE KillGoto(k, "refuse") /\ UNCHANGED reason
      BY <1>19, <2>4 DEF KillForce, KillGoto, ToFinish, Alive, TypeOK, Strangers,
         KillPCs, Requests, RecStates, Reasons
    <2> QED BY <1>19, <2>1, <2>2, <2>3, <2>4 DEF KillForce
  <1>20. ASSUME NEW k \in Kills, KillConfirm(k) PROVE TypeOK'
    BY ZenonT(40), <1>20 DEF KillConfirm, KillGoto, ToFinish, Alive, TypeOK, Strangers,
       KillPCs, Requests, RecStates, Reasons
  <1>21. ASSUME NEW k \in Kills, KillFinish(k) PROVE TypeOK'
    <2>0. object[k] \in Records
      BY DEF TypeOK, Requests
    <2>1. CASE UNCHANGED rec
      BY <1>21, <2>0, <2>1 DEF KillFinish, Resolved, TypeOK, Strangers, KillPCs,
         Requests, RecStates, Reasons
    <2>2. CASE rec' = Resolved(object[k], "stale", reason[k])
      BY <1>21, <2>0, <2>2 DEF KillFinish, Resolved, TypeOK, Strangers, KillPCs,
         Requests, RecStates, Reasons
    <2> QED BY <1>21, <2>1, <2>2 DEF KillFinish
  <1>22. ASSUME NEW k \in Kills, KillRefuse(k) PROVE TypeOK'
    <2>0. object[k] \in Records
      BY DEF TypeOK, Requests
    <2>1. CASE UNCHANGED rec
      BY <1>22, <2>0, <2>1 DEF KillRefuse, Resolved, TypeOK, Strangers, KillPCs,
         Requests, RecStates, Reasons
    <2>2. CASE rec' = Resolved(object[k], "orphan", "")
      BY <1>22, <2>0, <2>2 DEF KillRefuse, Resolved, TypeOK, Strangers, KillPCs,
         Requests, RecStates, Reasons
    <2> QED BY <1>22, <2>1, <2>2 DEF KillRefuse
  <1>23. CASE UNCHANGED vars
    BY <1>23 DEF vars, TypeOK, Strangers, KillPCs, Requests
  <1> QED BY <1>1, <1>2, <1>3, <1>4, <1>5, <1>6, <1>7, <1>8, <1>9, <1>10, <1>11,
             <1>12, <1>13, <1>14, <1>15, <1>16, <1>17, <1>18, <1>19, <1>20, <1>21,
             <1>22, <1>23 DEF Next, KillStep

\* While a request is under way its record stays orphan, stale or deleted: no
\* launch takes it over, and a crash ends the request (supervisor_kill.go:92).
LEMMA RequestsInvStep == IInv /\ [Next]_vars => RequestsInv'
  <1> SUFFICES ASSUME IInv, [Next]_vars PROVE RequestsInv'
    OBVIOUS
  <1> USE DEF IInv
  <1>1. ASSUME NEW r \in Records, ProcessDies(r) PROVE RequestsInv'
    BY <1>1 DEF ProcessDies, TypeOK, RequestsInv, OwnedInv, LedgerInv, Strangers,
       Requests
  <1>2. ASSUME NEW r \in Records, PidRecycled(r) PROVE RequestsInv'
    BY <1>2 DEF PidRecycled, TypeOK, RequestsInv, OwnedInv, LedgerInv, Strangers,
       Requests
  <1>3. ASSUME NEW r \in Records, LaunchAdmit(r) PROVE RequestsInv'
    BY <1>3 DEF LaunchAdmit, Resolved, Admissible, TypeOK, RequestsInv, OwnedInv,
       LedgerInv, Strangers, Requests
  <1>4. ASSUME NEW r \in Records, LaunchSpawn(r) PROVE RequestsInv'
    BY <1>4 DEF LaunchSpawn, TypeOK, RequestsInv, OwnedInv, LedgerInv, Strangers,
       Requests
  <1>5. ASSUME NEW r \in Records, LaunchRunning(r) PROVE RequestsInv'
    BY <1>5 DEF LaunchRunning, TypeOK, RequestsInv, OwnedInv, LedgerInv, Strangers,
       Requests
  <1>6. ASSUME NEW r \in Records, LaunchExit(r) PROVE RequestsInv'
    BY <1>6, ZenonT(100) DEF LaunchExit, Resolved, TypeOK, RequestsInv, OwnedInv,
       LedgerInv, Strangers, Requests
  <1>7. ASSUME NEW r \in Records, CleanHistory(r) PROVE RequestsInv'
    BY <1>7 DEF CleanHistory, TypeOK, RequestsInv, OwnedInv, LedgerInv, Strangers,
       Requests
  <1>8. ASSUME NEW r \in Records, Classify(r) PROVE RequestsInv'
    BY <1>8 DEF Classify, Resolved, GiveUp, Verdicts, Alive, TypeOK, RequestsInv,
       OwnedInv, LedgerInv, Strangers, Requests
  <1>9. CASE Crash
    BY <1>9 DEF Crash, TypeOK, RequestsInv, OwnedInv, LedgerInv, Strangers, Requests
  <1>10. CASE Boot
    BY <1>10 DEF Boot, TypeOK, RequestsInv, OwnedInv, LedgerInv, Strangers, Requests
  <1>11. CASE RecoverEnds
    BY <1>11 DEF RecoverEnds, TypeOK, RequestsInv, OwnedInv, LedgerInv, Strangers,
       Requests
  <1>12. ASSUME NEW d \in Dismisses, DismissGet(d) PROVE RequestsInv'
    BY <1>12 DEF DismissGet, TypeOK, RequestsInv, OwnedInv, LedgerInv, Strangers,
       Requests
  <1>13. ASSUME NEW d \in Dismisses, DismissWrite(d) PROVE RequestsInv'
    <2>0. object[d] \in Records
      BY DEF TypeOK, Requests
    <2>1. CASE UNCHANGED <<rec, givenUp>>
      BY <1>13, <2>0, <2>1 DEF DismissWrite, Resolved, GiveUp, TypeOK, RequestsInv,
         OwnedInv, LedgerInv, Strangers, Requests
    <2>2. CASE /\ rec' = Resolved(object[d], "stale", "reconciled-by-user")
             /\ GiveUp(object[d])
      BY <1>13, <2>0, <2>2 DEF DismissWrite, Resolved, GiveUp, TypeOK, RequestsInv,
         OwnedInv, LedgerInv, Strangers, Requests
    <2> QED BY <1>13, <2>1, <2>2 DEF DismissWrite
  <1>14. ASSUME NEW k \in Kills, KillGet(k) PROVE RequestsInv'
    BY <1>14 DEF KillGet, KillGoto, TypeOK, RequestsInv, OwnedInv, LedgerInv,
       Strangers, Requests
  <1>15. ASSUME NEW k \in Kills, KillVerify(k) PROVE RequestsInv'
    BY <1>15 DEF KillVerify, KillGoto, ToFinish, GiveUp, IsOwn, Alive, TypeOK,
       RequestsInv, OwnedInv, LedgerInv, Strangers, Requests
  <1>16. ASSUME NEW k \in Kills, KillTerm(k) PROVE RequestsInv'
    BY <1>16, SMTT(40) DEF KillTerm, KillGoto, ToFinish, Alive, TypeOK, RequestsInv,
       OwnedInv, LedgerInv, Strangers, Requests
  <1>17. ASSUME NEW k \in Kills, KillGrace(k) PROVE RequestsInv'
    BY <1>17 DEF KillGrace, KillGoto, ToFinish, Alive, TypeOK, RequestsInv,
       OwnedInv, LedgerInv, Strangers, Requests
  <1>18. ASSUME NEW k \in Kills, KillRecheck(k) PROVE RequestsInv'
    BY <1>18 DEF KillRecheck, KillGoto, ToFinish, IsOwn, Alive, TypeOK,
       RequestsInv, OwnedInv, LedgerInv, Strangers, Requests
  <1>19. ASSUME NEW k \in Kills, KillForce(k) PROVE RequestsInv'
    <2>1. CASE ToFinish(k, "killed-by-user") /\ ~Alive(object[k])
      BY <1>19, <2>1 DEF KillForce, KillGoto, ToFinish, Alive, TypeOK, RequestsInv,
         OwnedInv, LedgerInv, Strangers, Requests
    <2>2. CASE ToFinish(k, "pid-gone") /\ ~Alive(object[k])
      BY <1>19, <2>2 DEF KillForce, KillGoto, ToFinish, Alive, TypeOK, RequestsInv,
         OwnedInv, LedgerInv, Strangers, Requests
    <2>3. CASE KillGoto(k, "confirm") /\ UNCHANGED reason
      BY <1>19, <2>3 DEF KillForce, KillGoto, ToFinish, Alive, TypeOK, RequestsInv,
         OwnedInv, LedgerInv, Strangers, Requests
    <2>4. CASE KillGoto(k, "refuse") /\ UNCHANGED reason
      BY <1>19, <2>4 DEF KillForce, KillGoto, ToFinish, Alive, TypeOK, RequestsInv,
         OwnedInv, LedgerInv, Strangers, Requests
    <2> QED BY <1>19, <2>1, <2>2, <2>3, <2>4 DEF KillForce
  <1>20. ASSUME NEW k \in Kills, KillConfirm(k) PROVE RequestsInv'
    BY <1>20 DEF KillConfirm, KillGoto, ToFinish, Alive, TypeOK, RequestsInv,
       OwnedInv, LedgerInv, Strangers, Requests
  <1>21. ASSUME NEW k \in Kills, KillFinish(k) PROVE RequestsInv'
    <2>0. object[k] \in Records
      BY DEF TypeOK, Requests
    <2>1. CASE UNCHANGED rec
      BY <1>21, <2>0, <2>1 DEF KillFinish, Resolved, TypeOK, RequestsInv, OwnedInv,
         LedgerInv, Strangers, Requests
    <2>2. CASE rec' = Resolved(object[k], "stale", reason[k])
      BY <1>21, <2>0, <2>2 DEF KillFinish, Resolved, TypeOK, RequestsInv, OwnedInv,
         LedgerInv, Strangers, Requests
    <2> QED BY <1>21, <2>1, <2>2 DEF KillFinish
  <1>22. ASSUME NEW k \in Kills, KillRefuse(k) PROVE RequestsInv'
    <2>0. object[k] \in Records
      BY DEF TypeOK, Requests
    <2>1. CASE UNCHANGED rec
      BY <1>22, <2>0, <2>1 DEF KillRefuse, Resolved, TypeOK, RequestsInv, OwnedInv,
         LedgerInv, Strangers, Requests
    <2>2. CASE rec' = Resolved(object[k], "orphan", "")
      BY <1>22, <2>0, <2>2 DEF KillRefuse, Resolved, TypeOK, RequestsInv, OwnedInv,
         LedgerInv, Strangers, Requests
    <2> QED BY <1>22, <2>1, <2>2 DEF KillRefuse
  <1>23. CASE UNCHANGED vars
    BY <1>23 DEF vars, TypeOK, RequestsInv, OwnedInv, LedgerInv, Strangers, Requests
  <1> QED BY <1>1, <1>2, <1>3, <1>4, <1>5, <1>6, <1>7, <1>8, <1>9, <1>10, <1>11,
             <1>12, <1>13, <1>14, <1>15, <1>16, <1>17, <1>18, <1>19, <1>20, <1>21,
             <1>22, <1>23 DEF Next, KillStep

\* A kill persists killed-by-user only after it saw the process gone
\* (supervisor_kill.go:270).
LEMMA ReasonInvStep == IInv /\ [Next]_vars => ReasonInv'
  <1> SUFFICES ASSUME IInv, [Next]_vars PROVE ReasonInv'
    OBVIOUS
  <1> USE DEF IInv
  <1>1. ASSUME NEW r \in Records, ProcessDies(r) PROVE ReasonInv'
    BY <1>1 DEF ProcessDies, TypeOK, ReasonInv, RequestsInv, LedgerInv, OwnedInv,
       Strangers, Requests
  <1>2. ASSUME NEW r \in Records, PidRecycled(r) PROVE ReasonInv'
    BY <1>2 DEF PidRecycled, TypeOK, ReasonInv, RequestsInv, LedgerInv, OwnedInv,
       Strangers, Requests
  <1>3. ASSUME NEW r \in Records, LaunchAdmit(r) PROVE ReasonInv'
    BY <1>3 DEF LaunchAdmit, Resolved, Admissible, TypeOK, ReasonInv, RequestsInv,
       LedgerInv, OwnedInv, Strangers, Requests
  <1>4. ASSUME NEW r \in Records, LaunchSpawn(r) PROVE ReasonInv'
    BY <1>4 DEF LaunchSpawn, TypeOK, ReasonInv, RequestsInv, LedgerInv, OwnedInv,
       Strangers, Requests
  <1>5. ASSUME NEW r \in Records, LaunchRunning(r) PROVE ReasonInv'
    BY <1>5 DEF LaunchRunning, TypeOK, ReasonInv, RequestsInv, LedgerInv, OwnedInv,
       Strangers, Requests
  <1>6. ASSUME NEW r \in Records, LaunchExit(r) PROVE ReasonInv'
    <2>1. CASE UNCHANGED rec
      BY <1>6, <2>1 DEF LaunchExit, Resolved, TypeOK, ReasonInv, RequestsInv,
         LedgerInv, OwnedInv, Strangers, Requests
    <2>2. CASE rec' = Resolved(r, "exited", "")
      BY <1>6, <2>2 DEF LaunchExit, Resolved, TypeOK, ReasonInv, RequestsInv,
         LedgerInv, OwnedInv, Strangers, Requests
    <2> QED BY <1>6, <2>1, <2>2 DEF LaunchExit
  <1>7. ASSUME NEW r \in Records, CleanHistory(r) PROVE ReasonInv'
    BY <1>7 DEF CleanHistory, TypeOK, ReasonInv, RequestsInv, LedgerInv, OwnedInv,
       Strangers, Requests
  <1>8. ASSUME NEW r \in Records, Classify(r) PROVE ReasonInv'
    <2>1. CASE unsaved' = TRUE /\ UNCHANGED <<rec, givenUp>>
      BY <1>8, <2>1 DEF Classify, Resolved, GiveUp, TypeOK, ReasonInv, RequestsInv,
         LedgerInv, OwnedInv, Strangers, Requests
    <2>2. CASE /\ rec' = Resolved(r, "orphan", "") /\ UNCHANGED <<givenUp, unsaved>>
             /\ rec[r].pid /\ at[r] \in {"own", "samePath"}
      BY <1>8, <2>2 DEF Classify, Resolved, GiveUp, TypeOK, ReasonInv, RequestsInv,
         LedgerInv, OwnedInv, Strangers, Requests
    <2>3. CASE /\ GiveUp(r) /\ UNCHANGED unsaved
             /\ \E why \in {"pid-not-found", "identity-unconfirmed"} :
                   rec' = Resolved(r, "stale", why)
      BY <1>8, <2>3 DEF Classify, Resolved, GiveUp, TypeOK, ReasonInv, RequestsInv,
         LedgerInv, OwnedInv, Strangers, Requests
    <2> QED BY <1>8, <2>1, <2>2, <2>3, ClassifyOutcomes
  <1>9. CASE Crash
    BY <1>9 DEF Crash, TypeOK, ReasonInv, RequestsInv, LedgerInv, OwnedInv,
       Strangers, Requests
  <1>10. CASE Boot
    BY <1>10 DEF Boot, TypeOK, ReasonInv, RequestsInv, LedgerInv, OwnedInv,
       Strangers, Requests
  <1>11. CASE RecoverEnds
    BY <1>11 DEF RecoverEnds, TypeOK, ReasonInv, RequestsInv, LedgerInv, OwnedInv,
       Strangers, Requests
  <1>12. ASSUME NEW d \in Dismisses, DismissGet(d) PROVE ReasonInv'
    BY <1>12 DEF DismissGet, TypeOK, ReasonInv, RequestsInv, LedgerInv, OwnedInv,
       Strangers, Requests
  <1>13. ASSUME NEW d \in Dismisses, DismissWrite(d) PROVE ReasonInv'
    BY <1>13 DEF DismissWrite, Resolved, GiveUp, TypeOK, ReasonInv, RequestsInv,
       LedgerInv, OwnedInv, Strangers, Requests
  <1>14. ASSUME NEW k \in Kills, KillGet(k) PROVE ReasonInv'
    BY <1>14 DEF KillGet, KillGoto, TypeOK, ReasonInv, RequestsInv, LedgerInv,
       OwnedInv, Strangers, Requests
  <1>15. ASSUME NEW k \in Kills, KillVerify(k) PROVE ReasonInv'
    BY <1>15 DEF KillVerify, KillGoto, ToFinish, GiveUp, IsOwn, Alive, TypeOK,
       ReasonInv, RequestsInv, LedgerInv, OwnedInv, Strangers, Requests
  <1>16. ASSUME NEW k \in Kills, KillTerm(k) PROVE ReasonInv'
    BY <1>16 DEF KillTerm, KillGoto, ToFinish, Alive, TypeOK, ReasonInv,
       RequestsInv, LedgerInv, OwnedInv, Strangers, Requests
  <1>17. ASSUME NEW k \in Kills, KillGrace(k) PROVE ReasonInv'
    BY <1>17 DEF KillGrace, KillGoto, ToFinish, Alive, TypeOK, ReasonInv,
       RequestsInv, LedgerInv, OwnedInv, Strangers, Requests
  <1>18. ASSUME NEW k \in Kills, KillRecheck(k) PROVE ReasonInv'
    BY <1>18 DEF KillRecheck, KillGoto, ToFinish, IsOwn, Alive, TypeOK, ReasonInv,
       RequestsInv, LedgerInv, OwnedInv, Strangers, Requests
  <1>19. ASSUME NEW k \in Kills, KillForce(k) PROVE ReasonInv'
    BY <1>19 DEF KillForce, KillGoto, ToFinish, Alive, TypeOK, ReasonInv,
       RequestsInv, LedgerInv, OwnedInv, Strangers, Requests
  <1>20. ASSUME NEW k \in Kills, KillConfirm(k) PROVE ReasonInv'
    BY <1>20 DEF KillConfirm, KillGoto, ToFinish, Alive, TypeOK, ReasonInv,
       RequestsInv, LedgerInv, OwnedInv, Strangers, Requests
  <1>21. ASSUME NEW k \in Kills, KillFinish(k) PROVE ReasonInv'
    <2>0. object[k] \in Records
      BY DEF TypeOK, Requests
    <2>1. CASE UNCHANGED rec
      BY <1>21, <2>0, <2>1 DEF KillFinish, Resolved, TypeOK, ReasonInv,
         RequestsInv, LedgerInv, OwnedInv, Strangers, Requests
    <2>2. CASE rec' = Resolved(object[k], "stale", reason[k])
      BY <1>21, <2>0, <2>2 DEF KillFinish, Resolved, TypeOK, ReasonInv,
         RequestsInv, LedgerInv, OwnedInv, Strangers, Requests
    <2> QED BY <1>21, <2>1, <2>2 DEF KillFinish
  <1>22. ASSUME NEW k \in Kills, KillRefuse(k) PROVE ReasonInv'
    <2>0. object[k] \in Records
      BY DEF TypeOK, Requests
    <2>1. CASE UNCHANGED rec
      BY <1>22, <2>0, <2>1 DEF KillRefuse, Resolved, TypeOK, ReasonInv,
         RequestsInv, LedgerInv, OwnedInv, Strangers, Requests
    <2>2. CASE rec' = Resolved(object[k], "orphan", "")
      BY ZenonT(40), <1>22, <2>0, <2>2 DEF KillRefuse, Resolved, TypeOK, ReasonInv,
         RequestsInv, LedgerInv, OwnedInv, Strangers, Requests
    <2> QED BY <1>22, <2>1, <2>2 DEF KillRefuse
  <1>23. CASE UNCHANGED vars
    BY <1>23 DEF vars, TypeOK, ReasonInv, RequestsInv, LedgerInv, OwnedInv,
       Strangers, Requests
  <1> QED BY <1>1, <1>2, <1>3, <1>4, <1>5, <1>6, <1>7, <1>8, <1>9, <1>10, <1>11,
             <1>12, <1>13, <1>14, <1>15, <1>16, <1>17, <1>18, <1>19, <1>20, <1>21,
             <1>22, <1>23 DEF Next, KillStep

\* The process of a record never comes back, so a late kill stays late.
LEMMA LateInvStep == IInv /\ [Next]_vars => LateInv'
  <1> SUFFICES ASSUME IInv, [Next]_vars PROVE LateInv'
    OBVIOUS
  <1> USE DEF IInv
  <1>1. ASSUME NEW r \in Records, ProcessDies(r) PROVE LateInv'
    BY <1>1 DEF ProcessDies, TypeOK, LateInv, LedgerInv, RequestsInv, Strangers,
       Requests
  <1>2. ASSUME NEW r \in Records, PidRecycled(r) PROVE LateInv'
    BY <1>2 DEF PidRecycled, TypeOK, LateInv, LedgerInv, RequestsInv, Strangers,
       Requests
  <1>3. ASSUME NEW r \in Records, LaunchAdmit(r) PROVE LateInv'
    BY <1>3 DEF LaunchAdmit, Resolved, Admissible, TypeOK, LateInv, LedgerInv,
       RequestsInv, Strangers, Requests
  <1>4. ASSUME NEW r \in Records, LaunchSpawn(r) PROVE LateInv'
    BY <1>4 DEF LaunchSpawn, TypeOK, LateInv, LedgerInv, RequestsInv, Strangers,
       Requests
  <1>5. ASSUME NEW r \in Records, LaunchRunning(r) PROVE LateInv'
    BY <1>5 DEF LaunchRunning, TypeOK, LateInv, LedgerInv, RequestsInv, Strangers,
       Requests
  <1>6. ASSUME NEW r \in Records, LaunchExit(r) PROVE LateInv'
    BY <1>6 DEF LaunchExit, Resolved, TypeOK, LateInv, LedgerInv, RequestsInv,
       Strangers, Requests
  <1>7. ASSUME NEW r \in Records, CleanHistory(r) PROVE LateInv'
    BY <1>7 DEF CleanHistory, TypeOK, LateInv, LedgerInv, RequestsInv, Strangers,
       Requests
  <1>8. ASSUME NEW r \in Records, Classify(r) PROVE LateInv'
    BY <1>8 DEF Classify, Resolved, GiveUp, Verdicts, Alive, TypeOK, LateInv,
       LedgerInv, RequestsInv, Strangers, Requests
  <1>9. CASE Crash
    BY <1>9 DEF Crash, TypeOK, LateInv, LedgerInv, RequestsInv, Strangers, Requests
  <1>10. CASE Boot
    BY <1>10 DEF Boot, TypeOK, LateInv, LedgerInv, RequestsInv, Strangers, Requests
  <1>11. CASE RecoverEnds
    BY <1>11 DEF RecoverEnds, TypeOK, LateInv, LedgerInv, RequestsInv, Strangers,
       Requests
  <1>12. ASSUME NEW d \in Dismisses, DismissGet(d) PROVE LateInv'
    BY <1>12 DEF DismissGet, TypeOK, LateInv, LedgerInv, RequestsInv, Strangers,
       Requests
  <1>13. ASSUME NEW d \in Dismisses, DismissWrite(d) PROVE LateInv'
    BY <1>13 DEF DismissWrite, Resolved, GiveUp, TypeOK, LateInv, LedgerInv,
       RequestsInv, Strangers, Requests
  <1>14. ASSUME NEW k \in Kills, KillGet(k) PROVE LateInv'
    BY <1>14 DEF KillGet, KillGoto, TypeOK, LateInv, LedgerInv, RequestsInv,
       Strangers, Requests
  <1>15. ASSUME NEW k \in Kills, KillVerify(k) PROVE LateInv'
    BY <1>15 DEF KillVerify, KillGoto, ToFinish, GiveUp, IsOwn, Alive, TypeOK,
       LateInv, LedgerInv, RequestsInv, Strangers, Requests
  <1>16. ASSUME NEW k \in Kills, KillTerm(k) PROVE LateInv'
    BY <1>16 DEF KillTerm, KillGoto, ToFinish, Alive, TypeOK, LateInv, LedgerInv,
       RequestsInv, Strangers, Requests
  <1>17. ASSUME NEW k \in Kills, KillGrace(k) PROVE LateInv'
    BY <1>17 DEF KillGrace, KillGoto, ToFinish, Alive, TypeOK, LateInv, LedgerInv,
       RequestsInv, Strangers, Requests
  <1>18. ASSUME NEW k \in Kills, KillRecheck(k) PROVE LateInv'
    BY <1>18 DEF KillRecheck, KillGoto, ToFinish, IsOwn, Alive, TypeOK, LateInv,
       LedgerInv, RequestsInv, Strangers, Requests
  <1>19. ASSUME NEW k \in Kills, KillForce(k) PROVE LateInv'
    BY <1>19 DEF KillForce, KillGoto, ToFinish, Alive, TypeOK, LateInv, LedgerInv,
       RequestsInv, Strangers, Requests
  <1>20. ASSUME NEW k \in Kills, KillConfirm(k) PROVE LateInv'
    BY <1>20 DEF KillConfirm, KillGoto, ToFinish, Alive, TypeOK, LateInv,
       LedgerInv, RequestsInv, Strangers, Requests
  <1>21. ASSUME NEW k \in Kills, KillFinish(k) PROVE LateInv'
    BY <1>21 DEF KillFinish, Resolved, TypeOK, LateInv, LedgerInv, RequestsInv,
       Strangers, Requests
  <1>22. ASSUME NEW k \in Kills, KillRefuse(k) PROVE LateInv'
    BY <1>22 DEF KillRefuse, Resolved, TypeOK, LateInv, LedgerInv, RequestsInv,
       Strangers, Requests
  <1>23. CASE UNCHANGED vars
    BY <1>23 DEF vars, TypeOK, LateInv, LedgerInv, RequestsInv, Strangers, Requests
  <1> QED BY <1>1, <1>2, <1>3, <1>4, <1>5, <1>6, <1>7, <1>8, <1>9, <1>10, <1>11,
             <1>12, <1>13, <1>14, <1>15, <1>16, <1>17, <1>18, <1>19, <1>20, <1>21,
             <1>22, <1>23 DEF Next, KillStep

\* A launch keeps its record in flight: a Recover runs only when nothing is
\* owned, and no request reaches such a record (supervisor.go:1020).
LEMMA OwnedInvStep == IInv /\ [Next]_vars => OwnedInv'
  <1> SUFFICES ASSUME IInv, [Next]_vars PROVE OwnedInv'
    OBVIOUS
  <1> USE DEF IInv
  <1>1. ASSUME NEW r \in Records, ProcessDies(r) PROVE OwnedInv'
    BY <1>1, RecoveryAssumption DEF ProcessDies, TypeOK, OwnedInv, RequestsInv,
       Requests
  <1>2. ASSUME NEW r \in Records, PidRecycled(r) PROVE OwnedInv'
    BY <1>2, RecoveryAssumption DEF PidRecycled, TypeOK, OwnedInv, RequestsInv,
       Requests
  <1>3. ASSUME NEW r \in Records, LaunchAdmit(r) PROVE OwnedInv'
    BY <1>3, RecoveryAssumption, ZenonT(40) DEF LaunchAdmit, Resolved, Admissible, TypeOK,
       OwnedInv, RequestsInv, Requests
  <1>4. ASSUME NEW r \in Records, LaunchSpawn(r) PROVE OwnedInv'
    BY <1>4, RecoveryAssumption DEF LaunchSpawn, TypeOK, OwnedInv, RequestsInv,
       Requests
  <1>5. ASSUME NEW r \in Records, LaunchRunning(r) PROVE OwnedInv'
    BY <1>5, RecoveryAssumption DEF LaunchRunning, TypeOK, OwnedInv, RequestsInv,
       Requests
  <1>6. ASSUME NEW r \in Records, LaunchExit(r) PROVE OwnedInv'
    BY <1>6, RecoveryAssumption DEF LaunchExit, Resolved, TypeOK, OwnedInv,
       RequestsInv, Requests
  <1>7. ASSUME NEW r \in Records, CleanHistory(r) PROVE OwnedInv'
    BY <1>7, RecoveryAssumption DEF CleanHistory, TypeOK, OwnedInv, RequestsInv,
       Requests
  <1>8. ASSUME NEW r \in Records, Classify(r) PROVE OwnedInv'
    BY <1>8, RecoveryAssumption DEF Classify, Resolved, GiveUp, Verdicts, Alive,
       TypeOK, OwnedInv, RequestsInv, Requests
  <1>9. CASE Crash
    BY <1>9, RecoveryAssumption DEF Crash, TypeOK, OwnedInv, RequestsInv, Requests
  <1>10. CASE Boot
    BY <1>10, RecoveryAssumption DEF Boot, TypeOK, OwnedInv, RequestsInv, Requests
  <1>11. CASE RecoverEnds
    BY <1>11, RecoveryAssumption DEF RecoverEnds, TypeOK, OwnedInv, RequestsInv,
       Requests
  <1>12. ASSUME NEW d \in Dismisses, DismissGet(d) PROVE OwnedInv'
    BY <1>12, RecoveryAssumption DEF DismissGet, TypeOK, OwnedInv, RequestsInv,
       Requests
  <1>13. ASSUME NEW d \in Dismisses, DismissWrite(d) PROVE OwnedInv'
    BY <1>13, RecoveryAssumption DEF DismissWrite, Resolved, GiveUp, TypeOK,
       OwnedInv, RequestsInv, Requests
  <1>14. ASSUME NEW k \in Kills, KillGet(k) PROVE OwnedInv'
    BY <1>14, RecoveryAssumption DEF KillGet, KillGoto, TypeOK, OwnedInv,
       RequestsInv, Requests
  <1>15. ASSUME NEW k \in Kills, KillVerify(k) PROVE OwnedInv'
    BY <1>15, RecoveryAssumption DEF KillVerify, KillGoto, ToFinish, GiveUp, IsOwn,
       Alive, TypeOK, OwnedInv, RequestsInv, Requests
  <1>16. ASSUME NEW k \in Kills, KillTerm(k) PROVE OwnedInv'
    BY <1>16, RecoveryAssumption DEF KillTerm, KillGoto, ToFinish, Alive, TypeOK,
       OwnedInv, RequestsInv, Requests
  <1>17. ASSUME NEW k \in Kills, KillGrace(k) PROVE OwnedInv'
    BY <1>17, RecoveryAssumption DEF KillGrace, KillGoto, ToFinish, Alive, TypeOK,
       OwnedInv, RequestsInv, Requests
  <1>18. ASSUME NEW k \in Kills, KillRecheck(k) PROVE OwnedInv'
    BY <1>18, RecoveryAssumption DEF KillRecheck, KillGoto, ToFinish, IsOwn, Alive,
       TypeOK, OwnedInv, RequestsInv, Requests
  <1>19. ASSUME NEW k \in Kills, KillForce(k) PROVE OwnedInv'
    BY <1>19, RecoveryAssumption DEF KillForce, KillGoto, ToFinish, Alive, TypeOK,
       OwnedInv, RequestsInv, Requests
  <1>20. ASSUME NEW k \in Kills, KillConfirm(k) PROVE OwnedInv'
    BY <1>20, RecoveryAssumption DEF KillConfirm, KillGoto, ToFinish, Alive,
       TypeOK, OwnedInv, RequestsInv, Requests
  <1>21. ASSUME NEW k \in Kills, KillFinish(k) PROVE OwnedInv'
    BY <1>21, RecoveryAssumption DEF KillFinish, Resolved, TypeOK, OwnedInv,
       RequestsInv, Requests
  <1>22. ASSUME NEW k \in Kills, KillRefuse(k) PROVE OwnedInv'
    BY <1>22, RecoveryAssumption DEF KillRefuse, Resolved, TypeOK, OwnedInv,
       RequestsInv, Requests
  <1>23. CASE UNCHANGED vars
    BY <1>23 DEF vars, TypeOK, OwnedInv, RequestsInv, Requests
  <1> QED BY <1>1, <1>2, <1>3, <1>4, <1>5, <1>6, <1>7, <1>8, <1>9, <1>10, <1>11,
             <1>12, <1>13, <1>14, <1>15, <1>16, <1>17, <1>18, <1>19, <1>20, <1>21,
             <1>22, <1>23 DEF Next, KillStep

\* No live process is lost sight of except where it was given up: it is owned,
\* an orphan, or waits for Recover (supervisor.go:1020).
LEMMA LedgerInvStep == IInv /\ [Next]_vars => LedgerInv'
  <1> SUFFICES ASSUME IInv, [Next]_vars PROVE LedgerInv'
    OBVIOUS
  <1> USE DEF IInv
  <1>1. ASSUME NEW r \in Records, ProcessDies(r) PROVE LedgerInv'
    BY <1>1 DEF ProcessDies, TypeOK, LedgerInv, OwnedInv, RequestsInv, ReasonInv,
       Strangers, Requests
  <1>2. ASSUME NEW r \in Records, PidRecycled(r) PROVE LedgerInv'
    BY <1>2 DEF PidRecycled, TypeOK, LedgerInv, OwnedInv, RequestsInv, ReasonInv,
       Strangers, Requests
  <1>3. ASSUME NEW r \in Records, LaunchAdmit(r) PROVE LedgerInv'
    BY ZenonT(40), <1>3 DEF LaunchAdmit, Resolved, Admissible, TypeOK, LedgerInv, OwnedInv,
       RequestsInv, ReasonInv, Strangers, Requests
  <1>4. ASSUME NEW r \in Records, LaunchSpawn(r) PROVE LedgerInv'
    BY <1>4 DEF LaunchSpawn, TypeOK, LedgerInv, OwnedInv, RequestsInv, ReasonInv,
       Strangers, Requests
  <1>5. ASSUME NEW r \in Records, LaunchRunning(r) PROVE LedgerInv'
    BY <1>5 DEF LaunchRunning, TypeOK, LedgerInv, OwnedInv, RequestsInv, ReasonInv,
       Strangers, Requests
  <1>6. ASSUME NEW r \in Records, LaunchExit(r) PROVE LedgerInv'
    <2>1. CASE UNCHANGED rec
      BY <1>6, <2>1 DEF LaunchExit, Resolved, TypeOK, LedgerInv, OwnedInv,
         RequestsInv, ReasonInv, Strangers, Requests
    <2>2. CASE rec' = Resolved(r, "exited", "")
      BY <1>6, <2>2 DEF LaunchExit, Resolved, TypeOK, LedgerInv, OwnedInv,
         RequestsInv, ReasonInv, Strangers, Requests
    <2> QED BY <1>6, <2>1, <2>2 DEF LaunchExit
  <1>7. ASSUME NEW r \in Records, CleanHistory(r) PROVE LedgerInv'
    BY <1>7 DEF CleanHistory, TypeOK, LedgerInv, OwnedInv, RequestsInv, ReasonInv,
       Strangers, Requests
  <1>8. ASSUME NEW r \in Records, Classify(r) PROVE LedgerInv'
    <2>1. CASE unsaved' = TRUE /\ UNCHANGED <<rec, givenUp>>
      BY <1>8, <2>1 DEF Classify, Resolved, GiveUp, TypeOK, LedgerInv, OwnedInv,
         RequestsInv, ReasonInv, Strangers, Requests
    <2>2. CASE /\ rec' = Resolved(r, "orphan", "") /\ UNCHANGED <<givenUp, unsaved>>
             /\ rec[r].pid /\ at[r] \in {"own", "samePath"}
      BY <1>8, <2>2 DEF Classify, Resolved, GiveUp, TypeOK, LedgerInv, OwnedInv,
         RequestsInv, ReasonInv, Strangers, Requests
    <2>3. CASE /\ GiveUp(r) /\ UNCHANGED unsaved
             /\ \E why \in {"pid-not-found", "identity-unconfirmed"} :
                   rec' = Resolved(r, "stale", why)
      BY <1>8, <2>3 DEF Classify, Resolved, GiveUp, TypeOK, LedgerInv, OwnedInv,
         RequestsInv, ReasonInv, Strangers, Requests
    <2> QED BY <1>8, <2>1, <2>2, <2>3, ClassifyOutcomes
  <1>9. CASE Crash
    BY <1>9 DEF Crash, TypeOK, LedgerInv, OwnedInv, RequestsInv, ReasonInv,
       Strangers, Requests
  <1>10. CASE Boot
    BY <1>10 DEF Boot, TypeOK, LedgerInv, OwnedInv, RequestsInv, ReasonInv,
       Strangers, Requests
  <1>11. CASE RecoverEnds
    BY <1>11 DEF RecoverEnds, TypeOK, LedgerInv, OwnedInv, RequestsInv, ReasonInv,
       Strangers, Requests
  <1>12. ASSUME NEW d \in Dismisses, DismissGet(d) PROVE LedgerInv'
    BY <1>12 DEF DismissGet, TypeOK, LedgerInv, OwnedInv, RequestsInv, ReasonInv,
       Strangers, Requests
  <1>13. ASSUME NEW d \in Dismisses, DismissWrite(d) PROVE LedgerInv'
    <2>0. object[d] \in Records
      BY DEF TypeOK, Requests
    <2>1. CASE UNCHANGED <<rec, givenUp>>
      BY <1>13, <2>0, <2>1 DEF DismissWrite, Resolved, GiveUp, TypeOK, LedgerInv,
         OwnedInv, RequestsInv, ReasonInv, Strangers, Requests
    <2>2. CASE /\ rec' = Resolved(object[d], "stale", "reconciled-by-user")
             /\ GiveUp(object[d])
      BY <1>13, <2>0, <2>2 DEF DismissWrite, Resolved, GiveUp, TypeOK, LedgerInv,
         OwnedInv, RequestsInv, ReasonInv, Strangers, Requests
    <2> QED BY <1>13, <2>1, <2>2 DEF DismissWrite
  <1>14. ASSUME NEW k \in Kills, KillGet(k) PROVE LedgerInv'
    BY <1>14 DEF KillGet, KillGoto, TypeOK, LedgerInv, OwnedInv, RequestsInv,
       ReasonInv, Strangers, Requests
  <1>15. ASSUME NEW k \in Kills, KillVerify(k) PROVE LedgerInv'
    BY <1>15 DEF KillVerify, KillGoto, ToFinish, GiveUp, IsOwn, Alive, TypeOK,
       LedgerInv, OwnedInv, RequestsInv, ReasonInv, Strangers, Requests
  <1>16. ASSUME NEW k \in Kills, KillTerm(k) PROVE LedgerInv'
    BY <1>16 DEF KillTerm, KillGoto, ToFinish, Alive, TypeOK, LedgerInv, OwnedInv,
       RequestsInv, ReasonInv, Strangers, Requests
  <1>17. ASSUME NEW k \in Kills, KillGrace(k) PROVE LedgerInv'
    BY <1>17 DEF KillGrace, KillGoto, ToFinish, Alive, TypeOK, LedgerInv, OwnedInv,
       RequestsInv, ReasonInv, Strangers, Requests
  <1>18. ASSUME NEW k \in Kills, KillRecheck(k) PROVE LedgerInv'
    BY <1>18 DEF KillRecheck, KillGoto, ToFinish, IsOwn, Alive, TypeOK, LedgerInv,
       OwnedInv, RequestsInv, ReasonInv, Strangers, Requests
  <1>19. ASSUME NEW k \in Kills, KillForce(k) PROVE LedgerInv'
    BY <1>19 DEF KillForce, KillGoto, ToFinish, Alive, TypeOK, LedgerInv, OwnedInv,
       RequestsInv, ReasonInv, Strangers, Requests
  <1>20. ASSUME NEW k \in Kills, KillConfirm(k) PROVE LedgerInv'
    BY <1>20 DEF KillConfirm, KillGoto, ToFinish, Alive, TypeOK, LedgerInv,
       OwnedInv, RequestsInv, ReasonInv, Strangers, Requests
  <1>21. ASSUME NEW k \in Kills, KillFinish(k) PROVE LedgerInv'
    BY SMTT(30), <1>21 DEF KillFinish, Resolved, TypeOK, LedgerInv, OwnedInv, RequestsInv,
       ReasonInv, Strangers, Requests
  <1>22. ASSUME NEW k \in Kills, KillRefuse(k) PROVE LedgerInv'
    <2>0. object[k] \in Records
      BY DEF TypeOK, Requests
    <2>1. CASE UNCHANGED rec
      BY <1>22, <2>0, <2>1 DEF KillRefuse, Resolved, TypeOK, LedgerInv, OwnedInv,
         RequestsInv, ReasonInv, Strangers, Requests
    <2>2. CASE rec' = Resolved(object[k], "orphan", "")
      BY <1>22, <2>0, <2>2, ZenonT(100) DEF KillRefuse, Resolved, TypeOK, LedgerInv, OwnedInv,
         RequestsInv, ReasonInv, Strangers, Requests
    <2> QED BY <1>22, <2>1, <2>2 DEF KillRefuse
  <1>23. CASE UNCHANGED vars
    BY <1>23 DEF vars, TypeOK, LedgerInv, OwnedInv, RequestsInv, ReasonInv,
       Strangers, Requests
  <1> QED BY <1>1, <1>2, <1>3, <1>4, <1>5, <1>6, <1>7, <1>8, <1>9, <1>10, <1>11,
             <1>12, <1>13, <1>14, <1>15, <1>16, <1>17, <1>18, <1>19, <1>20, <1>21,
             <1>22, <1>23 DEF Next, KillStep

\* A launch admitted past the orphan fence has no live process of its model
\* beside it, except one given up or without a durable PID (arbitration.go:220).
LEMMA FenceInvStep == IInv /\ [Next]_vars => FenceInv'
  <1> SUFFICES ASSUME IInv, [Next]_vars PROVE FenceInv'
    OBVIOUS
  <1> USE DEF IInv
  <1>1. ASSUME NEW r \in Records, ProcessDies(r) PROVE FenceInv'
    BY <1>1, RecoveryAssumption DEF ProcessDies, TypeOK, FenceInv, OwnedInv,
       LedgerInv, RequestsInv, Requests, Strangers
  <1>2. ASSUME NEW r \in Records, PidRecycled(r) PROVE FenceInv'
    BY <1>2, RecoveryAssumption DEF PidRecycled, TypeOK, FenceInv, OwnedInv,
       LedgerInv, RequestsInv, Requests, Strangers
  <1>3. ASSUME NEW r \in Records, LaunchAdmit(r) PROVE FenceInv'
    <2> SUFFICES ASSUME NEW q \in owned', NEW s \in Records,
                        s # q, ModelOf[s] = ModelOf[q]
                 PROVE  /\ s \notin owned'
                        /\ at'[s] = "own" => s \in givenUp' \/ ~rec'[s].pid
      BY DEF FenceInv
    <2>1. q \in Records /\ (q = r \/ q \in owned) /\ owned' = owned \cup {r}
          /\ at' = at /\ givenUp' = givenUp /\ rec[r].state = "new" /\ goal = "up"
      BY <1>3 DEF LaunchAdmit, TypeOK
    <2>2. rec'[s].pid = rec[s].pid
      BY <1>3 DEF LaunchAdmit, Resolved, TypeOK
    <2>3. CASE q = r
      <3>1. s \notin owned /\ rec[s].state # "orphan"
        BY <1>3, <2>3 DEF LaunchAdmit, Admissible
      <3> QED BY <2>1, <2>2, <2>3, <3>1 DEF LedgerInv
    <2>4. CASE q \in owned /\ q # r
      <3>1. s # r
        BY <1>3, <2>4 DEF LaunchAdmit, Admissible
      <3> QED BY <2>1, <2>2, <2>4, <3>1 DEF FenceInv
    <2> QED BY <2>1, <2>3, <2>4
  <1>4. ASSUME NEW r \in Records, LaunchSpawn(r) PROVE FenceInv'
    BY <1>4, RecoveryAssumption DEF LaunchSpawn, TypeOK, FenceInv, OwnedInv,
       LedgerInv, RequestsInv, Requests, Strangers
  <1>5. ASSUME NEW r \in Records, LaunchRunning(r) PROVE FenceInv'
    BY <1>5, RecoveryAssumption DEF LaunchRunning, TypeOK, FenceInv, OwnedInv,
       LedgerInv, RequestsInv, Requests, Strangers
  <1>6. ASSUME NEW r \in Records, LaunchExit(r) PROVE FenceInv'
    <2>1. CASE UNCHANGED rec
      BY <1>6, <2>1, RecoveryAssumption DEF LaunchExit, Resolved, TypeOK, FenceInv,
         OwnedInv, LedgerInv, RequestsInv, Requests, Strangers
    <2>2. CASE rec' = Resolved(r, "exited", "")
      BY <1>6, <2>2, RecoveryAssumption DEF LaunchExit, Resolved, TypeOK, FenceInv,
         OwnedInv, LedgerInv, RequestsInv, Requests, Strangers
    <2> QED BY <1>6, <2>1, <2>2 DEF LaunchExit
  <1>7. ASSUME NEW r \in Records, CleanHistory(r) PROVE FenceInv'
    BY <1>7, RecoveryAssumption DEF CleanHistory, TypeOK, FenceInv, OwnedInv,
       LedgerInv, RequestsInv, Requests, Strangers
  <1>8. ASSUME NEW r \in Records, Classify(r) PROVE FenceInv'
    BY <1>8, RecoveryAssumption DEF Classify, Resolved, GiveUp, Verdicts, Alive,
       TypeOK, FenceInv, OwnedInv, LedgerInv, RequestsInv, Requests, Strangers
  <1>9. CASE Crash
    BY <1>9, RecoveryAssumption DEF Crash, TypeOK, FenceInv, OwnedInv, LedgerInv,
       RequestsInv, Requests, Strangers
  <1>10. CASE Boot
    BY <1>10, RecoveryAssumption DEF Boot, TypeOK, FenceInv, OwnedInv, LedgerInv,
       RequestsInv, Requests, Strangers
  <1>11. CASE RecoverEnds
    BY <1>11, RecoveryAssumption DEF RecoverEnds, TypeOK, FenceInv, OwnedInv,
       LedgerInv, RequestsInv, Requests, Strangers
  <1>12. ASSUME NEW d \in Dismisses, DismissGet(d) PROVE FenceInv'
    BY <1>12, RecoveryAssumption DEF DismissGet, TypeOK, FenceInv, OwnedInv,
       LedgerInv, RequestsInv, Requests, Strangers
  <1>13. ASSUME NEW d \in Dismisses, DismissWrite(d) PROVE FenceInv'
    BY <1>13, RecoveryAssumption DEF DismissWrite, Resolved, GiveUp, TypeOK,
       FenceInv, OwnedInv, LedgerInv, RequestsInv, Requests, Strangers
  <1>14. ASSUME NEW k \in Kills, KillGet(k) PROVE FenceInv'
    BY <1>14, RecoveryAssumption DEF KillGet, KillGoto, TypeOK, FenceInv, OwnedInv,
       LedgerInv, RequestsInv, Requests, Strangers
  <1>15. ASSUME NEW k \in Kills, KillVerify(k) PROVE FenceInv'
    BY <1>15, RecoveryAssumption DEF KillVerify, KillGoto, ToFinish, GiveUp, IsOwn,
       Alive, TypeOK, FenceInv, OwnedInv, LedgerInv, RequestsInv, Requests,
       Strangers
  <1>16. ASSUME NEW k \in Kills, KillTerm(k) PROVE FenceInv'
    BY <1>16, RecoveryAssumption DEF KillTerm, KillGoto, ToFinish, Alive, TypeOK,
       FenceInv, OwnedInv, LedgerInv, RequestsInv, Requests, Strangers
  <1>17. ASSUME NEW k \in Kills, KillGrace(k) PROVE FenceInv'
    BY <1>17, RecoveryAssumption DEF KillGrace, KillGoto, ToFinish, Alive, TypeOK,
       FenceInv, OwnedInv, LedgerInv, RequestsInv, Requests, Strangers
  <1>18. ASSUME NEW k \in Kills, KillRecheck(k) PROVE FenceInv'
    BY <1>18, RecoveryAssumption DEF KillRecheck, KillGoto, ToFinish, IsOwn, Alive,
       TypeOK, FenceInv, OwnedInv, LedgerInv, RequestsInv, Requests, Strangers
  <1>19. ASSUME NEW k \in Kills, KillForce(k) PROVE FenceInv'
    BY <1>19, RecoveryAssumption DEF KillForce, KillGoto, ToFinish, Alive, TypeOK,
       FenceInv, OwnedInv, LedgerInv, RequestsInv, Requests, Strangers
  <1>20. ASSUME NEW k \in Kills, KillConfirm(k) PROVE FenceInv'
    BY <1>20, RecoveryAssumption DEF KillConfirm, KillGoto, ToFinish, Alive,
       TypeOK, FenceInv, OwnedInv, LedgerInv, RequestsInv, Requests, Strangers
  <1>21. ASSUME NEW k \in Kills, KillFinish(k) PROVE FenceInv'
    BY <1>21, RecoveryAssumption DEF KillFinish, Resolved, TypeOK, FenceInv,
       OwnedInv, LedgerInv, RequestsInv, Requests, Strangers
  <1>22. ASSUME NEW k \in Kills, KillRefuse(k) PROVE FenceInv'
    <2>0. object[k] \in Records
      BY DEF TypeOK, Requests
    <2>1. CASE UNCHANGED rec
      BY <1>22, <2>0, <2>1, RecoveryAssumption DEF KillRefuse, Resolved, TypeOK,
         FenceInv, OwnedInv, LedgerInv, RequestsInv, Requests, Strangers
    <2>2. CASE rec' = Resolved(object[k], "orphan", "")
      BY <1>22, <2>0, <2>2, RecoveryAssumption, ZenonT(100) DEF KillRefuse, Resolved, TypeOK,
         FenceInv, OwnedInv, LedgerInv, RequestsInv, Requests, Strangers
    <2> QED BY <1>22, <2>1, <2>2 DEF KillRefuse
  <1>23. CASE UNCHANGED vars
    BY <1>23 DEF vars, TypeOK, FenceInv, OwnedInv, LedgerInv, RequestsInv,
       Requests, Strangers
  <1> QED BY <1>1, <1>2, <1>3, <1>4, <1>5, <1>6, <1>7, <1>8, <1>9, <1>10, <1>11,
             <1>12, <1>13, <1>14, <1>15, <1>16, <1>17, <1>18, <1>19, <1>20, <1>21,
             <1>22, <1>23 DEF Next, KillStep

\* A kill is at a signal only if its record's process was alive when it was
\* verified last (supervisor_kill.go:70).
LEMMA SignalsFollowVerificationStep == IInv /\ [Next]_vars => SignalsFollowVerification'
  <1> SUFFICES ASSUME IInv, [Next]_vars PROVE SignalsFollowVerification'
    OBVIOUS
  <1> USE DEF IInv
  <1>1. ASSUME NEW r \in Records, ProcessDies(r) PROVE SignalsFollowVerification'
    BY <1>1 DEF ProcessDies, TypeOK, SignalsFollowVerification, LateInv, Requests
  <1>2. ASSUME NEW r \in Records, PidRecycled(r) PROVE SignalsFollowVerification'
    BY <1>2 DEF PidRecycled, TypeOK, SignalsFollowVerification, LateInv, Requests
  <1>3. ASSUME NEW r \in Records, LaunchAdmit(r) PROVE SignalsFollowVerification'
    BY <1>3 DEF LaunchAdmit, Resolved, Admissible, TypeOK,
       SignalsFollowVerification, LateInv, Requests
  <1>4. ASSUME NEW r \in Records, LaunchSpawn(r) PROVE SignalsFollowVerification'
    BY <1>4 DEF LaunchSpawn, TypeOK, SignalsFollowVerification, LateInv, Requests
  <1>5. ASSUME NEW r \in Records, LaunchRunning(r) PROVE SignalsFollowVerification'
    BY <1>5 DEF LaunchRunning, TypeOK, SignalsFollowVerification, LateInv, Requests
  <1>6. ASSUME NEW r \in Records, LaunchExit(r) PROVE SignalsFollowVerification'
    BY <1>6 DEF LaunchExit, Resolved, TypeOK, SignalsFollowVerification, LateInv,
       Requests
  <1>7. ASSUME NEW r \in Records, CleanHistory(r) PROVE SignalsFollowVerification'
    BY <1>7 DEF CleanHistory, TypeOK, SignalsFollowVerification, LateInv, Requests
  <1>8. ASSUME NEW r \in Records, Classify(r) PROVE SignalsFollowVerification'
    BY <1>8 DEF Classify, Resolved, GiveUp, Verdicts, Alive, TypeOK,
       SignalsFollowVerification, LateInv, Requests
  <1>9. CASE Crash
    BY <1>9 DEF Crash, TypeOK, SignalsFollowVerification, LateInv, Requests
  <1>10. CASE Boot
    BY <1>10 DEF Boot, TypeOK, SignalsFollowVerification, LateInv, Requests
  <1>11. CASE RecoverEnds
    BY <1>11 DEF RecoverEnds, TypeOK, SignalsFollowVerification, LateInv, Requests
  <1>12. ASSUME NEW d \in Dismisses, DismissGet(d) PROVE SignalsFollowVerification'
    BY <1>12 DEF DismissGet, TypeOK, SignalsFollowVerification, LateInv, Requests
  <1>13. ASSUME NEW d \in Dismisses, DismissWrite(d) PROVE SignalsFollowVerification'
    BY <1>13 DEF DismissWrite, Resolved, GiveUp, TypeOK, SignalsFollowVerification,
       LateInv, Requests
  <1>14. ASSUME NEW k \in Kills, KillGet(k) PROVE SignalsFollowVerification'
    BY <1>14 DEF KillGet, KillGoto, TypeOK, SignalsFollowVerification, LateInv,
       Requests
  <1>15. ASSUME NEW k \in Kills, KillVerify(k) PROVE SignalsFollowVerification'
    BY <1>15 DEF KillVerify, KillGoto, ToFinish, GiveUp, IsOwn, Alive, TypeOK,
       SignalsFollowVerification, LateInv, Requests
  <1>16. ASSUME NEW k \in Kills, KillTerm(k) PROVE SignalsFollowVerification'
    BY <1>16 DEF KillTerm, KillGoto, ToFinish, Alive, TypeOK,
       SignalsFollowVerification, LateInv, Requests
  <1>17. ASSUME NEW k \in Kills, KillGrace(k) PROVE SignalsFollowVerification'
    BY <1>17 DEF KillGrace, KillGoto, ToFinish, Alive, TypeOK,
       SignalsFollowVerification, LateInv, Requests
  <1>18. ASSUME NEW k \in Kills, KillRecheck(k) PROVE SignalsFollowVerification'
    BY <1>18 DEF KillRecheck, KillGoto, ToFinish, IsOwn, Alive, TypeOK,
       SignalsFollowVerification, LateInv, Requests
  <1>19. ASSUME NEW k \in Kills, KillForce(k) PROVE SignalsFollowVerification'
    BY <1>19 DEF KillForce, KillGoto, ToFinish, Alive, TypeOK,
       SignalsFollowVerification, LateInv, Requests
  <1>20. ASSUME NEW k \in Kills, KillConfirm(k) PROVE SignalsFollowVerification'
    BY <1>20 DEF KillConfirm, KillGoto, ToFinish, Alive, TypeOK,
       SignalsFollowVerification, LateInv, Requests
  <1>21. ASSUME NEW k \in Kills, KillFinish(k) PROVE SignalsFollowVerification'
    BY <1>21 DEF KillFinish, Resolved, TypeOK, SignalsFollowVerification, LateInv,
       Requests
  <1>22. ASSUME NEW k \in Kills, KillRefuse(k) PROVE SignalsFollowVerification'
    BY <1>22 DEF KillRefuse, Resolved, TypeOK, SignalsFollowVerification, LateInv,
       Requests
  <1>23. CASE UNCHANGED vars
    BY <1>23 DEF vars, TypeOK, SignalsFollowVerification, LateInv, Requests
  <1> QED BY <1>1, <1>2, <1>3, <1>4, <1>5, <1>6, <1>7, <1>8, <1>9, <1>10, <1>11,
             <1>12, <1>13, <1>14, <1>15, <1>16, <1>17, <1>18, <1>19, <1>20, <1>21,
             <1>22, <1>23 DEF Next, KillStep

\* The first boot: no record, no process, no request.
LEMMA InitInvariant == Init => IInv
  <1> SUFFICES ASSUME Init PROVE IInv
    OBVIOUS
  <1>1. TypeOK
    BY RecoveryAssumption DEF Init, TypeOK, RecStates, Reasons, Strangers, KillPCs,
       Requests
  <1>2. RequestsInv /\ ReasonInv /\ LateInv /\ SignalsFollowVerification
    BY DEF Init, RequestsInv, ReasonInv, LateInv, SignalsFollowVerification,
       Requests
  <1>3. OwnedInv /\ LedgerInv /\ FenceInv
    BY DEF Init, OwnedInv, LedgerInv, FenceInv
  <1> QED BY <1>1, <1>2, <1>3 DEF IInv

\* The inductive invariant holds for any number of records, models, kills and
\* dismissals, over any sequence of crashes, boots, failed writes and reused
\* PIDs (supervisor.go:1020, supervisor_kill.go:92).
THEOREM Invariance == Spec => []IInv
  <1>1. IInv /\ [Next]_vars => IInv'
    BY TypeOKStep, RequestsInvStep, ReasonInvStep, LateInvStep, OwnedInvStep,
       LedgerInvStep, FenceInvStep, SignalsFollowVerificationStep DEF IInv
  <1> QED BY InitInvariant, <1>1, PTL DEF Spec

\* A record says killed-by-user only if its process is gone
\* (supervisor_kill.go:137-238).
THEOREM KilledIsGone == Spec => []NoFalseSuccess
  <1>1. IInv => NoFalseSuccess
    BY DEF IInv, ReasonInv, NoFalseSuccess
  <1> QED BY Invariance, <1>1, PTL

\* Every signal of KillOrphan follows a verification made while the recorded
\* process lived (supervisor_kill.go:61, 164).
THEOREM VerifiedBeforeSignal == Spec => []SignalsFollowVerification
  <1>1. IInv => SignalsFollowVerification
    BY DEF IInv
  <1> QED BY Invariance, <1>1, PTL

\* No launch runs beside a live process of its model that an earlier GoAl left
\* behind with a durable PID and nobody gave up (arbitration.go:222).
THEOREM OneProcess == Spec => []OneProcessPerModel
  <1>1. IInv => OneProcessPerModel
    BY DEF IInv, FenceInv, OneProcessPerModel
  <1> QED BY Invariance, <1>1, PTL

=============================================================================
