--------------------------- MODULE OrphanRecovery ---------------------------
(***************************************************************************)
(* What becomes of launch records and of their processes when GoAl goes    *)
(* away: Recover, DismissOrphan and KillOrphan (internal/process/          *)
(* supervisor.go, supervisor_kill.go) with the probes and signals of       *)
(* internal/platform.                                                      *)
(*                                                                         *)
(* GoAl may crash at any moment and boot again; a process it spawned may   *)
(* live on, die, and its PID may go to a stranger.  A process is known     *)
(* only by the PID in its record, so the model keeps, for each record,     *)
(* who is at that PID now.  Supervisor.tla models a launch in detail; here *)
(* it is reduced to what recovery can find after a crash: a record without *)
(* PID, a process without recorded PID, both, or a process gone.           *)
(*                                                                         *)
(* A kill or a dismissal reads its record once and writes it back at the   *)
(* end; several may work on one record.  A handler is gone when GoAl is.   *)
(* Probes may fail, any write may fail.                                    *)
(***************************************************************************)
CONSTANTS
    Records,    \* launch records; their IDs are never used twice
    Models,     \* model IDs
    ModelOf,    \* [Records -> Models]
    Kills,      \* kill requests
    Dismisses,  \* dismiss requests
    Platforms   \* the values of runtime.GOOS: "unix", "windows"

ASSUME RecoveryAssumption ==
    /\ ModelOf \in [Records -> Models]
    /\ Platforms \subseteq {"unix", "windows"}

VARIABLES
    goal,      \* GoAl is down, recovering, or up
    todo,      \* records Recover has still to classify
    unsaved,   \* a write of Recover failed
    platform,
    rec,       \* the repository: state, PID present, recovery reason
    at,        \* who is at the PID of the record's process
    owned,     \* records whose process this GoAl supervises
    killPc,    \* where each KillOrphan is
    dismissPc, \* where each DismissOrphan is
    object,    \* the record each request works on
    reason,    \* the recovery reason a kill is about to persist
    \* History, for the properties:
    givenUp,   \* records resolved although nobody saw their process gone
    late       \* kills that saw no process of the record since it died

reqVars == <<killPc, dismissPc, object, reason>>
goalVars == <<goal, todo, unsaved, platform>>
history == <<givenUp, late>>
vars == <<goal, todo, unsaved, platform, rec, at, owned, killPc, dismissPc,
          object, reason, givenUp, late>>

\* "new" is a record not yet created, "absent" one that was deleted; "inflight"
\* stands for pending, starting, running and stopping, "exited" for failed too.
RecStates == {"new", "inflight", "exited", "orphan", "stale", "absent"}
Reasons   == {"", "pid-not-found", "identity-unconfirmed", "reconciled-by-user",
              "pid-gone", "killed-by-user"}
Strangers == {"samePath", "other"}
KillPCs   == {"idle", "verify", "term", "grace", "recheck", "force", "confirm",
              "finish", "refuse", "done"}
Requests  == Kills \cup Dismisses

TypeOK ==
    /\ goal \in {"down", "recovering", "up"}
    /\ todo \subseteq Records /\ unsaved \in BOOLEAN
    /\ platform \in {"unix", "windows"}
    /\ rec \in [Records -> [state : RecStates, pid : BOOLEAN, reason : Reasons]]
    /\ at \in [Records -> {"unborn", "own", "none"} \cup Strangers]
    /\ owned \subseteq Records
    /\ killPc \in [Kills -> KillPCs]
    /\ dismissPc \in [Dismisses -> {"idle", "write", "done"}]
    /\ object \in [Requests -> Records]
    /\ reason \in [Kills -> Reasons]
    /\ givenUp \subseteq Records /\ late \subseteq Kills

Init ==
    /\ goal = "up" /\ todo = {} /\ unsaved = FALSE
    /\ platform \in Platforms
    /\ rec = [r \in Records |-> [state |-> "new", pid |-> FALSE, reason |-> ""]]
    /\ at = [r \in Records |-> "unborn"]
    /\ owned = {}
    /\ killPc = [k \in Kills |-> "idle"]
    /\ dismissPc = [d \in Dismisses |-> "idle"]
    /\ object \in [Requests -> Records]
    /\ reason = [k \in Kills |-> ""]
    /\ givenUp = {} /\ late = {}

-----------------------------------------------------------------------------
(* Helpers                                                                 *)

\* IsProcessAlive, when it can tell: somebody is at the recorded PID.
Alive(r) == at[r] \in {"own"} \cup Strangers

\* store.Update: only a record that exists is written.
Writable(r) == rec[r].state \notin {"new", "absent"}

\* The record r with its new state and recovery reason.
Resolved(r, s, why) ==
    [rec EXCEPT ![r] = [state |-> s, pid |-> rec[r].pid, reason |-> why]]

\* verifyIdentityForKill: same executable and same start time, both known.
IsOwn(r) == at[r] = "own"

\* r is resolved without a confirmed exit: nobody can rely on its process
\* being gone.
GiveUp(r) == givenUp' = IF at[r] = "own" THEN givenUp \cup {r} ELSE givenUp

-----------------------------------------------------------------------------
(* The operating system                                                    *)

\* The process of a record exits. A kill that has still to verify it comes late.
ProcessDies(r) ==
    /\ at[r] = "own"
    /\ at' = [at EXCEPT ![r] = "none"]
    /\ late' = late \cup {k \in Kills : /\ object[k] = r
                                        /\ killPc[k] \in {"verify", "grace", "recheck"}}
    /\ UNCHANGED <<goalVars, rec, owned, reqVars, givenUp>>

\* The PID is reused, or the stranger that has it exits.
PidRecycled(r) ==
    /\ at[r] \in {"none"} \cup Strangers /\ rec[r].pid
    /\ \E who \in {"none"} \cup Strangers :
          who # at[r] /\ at' = [at EXCEPT ![r] = who]
    /\ UNCHANGED <<goalVars, rec, owned, reqVars, history>>

-----------------------------------------------------------------------------
(* A launch, as far as recovery can see it                                 *)

\* MUTANT of Admissible: the orphan fence is not consulted.
AdmissibleUnfenced(r) ==
    \A q \in owned : ModelOf[q] # ModelOf[r]

\* Arbitration: no launch of the model under way or running, and no
\* unresolved orphan record of it.
Admissible(r) ==
    /\ \A q \in owned : ModelOf[q] # ModelOf[r]
    /\ \A q \in Records : ModelOf[q] = ModelOf[r] => rec[q].state # "orphan"

\* The launch is admitted and its record created, without a PID.
LaunchAdmit(r) ==
    /\ goal = "up" /\ rec[r].state = "new" /\ Admissible(r)
    /\ rec' = Resolved(r, "inflight", "")
    /\ owned' = owned \cup {r}
    /\ UNCHANGED <<goalVars, at, reqVars, history>>

LaunchSpawn(r) ==
    /\ r \in owned /\ at[r] = "unborn"
    /\ at' = [at EXCEPT ![r] = "own"]
    /\ UNCHANGED <<goalVars, rec, owned, reqVars, history>>

\* running with its PID is durable.
LaunchRunning(r) ==
    /\ r \in owned /\ at[r] # "unborn" /\ ~rec[r].pid
    /\ rec' = [rec EXCEPT ![r].pid = TRUE]
    /\ UNCHANGED <<goalVars, at, owned, reqVars, history>>

\* No process was spawned, or wait() saw it exit; the terminal write may fail.
LaunchExit(r) ==
    /\ r \in owned /\ at[r] # "own"
    /\ owned' = owned \ {r}
    /\ rec' = Resolved(r, "exited", "") \/ UNCHANGED rec
    /\ UNCHANGED <<goalVars, at, reqVars, history>>

\* DeleteTerminalInstances removes r from the history.
CleanHistory(r) ==
    /\ goal = "up" /\ rec[r].state \in {"exited", "stale"}
    /\ rec' = [rec EXCEPT ![r].state = "absent"]
    /\ UNCHANGED <<goalVars, at, owned, reqVars, history>>

-----------------------------------------------------------------------------
(* Crash, boot and Recover                                                 *)

\* GoAl stops, or is killed; requests under way are gone with it.
Crash ==
    /\ goal # "down"
    /\ goal' = "down" /\ todo' = {} /\ owned' = {}
    /\ killPc' = [k \in Kills |-> IF killPc[k] = "idle" THEN "idle" ELSE "done"]
    /\ dismissPc' = [d \in Dismisses |->
                        IF dismissPc[d] = "idle" THEN "idle" ELSE "done"]
    /\ UNCHANGED <<unsaved, platform, rec, at, object, reason, history>>

\* The repository is loaded and Recover lists it.
Boot ==
    /\ goal = "down"
    /\ goal' = "recovering" /\ unsaved' = FALSE
    /\ todo' = {r \in Records : rec[r].state = "inflight"}
    /\ UNCHANGED <<platform, rec, at, owned, reqVars, history>>

\* classifyForRecovery: nobody at the PID, no PID, or no answer; an identity
\* that cannot be read or differs; the recorded process, or for want of a start
\* time one with the same executable (verifyIdentity).
Verdicts(r) ==
    {<<"stale", "pid-not-found">>}
    \cup (IF rec[r].pid /\ Alive(r) THEN {<<"stale", "identity-unconfirmed">>} ELSE {})
    \cup (IF rec[r].pid /\ at[r] \in {"own", "samePath"} THEN {<<"orphan", "">>} ELSE {})

\* One round of Recover's loop: a failed write is remembered, the loop goes on.
Classify(r) ==
    /\ r \in todo /\ todo' = todo \ {r}
    /\ \/ /\ \E v \in Verdicts(r) :
                /\ rec' = Resolved(r, v[1], v[2])
                /\ IF v[1] = "stale" THEN GiveUp(r) ELSE UNCHANGED givenUp
          /\ UNCHANGED unsaved
       \/ unsaved' = TRUE /\ UNCHANGED <<rec, givenUp>>
    /\ UNCHANGED <<goal, platform, at, owned, reqVars, late>>

\* MUTANT of RecoverEnds: main logs the error and serves.
RecoverEndsRegardless ==
    /\ goal = "recovering" /\ todo = {}
    /\ goal' = "up"
    /\ UNCHANGED <<todo, unsaved, platform, rec, at, owned, reqVars, history>>

\* main serves requests only if every verdict was saved; otherwise it exits.
RecoverEnds ==
    /\ goal = "recovering" /\ todo = {}
    /\ goal' = IF unsaved THEN "down" ELSE "up"
    /\ UNCHANGED <<todo, unsaved, platform, rec, at, owned, reqVars, history>>

-----------------------------------------------------------------------------
(* DismissOrphan                                                           *)

\* The record is read; only an orphan is dismissed.
DismissGet(d) ==
    /\ goal = "up" /\ dismissPc[d] = "idle"
    /\ rec[object[d]].state = "orphan"
    /\ dismissPc' = [dismissPc EXCEPT ![d] = "write"]
    /\ UNCHANGED <<goalVars, rec, at, owned, killPc, object, reason, history>>

DismissWrite(d) ==
    LET r == object[d] IN
    /\ dismissPc[d] = "write"
    /\ dismissPc' = [dismissPc EXCEPT ![d] = "done"]
    /\ \/ /\ Writable(r)
          /\ rec' = Resolved(r, "stale", "reconciled-by-user")
          /\ GiveUp(r)
       \/ UNCHANGED <<rec, givenUp>>
    /\ UNCHANGED <<goalVars, at, owned, killPc, object, reason, late>>

-----------------------------------------------------------------------------
(* KillOrphan: killOrphanUnix, killOrphanWindows, forceAndConfirm          *)

KillGoto(k, l) ==
    /\ killPc' = [killPc EXCEPT ![k] = l]
    /\ UNCHANGED <<goalVars, rec, at, owned, dismissPc, object>>

\* finishKill is next, with this reason.
ToFinish(k, why) ==
    KillGoto(k, "finish") /\ reason' = [reason EXCEPT ![k] = why]

\* The record is read; only an orphan is killed.
KillGet(k) ==
    /\ goal = "up" /\ killPc[k] = "idle"
    /\ rec[object[k]].state = "orphan"
    /\ KillGoto(k, "verify")
    /\ late' = IF at[object[k]] = "own" THEN late ELSE late \cup {k}
    /\ UNCHANGED <<reason, givenUp>>

\* The strict verification. No process, or no answer, counts as gone.
KillVerify(k) ==
    LET r == object[k] IN
    /\ killPc[k] = "verify"
    /\ \/ ToFinish(k, "pid-gone") /\ GiveUp(r)
       \/ Alive(r) /\ KillGoto(k, "refuse") /\ UNCHANGED <<reason, givenUp>>
       \/ /\ IsOwn(r)
          /\ KillGoto(k, IF platform = "unix" THEN "term" ELSE "force")
          /\ UNCHANGED <<reason, givenUp>>
    /\ UNCHANGED late

\* SIGTERM: nobody is there any more, it is delivered, or it is denied.
KillTerm(k) ==
    LET r == object[k] IN
    /\ killPc[k] = "term"
    /\ \/ ~Alive(r) /\ ToFinish(k, "pid-gone")
       \/ /\ Alive(r) /\ UNCHANGED reason
          /\ \E l \in {"grace", "refuse"} : KillGoto(k, l)
    /\ UNCHANGED history

\* MUTANT of KillGrace: the window has no end.
KillGraceUnbounded(k) ==
    /\ killPc[k] = "grace"
    /\ ~Alive(object[k]) /\ ToFinish(k, "killed-by-user")
    /\ UNCHANGED history

\* pollGone during the grace: gone; still there at its end; or a probe failed
\* or the request was cancelled.
KillGrace(k) ==
    LET r == object[k] IN
    /\ killPc[k] = "grace"
    /\ \/ ~Alive(r) /\ ToFinish(k, "killed-by-user")
       \/ Alive(r) /\ KillGoto(k, "recheck") /\ UNCHANGED reason
       \/ KillGoto(k, "refuse") /\ UNCHANGED reason
    /\ UNCHANGED history

\* MUTANT of KillRecheck: escalates on the liveness probe alone.
KillRecheckAlive(k) ==
    LET r == object[k] IN
    /\ killPc[k] = "recheck"
    /\ \/ ~Alive(r) /\ ToFinish(k, "killed-by-user")
       \/ Alive(r) /\ KillGoto(k, "force") /\ UNCHANGED reason
    /\ UNCHANGED history

\* Before SIGKILL the process is verified again.
KillRecheck(k) ==
    LET r == object[k] IN
    /\ killPc[k] = "recheck"
    /\ \/ ~Alive(r) /\ ToFinish(k, "killed-by-user")
       \/ IsOwn(r) /\ KillGoto(k, "force") /\ UNCHANGED reason
       \/ KillGoto(k, "refuse") /\ UNCHANGED reason
    /\ UNCHANGED history

\* SIGKILL or TerminateProcess. On Unix a process already gone was ended by
\* the SIGTERM before; on Windows nothing was killed.
KillForce(k) ==
    LET r == object[k] IN
    /\ killPc[k] = "force"
    /\ \/ /\ ~Alive(r)
          /\ ToFinish(k, IF platform = "unix" THEN "killed-by-user" ELSE "pid-gone")
       \/ /\ Alive(r) /\ UNCHANGED reason
          /\ \E l \in {"confirm", "refuse"} : KillGoto(k, l)
    /\ UNCHANGED history

\* MUTANT of KillConfirm: the delivered signal counts as the exit.
KillConfirmBySignal(k) ==
    /\ killPc[k] = "confirm"
    /\ ToFinish(k, "killed-by-user")
    /\ UNCHANGED history

\* pollGone after the forced signal: only a confirmed exit is a success.
KillConfirm(k) ==
    LET r == object[k] IN
    /\ killPc[k] = "confirm"
    /\ \/ ~Alive(r) /\ ToFinish(k, "killed-by-user")
       \/ KillGoto(k, "refuse") /\ UNCHANGED reason
    /\ UNCHANGED history

\* finishKill: stale with the reason, or the write fails.
KillFinish(k) ==
    LET r == object[k] IN
    /\ killPc[k] = "finish"
    /\ killPc' = [killPc EXCEPT ![k] = "done"]
    /\ \/ Writable(r) /\ rec' = Resolved(r, "stale", reason[k])
       \/ UNCHANGED rec
    /\ UNCHANGED <<goalVars, at, owned, dismissPc, object, reason, history>>

\* refuseKill writes the record back as it was read, an orphan, with its error.
KillRefuse(k) ==
    LET r == object[k] IN
    /\ killPc[k] = "refuse"
    /\ killPc' = [killPc EXCEPT ![k] = "done"]
    /\ \/ Writable(r) /\ rec' = Resolved(r, "orphan", "")
       \/ UNCHANGED rec
    /\ UNCHANGED <<goalVars, at, owned, dismissPc, object, reason, history>>

-----------------------------------------------------------------------------
KillStep(k) ==
    \/ KillVerify(k) \/ KillTerm(k) \/ KillGrace(k) \/ KillRecheck(k)
    \/ KillForce(k) \/ KillConfirm(k) \/ KillFinish(k) \/ KillRefuse(k)

Next ==
    \/ \E r \in Records :
          \/ ProcessDies(r) \/ PidRecycled(r)
          \/ LaunchAdmit(r) \/ LaunchSpawn(r) \/ LaunchRunning(r) \/ LaunchExit(r)
          \/ CleanHistory(r) \/ Classify(r)
    \/ Crash \/ Boot \/ RecoverEnds
    \/ \E d \in Dismisses : DismissGet(d) \/ DismissWrite(d)
    \/ \E k \in Kills : KillGet(k) \/ KillStep(k)

Spec == Init /\ [][Next]_vars

\* Probes, signals, timers and store calls return; nothing else need happen.
FairSpec == Spec /\ \A k \in Kills : WF_vars(KillStep(k))

-----------------------------------------------------------------------------
(* Properties                                                              *)

\* A record says killed-by-user only if its process is gone: a signal that was
\* delivered, an unanswered probe, a deadline or a reused PID never count as
\* an exit (supervisor_kill.go:137-238).
NoFalseSuccess ==
    \A r \in Records : rec[r].reason = "killed-by-user" => at[r] # "own"

\* Each signal follows a verification made while the recorded process lived:
\* a stranger is hit only if it got the PID after the last verification, never
\* because the process was seen before (supervisor_kill.go:61, 164).
SignalsFollowVerification ==
    \A k \in Kills : killPc[k] \in {"term", "force"} => k \notin late

\* Over crashes, boots, failed writes and reused PIDs: a launch never gets a
\* process beside a live one of the same model, except one that was given up
\* knowingly (dismissed, or nobody could tell) or whose PID was not durable yet
\* (arbitration.go:222, supervisor.go:1024, main.go:279).
OneProcessPerModel ==
    \A q \in owned, r \in Records :
        r # q /\ ModelOf[r] = ModelOf[q] /\ at[r] = "own" /\ at[q] = "own"
            => r \notin owned /\ (r \in givenUp \/ ~rec[r].pid)

\* A kill never hangs: the polls are bounded (supervisor_kill.go:244).
KillReturns ==
    \A k \in Kills : killPc[k] # "idle" ~> killPc[k] = "done"

\* What the documents say of the orphan state: stale is never taken back.
StaleIsFinal ==
    [][\A r \in Records : rec[r].state = "stale" => rec'[r].state # "orphan"]_vars

-----------------------------------------------------------------------------
(* The inductive invariant                                                 *)

\* Requests under way work on records that were orphans once.
RequestsInv ==
    /\ \A k \in Kills : killPc[k] \notin {"idle", "done"} =>
          /\ goal = "up" /\ at[object[k]] # "unborn"
          /\ rec[object[k]].state \in {"orphan", "stale", "absent"}
    /\ \A d \in Dismisses : dismissPc[d] = "write" =>
          /\ goal = "up" /\ at[object[d]] # "unborn"
          /\ rec[object[d]].state \in {"orphan", "stale", "absent"}

\* What a kill persisted, or is about to persist, is true.
ReasonInv ==
    /\ \A r \in Records : rec[r].reason = "killed-by-user" => at[r] \notin {"unborn", "own"}
    /\ \A k \in Kills : killPc[k] = "finish" =>
          \/ at[object[k]] # "own"
          \/ reason[k] = "pid-gone" /\ object[k] \in givenUp

\* A late kill finds no process of its record any more.
LateInv == \A k \in late : at[object[k]] \notin {"unborn", "own"}

\* Owned records are in flight, and nothing is left to classify when GoAl is up.
OwnedInv ==
    /\ \A r \in owned : goal = "up" /\ rec[r].state = "inflight"
    /\ goal # "recovering" => todo = {}

\* Every live process is owned, an unresolved orphan, waiting for Recover, or
\* given up.
LedgerInv ==
    \A r \in Records :
        /\ at[r] = "unborn" => rec[r].state # "orphan"
        /\ at[r] = "own" =>
              \/ r \in owned \/ r \in givenUp \/ ~rec[r].pid
              \/ rec[r].state = "orphan"
              \/ /\ rec[r].state = "inflight"
                 /\ goal = "down" \/ (goal = "recovering" /\ (unsaved \/ r \in todo))

\* The launches of this GoAl against everything else of their models.
FenceInv ==
    \A q \in owned, r \in Records :
        r # q /\ ModelOf[r] = ModelOf[q] =>
            /\ r \notin owned
            /\ at[r] = "own" => r \in givenUp \/ ~rec[r].pid

IInv ==
    /\ TypeOK /\ RequestsInv /\ ReasonInv /\ LateInv /\ OwnedInv /\ LedgerInv
    /\ FenceInv /\ SignalsFollowVerification
=============================================================================
