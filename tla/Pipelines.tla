----------------------------- MODULE Pipelines -----------------------------
(***************************************************************************)
(* The application services over the Supervisor: PipelineService (group    *)
(* start, stop, restart, autostart, update, delete), InstanceService and   *)
(* the model handlers, and the autostart of cmd/goal.                      *)
(*                                                                         *)
(* A request has a goroutine of its own; requests are numbered as they     *)
(* arrive.  Boot is the startup goroutine, which autostarts Active         *)
(* pipelines and then Active models before the server listens.  The group  *)
(* requests of one pipeline share a mutex; updates and deletions do not    *)
(* take it.                                                                *)
(*                                                                         *)
(* The Supervisor is the one module Supervisor details, seen from outside: *)
(* arbitration is one step, a launch is admitted, recorded and spawned, a  *)
(* stop signals and waits for the run to be done, and wait() publishes an  *)
(* exit before it persists it.  What the services read of instances is the *)
(* repository (durable) or the registry (state), and the two differ.       *)
(***************************************************************************)
EXTENDS Naturals, Sequences, FiniteSetsExt

CONSTANTS
    Boot,         \* the startup goroutine
    Instances,    \* bound: the instance IDs that can be minted
    Pipes,        \* pipeline IDs
    Models,       \* model IDs
    Layouts,      \* entry lists a client may send: Seq([id, model])
    InitialPipe,  \* [Pipes -> Layouts]: the pipelines on disk
    BootJobs,     \* sequence of Active pipelines, then Active models
    Orphaned,     \* models fenced by an unresolved orphan
    Kinds,        \* the kinds of request clients make
    MaxRequests,  \* bound: how many requests arrive
    MaxFaults,    \* bound: failed writes and spawns, exits nobody asked for,
                  \* the shutdown
    No            \* "none": no instance, no lock holder, no owner

ASSUME PipelinesAssumption ==
    /\ MaxRequests \in Nat /\ MaxFaults \in Nat
    /\ InitialPipe \in [Pipes -> Layouts]
    /\ BootJobs \in Seq(Pipes \cup Models)
    /\ Pipes \cap Models = {}
    /\ Kinds \subseteq {"start", "stop", "restart", "update", "delete", "launch",
                       "model-start", "model-stop", "model-restart",
                       "instance-stop", "instance-restart", "cleanup"}
    /\ Boot \notin 1..MaxRequests
    /\ No \notin Instances \cup Pipes \cup Models \cup 1..MaxRequests \cup {Boot}

\* What ValidatePipelineEntry lets through.
ASSUME LayoutAssumption ==
    \A l \in Layouts :
        /\ l # <<>>
        /\ l \in Seq([id : {l[k].id : k \in DOMAIN l}, model : Models])
        /\ \A j, k \in DOMAIN l : l[j].id = l[k].id => j = k

Requests  == 1..MaxRequests
All       == Requests \cup {Boot}
Live      == {"starting", "running", "stopping"}
InFlight  == Live \cup {"pending"}
Terminal  == {"exited", "failed"}
Group     == {"start", "stop", "restart", "autostart"}

VARIABLES
    pipes,      \* the pipelines; <<>> is one that was deleted
    state,      \* what the registry says of each instance; "gone" is forgotten
    owner,      \* [model, pipe, entry] of each instance ever admitted
    op,         \* the published operation of each controller
    mu,         \* the holder of each lifecycleMu
    late,       \* instances whose wait() has still to persist their exit
    durable,    \* the repository record of each instance
    mutex,      \* the holder of each pipeline's mutex
    req,        \* the request each goroutine serves
    booted,     \* how many of BootJobs are done
    made,       \* requests made so far
    draining,   \* the shutdown latch
    faults,     \* faults so far
    restarted,  \* history: instances an instance or model restart took on
    quiet       \* history: edits no lifecycle request and no other edit
                \* overlapped since their check

vars == <<pipes, state, owner, op, mu, late, durable, mutex, req, booted, made,
          draining, faults, restarted, quiet>>
supVars == <<state, owner, op, mu, late, durable, restarted>>
docVars == <<pipes, mutex, booted, made, draining, quiet>>
sysVars == <<docVars, faults>>

Idle == [kind |-> "none", pc |-> "idle", arg |-> No, snap |-> <<>>,
         targets |-> <<>>, cur |-> No, idx |-> 1, blockers |-> {},
         failed |-> FALSE, new |-> <<>>]

PCs == {"idle", "lock", "list", "stop", "stopping", "start", "record", "spawn",
        "radmit", "rarbitrate", "rlock", "rstop", "rawait", "rspawn", "check",
        "write", "clean", "forget", "reply"}

NoOwner == [model |-> No, pipe |-> No, entry |-> No]

TypeOK ==
    /\ \A p \in Pipes : pipes[p] = <<>> \/ pipes[p] \in Layouts
    /\ state \in [Instances -> InFlight \cup Terminal \cup {"none", "gone"}]
    /\ \A i \in Instances : owner[i] = NoOwner <=> state[i] = "none"
    /\ op \in [Instances -> {"none", "launch", "restart"}]
    /\ mu \in [Instances -> All \cup {No}]
    /\ late \subseteq Instances /\ quiet \subseteq All
    /\ durable \in [Instances -> InFlight \cup Terminal \cup {"none"}]
    /\ mutex \in [Pipes -> All \cup {No}]
    /\ \A c \in All : /\ req[c].pc \in PCs
                      /\ req[c].idx \in Nat /\ req[c].blockers \subseteq Instances
                      /\ req[c].cur \in Instances \cup {No}
    /\ booted \in 0..Len(BootJobs) /\ made \in 0..MaxRequests
    /\ restarted \subseteq Instances /\ faults \in 0..MaxFaults

Init ==
    /\ pipes = InitialPipe
    /\ state = [i \in Instances |-> "none"]
    /\ owner = [i \in Instances |-> NoOwner]
    /\ op = [i \in Instances |-> "none"]
    /\ mu = [i \in Instances |-> No]
    /\ late = {} /\ restarted = {} /\ quiet = {}
    /\ durable = [i \in Instances |-> "none"]
    /\ mutex = [p \in Pipes |-> No]
    /\ req = [c \in All |-> Idle]
    /\ booted = 0 /\ made = 0 /\ draining = FALSE /\ faults = 0

-----------------------------------------------------------------------------
(* Helpers                                                                 *)

At(c, pc) == req[c].pc = pc
Arg(c)    == req[c].arg
Serve(c, r) == req' = [req EXCEPT ![c] = r]
Goto(c, pc) == Serve(c, [req[c] EXCEPT !.pc = pc])
Answer(c, failed) == Serve(c, [req[c] EXCEPT !.pc = "reply", !.failed = failed])

Unminted == {i \in Instances : state[i] = "none"}

Ids(layout) == {layout[k].id : k \in DOMAIN layout}
IdSeq(layout) == [k \in DOMAIN layout |-> layout[k].id]

\* Who asked for entry e of the request c: a pipeline, or nobody.
OwnerFor(c, e) ==
    [model |-> e.model, entry |-> e.id,
     pipe |-> IF req[c].kind \in Group THEN Arg(c) ELSE No]

\* compatible: only another entry of the same pipeline may share a model.
Compatible(new, old) ==
    new.pipe # No /\ old.pipe = new.pipe /\ old.entry # new.entry

\* scanConflicts: the registered instances a claim of owner o collides with.
Conflicts(o, self) ==
    {j \in Instances \ {self} :
        /\ owner[j].model = o.model
        /\ state[j] \in InFlight \/ (state[j] \in Terminal /\ op[j] # "none")
        /\ ~Compatible(o, owner[j])}

\* Why arbitrate refuses a claim of owner o: an AdmissionRejection.
Refusals(o, self) ==
    {r \in {"shutting-down", "already-running", "orphan-skipped"} :
        \/ r = "shutting-down" /\ draining
        \/ r = "already-running" /\ Conflicts(o, self) # {}
        \/ r = "orphan-skipped" /\ o.model \in Orphaned}

\* MUTANT of ActiveOwned: only running instances count.
RunningOwned(p) ==
    {i \in Instances : owner[i].pipe = p /\ durable[i] = "running"}

\* hasActiveOwnedInstances and stopTargets read the repository, not the
\* registry: the recorded instances of pipeline p that are in flight.
ActiveOwned(p) ==
    {i \in Instances : owner[i].pipe = p /\ durable[i] \in InFlight}

\* A fault, of which there are at most MaxFaults.
Fault   == faults < MaxFaults /\ faults' = faults + 1
NoFault == UNCHANGED faults
FaultUnless(cond) == IF cond THEN NoFault ELSE Fault

-----------------------------------------------------------------------------
(* Requests arrive and are answered                                        *)

First(kind) ==
    CASE kind \in Group -> "lock"
      [] kind \in {"update", "delete"} -> "check"
      [] kind \in {"model-start", "model-stop", "model-restart", "automodel"} -> "list"
      [] kind = "launch" -> "start"
      [] kind = "instance-stop" -> "stop"
      [] kind = "instance-restart" -> "radmit"
      [] kind = "cleanup" -> "clean"

Manual(m) == <<[id |-> No, model |-> m]>>

Asked(kind, arg, new) ==
    [Idle EXCEPT !.kind = kind, !.arg = arg, !.new = new, !.pc = First(kind),
                 !.snap = IF kind = "launch" THEN Manual(arg) ELSE <<>>,
                 !.targets = IF arg \in Instances THEN <<{arg}>> ELSE <<>>]

\* What a request of each kind names.
ArgsOf(kind) ==
    CASE kind \in Group \cup {"update", "delete"} -> Pipes
      [] kind \in {"instance-stop", "instance-restart"} ->
             {i \in Instances : state[i] \notin {"none", "gone"}}
      [] kind = "cleanup" -> {No}
      [] OTHER -> Models

\* The handler of one HTTP request starts.
Begin(c) ==
    /\ c = made + 1 /\ booted = Len(BootJobs)
    /\ \E kind \in Kinds : \E arg \in ArgsOf(kind) :
         \E new \in (IF kind = "update" THEN Layouts ELSE {<<>>}) :
             Serve(c, Asked(kind, arg, new))
    /\ made' = made + 1
    /\ UNCHANGED <<supVars, pipes, mutex, booted, draining, quiet, faults>>

\* autostartPipelines, then autostartModels: the next Active one.
BootNext ==
    /\ At(Boot, "idle") /\ booted < Len(BootJobs)
    /\ LET job == BootJobs[booted + 1] IN
       Serve(Boot, Asked(IF job \in Pipes THEN "autostart" ELSE "automodel", job, <<>>))
    /\ UNCHANGED <<supVars, sysVars>>

\* MUTANT of Unlocked: an error path returns without its deferred unlock.
UnlockedOnSuccess(c) ==
    [p \in Pipes |-> IF mutex[p] = c /\ ~req[c].failed THEN No ELSE mutex[p]]

\* The deferred unlock of lockPipeline.
Unlocked(c) == [p \in Pipes |-> IF mutex[p] = c THEN No ELSE mutex[p]]

\* The response is written; the deferred unlock runs.
Reply(c) ==
    /\ At(c, "reply")
    /\ Serve(c, Idle)
    /\ mutex' = Unlocked(c)
    /\ booted' = IF c = Boot THEN booted + 1 ELSE booted
    /\ UNCHANGED <<supVars, pipes, made, draining, quiet, faults>>

-----------------------------------------------------------------------------
(* Group requests: lock, snapshot, targets                                 *)

\* A lifecycle request on pipeline p, or the write of an edit, overlaps the
\* edits between their check and their write.
Overlaps(p) == quiet' = {c \in quiet : Arg(c) # p}

\* lockPipeline, then GetPipeline.
Lock(c) ==
    LET p == Arg(c) IN
    /\ At(c, "lock") /\ mutex[p] = No
    /\ mutex' = [mutex EXCEPT ![p] = c]
    /\ IF pipes[p] = <<>>
       THEN Answer(c, TRUE)
       ELSE Serve(c, [req[c] EXCEPT
                !.snap = pipes[p],
                !.pc = IF req[c].kind \in {"start", "autostart"} THEN "start" ELSE "list"])
    /\ Overlaps(p)
    /\ UNCHANGED <<supVars, pipes, booted, made, draining, faults>>

\* stopTargets: the active owned instances of each entry of the snapshot.
GroupTargets(c) ==
    /\ At(c, "list") /\ req[c].kind \in Group
    /\ Serve(c, [req[c] EXCEPT !.pc = "stop",
           !.targets = [k \in DOMAIN req[c].snap |->
               {i \in ActiveOwned(Arg(c)) : owner[i].entry = req[c].snap[k].id}]])
    /\ UNCHANGED <<supVars, sysVars>>

-----------------------------------------------------------------------------
(* Launches: startEntry, StartModel and autostartModels over AdmitAndStart *)

\* lifecycleCollector: of the start outcomes of a group only a refusal by
\* the shutdown fails the request; a single launch fails unless it started.
Refused(c, outcome) ==
    \/ req[c].failed
    \/ outcome = "shutting-down" /\ req[c].kind # "autostart"
    \/ outcome # "started" /\ req[c].kind \notin Group

\* The outcome of the entry at hand; on to the next one, or to the response.
EntryDone(c, outcome, blockers) ==
    Serve(c, [req[c] EXCEPT
        !.idx = @ + 1, !.cur = No, !.blockers = @ \cup blockers,
        !.failed = Refused(c, outcome),
        !.pc = IF req[c].idx = Len(req[c].snap) THEN "reply" ELSE "start"])

\* GetModel, GetRuntime and resolution, then arbitrate: one entry is refused,
\* or admitted as a pending instance nobody has recorded yet.
Admit(c) ==
    LET e == req[c].snap[req[c].idx]
        o == OwnerFor(c, e)
        blockers == Conflicts(o, No) IN
    /\ At(c, "start")
    /\ \/ /\ Fault /\ EntryDone(c, "unresolved", {})
          /\ UNCHANGED <<state, owner, op>>
       \/ /\ NoFault /\ \E r \in Refusals(o, No) : EntryDone(c, r, blockers)
          /\ UNCHANGED <<state, owner, op>>
       \/ /\ NoFault /\ Refusals(o, No) = {} /\ Unminted # {}
          /\ LET i == CHOOSE j \in Unminted : TRUE IN
             /\ state' = [state EXCEPT ![i] = "pending"]
             /\ owner' = [owner EXCEPT ![i] = o]
             /\ op' = [op EXCEPT ![i] = "launch"]
             /\ Serve(c, [req[c] EXCEPT !.pc = "record", !.cur = i])
    /\ UNCHANGED <<mu, late, durable, restarted, docVars>>

\* MUTANT of Forgotten: the identifier is free again, its owner still on it.
ForgottenUnminted(i) ==
    /\ state' = [state EXCEPT ![i] = "none"]
    /\ op' = [op EXCEPT ![i] = "none"]

\* The launch of i ends without a registered controller.
Forgotten(i) ==
    /\ state' = [state EXCEPT ![i] = "gone"]
    /\ op' = [op EXCEPT ![i] = "none"]

\* What a launch that is given up reports.
Aborted == IF draining THEN "shutting-down" ELSE "start-failed"

\* acquireSlot and store.Create of the pending record, or the abort of either.
Record(c) ==
    LET i == req[c].cur IN
    /\ At(c, "record")
    /\ \/ /\ NoFault
          /\ durable' = [durable EXCEPT ![i] = "pending"]
          /\ Goto(c, "spawn")
          /\ UNCHANGED <<state, op>>
       \/ /\ FaultUnless(draining)
          /\ EntryDone(c, Aborted, {})
          /\ Forgotten(i)
          /\ UNCHANGED durable
    /\ UNCHANGED <<owner, mu, late, restarted, docVars>>

\* startCore: a process and its running record; or the shutdown, the spawn or
\* a confirmed rollback forgets the launch; or a rollback nobody could confirm
\* leaves a residual process behind an error.
Spawn(c) ==
    LET i == req[c].cur IN
    /\ At(c, "spawn")
    /\ \/ /\ ~draining /\ NoFault
          /\ state' = [state EXCEPT ![i] = "running"]
          /\ durable' = [durable EXCEPT ![i] = "running"]
          /\ op' = [op EXCEPT ![i] = "none"]
          /\ EntryDone(c, "started", {})
       \/ /\ FaultUnless(draining)
          /\ Forgotten(i)
          /\ durable' \in {durable, [durable EXCEPT ![i] = "failed"]}
          /\ EntryDone(c, Aborted, {})
       \/ /\ ~draining /\ Fault
          /\ state' = [state EXCEPT ![i] = "starting"]
          /\ op' = [op EXCEPT ![i] = "none"]
          /\ EntryDone(c, "start-failed", {})
          /\ UNCHANGED durable
    /\ UNCHANGED <<owner, mu, late, restarted, docVars>>

-----------------------------------------------------------------------------
(* Stops: stopEntry of a group, Stop of a model, Stop of an instance       *)

Unfinished(c) == {k \in DOMAIN req[c].targets : req[c].targets[k] # {}}

\* MUTANT of Stopped: a later success overwrites an earlier failure.
StoppedLast(c, i, ok) ==
    Serve(c, [req[c] EXCEPT
        !.targets = [k \in DOMAIN @ |-> @[k] \ {i}], !.cur = No,
        !.failed = ~ok,
        !.pc = IF ~ok /\ req[c].kind \notin Group THEN "reply" ELSE "stop"])

\* The target at hand is dealt with.  A group records the failure and goes on;
\* a model or instance stop returns its first error.
Stopped(c, i, ok) ==
    Serve(c, [req[c] EXCEPT
        !.targets = [k \in DOMAIN @ |-> @[k] \ {i}], !.cur = No,
        !.failed = @ \/ ~ok,
        !.pc = IF ~ok /\ req[c].kind \notin Group THEN "reply" ELSE "stop"])

\* Supervisor.Stop of an instance without a process: nil when it is terminal;
\* an error when its controller is gone or its launch is still in flight.
StopAnswer(i) == state[i] \in Terminal

\* The next target, entries in reverse order: controllerFor, lifecycleMu and
\* stop.  A live one is signalled and its stopping state recorded.
StopTarget(c) ==
    /\ At(c, "stop") /\ Unfinished(c) # {}
    /\ \E i \in req[c].targets[Max(Unfinished(c))] :
         /\ mu[i] = No
         /\ IF state[i] \notin Live
            THEN /\ Stopped(c, i, StopAnswer(i)) /\ NoFault
                 /\ UNCHANGED <<state, durable, mu>>
            ELSE /\ state' = [state EXCEPT ![i] = "stopping"]
                 /\ \/ /\ durable[i] # "none" /\ NoFault
                       /\ durable' = [durable EXCEPT ![i] = "stopping"]
                       /\ mu' = [mu EXCEPT ![i] = c]
                       /\ Serve(c, [req[c] EXCEPT !.pc = "stopping", !.cur = i])
                    \/ /\ FaultUnless(durable[i] = "none")
                       /\ Stopped(c, i, FALSE)
                       /\ UNCHANGED <<durable, mu>>
    /\ UNCHANGED <<owner, op, late, restarted, docVars>>

\* stopCore waited for the run to be done and recorded the exit, or its wait
\* timed out, or the record could not be written.
StopReturns(c) ==
    LET i == req[c].cur IN
    /\ At(c, "stopping")
    /\ \/ /\ state[i] \in Terminal /\ i \notin late /\ durable[i] # "none"
          /\ durable' = [durable EXCEPT ![i] = state[i]]
          /\ Stopped(c, i, TRUE)
       \/ Stopped(c, i, FALSE) /\ UNCHANGED durable
    /\ mu' = [mu EXCEPT ![i] = No]
    /\ UNCHANGED <<state, owner, op, late, restarted, sysVars>>

\* MUTANT of StopsDone: the start phase collects failures of its own.
StopsDoneAfresh(c) ==
    /\ At(c, "stop") /\ Unfinished(c) = {}
    /\ IF req[c].kind = "restart"
       THEN Serve(c, [req[c] EXCEPT !.pc = "start", !.failed = FALSE])
       ELSE Answer(c, req[c].failed)
    /\ UNCHANGED <<supVars, sysVars>>

\* Every target was dealt with; the start phase of a restart runs always.
StopsDone(c) ==
    /\ At(c, "stop") /\ Unfinished(c) = {}
    /\ IF req[c].kind = "restart" THEN Goto(c, "start")
                                  ELSE Answer(c, req[c].failed)
    /\ UNCHANGED <<supVars, sysVars>>

-----------------------------------------------------------------------------
(* The model handlers: list, decide, act                                   *)

\* checkRestartTarget.
Restartable(i) == state[i] \in {"running", "stopping"} \cup Terminal /\ op[i] = "none"

\* What the handlers of /models/{id} decide from one ListInstances, and
\* autostartModels from the repository.
ModelDecides(c) ==
    LET m == Arg(c)
        inFlight == {i \in Instances : owner[i].model = m /\ state[i] \in InFlight} IN
    /\ At(c, "list") /\ req[c].kind \notin Group
    /\ CASE req[c].kind = "model-start" ->
              IF inFlight # {} THEN Answer(c, TRUE)
              ELSE Serve(c, [req[c] EXCEPT !.pc = "start", !.snap = Manual(m)])
         [] req[c].kind = "automodel" ->
              IF draining \/ \E i \in Instances : owner[i].model = m /\ durable[i] \in InFlight
              THEN Answer(c, FALSE)
              ELSE Serve(c, [req[c] EXCEPT !.pc = "start", !.snap = Manual(m)])
         [] req[c].kind = "model-stop" ->
              IF \E i \in inFlight : state[i] = "pending" THEN Answer(c, TRUE)
              ELSE Serve(c, [req[c] EXCEPT !.pc = "stop", !.targets = <<inFlight>>])
         [] req[c].kind = "model-restart" ->
              IF \A i \in inFlight : Restartable(i)
              THEN Serve(c, [req[c] EXCEPT !.pc = "radmit", !.targets = <<inFlight>>])
              ELSE Answer(c, TRUE)
    /\ UNCHANGED <<supVars, sysVars>>

-----------------------------------------------------------------------------
(* RestartInstance: resolve, arbitrate, stop or await, spawn               *)

\* The restart of i holds nothing any more.
Released(i) ==
    /\ mu' = [mu EXCEPT ![i] = No]
    /\ op' = [op EXCEPT ![i] = "none"]

\* A model restart goes on to its next target; the first error ends it.
RestartEnds(c, i, ok) ==
    Serve(c, [req[c] EXCEPT
        !.targets = [k \in DOMAIN @ |-> @[k] \ {i}], !.cur = No,
        !.failed = ~ok, !.pc = IF ok THEN "radmit" ELSE "reply"])

\* Status and GetPipeline: it is registered and its entry is still there.
Resolves(i) ==
    /\ state[i] # "gone"
    /\ owner[i].pipe # No => owner[i].entry \in Ids(pipes[owner[i].pipe])

\* RestartInstance before the supervisor: the configuration is read afresh.
RResolve(c) ==
    /\ At(c, "radmit") /\ Unfinished(c) # {}
    /\ \E i \in req[c].targets[1] :
         \/ /\ Resolves(i) /\ NoFault
            /\ Serve(c, [req[c] EXCEPT !.pc = "rarbitrate", !.cur = i])
         \/ /\ FaultUnless(~Resolves(i))
            /\ RestartEnds(c, i, FALSE)
    /\ UNCHANGED <<supVars, docVars>>

\* What a restart needs for its reservation, by now.
Admitted(i) == Restartable(i) /\ Refusals(owner[i], i) = {}

\* RestartWithLaunch: arbitration publishes the reservation, or refuses.
RAdmit(c) ==
    LET i == req[c].cur IN
    /\ At(c, "rarbitrate")
    /\ IF Admitted(i)
       THEN /\ op' = [op EXCEPT ![i] = "restart"]
            /\ restarted' = restarted \cup {i}
            /\ Goto(c, "rlock")
            /\ Overlaps(owner[i].pipe)
       ELSE /\ RestartEnds(c, i, FALSE)
            /\ UNCHANGED <<op, restarted, quiet>>
    /\ UNCHANGED <<state, owner, mu, late, durable, pipes, mutex, booted, made, draining, faults>>

\* Every target was restarted.
RestartsDone(c) ==
    /\ At(c, "radmit") /\ Unfinished(c) = {}
    /\ Answer(c, FALSE)
    /\ UNCHANGED <<supVars, sysVars>>

\* lifecycleMu, and the one load of the view that decides stop or await.
RLock(c) ==
    LET i == req[c].cur IN
    /\ At(c, "rlock") /\ mu[i] = No
    /\ mu' = [mu EXCEPT ![i] = c]
    /\ Goto(c, IF state[i] = "running" THEN "rstop" ELSE "rawait")
    /\ UNCHANGED <<state, owner, op, late, durable, restarted, sysVars>>

\* stop of the generation the view showed running: one that has exited
\* meanwhile is terminal, and nothing waits for its wait().
RStop(c) ==
    LET i == req[c].cur IN
    /\ At(c, "rstop")
    /\ IF state[i] \in Terminal
       THEN Goto(c, "rspawn") /\ NoFault /\ UNCHANGED <<state, durable, mu, op>>
       ELSE /\ state' = [state EXCEPT ![i] = "stopping"]
            /\ \/ /\ durable[i] # "none" /\ NoFault
                  /\ durable' = [durable EXCEPT ![i] = "stopping"]
                  /\ Goto(c, "rawait")
                  /\ UNCHANGED <<mu, op>>
               \/ /\ FaultUnless(durable[i] = "none")
                  /\ RestartEnds(c, i, FALSE) /\ Released(i)
                  /\ UNCHANGED durable
    /\ UNCHANGED <<owner, late, restarted, docVars>>

\* The previous run is done; or the wait, or the write after it, failed.
RAwait(c) ==
    LET i == req[c].cur IN
    /\ At(c, "rawait")
    /\ \/ /\ state[i] \in Terminal /\ i \notin late
          /\ Goto(c, "rspawn") /\ UNCHANGED <<mu, op>>
       \/ RestartEnds(c, i, FALSE) /\ Released(i)
    /\ UNCHANGED <<state, owner, late, durable, restarted, sysVars>>

\* startCore of the same instance: the next generation runs and is recorded;
\* or nothing does; or a residual process stays behind an error.
RSpawn(c) ==
    LET i == req[c].cur IN
    /\ At(c, "rspawn")
    /\ \/ /\ ~draining /\ durable[i] # "none" /\ NoFault
          /\ state' = [state EXCEPT ![i] = "running"]
          /\ durable' = [durable EXCEPT ![i] = "running"]
          /\ RestartEnds(c, i, TRUE)
       \/ /\ FaultUnless(draining \/ durable[i] = "none")
          /\ state' = [state EXCEPT ![i] = "failed"]
          /\ durable' \in {durable, [durable EXCEPT ![i] = IF @ = "none" THEN @ ELSE "failed"]}
          /\ RestartEnds(c, i, FALSE)
       \/ /\ ~draining /\ Fault
          /\ state' = [state EXCEPT ![i] = "starting"]
          /\ RestartEnds(c, i, FALSE)
          /\ UNCHANGED durable
    /\ Released(i)
    /\ UNCHANGED <<owner, late, restarted, docVars>>

-----------------------------------------------------------------------------
(* UpdatePipeline, DeletePipeline and CleanupInstances                     *)

\* sameEntrySequence: entry identifiers in order; models and args are free.
Structural(p, new) == IdSeq(pipes[p]) # IdSeq(new)

\* The checks of UpdatePipeline and DeletePipeline, without a lock.
EditCheck(c) ==
    LET p == Arg(c) new == req[c].new IN
    /\ At(c, "check")
    /\ IF \/ pipes[p] = <<>>
          \/ ~(Ids(new) \subseteq Ids(pipes[p]))
          \/ Structural(p, new) /\ ActiveOwned(p) # {}
       THEN Answer(c, TRUE) /\ UNCHANGED quiet
       ELSE /\ Goto(c, "write")
            /\ quiet' = IF mutex[p] = No /\ \A i \in Instances :
                            owner[i].pipe = p => op[i] = "none"
                        THEN quiet \cup {c} ELSE quiet
    /\ UNCHANGED <<supVars, pipes, mutex, booted, made, draining, faults>>

\* repo.UpdatePipeline or repo.DeletePipeline: the pipeline as it is by now is
\* replaced; it may have been deleted, and the write may fail.
EditWrite(c) ==
    LET p == Arg(c) IN
    /\ At(c, "write")
    /\ \/ /\ pipes[p] # <<>> /\ NoFault
          /\ pipes' = [pipes EXCEPT ![p] = req[c].new]
          /\ Answer(c, FALSE)
          /\ Overlaps(p)
       \/ /\ FaultUnless(pipes[p] = <<>>)
          /\ Answer(c, TRUE)
          /\ quiet' = quiet \ {c}
          /\ UNCHANGED pipes
    /\ UNCHANGED <<supVars, mutex, booted, made, draining>>

\* DeleteTerminalInstances: one write removes the terminal records, or fails.
Clean(c) ==
    /\ At(c, "clean")
    /\ \/ /\ NoFault
          /\ durable' = [i \in Instances |->
                           IF durable[i] \in Terminal THEN "none" ELSE durable[i]]
          /\ Goto(c, "forget")
       \/ Fault /\ Answer(c, TRUE) /\ UNCHANGED durable
    /\ UNCHANGED <<state, owner, op, mu, late, restarted, docVars>>

\* ForgetCleanedControllers: those with no record and nothing left to own.
Forget(c) ==
    /\ At(c, "forget")
    /\ state' = [i \in Instances |->
           IF /\ durable[i] = "none" /\ state[i] \in Terminal
              /\ op[i] = "none" /\ i \notin late
           THEN "gone" ELSE state[i]]
    /\ Answer(c, FALSE)
    /\ UNCHANGED <<owner, op, mu, late, durable, restarted, sysVars>>

-----------------------------------------------------------------------------
(* Processes and the shutdown latch                                        *)

\* A process exits, of itself or because it was signalled; wait() publishes.
Exit(i) ==
    /\ state[i] \in Live
    /\ state' = [state EXCEPT ![i] = "exited"]
    /\ late' = late \cup {i}
    /\ FaultUnless(state[i] = "stopping")
    /\ UNCHANGED <<owner, op, mu, durable, restarted, req, docVars>>

\* wait() persists the entry it captured, or gives its retries up.
WaitPersists(i) ==
    /\ i \in late
    /\ late' = late \ {i}
    /\ \/ /\ durable[i] # "none" /\ NoFault
          /\ durable' = [durable EXCEPT ![i] = "exited"]
       \/ FaultUnless(durable[i] = "none") /\ UNCHANGED durable
    /\ UNCHANGED <<state, owner, op, mu, restarted, req, docVars>>

\* The drain of the shutdown begins: nothing is admitted any more.
Drain ==
    /\ ~draining /\ Fault
    /\ draining' = TRUE
    /\ UNCHANGED <<supVars, req, pipes, mutex, booted, made, quiet>>

Step(c) ==
    \/ Reply(c) \/ Lock(c) \/ GroupTargets(c)
    \/ Admit(c) \/ Record(c) \/ Spawn(c)
    \/ StopTarget(c) \/ StopReturns(c) \/ StopsDone(c)
    \/ ModelDecides(c)
    \/ RResolve(c) \/ RAdmit(c) \/ RestartsDone(c) \/ RLock(c) \/ RStop(c) \/ RAwait(c) \/ RSpawn(c)
    \/ EditCheck(c) \/ EditWrite(c) \/ Clean(c) \/ Forget(c)

Next ==
    \/ \E c \in All : Step(c)
    \/ \E c \in Requests : Begin(c)
    \/ BootNext
    \/ \E i \in Instances : Exit(i) \/ WaitPersists(i)
    \/ Drain

Busy == {c \in All : ~At(c, "idle")}

\* The scheduler runs some goroutine that can run; no process need exit.
Fairness == WF_vars(\E c \in Busy : Step(c))

Spec == Init /\ [][Next]_vars /\ Fairness

-----------------------------------------------------------------------------
(* Properties                                                              *)

\* A group Stop answered without an error left nothing in flight of the
\* entries it listed, whatever failed or timed out before it: not a residual
\* of a failed launch, not a stop that gave up.  Instances somebody restarted
\* one by one are excepted: the restart may take effect after the stop.
StopMeansStopped ==
    \A c \in All :
        At(c, "reply") /\ req[c].kind = "stop" /\ ~req[c].failed =>
            \A i \in Instances \ restarted :
                owner[i].pipe = Arg(c) /\ owner[i].entry \in Ids(req[c].snap)
                    => state[i] \notin InFlight

\* A group Restart answered without an error found none of its own old
\* instances in the way of its start phase: it never reports as restarted
\* what still runs the old configuration.
RestartReplaces ==
    \A c \in All :
        At(c, "reply") /\ req[c].kind = "restart" /\ ~req[c].failed =>
            \A i \in req[c].blockers \ restarted : owner[i].pipe # Arg(c)

\* A structural edit that no lifecycle request and no other edit overlapped
\* strands no process: what the repository said at the check covers what runs
\* at the write.
EditStrandsNothing ==
    \A c \in quiet : \A i \in Instances \ restarted :
        owner[i].pipe = Arg(c) /\ state[i] \in InFlight
            => \/ owner[i].entry \in Ids(req[c].new)
               \/ IdSeq(req[c].new) = IdSeq(pipes[Arg(c)])

\* Whatever is in service ends, with every lock given back: a group request
\* waits for a lifecycleMu under its mutex, a restart for a run under a
\* lifecycleMu, and neither waits for the other in a circle.
RequestsReturn ==
    Busy # {} ~> Busy = {}

=============================================================================
