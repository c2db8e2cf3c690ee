------------------------------ MODULE Catalogue ------------------------------
(***************************************************************************)
(* The repository of runtimes, models and pipelines and the services over  *)
(* it: requests that check without the lock and then mutate under it, the  *)
(* import of a bundle, and the boot that migrates older data and seeds     *)
(* from the configuration.  Every mutation is saved by DurableFile, system *)
(* call by system call, and may fail or be cut off there.                  *)
(*                                                                         *)
(* A document maps identifiers to records, as in ImportPlan.  `body` is    *)
(* what no rule looks at (arguments, paths, flags).                        *)
(***************************************************************************)
EXTENDS DurableFile, ImportPlan, Migration, SequencesExt

CONSTANTS
    RuntimeIds, ModelIds, PipelineIds,
    PhysicalIds, \* model files, as older schemas name them
    Args,        \* what a command line is made of
    Bodies,      \* the rest of a runtime or a pipeline
    Envs,        \* environments
    Clients,     \* HTTP requests, one mutation each
    Requests,    \* what a request may ask for: records with a field `kind`
    OldStores,   \* profiles.json, runtimes.json and models.json, and
    ConfigSeed   \* goal.json: legacy data as in Migration

-----------------------------------------------------------------------------
(* What the repository holds, and what reaches it.                           *)

ModelBodies == [active : BOOLEAN, args : Seq(Args)]
EntryIds    == PipelineIds \X Nat

RuntimeEntries       == [name : Names, body : Bodies, env : Envs]
ModelEntries         == [runtime : RuntimeIds, body : ModelBodies, env : Envs]
PipelineEntries(ids) == [body : Bodies, entries : Seq([id : ids, model : ModelIds])]

\* The entry is unique in its pipeline, not its model.
DistinctIds(es) == \A i, j \in DOMAIN es : es[i].id = es[j].id => i = j \/ es[i].id = NoId

\* In memory every entry has an identity.
CataloguePipelines == {p \in PipelineEntries(EntryIds) : DistinctIds(p.entries)}

\* Identifiers with their records.
Table(f, ids, records) == DOMAIN f \subseteq ids /\ f \in [DOMAIN f -> records]

Tables(d, runtimes, models, pipelines) ==
    /\ Table(d.runtimes, RuntimeIds, runtimes)
    /\ Table(d.models, ModelIds, models)
    /\ Table(d.pipelines, PipelineIds, pipelines)
    /\ d \in [runtimes : {d.runtimes}, models : {d.models}, pipelines : {d.pipelines}]

IsCatalogue(d) == Tables(d, RuntimeEntries, ModelEntries, CataloguePipelines)

\* The set of them.
Catalogues ==
    [runtimes  : UNION {[S -> RuntimeEntries] : S \in SUBSET RuntimeIds},
     models    : UNION {[S -> ModelEntries] : S \in SUBSET ModelIds},
     pipelines : UNION {[S -> CataloguePipelines] : S \in SUBSET PipelineIds}]

IsBundle(b) ==
    Tables(b, [name : Names, body : Bodies], [runtime : RuntimeIds, body : ModelBodies],
           PipelineEntries(EntryIds))

IsLegacy(old) ==
    /\ Table(old.runtimes, RuntimeIds, [name : Names, args : Seq(Args), env : Envs])
    /\ Table(old.physical, PhysicalIds, [file : Seq(Args), args : Seq(Args)])
    /\ Table(old.profiles, ModelIds,
             [runtime : RuntimeIds, model : PhysicalIds, args : Seq(Args),
              host : Args \cup {NoHost}, env : Envs, active : BOOLEAN])

\* What load() migrates: schemas 5 and 6, and pipelines saved when entries had no
\* identity yet.
IsOlder(f) ==
    \/ f.version \in {5, 6} /\ IsLegacy(f)
    \/ /\ f.version \in Nat /\ f.version > 6
       /\ Table(f.runtimes, RuntimeIds, RuntimeEntries)
       /\ Table(f.models, ModelIds, ModelEntries)
       /\ Table(f.pipelines, PipelineIds, PipelineEntries({NoId}) \cup CataloguePipelines)

\* The bodies of the mutating requests, once decoded.
IsRequest(q) ==
    \/ q \in [kind : {"createRuntime"}, id : RuntimeIds, rec : RuntimeEntries]
    \/ q \in [kind : {"patchRuntime"}, id : RuntimeIds, name : Names]
    \/ q \in [kind : {"deleteRuntime", "cascadeRuntime"}, id : RuntimeIds]
    \/ q \in [kind : {"replaceRuntime"}, id : RuntimeIds, new : RuntimeIds]
    \/ q \in [kind : {"createModel"}, id : ModelIds, rec : ModelEntries]
    \/ q \in [kind : {"patchModel"}, id : ModelIds, runtime : RuntimeIds]
    \/ q \in [kind : {"patchModelEnv"}, id : ModelIds, env : Envs]
    \/ q \in [kind : {"activateModel"}, id : ModelIds, active : BOOLEAN]
    \/ q \in [kind : {"deleteModel"}, id : ModelIds]
    \/ q \in [kind : {"createPipeline"}, id : PipelineIds, rec : PipelineEntries({NoId})]
    \/ q \in [kind : {"updatePipeline"}, id : PipelineIds, rec : PipelineEntries(EntryIds \cup {NoId})]
    \/ q \in [kind : {"deletePipeline"}, id : PipelineIds]
    \/ q \in [kind : {"import"}, bundle : {q.bundle}] /\ IsBundle(q.bundle)

ASSUME CatalogueAssumption ==
    /\ HostFlag \in Args
    /\ NoEnv \in Envs
    /\ <<>> \in Bodies
    /\ NoId \notin EntryIds
    /\ Missing \notin RuntimeIds
    /\ \A q \in Requests : IsRequest(q)
    /\ \A old \in {OldStores, ConfigSeed} :
         IsLegacy(old) /\ IsFiniteSet(DOMAIN old.runtimes) /\ IsFiniteSet(DOMAIN old.profiles)
    /\ IsCatalogue(EmptyDoc)
    /\ \A f \in DOMAIN Upgrade : IsOlder(f) /\ Upgrade[f] = Loaded(f)
    /\ \A c \in Initial \ (DOMAIN Upgrade \cup {Missing}) : IsCatalogue(c)
    /\ (DOMAIN Upgrade \cup {Missing, Torn}) \cap Catalogues = {}

VARIABLES
    req,      \* per client: its phase, its request and what its check read
    todo      \* what the boot has still to migrate and seed, in its order

catVars == <<fileVars, req, todo>>

NoRequest == [kind |-> "none"]
InPhase(p) == [phase |-> p, ask |-> NoRequest, seen |-> Missing]
Phases     == {"ready", "checked", "saving", "ended"}

Put(f, id, rec) == [x \in DOMAIN f \cup {id} |-> IF x = id THEN rec ELSE f[x]]
Drop(f, ids)    == [x \in DOMAIN f \ ids |-> f[x]]

-----------------------------------------------------------------------------
(* The mutations of JSONRepository: the document they leave, or Missing when *)
(* they return an error without a save.                                      *)

\* MUTANT of CreateRuntime: what exists is replaced.
CreateRuntimeOver(d, q) == [d EXCEPT !.runtimes = Put(@, q.id, q.rec)]

CreateRuntime(d, q) ==
    IF q.id \in DOMAIN d.runtimes THEN Missing
    ELSE [d EXCEPT !.runtimes = Put(@, q.id, q.rec)]

\* The patch carries the fields it changes; the environment stays unless patched.
PatchRuntime(d, q) ==
    IF q.id \notin DOMAIN d.runtimes THEN Missing
    ELSE [d EXCEPT !.runtimes[q.id].name = q.name]

DeleteRuntime(d, q) ==
    IF q.id \notin DOMAIN d.runtimes THEN Missing
    ELSE [d EXCEPT !.runtimes = Drop(@, {q.id})]

Users(d, r) == {m \in DOMAIN d.models : d.models[m].runtime = r}

ReplaceRuntimeAndDelete(d, q) ==
    IF {q.id, q.new} \subseteq DOMAIN d.runtimes
    THEN [d EXCEPT !.models   = [m \in DOMAIN @ |->
                                   IF m \in Users(d, q.id) THEN [@[m] EXCEPT !.runtime = q.new] ELSE @[m]],
                   !.runtimes = Drop(@, {q.id})]
    ELSE Missing

CascadeDeleteRuntimeAndModels(d, q) ==
    IF q.id \notin DOMAIN d.runtimes THEN Missing
    ELSE [d EXCEPT !.models = Drop(@, Users(d, q.id)), !.runtimes = Drop(@, {q.id})]

CreateModel(d, q) ==
    IF q.id \in DOMAIN d.models THEN Missing
    ELSE [d EXCEPT !.models = Put(@, q.id, q.rec)]

\* PatchModel with a new runtime, PatchModel with an environment_patch.
PatchModel(d, q) ==
    IF q.id \notin DOMAIN d.models THEN Missing
    ELSE [d EXCEPT !.models[q.id].runtime = q.runtime]

PatchModelEnv(d, q) ==
    IF q.id \notin DOMAIN d.models THEN Missing
    ELSE [d EXCEPT !.models[q.id].env = q.env]

\* UpdateModel writes the whole record its caller read before.
UpdateModel(d, q, seen) ==
    IF q.id \notin DOMAIN d.models THEN Missing
    ELSE [d EXCEPT !.models[q.id] = [seen.models[q.id] EXCEPT !.body.active = q.active]]

DeleteModel(d, q) ==
    IF q.id \notin DOMAIN d.models THEN Missing
    ELSE [d EXCEPT !.models = Drop(@, {q.id})]

\* New entries get identities that neither the pipeline nor the request uses.
UsedIds(d, q) ==
    LET stored == IF q.id \in DOMAIN d.pipelines THEN d.pipelines[q.id].entries ELSE <<>>
        used   == {e \in Range(stored) \cup Range(q.rec.entries) : e.id # NoId}
    IN  Max({0} \cup {e.id[2] : e \in used})

\* MUTANT of WithEntryIds: nothing is allocated.
WithClientIds(d, q) == q.rec

WithEntryIds(d, q) ==
    [q.rec EXCEPT !.entries = Identified(q.id, @, UsedIds(d, q))]

\* Identities a client sends with a new pipeline are dropped.
CreatePipeline(d, q) ==
    IF q.id \in DOMAIN d.pipelines THEN Missing
    ELSE [d EXCEPT !.pipelines = Put(@, q.id, WithEntryIds(d, q))]

UpdatePipeline(d, q) ==
    IF q.id \notin DOMAIN d.pipelines THEN Missing
    ELSE [d EXCEPT !.pipelines[q.id] = WithEntryIds(d, q)]

DeletePipeline(d, q) ==
    IF q.id \notin DOMAIN d.pipelines THEN Missing
    ELSE [d EXCEPT !.pipelines = Drop(@, {q.id})]

\* Planned and applied under one lock; the name check before the write is meant
\* to find nothing the planner missed.
ImportGraph(d, b) ==
    LET plan == Plan(d, b)
    IN  IF HasBlocked(plan) THEN Missing
        ELSE IF ~WillMutate(plan) THEN d
        ELSE IF NameClashes(Applied(d, b)) # {} THEN Missing
        ELSE Applied(d, b)

Mutated(d, q, seen) ==
    CASE q.kind = "createRuntime"  -> CreateRuntime(d, q)
      [] q.kind = "patchRuntime"   -> PatchRuntime(d, q)
      [] q.kind = "deleteRuntime"  -> DeleteRuntime(d, q)
      [] q.kind = "replaceRuntime" -> ReplaceRuntimeAndDelete(d, q)
      [] q.kind = "cascadeRuntime" -> CascadeDeleteRuntimeAndModels(d, q)
      [] q.kind = "createModel"    -> CreateModel(d, q)
      [] q.kind = "patchModel"     -> PatchModel(d, q)
      [] q.kind = "patchModelEnv"  -> PatchModelEnv(d, q)
      [] q.kind = "activateModel"  -> UpdateModel(d, q, seen)
      [] q.kind = "deleteModel"    -> DeleteModel(d, q)
      [] q.kind = "createPipeline" -> CreatePipeline(d, q)
      [] q.kind = "updatePipeline" -> UpdatePipeline(d, q)
      [] q.kind = "deletePipeline" -> DeletePipeline(d, q)
      [] q.kind = "import"         -> ImportGraph(d, q.bundle)
      [] q.kind = "saveUnified"    -> d

-----------------------------------------------------------------------------
(* What the services check before, under a read lock that they release.      *)

\* MUTANT of NameExists: names are compared as they are written.
NameExistsExact(d, name, exclude) ==
    \E r \in DOMAIN d.runtimes \ {exclude} : d.runtimes[r].name = name

NameExists(d, name, exclude) ==
    \E r \in DOMAIN d.runtimes \ {exclude} : Lower[d.runtimes[r].name] = Lower[name]

ValidatePipelineEntry(d, rec) ==
    /\ rec.entries # <<>>
    /\ DistinctIds(rec.entries)
    /\ \A e \in Range(rec.entries) : e.model \in DOMAIN d.models

\* An entry with an identity must be an entry the pipeline has.
EntriesKnown(d, q) ==
    \A e \in Range(q.rec.entries) :
        e.id = NoId \/ \E f \in Range(d.pipelines[q.id].entries) : e.id = f.id

MayPatchRuntime(d, q) ==
    /\ q.id \in DOMAIN d.runtimes
    /\ q.name = d.runtimes[q.id].name \/ ~NameExists(d, q.name, q.id)

MayDeleteRuntime(d, q)  == Users(d, q.id) = {}
MayReplaceRuntime(d, q) == {q.id, q.new} \subseteq DOMAIN d.runtimes
MayCascadeDelete(d, q)  == q.id \in DOMAIN d.runtimes

\* The model whose record the Activate and Deactivate handlers read and change.
MayActivate(d, q) == q.id \in DOMAIN d.models

\* ListPipelinesReferencingModel.
Referencing(d, m) ==
    {p \in DOMAIN d.pipelines : \E e \in Range(d.pipelines[p].entries) : e.model = m}

MayDeleteModel(d, q) == Referencing(d, q.id) = {}

MayUpdatePipeline(d, q) ==
    /\ q.id \in DOMAIN d.pipelines
    /\ ValidatePipelineEntry(d, q.rec)
    /\ EntriesKnown(d, q)

MayDeletePipeline(d, q) == q.id \in DOMAIN d.pipelines

Accepted(d, q) ==
    CASE q.kind = "createRuntime"  -> ~NameExists(d, q.rec.name, Missing)
      [] q.kind = "patchRuntime"   -> MayPatchRuntime(d, q)
      [] q.kind = "deleteRuntime"  -> MayDeleteRuntime(d, q)
      [] q.kind = "replaceRuntime" -> MayReplaceRuntime(d, q)
      [] q.kind = "cascadeRuntime" -> MayCascadeDelete(d, q)
      [] q.kind = "activateModel"  -> MayActivate(d, q)
      [] q.kind = "deleteModel"    -> MayDeleteModel(d, q)
      [] q.kind = "createPipeline" -> ValidatePipelineEntry(d, q.rec)
      [] q.kind = "updatePipeline" -> MayUpdatePipeline(d, q)
      [] q.kind = "deletePipeline" -> MayDeletePipeline(d, q)
      [] q.kind = "import"         -> ValidBundle(q.bundle)
      [] OTHER                     -> TRUE

-----------------------------------------------------------------------------
(* The boot: NewJSONRepository, MigrateFromOldStores when both of its files  *)
(* exist, SeedFromConfig; only then does anything else use the repository.   *)

Tasks(stage, kind, records) ==
    [i \in 1..Cardinality(DOMAIN records) |->
        LET id == SetToSeq(DOMAIN records)[i]
        IN  [stage |-> stage, ask |-> [kind |-> kind, id |-> id, rec |-> records[id]]]]

BootTasks ==
    (IF DOMAIN OldStores.runtimes \cup DOMAIN OldStores.profiles = {} THEN <<>>
     ELSE Tasks("old", "createRuntime", LegacyRuntimes(OldStores))
          \o Tasks("old", "createModel", OldStoreModels(OldStores))
          \o <<[stage |-> "old", ask |-> [kind |-> "saveUnified"]]>>)
    \o Tasks("config", "createRuntime", LegacyRuntimes(ConfigSeed))
    \o Tasks("config", "createModel", SeededModels(ConfigSeed))

\* What is left to seed when MigrateFromOldStores has returned.
Remaining(tasks) ==
    SubSeq(tasks, Cardinality({k \in DOMAIN tasks : tasks[k].stage = "old"}) + 1, Len(tasks))

Serving == running /\ todo = <<>>

TypeOK ==
    /\ FileTypeOK
    /\ running => IsCatalogue(mem)
    /\ ~Unlocked => IsCatalogue(save.prev)
    /\ \A f \in {file.main, file.bak, stable.main, stable.bak} : Document(f) => IsCatalogue(f)
    /\ \A c \in Clients :
         /\ req[c].phase \in Phases
         /\ req[c].ask \in Requests \cup {NoRequest}
         /\ req[c].seen = Missing \/ IsCatalogue(req[c].seen)
    /\ Cardinality({c \in Clients : req[c].phase = "saving"}) <= (IF Unlocked THEN 0 ELSE 1)
    /\ \E i \in 0..Len(BootTasks) :
         todo = SubSeq(BootTasks, i + 1, Len(BootTasks))

Init ==
    /\ FileInit
    /\ req = [c \in Clients |-> InPhase("ready")]
    /\ todo = <<>>

\* The handler and the service: validation and the checks, then no lock held.
Check(c) ==
    /\ Serving
    /\ Unlocked
    /\ req[c].phase = "ready"
    /\ \E q \in Requests :
         req' = [req EXCEPT ![c] = IF Accepted(mem, q)
                                   THEN [phase |-> "checked", ask |-> q, seen |-> mem]
                                   ELSE InPhase("ended")]
    /\ UNCHANGED <<fileVars, todo>>

\* The repository method: it holds the lock until its save has ended.
Act(c) ==
    /\ Unlocked
    /\ req[c].phase = "checked"
    /\ LET doc == Mutated(mem, req[c].ask, req[c].seen)
       IN  \/ /\ doc = Missing \/ (doc = mem /\ req[c].ask.kind = "import")
              /\ req' = [req EXCEPT ![c] = InPhase("ended")]
              /\ UNCHANGED fileVars
           \/ /\ doc # Missing
              /\ ~(doc = mem /\ req[c].ask.kind = "import")
              /\ Begin(doc)
              /\ req' = [req EXCEPT ![c].phase = "saving"]
    /\ UNCHANGED todo

\* What exists is skipped, without a save.
BootStep ==
    /\ running
    /\ Unlocked
    /\ todo # <<>>
    /\ LET doc == Mutated(mem, Head(todo).ask, mem)
       IN  \/ doc = Missing /\ todo' = Tail(todo) /\ UNCHANGED fileVars
           \/ doc # Missing /\ Begin(doc) /\ UNCHANGED todo
    /\ UNCHANGED req

\* The answer, which nothing depends on, goes to the client whose save it was.
Answered ==
    req' = [c \in Clients |-> IF req[c].phase = "saving" THEN InPhase("ended") ELSE req[c]]

Saving ==
    /\ WriteTemp \/ Backup \/ SyncBackup \/ Rename
    /\ UNCHANGED <<req, todo>>

Saved ==
    /\ SyncDir
    /\ Answered
    /\ todo' = IF todo = <<>> \/ save.opening THEN todo ELSE Tail(todo)

\* An error ends the migration of the old stores, and skips one seeded entity.
Failed ==
    /\ SaveFails
    /\ Answered
    /\ todo' = IF todo = <<>> \/ save.opening THEN <<>>
               ELSE IF Head(todo).stage = "old"
                    THEN Remaining(todo) ELSE Tail(todo)

\* The requests of a process that is gone are never answered.
Down ==
    /\ Exit \/ Crash
    /\ req' = [c \in Clients |-> IF req[c].phase \in {"checked", "saving"}
                                 THEN InPhase("ended") ELSE req[c]]
    /\ todo' = <<>>

Boot ==
    /\ Open
    /\ todo' = BootTasks
    /\ UNCHANGED req

Next ==
    \/ \E c \in Clients : Check(c) \/ Act(c)
    \/ BootStep \/ Saving \/ Saved \/ Failed \/ Down \/ Boot
    \/ Damage /\ UNCHANGED <<req, todo>>

Spec == Init /\ [][Next]_catVars

-----------------------------------------------------------------------------
Clean(d) == NameClashes(d) = {}

(* What check and mutation promise together when no other write comes between
   them: no second runtime under a name (nameExists, runtime_service.go:88), no
   model left without its runtime by deleting or replacing it, no pipeline with
   an unknown model by editing it or deleting the model.  An import plans under
   the lock that it writes under, so for it nothing has to be excluded
   (repository.go:1113).  A runtime replaced by itself is deleted under its
   models: nothing compares the two identifiers. *)
Sound(q, d, e) ==
    /\ NameClashes(e) \subseteq NameClashes(d)
    /\ \/ q.kind \in {"patchRuntime", "deleteRuntime", "deleteModel",
                      "createPipeline", "updatePipeline", "import"}
       \/ q.kind = "replaceRuntime" /\ q.id # q.new
         => Dangling(e) \subseteq Dangling(d)

ChecksHold ==
    [][\A c \in Clients :
         /\ req[c].phase = "checked" /\ req'[c].phase = "saving"
         /\ req[c].seen = mem \/ req[c].ask.kind = "import"
         => Sound(req[c].ask, mem, mem')]_catVars

(* An import restores what the bundle describes and nothing else, from every
   catalogue a crash, a race or a seed can have left: no reference is newly
   dangling, secrets of restored entities and entities outside the bundle stay,
   and importing the same bundle again finds everything unchanged
   (import_plan.go PlanGraphImport, repository.go:1113-1237). *)
RestoresExactly(d, b) ==
    LET e == ImportGraph(d, b)
    IN  e # Missing =>
        /\ Dangling(e) \subseteq Dangling(d)
        /\ Verdicts(Plan(e, b)) \subseteq {"unchanged"}
        /\ \A f \in {"runtimes", "models"} : \A id \in DOMAIN d[f] :
             e[f][id].env = d[f][id].env /\ (id \notin DOMAIN b[f] => e[f][id] = d[f][id])
        /\ \A p \in DOMAIN d.pipelines \ DOMAIN b.pipelines : e.pipelines[p] = d.pipelines[p]

Bundles == {q.bundle : q \in {r \in Requests : r.kind = "import"}}

ImportRestores ==
    running /\ Unlocked => \A b \in Bundles : ValidBundle(b) => RestoresExactly(mem, b)

(* The check for duplicate names before the write is defence in depth: from a
   catalogue without duplicates a plan that is not blocked never reaches it
   (repository.go:1188-1197), so a dry run that reports can_import is right. *)
PlannerComplete ==
    running /\ Unlocked /\ Clean(mem) =>
        \A b \in Bundles : CanImport(Plan(mem, b)) => Clean(Applied(mem, b))

(* Booting never changes what the repository holds: migration and seeding only
   add, through every failed save and every boot cut short
   (migrate.go MigrateFromOldStores, config_seed.go SeedFromConfig). *)
BootOnlyAdds ==
    [][todo # <<>> /\ running /\ running' =>
         /\ \A r \in DOMAIN Value.runtimes :
              r \in DOMAIN Value'.runtimes /\ Value'.runtimes[r] = Value.runtimes[r]
         /\ \A m \in DOMAIN Value.models :
              m \in DOMAIN Value'.models /\ Value'.models[m] = Value.models[m]
         /\ Value'.pipelines = Value.pipelines]_catVars
=============================================================================
