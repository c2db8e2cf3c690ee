------------------------------ MODULE ImportPlan ------------------------------
(***************************************************************************)
(* PlanGraphImport and the application of its plan in ImportGraph, as      *)
(* operators over a catalogue and a bundle.                                *)
(*                                                                         *)
(* A catalogue (a bundle) maps the identifiers of the entities it holds to *)
(* records:                                                                *)
(*    runtimes    [name, body (, env)]                                     *)
(*    models      [runtime, body (, env)]                                  *)
(*    pipelines   [body, entries]   entries: a sequence of [id, model]     *)
(* `body` is the rest of the restorable projection, `env` what restore     *)
(* never touches; only a catalogue has it.  Names and models of bundles    *)
(* are unique by construction, order plays no part.                        *)
(***************************************************************************)
EXTENDS Naturals, FiniteSets, Sequences

CONSTANTS
    Names,   \* names of runtimes
    Lower,   \* strings.ToLower on them
    NoEnv    \* the environment of an entity an import creates

ASSUME PlanAssumption == Lower \in [Names -> Names]

Blocked == {"name_taken", "dependency_blocked", "ref_unresolved", "entries_empty"}

\* What validateBundle lets through: references closed over the bundle, names
\* of runtimes and entries of a pipeline unique.
ValidBundle(b) ==
    /\ \A m \in DOMAIN b.models : b.models[m].runtime \in DOMAIN b.runtimes
    /\ \A p \in DOMAIN b.pipelines :
         LET es == b.pipelines[p].entries
         IN  /\ \A i \in DOMAIN es : es[i].model \in DOMAIN b.models
             /\ \A i, j \in DOMAIN es : es[i].id = es[j].id => i = j
    /\ \A r, s \in DOMAIN b.runtimes :
         Lower[b.runtimes[r].name] = Lower[b.runtimes[s].name] => r = s

-----------------------------------------------------------------------------
\* Restorable projections (import_projection.go): entry IDs are no part of them.
RuntimeEqual(x, local)  == x.name = local.name /\ x.body = local.body
ModelEqual(x, local)    == x.runtime = local.runtime /\ x.body = local.body
PipelineEqual(x, local) ==
    /\ x.body = local.body
    /\ DOMAIN x.entries = DOMAIN local.entries
    /\ \A i \in DOMAIN x.entries : x.entries[i].model = local.entries[i].model

-----------------------------------------------------------------------------
\* A runtime writes unless the catalogue already holds it as it is.
WritesRuntime(c, b, r) ==
    r \in DOMAIN c.runtimes => ~RuntimeEqual(b.runtimes[r], c.runtimes[r])

\* MUTANT of Claimants: names are compared as they are written.
ClaimantsExact(c, b, name) ==
    {r \in DOMAIN c.runtimes : c.runtimes[r].name = name} \cup
    {r \in DOMAIN b.runtimes : WritesRuntime(c, b, r) /\ b.runtimes[r].name = name}

\* Who claims a name: its current holders, and the entries that would write it.
Claimants(c, b, name) ==
    {r \in DOMAIN c.runtimes : Lower[c.runtimes[r].name] = Lower[name]} \cup
    {r \in DOMAIN b.runtimes : WritesRuntime(c, b, r) /\ Lower[b.runtimes[r].name] = Lower[name]}

RuntimeVerdict(c, b, r) ==
    IF ~WritesRuntime(c, b, r) THEN "unchanged"
    ELSE IF \E s \in Claimants(c, b, b.runtimes[r].name) : s # r THEN "name_taken"
    ELSE IF r \in DOMAIN c.runtimes THEN "update" ELSE "new"

\* A reference resolves through what is stored or is being created.
RuntimeResolves(c, b, r) ==
    \/ r \in DOMAIN c.runtimes
    \/ r \in DOMAIN b.runtimes /\ RuntimeVerdict(c, b, r) = "new"

ModelVerdict(c, b, m) ==
    LET ref == b.models[m].runtime
    IN  IF m \in DOMAIN c.models /\ ModelEqual(b.models[m], c.models[m]) THEN "unchanged"
        ELSE IF RuntimeResolves(c, b, ref)
             THEN IF m \in DOMAIN c.models THEN "update" ELSE "new"
        ELSE IF ref \in DOMAIN b.runtimes /\ RuntimeVerdict(c, b, ref) \in Blocked
             THEN "dependency_blocked"
        ELSE "ref_unresolved"

ModelResolves(c, b, m) ==
    \/ m \in DOMAIN c.models
    \/ m \in DOMAIN b.models /\ ModelVerdict(c, b, m) = "new"

\* The first entry that does not resolve gives the reason.
PipelineVerdict(c, b, p) ==
    LET es  == b.pipelines[p].entries
        bad == {i \in DOMAIN es : ~ModelResolves(c, b, es[i].model)}
    IN  IF p \in DOMAIN c.pipelines /\ PipelineEqual(b.pipelines[p], c.pipelines[p])
        THEN "unchanged"
        ELSE IF es = <<>> THEN "entries_empty"
        ELSE IF bad = {} THEN IF p \in DOMAIN c.pipelines THEN "update" ELSE "new"
        ELSE LET first == es[CHOOSE i \in bad : \A j \in bad : i <= j].model
             IN  IF first \in DOMAIN b.models /\ ModelVerdict(c, b, first) \in Blocked
                 THEN "dependency_blocked" ELSE "ref_unresolved"

Plan(c, b) ==
    [runtimes  |-> [r \in DOMAIN b.runtimes |-> RuntimeVerdict(c, b, r)],
     models    |-> [m \in DOMAIN b.models |-> ModelVerdict(c, b, m)],
     pipelines |-> [p \in DOMAIN b.pipelines |-> PipelineVerdict(c, b, p)]]

Verdicts(plan) ==
    {plan.runtimes[r] : r \in DOMAIN plan.runtimes} \cup
    {plan.models[m] : m \in DOMAIN plan.models} \cup
    {plan.pipelines[p] : p \in DOMAIN plan.pipelines}

HasBlocked(plan) == Verdicts(plan) \cap Blocked # {}
WillMutate(plan) == Verdicts(plan) \cap {"new", "update"} # {}

\* The single enablement predicate a dry run reports.
CanImport(plan) == WillMutate(plan) /\ ~HasBlocked(plan)

-----------------------------------------------------------------------------
\* MUTANT of KeptEnv: the bundle's record is stored as it came.
KeptEnvDropped(stored, id) == NoEnv

\* The environment a restored record keeps, a created one starts without.
KeptEnv(stored, id) == IF id \in DOMAIN stored THEN stored[id].env ELSE NoEnv

\* The bundle's records over the stored ones, where the plan writes.
Overlay(stored, restored, verdicts) ==
    [id \in DOMAIN stored \cup {x \in DOMAIN verdicts : verdicts[x] = "new"} |->
        IF id \in DOMAIN verdicts /\ verdicts[id] \in {"new", "update"}
        THEN restored[id] ELSE stored[id]]

RestoredRuntimes(c, b) ==
    [r \in DOMAIN b.runtimes |->
        [name |-> b.runtimes[r].name, body |-> b.runtimes[r].body,
         env |-> KeptEnv(c.runtimes, r)]]

RestoredModels(c, b) ==
    [m \in DOMAIN b.models |->
        [runtime |-> b.models[m].runtime, body |-> b.models[m].body,
         env |-> KeptEnv(c.models, m)]]

\* The catalogue the plan composes, before anything is changed.
Applied(c, b) ==
    LET plan == Plan(c, b)
    IN  [runtimes  |-> Overlay(c.runtimes, RestoredRuntimes(c, b), plan.runtimes),
         models    |-> Overlay(c.models, RestoredModels(c, b), plan.models),
         pipelines |-> Overlay(c.pipelines, b.pipelines, plan.pipelines)]

\* Different runtimes under one name.
NameClashes(c) ==
    {r \in DOMAIN c.runtimes :
        \E s \in DOMAIN c.runtimes \ {r} :
            Lower[c.runtimes[r].name] = Lower[c.runtimes[s].name]}

\* References to what is not there.
Dangling(c) ==
    {<<m, c.models[m].runtime>> : m \in {x \in DOMAIN c.models : c.models[x].runtime \notin DOMAIN c.runtimes}}
    \cup UNION {{<<p, c.pipelines[p].entries[i].model>> :
                    i \in {j \in DOMAIN c.pipelines[p].entries :
                              c.pipelines[p].entries[j].model \notin DOMAIN c.models}} :
                p \in DOMAIN c.pipelines}
=============================================================================
