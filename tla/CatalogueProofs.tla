---------------------------- MODULE CatalogueProofs ----------------------------
(***************************************************************************)
(* What an import does to any catalogue, for any bundle: the planner never *)
(* needs the check behind it, and a restore is exact.  Then the repository *)
(* as a whole, for any requests, older files and seeds: every mutation and *)
(* every migration leaves a well-formed catalogue, checks hold, boots only *)
(* add, and every step is one of the durable file.                         *)
(***************************************************************************)
EXTENDS Catalogue, DurableFileProofs, FiniteSetTheorems, SequenceTheorems,
        WellFoundedInduction, TLAPS

Written(v) == v \in {"new", "update"}

\* Nothing in an unblocked plan is blocked.
LEMMA Unblocked ==
    ASSUME NEW c, NEW b, ~HasBlocked(Plan(c, b))
    PROVE  /\ \A r \in DOMAIN b.runtimes : RuntimeVerdict(c, b, r) \notin Blocked
           /\ \A m \in DOMAIN b.models : ModelVerdict(c, b, m) \notin Blocked
           /\ \A p \in DOMAIN b.pipelines : PipelineVerdict(c, b, p) \notin Blocked
  BY DEF HasBlocked, Plan, Verdicts

\* A runtime stays as it is, or is written and nobody else has its name.
LEMMA RuntimeCases ==
    ASSUME NEW c, NEW b, ~HasBlocked(Plan(c, b)), NEW r \in DOMAIN b.runtimes
    PROVE  \/ /\ RuntimeVerdict(c, b, r) = "unchanged"
              /\ r \in DOMAIN c.runtimes
              /\ RuntimeEqual(b.runtimes[r], c.runtimes[r])
           \/ /\ Written(RuntimeVerdict(c, b, r))
              /\ WritesRuntime(c, b, r)
              /\ Claimants(c, b, b.runtimes[r].name) \subseteq {r}
              /\ RuntimeVerdict(c, b, r) = "new" <=> r \notin DOMAIN c.runtimes
<1>1. RuntimeVerdict(c, b, r) # "name_taken"
  BY Unblocked DEF Blocked
<1> QED  BY <1>1 DEF RuntimeVerdict, WritesRuntime, Written

\* The runtimes of the composed catalogue.
LEMMA AppliedRuntimes ==
    ASSUME NEW c, NEW b, ~HasBlocked(Plan(c, b))
    PROVE  LET R == Applied(c, b).runtimes
           IN  /\ DOMAIN R = DOMAIN c.runtimes \cup DOMAIN b.runtimes
               /\ \A r \in DOMAIN b.runtimes : RuntimeEqual(b.runtimes[r], R[r])
               /\ \A r \in DOMAIN c.runtimes \ DOMAIN b.runtimes : R[r] = c.runtimes[r]
               /\ \A r \in DOMAIN c.runtimes : R[r].env = c.runtimes[r].env
               /\ \A r \in DOMAIN b.runtimes : WritesRuntime(c, b, r) \/ R[r] = c.runtimes[r]
<1> DEFINE V == [r \in DOMAIN b.runtimes |-> RuntimeVerdict(c, b, r)]
           R == Overlay(c.runtimes, RestoredRuntimes(c, b), V)
<1>1. Applied(c, b).runtimes = R
  BY DEF Applied, Plan
<1>2. /\ DOMAIN R = DOMAIN c.runtimes \cup {x \in DOMAIN V : V[x] = "new"}
      /\ \A id \in DOMAIN R : R[id] = IF id \in DOMAIN V /\ Written(V[id])
                                      THEN RestoredRuntimes(c, b)[id] ELSE c.runtimes[id]
  <2> DEFINE Q == RestoredRuntimes(c, b)
  <2> HIDE DEF V, Q
  <2> QED  BY DEF Overlay, Written
<1>3. \A r \in DOMAIN b.runtimes :
         \/ V[r] = "unchanged" /\ r \in DOMAIN c.runtimes /\ RuntimeEqual(b.runtimes[r], c.runtimes[r])
         \/ Written(V[r]) /\ WritesRuntime(c, b, r) /\ (V[r] = "new" <=> r \notin DOMAIN c.runtimes)
  BY RuntimeCases
<1>4. ~Written("unchanged") /\ "unchanged" # "new"
  BY DEF Written
<1>5. DOMAIN R = DOMAIN c.runtimes \cup DOMAIN b.runtimes
  BY <1>2, <1>3, <1>4
<1>6. \A r \in DOMAIN b.runtimes :
         /\ RestoredRuntimes(c, b)[r].name = b.runtimes[r].name
         /\ RestoredRuntimes(c, b)[r].body = b.runtimes[r].body
         /\ r \in DOMAIN c.runtimes => RestoredRuntimes(c, b)[r].env = c.runtimes[r].env
  <2> SUFFICES ASSUME NEW r \in DOMAIN b.runtimes
               PROVE  /\ RestoredRuntimes(c, b)[r].name = b.runtimes[r].name
                      /\ RestoredRuntimes(c, b)[r].body = b.runtimes[r].body
                      /\ r \in DOMAIN c.runtimes =>
                            RestoredRuntimes(c, b)[r].env = c.runtimes[r].env
    OBVIOUS
  <2>1. RestoredRuntimes(c, b)[r] =
            [name |-> b.runtimes[r].name, body |-> b.runtimes[r].body,
             env |-> KeptEnv(c.runtimes, r)]
    BY DEF RestoredRuntimes
  <2> QED  BY <2>1 DEF KeptEnv
<1> HIDE DEF V, R
<1>7. DOMAIN V = DOMAIN b.runtimes
  BY DEF V
<1>8. \A r \in DOMAIN b.runtimes : RuntimeEqual(b.runtimes[r], R[r])
  BY <1>2, <1>3, <1>4, <1>5, <1>6, <1>7 DEF RuntimeEqual
<1>9. \A r \in DOMAIN c.runtimes \ DOMAIN b.runtimes : R[r] = c.runtimes[r]
  BY <1>2, <1>5, <1>7
<1>10. \A r \in DOMAIN c.runtimes : R[r].env = c.runtimes[r].env
  BY <1>2, <1>5, <1>6, <1>7
<1>11. \A r \in DOMAIN b.runtimes : WritesRuntime(c, b, r) \/ R[r] = c.runtimes[r]
  BY <1>2, <1>3, <1>4, <1>5, <1>7
<1> QED  BY <1>1, <1>5, <1>8, <1>9, <1>10, <1>11

(* An unblocked plan keeps names of runtimes unique: the duplicate check before
   the write of an import finds nothing (repository.go:1188). *)
THEOREM NamesStayUnique ==
    ASSUME NEW c, NEW b, Clean(c), ~HasBlocked(Plan(c, b))
    PROVE  Clean(Applied(c, b))
<1> DEFINE R == Applied(c, b).runtimes
<1>1. SUFFICES ASSUME NEW r \in DOMAIN R, NEW s \in DOMAIN R, r # s,
                      Lower[R[r].name] = Lower[R[s].name]
               PROVE  FALSE
  BY DEF Clean, NameClashes
<1>2. DOMAIN R = DOMAIN c.runtimes \cup DOMAIN b.runtimes
  BY AppliedRuntimes
\* Each of the two is as stored, or it is written and nobody else has its name.
<1>3. ASSUME NEW x \in {r, s}
      PROVE  \/ x \in DOMAIN c.runtimes /\ R[x] = c.runtimes[x]
             \/ /\ x \in DOMAIN b.runtimes /\ WritesRuntime(c, b, x)
                /\ R[x].name = b.runtimes[x].name
                /\ Claimants(c, b, b.runtimes[x].name) \subseteq {x}
  <2>1. CASE x \in DOMAIN b.runtimes
    <3>1. RuntimeEqual(b.runtimes[x], R[x])
      BY <2>1, AppliedRuntimes
    <3>2. CASE WritesRuntime(c, b, x)
      <4>1. RuntimeVerdict(c, b, x) # "unchanged"
        BY <2>1, <3>2 DEF RuntimeVerdict
      <4> QED  BY <2>1, <3>1, <3>2, <4>1, RuntimeCases DEF RuntimeEqual
    <3>3. CASE ~WritesRuntime(c, b, x)
      BY <2>1, <3>3, AppliedRuntimes DEF WritesRuntime
    <3> QED  BY <3>2, <3>3
  <2>2. CASE x \notin DOMAIN b.runtimes
    BY <2>2, <1>2, AppliedRuntimes
  <2> QED  BY <2>1, <2>2
<1>4. ASSUME NEW x \in {r, s}, NEW y \in {r, s}, x # y,
             x \in DOMAIN b.runtimes, WritesRuntime(c, b, x), R[x].name = b.runtimes[x].name,
             Claimants(c, b, b.runtimes[x].name) \subseteq {x}
      PROVE  FALSE
  <2>1. Lower[R[y].name] = Lower[b.runtimes[x].name]
    BY <1>1, <1>4
  <2>2. y \in Claimants(c, b, b.runtimes[x].name)
    BY <2>1, <1>3 DEF Claimants
  <2> QED  BY <2>2, <1>4
<1>5. r \in DOMAIN c.runtimes /\ R[r] = c.runtimes[r]
  BY <1>1, <1>3, <1>4
<1>6. s \in DOMAIN c.runtimes /\ R[s] = c.runtimes[s]
  BY <1>1, <1>3, <1>4
<1> QED  BY <1>1, <1>5, <1>6 DEF Clean, NameClashes

-----------------------------------------------------------------------------
\* The models of the composed catalogue.
LEMMA AppliedModels ==
    ASSUME NEW c, NEW b, ~HasBlocked(Plan(c, b))
    PROVE  LET M == Applied(c, b).models
           IN  /\ DOMAIN M = DOMAIN c.models \cup DOMAIN b.models
               /\ \A m \in DOMAIN b.models :
                    /\ ModelEqual(b.models[m], M[m])
                    /\ \/ m \in DOMAIN c.models /\ M[m] = c.models[m]
                       \/ RuntimeResolves(c, b, b.models[m].runtime)
               /\ \A m \in DOMAIN c.models \ DOMAIN b.models : M[m] = c.models[m]
               /\ \A m \in DOMAIN c.models : M[m].env = c.models[m].env
<1> DEFINE V == [m \in DOMAIN b.models |-> ModelVerdict(c, b, m)]
           Q == RestoredModels(c, b)
           M == Overlay(c.models, Q, V)
<1>1. Applied(c, b).models = M
  BY DEF Applied, Plan
<1>2. \A m \in DOMAIN b.models :
         \/ V[m] = "unchanged" /\ m \in DOMAIN c.models /\ ModelEqual(b.models[m], c.models[m])
         \/ /\ Written(V[m])
            /\ RuntimeResolves(c, b, b.models[m].runtime)
            /\ V[m] = "new" <=> m \notin DOMAIN c.models
  <2> SUFFICES ASSUME NEW m \in DOMAIN b.models
               PROVE  LET v == ModelVerdict(c, b, m)
                      IN  \/ v = "unchanged" /\ m \in DOMAIN c.models /\ ModelEqual(b.models[m], c.models[m])
                          \/ /\ Written(v)
                             /\ RuntimeResolves(c, b, b.models[m].runtime)
                             /\ v = "new" <=> m \notin DOMAIN c.models
    OBVIOUS
  <2>1. ModelVerdict(c, b, m) \notin {"dependency_blocked", "ref_unresolved"}
    BY Unblocked DEF Blocked
  <2> QED  BY <2>1 DEF ModelVerdict, Written
<1>3. \A m \in DOMAIN b.models :
         /\ Q[m].runtime = b.models[m].runtime
         /\ Q[m].body = b.models[m].body
         /\ m \in DOMAIN c.models => Q[m].env = c.models[m].env
  <2> SUFFICES ASSUME NEW m \in DOMAIN b.models
               PROVE  /\ Q[m].runtime = b.models[m].runtime
                      /\ Q[m].body = b.models[m].body
                      /\ m \in DOMAIN c.models => Q[m].env = c.models[m].env
    OBVIOUS
  <2>1. Q[m] = [runtime |-> b.models[m].runtime, body |-> b.models[m].body,
                env |-> KeptEnv(c.models, m)]
    BY DEF RestoredModels
  <2> QED  BY <2>1 DEF KeptEnv
<1>4. ~Written("unchanged") /\ "unchanged" # "new"
  BY DEF Written
<1>5. DOMAIN V = DOMAIN b.models
  OBVIOUS
<1> HIDE DEF V, Q
<1>6. /\ DOMAIN M = DOMAIN c.models \cup {x \in DOMAIN V : V[x] = "new"}
      /\ \A id \in DOMAIN M : M[id] = IF id \in DOMAIN V /\ Written(V[id])
                                      THEN Q[id] ELSE c.models[id]
  BY DEF Overlay, Written
<1> HIDE DEF M
<1>7. DOMAIN M = DOMAIN c.models \cup DOMAIN b.models
  BY <1>2, <1>4, <1>5, <1>6
<1>8. \A m \in DOMAIN b.models : ModelEqual(b.models[m], M[m])
  BY <1>2, <1>3, <1>4, <1>5, <1>6, <1>7 DEF ModelEqual
<1>9. \A m \in DOMAIN b.models : \/ m \in DOMAIN c.models /\ M[m] = c.models[m]
                                 \/ RuntimeResolves(c, b, b.models[m].runtime)
  BY <1>2, <1>4, <1>5, <1>6, <1>7
<1>10. \A m \in DOMAIN c.models \ DOMAIN b.models : M[m] = c.models[m]
  BY <1>5, <1>6, <1>7
<1>11. \A m \in DOMAIN c.models : M[m].env = c.models[m].env
  BY <1>3, <1>5, <1>6, <1>7
<1> QED  BY <1>1, <1>7, <1>8, <1>9, <1>10, <1>11

\* The pipelines of the composed catalogue.
LEMMA AppliedPipelines ==
    ASSUME NEW c, NEW b, ~HasBlocked(Plan(c, b))
    PROVE  LET P == Applied(c, b).pipelines
           IN  /\ DOMAIN P = DOMAIN c.pipelines \cup DOMAIN b.pipelines
               /\ \A p \in DOMAIN b.pipelines :
                    \/ /\ p \in DOMAIN c.pipelines /\ P[p] = c.pipelines[p]
                       /\ PipelineEqual(b.pipelines[p], c.pipelines[p])
                    \/ /\ P[p] = b.pipelines[p]
                       /\ \A i \in DOMAIN P[p].entries : ModelResolves(c, b, P[p].entries[i].model)
               /\ \A p \in DOMAIN c.pipelines \ DOMAIN b.pipelines : P[p] = c.pipelines[p]
<1> DEFINE V == [p \in DOMAIN b.pipelines |-> PipelineVerdict(c, b, p)]
           P == Overlay(c.pipelines, b.pipelines, V)
<1>1. Applied(c, b).pipelines = P
  BY DEF Applied, Plan
<1>2. \A p \in DOMAIN b.pipelines :
         \/ /\ V[p] = "unchanged" /\ p \in DOMAIN c.pipelines
            /\ PipelineEqual(b.pipelines[p], c.pipelines[p])
         \/ /\ Written(V[p])
            /\ \A i \in DOMAIN b.pipelines[p].entries :
                  ModelResolves(c, b, b.pipelines[p].entries[i].model)
            /\ V[p] = "new" <=> p \notin DOMAIN c.pipelines
  <2> SUFFICES ASSUME NEW p \in DOMAIN b.pipelines
               PROVE  LET v == PipelineVerdict(c, b, p)
                      IN  \/ /\ v = "unchanged" /\ p \in DOMAIN c.pipelines
                             /\ PipelineEqual(b.pipelines[p], c.pipelines[p])
                          \/ /\ Written(v)
                             /\ \A i \in DOMAIN b.pipelines[p].entries :
                                   ModelResolves(c, b, b.pipelines[p].entries[i].model)
                             /\ v = "new" <=> p \notin DOMAIN c.pipelines
    OBVIOUS
  <2>1. PipelineVerdict(c, b, p) \notin {"dependency_blocked", "ref_unresolved", "entries_empty"}
    BY Unblocked DEF Blocked
  <2> QED  BY <2>1 DEF PipelineVerdict, Written
<1>4. ~Written("unchanged") /\ "unchanged" # "new"
  BY DEF Written
<1>5. DOMAIN V = DOMAIN b.pipelines
  OBVIOUS
<1> HIDE DEF V
<1>6. /\ DOMAIN P = DOMAIN c.pipelines \cup {x \in DOMAIN V : V[x] = "new"}
      /\ \A id \in DOMAIN P : P[id] = IF id \in DOMAIN V /\ Written(V[id])
                                      THEN b.pipelines[id] ELSE c.pipelines[id]
  BY DEF Overlay, Written
<1> HIDE DEF P
<1>7. DOMAIN P = DOMAIN c.pipelines \cup DOMAIN b.pipelines
  BY <1>2, <1>4, <1>5, <1>6
<1>8. \A p \in DOMAIN b.pipelines :
         \/ /\ p \in DOMAIN c.pipelines /\ P[p] = c.pipelines[p]
            /\ PipelineEqual(b.pipelines[p], c.pipelines[p])
         \/ /\ P[p] = b.pipelines[p]
            /\ \A i \in DOMAIN P[p].entries : ModelResolves(c, b, P[p].entries[i].model)
  BY <1>2, <1>4, <1>5, <1>6, <1>7
<1>9. \A p \in DOMAIN c.pipelines \ DOMAIN b.pipelines : P[p] = c.pipelines[p]
  BY <1>5, <1>6, <1>7
<1> QED  BY <1>1, <1>7, <1>8, <1>9

-----------------------------------------------------------------------------
(* An import never creates a reference to nothing, not even from a catalogue
   that already has some (import_plan.go, resolution of references). *)
THEOREM ImportLeavesNoneDangling ==
    ASSUME NEW c, NEW b, ~HasBlocked(Plan(c, b))
    PROVE  Dangling(Applied(c, b)) \subseteq Dangling(c)
<1> DEFINE R == Applied(c, b).runtimes
           M == Applied(c, b).models
           P == Applied(c, b).pipelines
<1>1. DOMAIN R = DOMAIN c.runtimes \cup DOMAIN b.runtimes
  BY AppliedRuntimes
<1>2. DOMAIN M = DOMAIN c.models \cup DOMAIN b.models
  BY AppliedModels
<1>3. ASSUME NEW m \in DOMAIN M, M[m].runtime \notin DOMAIN R
      PROVE  <<m, M[m].runtime>> \in Dangling(c)
  <2>1. m \in DOMAIN c.models /\ M[m] = c.models[m]
    <3>1. CASE m \in DOMAIN b.models
      <4>1. ModelEqual(b.models[m], M[m])
        BY <3>1, AppliedModels
      <4>2. ~RuntimeResolves(c, b, b.models[m].runtime)
        BY <1>1, <1>3, <4>1 DEF RuntimeResolves, ModelEqual
      <4> QED  BY <3>1, <4>2, AppliedModels
    <3>2. CASE m \notin DOMAIN b.models
      BY <3>2, <1>2, AppliedModels
    <3> QED  BY <3>1, <3>2
  <2> QED  BY <2>1, <1>1, <1>3 DEF Dangling
<1>4. ASSUME NEW p \in DOMAIN P, NEW i \in DOMAIN P[p].entries,
             P[p].entries[i].model \notin DOMAIN M
      PROVE  <<p, P[p].entries[i].model>> \in Dangling(c)
  <2>1. p \in DOMAIN c.pipelines /\ P[p] = c.pipelines[p]
    <3>1. ~ModelResolves(c, b, P[p].entries[i].model)
      BY <1>2, <1>4 DEF ModelResolves
    <3> QED  BY <3>1, AppliedPipelines
  <2> QED  BY <2>1, <1>2, <1>4 DEF Dangling
<1> HIDE DEF R, M, P
<1>5. ASSUME NEW d \in Dangling(Applied(c, b)) PROVE d \in Dangling(c)
  <2>1. \/ \E m \in DOMAIN M : d = <<m, M[m].runtime>> /\ M[m].runtime \notin DOMAIN R
        \/ \E p \in DOMAIN P : \E i \in DOMAIN P[p].entries :
              d = <<p, P[p].entries[i].model>> /\ P[p].entries[i].model \notin DOMAIN M
    BY DEF Dangling, R, M, P
  <2> QED  BY <2>1, <1>3, <1>4
<1> QED  BY <1>5

(* Importing is idempotent: after an import the same bundle has nothing left
   to write. *)
THEOREM ImportConverges ==
    ASSUME NEW c, NEW b, ~HasBlocked(Plan(c, b))
    PROVE  Verdicts(Plan(Applied(c, b), b)) \subseteq {"unchanged"}
<1> DEFINE e == Applied(c, b)
<1>1. ASSUME NEW r \in DOMAIN b.runtimes PROVE RuntimeVerdict(e, b, r) = "unchanged"
  <2>1. r \in DOMAIN e.runtimes /\ RuntimeEqual(b.runtimes[r], e.runtimes[r])
    BY AppliedRuntimes
  <2> HIDE DEF e
  <2> QED  BY <2>1 DEF RuntimeVerdict, WritesRuntime
<1>2. ASSUME NEW m \in DOMAIN b.models PROVE ModelVerdict(e, b, m) = "unchanged"
  <2>1. m \in DOMAIN e.models /\ ModelEqual(b.models[m], e.models[m])
    BY AppliedModels
  <2> HIDE DEF e
  <2> QED  BY <2>1 DEF ModelVerdict
<1>3. ASSUME NEW p \in DOMAIN b.pipelines PROVE PipelineVerdict(e, b, p) = "unchanged"
  <2>1. p \in DOMAIN e.pipelines /\ PipelineEqual(b.pipelines[p], e.pipelines[p])
    BY AppliedPipelines DEF PipelineEqual
  <2> HIDE DEF e
  <2> QED  BY <2>1 DEF PipelineVerdict
<1>4. Verdicts(Plan(e, b)) \subseteq {"unchanged"}
  <2> HIDE DEF e
  <2> QED  BY <1>1, <1>2, <1>3 DEF Verdicts, Plan
<1> QED  BY <1>4

(* Blocking is for what cannot be done, never for what is there already
   (PlanGraphImport, ADR 018 D5): a bundle that passed validation is refused
   only when another runtime of the catalogue holds a name it brings, or when
   it brings a pipeline without entries. *)
THEOREM RefusalHasCause ==
    ASSUME NEW c, NEW b, ValidBundle(b), HasBlocked(Plan(c, b))
    PROVE  \/ \E r \in DOMAIN b.runtimes : \E s \in DOMAIN c.runtimes \ {r} :
                 Lower[c.runtimes[s].name] = Lower[b.runtimes[r].name]
           \/ \E p \in DOMAIN b.pipelines : b.pipelines[p].entries = <<>>
<1> DEFINE Contested == \E r \in DOMAIN b.runtimes : \E s \in DOMAIN c.runtimes \ {r} :
                           Lower[c.runtimes[s].name] = Lower[b.runtimes[r].name]
<1>1. ASSUME NEW r \in DOMAIN b.runtimes, RuntimeVerdict(c, b, r) \in Blocked
      PROVE  Contested
  <2>1. PICK s \in Claimants(c, b, b.runtimes[r].name) : s # r
    <3>1. "unchanged" \notin Blocked /\ "update" \notin Blocked /\ "new" \notin Blocked
      BY DEF Blocked
    <3> QED  BY <1>1, <3>1, Zenon DEF RuntimeVerdict
  <2>2. ~(s \in DOMAIN b.runtimes /\ Lower[b.runtimes[s].name] = Lower[b.runtimes[r].name])
    BY <2>1 DEF ValidBundle
  <2>3. s \in DOMAIN c.runtimes /\ Lower[c.runtimes[s].name] = Lower[b.runtimes[r].name]
    BY <2>1, <2>2 DEF Claimants
  <2> QED  BY <2>1, <2>3
<1>2. ASSUME NEW m \in DOMAIN b.models, ModelVerdict(c, b, m) \in Blocked
      PROVE  Contested
  <2> DEFINE r == b.models[m].runtime
  <2>1. r \in DOMAIN b.runtimes
    BY DEF ValidBundle
  <2>2. r \notin DOMAIN c.runtimes /\ RuntimeVerdict(c, b, r) # "new"
    BY <1>2, <2>1 DEF ModelVerdict, RuntimeResolves, Blocked
  <2>3. RuntimeVerdict(c, b, r) \in Blocked
    BY <2>2 DEF RuntimeVerdict, WritesRuntime, Blocked
  <2> QED  BY <1>1, <2>1, <2>3
<1>3. ASSUME NEW p \in DOMAIN b.pipelines, PipelineVerdict(c, b, p) \in Blocked,
             b.pipelines[p].entries # <<>>
      PROVE  Contested
  <2>1. PICK i \in DOMAIN b.pipelines[p].entries :
           ~ModelResolves(c, b, b.pipelines[p].entries[i].model)
    BY <1>3 DEF PipelineVerdict, Blocked
  <2> DEFINE m == b.pipelines[p].entries[i].model
  <2>2. m \in DOMAIN b.models
    BY DEF ValidBundle
  <2>3. m \notin DOMAIN c.models /\ ModelVerdict(c, b, m) # "new"
    BY <2>1, <2>2 DEF ModelResolves
  <2>4. ModelVerdict(c, b, m) \in Blocked
    BY <2>3 DEF ModelVerdict, Blocked
  <2> QED  BY <1>2, <2>2, <2>4
<1>4. \/ \E r \in DOMAIN b.runtimes : RuntimeVerdict(c, b, r) \in Blocked
      \/ \E m \in DOMAIN b.models : ModelVerdict(c, b, m) \in Blocked
      \/ \E p \in DOMAIN b.pipelines : PipelineVerdict(c, b, p) \in Blocked
  BY DEF HasBlocked, Verdicts, Plan
<1> QED  BY <1>1, <1>2, <1>3, <1>4

-----------------------------------------------------------------------------
(* Whatever clients, crashes, boots and races have made of the catalogue, an
   import restores exactly what its bundle describes. *)
THEOREM ImportsRestore == Spec => []ImportRestores
<1>1. ASSUME NEW d, NEW b, ImportGraph(d, b) # Missing PROVE RestoresExactly(d, b)
  <2>1. ~HasBlocked(Plan(d, b))
    BY <1>1 DEF ImportGraph
  <2>2. CASE ~WillMutate(Plan(d, b))
    <3>1. ImportGraph(d, b) = d
      BY <2>1, <2>2 DEF ImportGraph
    <3>2. Verdicts(Plan(d, b)) \subseteq {"unchanged"}
      <4>1. Verdicts(Plan(d, b)) \cap {"new", "update"} = {} /\ Verdicts(Plan(d, b)) \cap Blocked = {}
        BY <2>1, <2>2 DEF WillMutate, HasBlocked
      <4>2. Verdicts(Plan(d, b)) \subseteq Blocked \cup {"new", "update", "unchanged"}
        <5> DEFINE V == Blocked \cup {"new", "update", "unchanged"}
        <5>1. ASSUME NEW r PROVE RuntimeVerdict(d, b, r) \in V
          BY DEF RuntimeVerdict, Blocked
        <5>2. ASSUME NEW m PROVE ModelVerdict(d, b, m) \in V
          BY DEF ModelVerdict, Blocked
        <5>3. ASSUME NEW p PROVE PipelineVerdict(d, b, p) \in V
          BY DEF PipelineVerdict, Blocked
        <5> HIDE DEF V
        <5>4. Verdicts(Plan(d, b)) \subseteq V
          <6>1. \A v \in Verdicts(Plan(d, b)) :
                   \/ \E r : v = RuntimeVerdict(d, b, r)
                   \/ \E m : v = ModelVerdict(d, b, m)
                   \/ \E p : v = PipelineVerdict(d, b, p)
            BY DEF Verdicts, Plan
          <6> QED  BY <5>1, <5>2, <5>3, <6>1
        <5> QED  BY <5>4 DEF V
      <4> QED  BY <4>1, <4>2
    <3> QED  BY <3>1, <3>2 DEF RestoresExactly
  <2>3. CASE WillMutate(Plan(d, b))
    <3>1. ImportGraph(d, b) = Applied(d, b)
      BY <1>1, <2>1, <2>3 DEF ImportGraph
    <3>2. /\ Dangling(Applied(d, b)) \subseteq Dangling(d)
          /\ Verdicts(Plan(Applied(d, b), b)) \subseteq {"unchanged"}
      BY <2>1, ImportLeavesNoneDangling, ImportConverges
    <3>3. \A r \in DOMAIN d.runtimes :
             /\ Applied(d, b).runtimes[r].env = d.runtimes[r].env
             /\ r \notin DOMAIN b.runtimes => Applied(d, b).runtimes[r] = d.runtimes[r]
      BY <2>1, AppliedRuntimes
    <3>4. \A m \in DOMAIN d.models :
             /\ Applied(d, b).models[m].env = d.models[m].env
             /\ m \notin DOMAIN b.models => Applied(d, b).models[m] = d.models[m]
      BY <2>1, AppliedModels
    <3>5. \A p \in DOMAIN d.pipelines \ DOMAIN b.pipelines : Applied(d, b).pipelines[p] = d.pipelines[p]
      BY <2>1, AppliedPipelines
    <3> QED  BY <3>1, <3>2, <3>3, <3>4, <3>5 DEF RestoresExactly
  <2> QED  BY <2>2, <2>3
<1>2. ImportRestores
  <2>1. ASSUME NEW d, NEW b PROVE RestoresExactly(d, b)
    BY <1>1 DEF RestoresExactly
  <2> QED  BY <2>1 DEF ImportRestores
<1> QED  BY <1>2, PTL

(* A dry run of a catalogue without duplicate names that reports can_import is
   right about the names: the check behind the planner finds nothing. *)
THEOREM PlannerIsComplete == Spec => []PlannerComplete
<1>1. PlannerComplete
  BY NamesStayUnique DEF PlannerComplete, CanImport
<1> QED  BY <1>1, PTL
-----------------------------------------------------------------------------
(* The kinds of documents.                                                  *)

\* A catalogue by its three tables.
Cat(r, m, p) == [runtimes |-> r, models |-> m, pipelines |-> p]

LEMMA CatFields ==
    ASSUME NEW r, NEW m, NEW p
    PROVE  Cat(r, m, p).runtimes = r /\ Cat(r, m, p).models = m /\ Cat(r, m, p).pipelines = p
  BY DEF Cat

LEMMA CatTyped ==
    ASSUME NEW r, NEW m, NEW p,
           Table(r, RuntimeIds, RuntimeEntries), Table(m, ModelIds, ModelEntries),
           Table(p, PipelineIds, CataloguePipelines)
    PROVE  IsCatalogue(Cat(r, m, p))
  BY DEF IsCatalogue, Tables, Cat

LEMMA CatOf ==
    ASSUME NEW d, IsCatalogue(d)
    PROVE  /\ d = Cat(d.runtimes, d.models, d.pipelines)
           /\ Table(d.runtimes, RuntimeIds, RuntimeEntries)
           /\ Table(d.models, ModelIds, ModelEntries)
           /\ Table(d.pipelines, PipelineIds, CataloguePipelines)
  BY DEF IsCatalogue, Tables, Cat

\* A field of a catalogue changes, the others stay.
LEMMA CatExcept ==
    ASSUME NEW d, IsCatalogue(d), NEW x
    PROVE  /\ [d EXCEPT !.runtimes = x] = Cat(x, d.models, d.pipelines)
           /\ [d EXCEPT !.models = x] = Cat(d.runtimes, x, d.pipelines)
           /\ [d EXCEPT !.pipelines = x] = Cat(d.runtimes, d.models, x)
  BY DEF IsCatalogue, Tables, Cat

\* A catalogue is a document: neither an older one nor no document at all.
LEMMA CatalogueIsDocument ==
    ASSUME NEW d, IsCatalogue(d)
    PROVE  Document(d) /\ d # Missing /\ d # Torn
<1>1. d \in Catalogues
  <2>1. ASSUME NEW f, NEW ids, NEW R, Table(f, ids, R)
        PROVE  f \in UNION {[S -> R] : S \in SUBSET ids}
    BY <2>1 DEF Table
  <2>2. /\ d.runtimes \in UNION {[S -> RuntimeEntries] : S \in SUBSET RuntimeIds}
        /\ d.models \in UNION {[S -> ModelEntries] : S \in SUBSET ModelIds}
        /\ d.pipelines \in UNION {[S -> CataloguePipelines] : S \in SUBSET PipelineIds}
    BY <2>1, CatOf
  <2>3. d = [runtimes |-> d.runtimes, models |-> d.models, pipelines |-> d.pipelines]
    BY CatOf DEF Cat
  <2> QED  BY <2>2, <2>3 DEF Catalogues
<1> QED  BY <1>1, CatalogueAssumption DEF Document, CatalogueAssumption

LEMMA TablePut ==
    ASSUME NEW f, NEW ids, NEW R, Table(f, ids, R), NEW id \in ids, NEW rec \in R
    PROVE  /\ Table(Put(f, id, rec), ids, R)
           /\ DOMAIN Put(f, id, rec) = DOMAIN f \cup {id}
           /\ Put(f, id, rec)[id] = rec
           /\ \A x \in DOMAIN f \ {id} : Put(f, id, rec)[x] = f[x]
  BY DEF Table, Put

LEMMA TableDrop ==
    ASSUME NEW f, NEW ids, NEW R, Table(f, ids, R), NEW S
    PROVE  /\ Table(Drop(f, S), ids, R)
           /\ DOMAIN Drop(f, S) = DOMAIN f \ S
           /\ \A x \in DOMAIN f \ S : Drop(f, S)[x] = f[x]
  BY DEF Table, Drop

\* One record of a table changes.
LEMMA TableExcept ==
    ASSUME NEW f, NEW ids, NEW R, Table(f, ids, R), NEW id \in DOMAIN f, NEW rec \in R
    PROVE  /\ Table([f EXCEPT ![id] = rec], ids, R)
           /\ DOMAIN [f EXCEPT ![id] = rec] = DOMAIN f
           /\ [f EXCEPT ![id] = rec][id] = rec
           /\ \A x \in DOMAIN f \ {id} : [f EXCEPT ![id] = rec][x] = f[x]
  BY DEF Table

\* What the requests carry.
LEMMA RequestFields ==
    ASSUME NEW q, IsRequest(q)
    PROVE  /\ q.kind = "createRuntime" => q.id \in RuntimeIds /\ q.rec \in RuntimeEntries
           /\ q.kind = "patchRuntime" => q.id \in RuntimeIds /\ q.name \in Names
           /\ q.kind = "createModel" => q.id \in ModelIds /\ q.rec \in ModelEntries
           /\ q.kind = "patchModel" => q.id \in ModelIds /\ q.runtime \in RuntimeIds
           /\ q.kind = "patchModelEnv" => q.id \in ModelIds /\ q.env \in Envs
           /\ q.kind = "activateModel" => q.id \in ModelIds /\ q.active \in BOOLEAN
           /\ q.kind \in {"createPipeline", "updatePipeline"} =>
                 q.id \in PipelineIds /\ q.rec \in PipelineEntries(EntryIds \cup {NoId})
           /\ q.kind = "createPipeline" => q.rec \in PipelineEntries({NoId})
           /\ q.kind = "import" => IsBundle(q.bundle)
<1>1. PipelineEntries({NoId}) \subseteq PipelineEntries(EntryIds \cup {NoId})
  <2>1. Seq([id : {NoId}, model : ModelIds]) \subseteq Seq([id : EntryIds \cup {NoId}, model : ModelIds])
    BY SeqMonotonic
  <2> QED  BY <2>1 DEF PipelineEntries
<1>2. CASE q \in [kind : {"createRuntime"}, id : RuntimeIds, rec : RuntimeEntries]
  BY <1>2
<1>3. CASE q \in [kind : {"patchRuntime"}, id : RuntimeIds, name : Names]
  BY <1>3
<1>4. CASE q \in [kind : {"deleteRuntime", "cascadeRuntime"}, id : RuntimeIds]
  BY <1>4
<1>5. CASE q \in [kind : {"replaceRuntime"}, id : RuntimeIds, new : RuntimeIds]
  BY <1>5
<1>6. CASE q \in [kind : {"createModel"}, id : ModelIds, rec : ModelEntries]
  BY <1>6
<1>7. CASE q \in [kind : {"patchModel"}, id : ModelIds, runtime : RuntimeIds]
  BY <1>7
<1>8. CASE q \in [kind : {"patchModelEnv"}, id : ModelIds, env : Envs]
  BY <1>8
<1>9. CASE q \in [kind : {"activateModel"}, id : ModelIds, active : BOOLEAN]
  BY <1>9
<1>10. CASE q \in [kind : {"deleteModel"}, id : ModelIds]
  BY <1>10
<1>11. CASE q \in [kind : {"createPipeline"}, id : PipelineIds, rec : PipelineEntries({NoId})]
  BY <1>1, <1>11
<1>12. CASE q \in [kind : {"updatePipeline"}, id : PipelineIds,
                   rec : PipelineEntries(EntryIds \cup {NoId})]
  BY <1>12
<1>13. CASE q \in [kind : {"deletePipeline"}, id : PipelineIds]
  BY <1>13
<1>14. CASE q \in [kind : {"import"}, bundle : {q.bundle}] /\ IsBundle(q.bundle)
  BY <1>14
<1> QED
  BY <1>2, <1>3, <1>4, <1>5, <1>6, <1>7, <1>8, <1>9, <1>10, <1>11, <1>12, <1>13, <1>14
  DEF IsRequest

-----------------------------------------------------------------------------
(* What the mutations leave: again a catalogue, and what their checks mean.  *)

LEMMA ClashesWithin ==
    ASSUME NEW d, NEW e,
           \A r, s \in DOMAIN e.runtimes :
              r # s /\ Lower[e.runtimes[r].name] = Lower[e.runtimes[s].name]
              => /\ {r, s} \subseteq DOMAIN d.runtimes
                 /\ Lower[d.runtimes[r].name] = Lower[d.runtimes[s].name]
    PROVE  NameClashes(e) \subseteq NameClashes(d)
  BY DEF NameClashes

\* A dangling reference, of a model or of a pipeline.
LEMMA IsDangling ==
    ASSUME NEW d, NEW x
    PROVE  x \in Dangling(d)
           <=> \/ \E m \in DOMAIN d.models :
                     x = <<m, d.models[m].runtime>> /\ d.models[m].runtime \notin DOMAIN d.runtimes
               \/ \E p \in DOMAIN d.pipelines : \E i \in DOMAIN d.pipelines[p].entries :
                     /\ x = <<p, d.pipelines[p].entries[i].model>>
                     /\ d.pipelines[p].entries[i].model \notin DOMAIN d.models
<1> DEFINE M == {<<m, d.models[m].runtime>> :
                    m \in {y \in DOMAIN d.models : d.models[y].runtime \notin DOMAIN d.runtimes}}
           Q(p) == {<<p, d.pipelines[p].entries[i].model>> :
                      i \in {j \in DOMAIN d.pipelines[p].entries :
                                d.pipelines[p].entries[j].model \notin DOMAIN d.models}}
<1>1. Dangling(d) = M \cup UNION {Q(p) : p \in DOMAIN d.pipelines}
  BY Zenon DEF Dangling
<1>2. x \in M <=> \E m \in DOMAIN d.models :
                   x = <<m, d.models[m].runtime>> /\ d.models[m].runtime \notin DOMAIN d.runtimes
  OBVIOUS
<1>3. ASSUME NEW p
      PROVE  x \in Q(p) <=> \E i \in DOMAIN d.pipelines[p].entries :
                              /\ x = <<p, d.pipelines[p].entries[i].model>>
                              /\ d.pipelines[p].entries[i].model \notin DOMAIN d.models
  OBVIOUS
<1> HIDE DEF M, Q
<1>4. x \in Dangling(d) <=> x \in M \/ \E p \in DOMAIN d.pipelines : x \in Q(p)
  BY <1>1
<1> QED  BY <1>2, <1>3, <1>4

LEMMA DanglingWithin ==
    ASSUME NEW d, NEW e,
           \A m \in DOMAIN e.models :
              e.models[m].runtime \notin DOMAIN e.runtimes
              => /\ m \in DOMAIN d.models /\ d.models[m].runtime = e.models[m].runtime
                 /\ d.models[m].runtime \notin DOMAIN d.runtimes,
           \A p \in DOMAIN e.pipelines : \A i \in DOMAIN e.pipelines[p].entries :
              e.pipelines[p].entries[i].model \notin DOMAIN e.models
              => /\ p \in DOMAIN d.pipelines /\ i \in DOMAIN d.pipelines[p].entries
                 /\ d.pipelines[p].entries[i].model = e.pipelines[p].entries[i].model
                 /\ d.pipelines[p].entries[i].model \notin DOMAIN d.models
    PROVE  Dangling(e) \subseteq Dangling(d)
<1> SUFFICES ASSUME NEW x \in Dangling(e) PROVE x \in Dangling(d)
  OBVIOUS
<1>1. CASE \E m \in DOMAIN e.models : x = <<m, e.models[m].runtime>> /\ e.models[m].runtime \notin DOMAIN e.runtimes
  <2>1. PICK m \in DOMAIN e.models : x = <<m, e.models[m].runtime>> /\ e.models[m].runtime \notin DOMAIN e.runtimes
    BY <1>1
  <2>2. m \in DOMAIN d.models /\ x = <<m, d.models[m].runtime>> /\ d.models[m].runtime \notin DOMAIN d.runtimes
    BY <2>1
  <2> QED  BY <2>2, IsDangling
<1>2. CASE \E p \in DOMAIN e.pipelines : \E i \in DOMAIN e.pipelines[p].entries :
             x = <<p, e.pipelines[p].entries[i].model>> /\ e.pipelines[p].entries[i].model \notin DOMAIN e.models
  <2>0. PICK p \in DOMAIN e.pipelines : \E i \in DOMAIN e.pipelines[p].entries :
             x = <<p, e.pipelines[p].entries[i].model>> /\ e.pipelines[p].entries[i].model \notin DOMAIN e.models
    BY <1>2
  <2>1. PICK i \in DOMAIN e.pipelines[p].entries :
             x = <<p, e.pipelines[p].entries[i].model>> /\ e.pipelines[p].entries[i].model \notin DOMAIN e.models
    BY <2>0
  <2>2. /\ p \in DOMAIN d.pipelines /\ i \in DOMAIN d.pipelines[p].entries
        /\ x = <<p, d.pipelines[p].entries[i].model>> /\ d.pipelines[p].entries[i].model \notin DOMAIN d.models
    BY <2>1
  <2> QED  BY <2>2, IsDangling
<1> QED  BY <1>1, <1>2, IsDangling

\* What a mutation promises: a catalogue, and sound if its check has passed.
Good(d, q, e) == IsCatalogue(e) /\ (Accepted(d, q) => Sound(q, d, e))

LEMMA CreateRuntimeGood ==
    ASSUME NEW d, IsCatalogue(d), NEW q, IsRequest(q), q.kind = "createRuntime",
           CreateRuntime(d, q) # Missing
    PROVE  Good(d, q, CreateRuntime(d, q))
<1> DEFINE R == Put(d.runtimes, q.id, q.rec)
           e == Cat(R, d.models, d.pipelines)
<1>1. q.id \in RuntimeIds \ DOMAIN d.runtimes /\ q.rec \in RuntimeEntries
  BY RequestFields DEF CreateRuntime
<1>2. CreateRuntime(d, q) = e
  BY <1>1, CatExcept DEF CreateRuntime
<1>3. /\ Table(R, RuntimeIds, RuntimeEntries)
      /\ DOMAIN R = DOMAIN d.runtimes \cup {q.id} /\ R[q.id] = q.rec
      /\ \A r \in DOMAIN d.runtimes : R[r] = d.runtimes[r]
  <2>1. Table(d.runtimes, RuntimeIds, RuntimeEntries) /\ q.id \in RuntimeIds /\ q.rec \in RuntimeEntries
    BY <1>1, CatOf
  <2>2. /\ Table(R, RuntimeIds, RuntimeEntries)
        /\ DOMAIN R = DOMAIN d.runtimes \cup {q.id} /\ R[q.id] = q.rec
        /\ \A r \in DOMAIN d.runtimes \ {q.id} : R[r] = d.runtimes[r]
    <3>1. Table(R, RuntimeIds, RuntimeEntries)
      BY <2>1, TablePut
    <3> QED  BY <3>1 DEF Put
  <2> HIDE DEF R
  <2> QED  BY <1>1, <2>2
<1> HIDE DEF R
<1>4. IsCatalogue(e)
  BY <1>3, CatOf, CatTyped
<1>5. ASSUME Accepted(d, q) PROVE NameClashes(e) \subseteq NameClashes(d)
  <2>1. ~NameExists(d, q.rec.name, Missing)
    BY <1>5 DEF Accepted
  <2>2. Missing \notin DOMAIN d.runtimes
    BY CatOf, CatalogueAssumption DEF CatalogueAssumption, Table
  <2>3. \A r \in DOMAIN d.runtimes : Lower[d.runtimes[r].name] # Lower[q.rec.name]
    BY <2>1, <2>2 DEF NameExists
  <2>4. e.runtimes = R
    BY DEF Cat
  <2> HIDE DEF e
  <2> QED  BY <1>1, <1>3, <2>3, <2>4, ClashesWithin
<1> QED  BY <1>2, <1>4, <1>5 DEF Good, Sound

LEMMA PatchRuntimeGood ==
    ASSUME NEW d, IsCatalogue(d), NEW q, IsRequest(q), q.kind = "patchRuntime",
           PatchRuntime(d, q) # Missing
    PROVE  Good(d, q, PatchRuntime(d, q))
<1> DEFINE x == [d.runtimes[q.id] EXCEPT !.name = q.name]
           R == [d.runtimes EXCEPT ![q.id] = x]
           e == Cat(R, d.models, d.pipelines)
<1>1. q.id \in DOMAIN d.runtimes /\ q.name \in Names
  BY RequestFields DEF PatchRuntime
<1>2. PatchRuntime(d, q) = e
  <2>1. PatchRuntime(d, q) = [d EXCEPT !.runtimes = R]
    BY <1>1 DEF PatchRuntime
  <2> QED  BY <2>1, CatExcept
<1>3. x \in RuntimeEntries /\ x.name = q.name
  <2>1. d.runtimes[q.id] \in RuntimeEntries
    BY <1>1, CatOf DEF Table
  <2> QED  BY <1>1, <2>1 DEF RuntimeEntries
<1> HIDE DEF x
<1>4. /\ Table(R, RuntimeIds, RuntimeEntries)
      /\ DOMAIN R = DOMAIN d.runtimes /\ R[q.id] = x
      /\ \A r \in DOMAIN d.runtimes \ {q.id} : R[r] = d.runtimes[r]
  BY <1>1, <1>3, CatOf, TableExcept
<1> HIDE DEF R
<1>5. IsCatalogue(e)
  BY <1>4, CatOf, CatTyped
<1>6. e.runtimes = R /\ e.models = d.models /\ e.pipelines = d.pipelines
  BY DEF Cat
<1> HIDE DEF e
<1>7. ASSUME Accepted(d, q) PROVE NameClashes(e) \subseteq NameClashes(d)
  <2>1. MayPatchRuntime(d, q)
    BY <1>7 DEF Accepted
  <2>2. CASE q.name = d.runtimes[q.id].name
    <3>1. \A r \in DOMAIN R : r \in DOMAIN d.runtimes /\ R[r].name = d.runtimes[r].name
      BY <1>3, <1>4, <2>2
    <3> QED  BY <1>6, <3>1, ClashesWithin
  <2>3. CASE ~NameExists(d, q.name, q.id)
    <3>1. \A r \in DOMAIN d.runtimes \ {q.id} : Lower[d.runtimes[r].name] # Lower[q.name]
      BY <2>3 DEF NameExists
    <3> QED  BY <1>3, <1>4, <1>6, <3>1, ClashesWithin
  <2> QED  BY <2>1, <2>2, <2>3 DEF MayPatchRuntime
<1>8. Dangling(e) \subseteq Dangling(d)
  BY <1>4, <1>6, DanglingWithin
<1> QED  BY <1>2, <1>5, <1>7, <1>8 DEF Good, Sound

\* Fewer runtimes have no more clashes.
LEMMA FewerRuntimes ==
    ASSUME NEW d, NEW e, DOMAIN e.runtimes \subseteq DOMAIN d.runtimes,
           \A r \in DOMAIN e.runtimes : e.runtimes[r] = d.runtimes[r]
    PROVE  NameClashes(e) \subseteq NameClashes(d)
  BY ClashesWithin

LEMMA DeleteRuntimeGood ==
    ASSUME NEW d, IsCatalogue(d), NEW q, IsRequest(q), q.kind = "deleteRuntime",
           DeleteRuntime(d, q) # Missing
    PROVE  Good(d, q, DeleteRuntime(d, q))
<1> DEFINE R == Drop(d.runtimes, {q.id})
           e == Cat(R, d.models, d.pipelines)
<1>1. DeleteRuntime(d, q) = e
  BY CatExcept DEF DeleteRuntime
<1>2. /\ Table(R, RuntimeIds, RuntimeEntries) /\ DOMAIN R = DOMAIN d.runtimes \ {q.id}
      /\ \A r \in DOMAIN R : R[r] = d.runtimes[r]
  <2>1. Table(d.runtimes, RuntimeIds, RuntimeEntries)
    BY CatOf
  <2>2. /\ Table(R, RuntimeIds, RuntimeEntries) /\ DOMAIN R = DOMAIN d.runtimes \ {q.id}
        /\ \A r \in DOMAIN d.runtimes \ {q.id} : R[r] = d.runtimes[r]
    BY <2>1, TableDrop, Zenon
  <2> QED  BY <2>2, Zenon
<1> HIDE DEF R
<1>3. IsCatalogue(e)
  BY <1>2, CatOf, CatTyped
<1>4. e.runtimes = R /\ e.models = d.models /\ e.pipelines = d.pipelines
  BY DEF Cat
<1> HIDE DEF e
<1>5. ASSUME Accepted(d, q) PROVE Dangling(e) \subseteq Dangling(d)
  <2>1. \A m \in DOMAIN d.models : d.models[m].runtime # q.id
    BY <1>5 DEF Accepted, MayDeleteRuntime, Users
  <2> QED  BY <1>2, <1>4, <2>1, DanglingWithin
<1>6. NameClashes(e) \subseteq NameClashes(d)
  BY <1>2, <1>4, FewerRuntimes
<1> QED  BY <1>1, <1>3, <1>5, <1>6 DEF Good, Sound

LEMMA ReplaceRuntimeGood ==
    ASSUME NEW d, IsCatalogue(d), NEW q, IsRequest(q), q.kind = "replaceRuntime",
           ReplaceRuntimeAndDelete(d, q) # Missing
    PROVE  Good(d, q, ReplaceRuntimeAndDelete(d, q))
<1> DEFINE M == [m \in DOMAIN d.models |->
                    IF m \in Users(d, q.id) THEN [d.models[m] EXCEPT !.runtime = q.new] ELSE d.models[m]]
           R == Drop(d.runtimes, {q.id})
           e == Cat(R, M, d.pipelines)
<1>1. {q.id, q.new} \subseteq DOMAIN d.runtimes
  BY DEF ReplaceRuntimeAndDelete
<1>2. ReplaceRuntimeAndDelete(d, q) = e
  <2>1. ReplaceRuntimeAndDelete(d, q) = [d EXCEPT !.models = M, !.runtimes = R]
    BY <1>1 DEF ReplaceRuntimeAndDelete
  <2> HIDE DEF M, R
  <2> QED  BY <2>1 DEF IsCatalogue, Tables, Cat
<1>3. /\ Table(R, RuntimeIds, RuntimeEntries) /\ DOMAIN R = DOMAIN d.runtimes \ {q.id}
      /\ \A r \in DOMAIN R : R[r] = d.runtimes[r]
  <2>1. Table(d.runtimes, RuntimeIds, RuntimeEntries)
    BY CatOf
  <2>2. /\ Table(R, RuntimeIds, RuntimeEntries) /\ DOMAIN R = DOMAIN d.runtimes \ {q.id}
        /\ \A r \in DOMAIN d.runtimes \ {q.id} : R[r] = d.runtimes[r]
    BY <2>1, TableDrop, Zenon
  <2> QED  BY <2>2, Zenon
<1>4. ASSUME NEW m \in DOMAIN d.models
      PROVE  /\ M[m] \in ModelEntries
             /\ M[m].runtime = IF d.models[m].runtime = q.id THEN q.new ELSE d.models[m].runtime
  <2>1. d.models[m] \in ModelEntries /\ q.new \in RuntimeIds
    BY <1>1, CatOf DEF Table
  <2> QED  BY <2>1 DEF ModelEntries, Users
<1>5. DOMAIN M = DOMAIN d.models /\ Table(M, ModelIds, ModelEntries)
  <2>1. DOMAIN M = DOMAIN d.models /\ DOMAIN d.models \subseteq ModelIds
    BY CatOf DEF Table
  <2>2. M = [m \in DOMAIN d.models |-> M[m]]
    OBVIOUS
  <2> HIDE DEF M
  <2> QED  BY <1>4, <2>1, <2>2 DEF Table
<1> HIDE DEF M, R
<1>6. IsCatalogue(e)
  BY <1>3, <1>5, CatOf, CatTyped
<1>7. e.runtimes = R /\ e.models = M /\ e.pipelines = d.pipelines
  BY DEF Cat
<1> HIDE DEF e
<1>8. ASSUME q.id # q.new PROVE Dangling(e) \subseteq Dangling(d)
  <2>1. \A m \in DOMAIN M : M[m].runtime \notin DOMAIN R =>
           M[m].runtime = d.models[m].runtime /\ d.models[m].runtime \notin DOMAIN d.runtimes
    BY <1>1, <1>3, <1>4, <1>5, <1>8
  <2> QED  BY <1>5, <1>7, <2>1, DanglingWithin
<1>9. NameClashes(e) \subseteq NameClashes(d)
  BY <1>3, <1>7, FewerRuntimes
<1> QED  BY <1>2, <1>6, <1>8, <1>9 DEF Good, Sound

LEMMA CascadeGood ==
    ASSUME NEW d, IsCatalogue(d), NEW q, IsRequest(q), q.kind = "cascadeRuntime",
           CascadeDeleteRuntimeAndModels(d, q) # Missing
    PROVE  Good(d, q, CascadeDeleteRuntimeAndModels(d, q))
<1> DEFINE R == Drop(d.runtimes, {q.id})
           M == Drop(d.models, Users(d, q.id))
           e == Cat(R, M, d.pipelines)
<1>1. CascadeDeleteRuntimeAndModels(d, q) = e
  <2>1. CascadeDeleteRuntimeAndModels(d, q) = [d EXCEPT !.models = M, !.runtimes = R]
    BY DEF CascadeDeleteRuntimeAndModels
  <2> HIDE DEF M, R
  <2> QED  BY <2>1 DEF IsCatalogue, Tables, Cat
<1>2. /\ Table(R, RuntimeIds, RuntimeEntries) /\ DOMAIN R = DOMAIN d.runtimes \ {q.id}
      /\ \A r \in DOMAIN R : R[r] = d.runtimes[r]
      /\ Table(M, ModelIds, ModelEntries)
  <2>1. Table(d.runtimes, RuntimeIds, RuntimeEntries) /\ Table(d.models, ModelIds, ModelEntries)
    BY CatOf
  <2>2. /\ Table(R, RuntimeIds, RuntimeEntries) /\ DOMAIN R = DOMAIN d.runtimes \ {q.id}
        /\ \A r \in DOMAIN d.runtimes \ {q.id} : R[r] = d.runtimes[r]
        /\ Table(M, ModelIds, ModelEntries)
    BY <2>1, TableDrop, Zenon
  <2> QED  BY <2>2, Zenon
<1> HIDE DEF R, M
<1>3. IsCatalogue(e)
  BY <1>2, CatOf, CatTyped
<1>4. e.runtimes = R
  BY DEF Cat
<1> HIDE DEF e
<1>5. NameClashes(e) \subseteq NameClashes(d)
  BY <1>2, <1>4, FewerRuntimes
<1> QED  BY <1>1, <1>3, <1>5 DEF Good, Sound

\* Runtimes that stay have no new clashes.
LEMMA SameRuntimes ==
    ASSUME NEW d, IsCatalogue(d), NEW m, NEW p, Table(m, ModelIds, ModelEntries),
           Table(p, PipelineIds, CataloguePipelines)
    PROVE  /\ IsCatalogue(Cat(d.runtimes, m, p))
           /\ NameClashes(Cat(d.runtimes, m, p)) \subseteq NameClashes(d)
<1>1. IsCatalogue(Cat(d.runtimes, m, p))
  BY CatOf, CatTyped
<1>2. Cat(d.runtimes, m, p).runtimes = d.runtimes
  BY DEF Cat
<1> QED  BY <1>1, <1>2 DEF NameClashes

LEMMA CreateModelGood ==
    ASSUME NEW d, IsCatalogue(d), NEW q, IsRequest(q), q.kind = "createModel",
           CreateModel(d, q) # Missing
    PROVE  Good(d, q, CreateModel(d, q))
<1> DEFINE M == Put(d.models, q.id, q.rec)
           e == Cat(d.runtimes, M, d.pipelines)
<1>1. q.id \in ModelIds /\ q.rec \in ModelEntries /\ q.id \notin DOMAIN d.models
  BY RequestFields DEF CreateModel
<1>2. CreateModel(d, q) = e
  BY <1>1, CatExcept DEF CreateModel
<1>3. Table(M, ModelIds, ModelEntries) /\ Table(d.pipelines, PipelineIds, CataloguePipelines)
  <2>1. Table(d.models, ModelIds, ModelEntries) /\ Table(d.pipelines, PipelineIds, CataloguePipelines)
    BY CatOf
  <2> QED  BY <1>1, <2>1, TablePut
<1> HIDE DEF M
<1> QED  BY <1>2, <1>3, SameRuntimes DEF Good, Sound

\* The three mutations that change one field of a model.
LEMMA ModelGood ==
    ASSUME NEW d, IsCatalogue(d), NEW q, q.kind \in {"patchModel", "patchModelEnv", "activateModel"},
           q.id \in DOMAIN d.models, NEW x \in ModelEntries
    PROVE  Good(d, q, [d EXCEPT !.models[q.id] = x])
<1> DEFINE M == [d.models EXCEPT ![q.id] = x]
<1>1. [d EXCEPT !.models[q.id] = x] = Cat(d.runtimes, M, d.pipelines)
  <2>1. [d EXCEPT !.models[q.id] = x] = [d EXCEPT !.models = M]
    OBVIOUS
  <2> QED  BY <2>1, CatExcept
<1>2. Table(M, ModelIds, ModelEntries) /\ Table(d.pipelines, PipelineIds, CataloguePipelines)
  <2>1. Table(d.models, ModelIds, ModelEntries) /\ Table(d.pipelines, PipelineIds, CataloguePipelines)
    BY CatOf
  <2> QED  BY <2>1, TableExcept
<1> HIDE DEF M
<1> QED  BY <1>1, <1>2, SameRuntimes DEF Good, Sound

LEMMA PatchModelGood ==
    ASSUME NEW d, IsCatalogue(d), NEW q, IsRequest(q), q.kind = "patchModel",
           PatchModel(d, q) # Missing
    PROVE  Good(d, q, PatchModel(d, q))
<1> DEFINE x == [d.models[q.id] EXCEPT !.runtime = q.runtime]
<1>1. q.id \in DOMAIN d.models /\ q.runtime \in RuntimeIds
  BY RequestFields DEF PatchModel
<1>2. x \in ModelEntries
  <2>1. d.models[q.id] \in ModelEntries
    BY <1>1, CatOf DEF Table
  <2> QED  BY <1>1, <2>1 DEF ModelEntries
<1>3. PatchModel(d, q) = [d EXCEPT !.models[q.id] = x]
  BY <1>1 DEF PatchModel
<1> HIDE DEF x
<1> QED  BY <1>1, <1>2, <1>3, ModelGood

LEMMA PatchModelEnvGood ==
    ASSUME NEW d, IsCatalogue(d), NEW q, IsRequest(q), q.kind = "patchModelEnv",
           PatchModelEnv(d, q) # Missing
    PROVE  Good(d, q, PatchModelEnv(d, q))
<1> DEFINE x == [d.models[q.id] EXCEPT !.env = q.env]
<1>1. q.id \in DOMAIN d.models /\ q.env \in Envs
  BY RequestFields DEF PatchModelEnv
<1>2. x \in ModelEntries
  <2>1. d.models[q.id] \in ModelEntries
    BY <1>1, CatOf DEF Table
  <2> QED  BY <1>1, <2>1 DEF ModelEntries
<1>3. PatchModelEnv(d, q) = [d EXCEPT !.models[q.id] = x]
  BY <1>1 DEF PatchModelEnv
<1> HIDE DEF x
<1> QED  BY <1>1, <1>2, <1>3, ModelGood

LEMMA UpdateModelGood ==
    ASSUME NEW d, IsCatalogue(d), NEW q, IsRequest(q), q.kind = "activateModel",
           NEW seen, IsCatalogue(seen), q.id \in DOMAIN seen.models,
           UpdateModel(d, q, seen) # Missing
    PROVE  Good(d, q, UpdateModel(d, q, seen))
<1> DEFINE y == seen.models[q.id]
           x == [y EXCEPT !.body.active = q.active]
<1>1. q.id \in DOMAIN d.models /\ q.active \in BOOLEAN
  BY RequestFields DEF UpdateModel
<1>2. x \in ModelEntries
  <2>1. y \in ModelEntries
    BY CatOf DEF Table
  <2> HIDE DEF y
  <2>2. y.body \in ModelBodies
    BY <2>1 DEF ModelEntries
  <2>3. [y.body EXCEPT !.active = q.active] \in ModelBodies
    BY <1>1, <2>2 DEF ModelBodies
  <2>4. x = [y EXCEPT !.body = [y.body EXCEPT !.active = q.active]]
    OBVIOUS
  <2> QED  BY <2>1, <2>3, <2>4 DEF ModelEntries
<1>3. UpdateModel(d, q, seen) = [d EXCEPT !.models[q.id] = x]
  BY <1>1 DEF UpdateModel
<1> HIDE DEF x
<1> QED  BY <1>1, <1>2, <1>3, ModelGood

LEMMA DeleteModelGood ==
    ASSUME NEW d, IsCatalogue(d), NEW q, IsRequest(q), q.kind = "deleteModel",
           DeleteModel(d, q) # Missing
    PROVE  Good(d, q, DeleteModel(d, q))
<1> DEFINE M == Drop(d.models, {q.id})
           e == Cat(d.runtimes, M, d.pipelines)
<1>1. DeleteModel(d, q) = e
  BY CatExcept DEF DeleteModel
<1>2. /\ Table(M, ModelIds, ModelEntries) /\ DOMAIN M = DOMAIN d.models \ {q.id}
      /\ \A m \in DOMAIN d.models \ {q.id} : M[m] = d.models[m]
      /\ Table(d.pipelines, PipelineIds, CataloguePipelines)
  <2>1. Table(d.models, ModelIds, ModelEntries) /\ Table(d.pipelines, PipelineIds, CataloguePipelines)
    BY CatOf
  <2> QED  BY <2>1, TableDrop, Zenon
<1> HIDE DEF M
<1>3. IsCatalogue(e) /\ NameClashes(e) \subseteq NameClashes(d)
  BY <1>2, SameRuntimes
<1>4. e.runtimes = d.runtimes /\ e.models = M /\ e.pipelines = d.pipelines
  BY DEF Cat
<1> HIDE DEF e
<1>5. ASSUME Accepted(d, q) PROVE Dangling(e) \subseteq Dangling(d)
  <2>1. Referencing(d, q.id) = {}
    BY <1>5 DEF Accepted, MayDeleteModel
  <2>2. \A p \in DOMAIN d.pipelines : \A i \in DOMAIN d.pipelines[p].entries :
           d.pipelines[p].entries[i].model # q.id
    BY <2>1 DEF Referencing, Range
  <2> QED  BY <1>2, <1>4, <2>2, DanglingWithin
<1> QED  BY <1>1, <1>3, <1>5 DEF Good, Sound

-----------------------------------------------------------------------------
\* A finite set of numbers has a largest.
LEMMA MaxExists ==
    ASSUME NEW S, S \subseteq Nat, IsFiniteSet(S), S # {}
    PROVE  Max(S) \in S /\ \A y \in S : Max(S) >= y
<1> DEFINE HasMax(U) == \E x \in U : \A y \in U : x >= y
           T == {n \in Nat : \E U \in SUBSET S : U # {} /\ Cardinality(U) = n /\ ~HasMax(U)}
           R == {ss \in Nat \X Nat : ss[1] < ss[2]}
<1>1. T = {}
  <2> SUFFICES ASSUME T # {} PROVE FALSE
    OBVIOUS
  <2>1. IsWellFoundedOn(R, Nat)
    BY NatLessThanWellFounded DEF OpToRel
  <2>2. T \subseteq Nat
    OBVIOUS
  <2>3. PICK n \in T : \A m \in T : ~(<<m, n>> \in R)
    <3> HIDE DEF T, R
    <3> QED  BY <2>1, <2>2, WFMin
  <2>4. PICK U \in SUBSET S : U # {} /\ Cardinality(U) = n /\ ~HasMax(U)
    OBVIOUS
  <2>5. PICK x \in U : TRUE
    BY <2>4
  <2> DEFINE V == U \ {x}
  <2>6. IsFiniteSet(U)
    BY FS_Subset
  <2>7. IsFiniteSet(V) /\ Cardinality(V) = n - 1 /\ n \in Nat
    BY <2>4, <2>6, FS_RemoveElement, FS_CardinalityType
  <2>8. n - 1 \in Nat
    BY <2>7, FS_CardinalityType
  <2>9. n - 1 \notin T
    <3>1. <<n - 1, n>> \in R
      BY <2>7, <2>8
    <3> HIDE DEF T, R
    <3> QED  BY <2>3, <3>1
  <2>10. V # {}
    <3> SUFFICES ASSUME V = {} PROVE FALSE
      OBVIOUS
    <3>1. x \in Nat /\ U = {x}
      BY <2>5
    <3>2. x >= x
      BY <3>1
    <3> QED  BY <2>4, <3>1, <3>2
  <2>11. HasMax(V)
    BY <2>7, <2>8, <2>9, <2>10
  <2>12. PICK m \in V : \A y \in V : m >= y
    BY <2>11
  <2>13. x \in Nat /\ m \in Nat /\ U \subseteq Nat
    OBVIOUS
  <2>14. CASE m >= x
    <3>1. \A y \in U : m >= y
      BY <2>12, <2>14
    <3> QED  BY <2>4, <3>1
  <2>15. CASE ~(m >= x)
    <3>1. \A y \in U : x >= y
      BY <2>12, <2>13, <2>15
    <3> QED  BY <2>4, <3>1
  <2> QED  BY <2>14, <2>15
<1>2. Cardinality(S) \in Nat
  BY FS_CardinalityType
<1>3. HasMax(S)
  BY <1>1, <1>2
<1> QED  BY <1>3 DEF Max

\* Entries keep their models and get identities above all that are in use.
LEMMA IdentifiedTyped ==
    ASSUME NEW p \in PipelineIds, NEW base \in Nat,
           NEW es \in Seq([id : EntryIds \cup {NoId}, model : ModelIds]),
           DistinctIds(es),
           \A i \in DOMAIN es : es[i].id # NoId => base >= es[i].id[2]
    PROVE  /\ Identified(p, es, base) \in Seq([id : EntryIds, model : ModelIds])
           /\ DistinctIds(Identified(p, es, base))
           /\ DOMAIN Identified(p, es, base) = DOMAIN es
           /\ \A i \in DOMAIN es : Identified(p, es, base)[i].model = es[i].model
<1> DEFINE s == Identified(p, es, base)
           n == Len(es)
<1>1. n \in Nat /\ DOMAIN es = 1 .. n
  BY LenProperties
<1>2. ASSUME NEW i \in DOMAIN es
      PROVE  /\ s[i] \in [id : EntryIds, model : ModelIds] /\ s[i].model = es[i].model
             /\ s[i].id = IF es[i].id = NoId THEN <<p, base + i>> ELSE es[i].id
             /\ es[i].id \in EntryIds \cup {NoId}
  <2>1. es[i] \in [id : EntryIds \cup {NoId}, model : ModelIds]
    BY <1>1, ElementOfSeq
  <2>2. <<p, base + i>> \in EntryIds
    BY <1>1 DEF EntryIds
  <2>3. s[i] = IF es[i].id = NoId THEN [es[i] EXCEPT !.id = <<p, base + i>>] ELSE es[i]
    BY DEF Identified
  <2> QED  BY <2>1, <2>2, <2>3
<1>3. s = [i \in 1 .. n |-> s[i]]
  BY <1>1 DEF Identified
<1> HIDE DEF s
<1>4. s \in [1 .. n -> [id : EntryIds, model : ModelIds]]
  BY <1>1, <1>2, <1>3
<1>5. s \in Seq([id : EntryIds, model : ModelIds]) /\ DOMAIN s = DOMAIN es
  <2> DEFINE E == [id : EntryIds, model : ModelIds]
  <2>1. s \in [1 .. n -> E] /\ n \in Nat
    BY <1>1, <1>4
  <2> HIDE DEF E, n
  <2>2. s \in Seq(E) /\ DOMAIN s = 1 .. n
    BY <2>1
  <2> QED  BY <1>1, <2>2 DEF E, n
<1>6. ASSUME NEW i \in DOMAIN es, NEW j \in DOMAIN es, s[i].id = s[j].id
      PROVE  i = j
  <2>0. i \in Nat /\ j \in Nat /\ i > 0 /\ j > 0
    BY <1>1
  <2>1. CASE es[i].id = NoId /\ es[j].id = NoId
    <3>1. <<p, base + i>> = <<p, base + j>>
      BY <1>2, <1>6, <2>1
    <3>2. base + i = base + j
      BY <3>1
    <3> QED  BY <2>0, <3>2
  <2>2. ASSUME NEW x \in DOMAIN es, NEW y \in DOMAIN es, s[x].id = s[y].id,
               es[x].id = NoId, es[y].id # NoId, x \in Nat, x > 0
        PROVE  FALSE
    <3>1. es[y].id = <<p, base + x>>
      BY <1>2, <2>2
    <3>2. es[y].id[2] = base + x
      BY <3>1
    <3>3. base >= base + x
      BY <2>2, <3>2
    <3> QED  BY <2>2, <3>3
  <2>3. CASE es[i].id # NoId /\ es[j].id # NoId
    BY <1>2, <1>6, <2>3 DEF DistinctIds
  <2> QED  BY <1>6, <2>0, <2>1, <2>2, <2>3
<1>7. DistinctIds(s)
  BY <1>5, <1>6 DEF DistinctIds
<1> QED  BY <1>2, <1>5, <1>7 DEF s

\* Entries that have none yet.
LEMMA UnidentifiedEntries ==
    ASSUME NEW es \in Seq([id : {NoId}, model : ModelIds])
    PROVE  /\ \A i \in DOMAIN es : es[i].id = NoId
           /\ es \in Seq([id : EntryIds \cup {NoId}, model : ModelIds])
<1> DEFINE E == [id : {NoId}, model : ModelIds]
           F == [id : EntryIds \cup {NoId}, model : ModelIds]
<1>1. \A i \in DOMAIN es : es[i] \in E
  BY LenProperties, ZenonT(40)
<1>2. E \subseteq F
  OBVIOUS
<1>3. es \in Seq(E)
  OBVIOUS
<1>4. \A i \in DOMAIN es : es[i].id = NoId
  BY <1>1
<1> HIDE DEF E, F
<1>5. es \in Seq(F)
  BY <1>2, <1>3, SeqMonotonic
<1> QED  BY <1>4, <1>5 DEF F

\* Entries that all have an identity stay as they are.
LEMMA IdentifiedSame ==
    ASSUME NEW p, NEW base, NEW es \in Seq([id : EntryIds, model : ModelIds])
    PROVE  Identified(p, es, base) = es
<1>1. DOMAIN es = 1 .. Len(es) /\ es = [i \in DOMAIN es |-> es[i]]
  BY LenProperties
<1>2. ASSUME NEW i \in DOMAIN es PROVE es[i].id # NoId
  <2>1. es[i] \in [id : EntryIds, model : ModelIds]
    BY <1>1, ElementOfSeq
  <2> QED  BY <2>1, CatalogueAssumption DEF CatalogueAssumption
<1>3. Identified(p, es, base) = [i \in DOMAIN es |-> es[i]]
  BY <1>2 DEF Identified
<1> QED  BY <1>1, <1>3

\* The entries of a sequence are finitely many.
LEMMA RangeFinite ==
    ASSUME NEW S, NEW s \in Seq(S)
    PROVE  IsFiniteSet(Range(s)) /\ Range(s) \subseteq S
<1>1. Len(s) \in Nat /\ DOMAIN s = 1 .. Len(s) /\ s = [i \in DOMAIN s |-> s[i]]
  BY LenProperties
<1>2. Range(s) = {s[i] : i \in DOMAIN s}
  BY DEF Range
<1>3. s \in Surjection(DOMAIN s, Range(s))
  BY <1>1, <1>2 DEF Surjection
<1>4. IsFiniteSet(DOMAIN s)
  <2> DEFINE n == Len(s)
  <2>0. 1 \in Int /\ n \in Int
    BY <1>1
  <2> HIDE DEF n
  <2>1. IsFiniteSet(1 .. n)
    BY <2>0, FS_Interval
  <2> QED  BY <1>1, <2>1 DEF n
<1>5. \A i \in DOMAIN s : s[i] \in S
  <2>1. s \in [1 .. Len(s) -> S]
    BY LenProperties
  <2> QED  BY <2>1
<1> QED  BY <1>2, <1>3, <1>4, <1>5, FS_Surjection

LEMMA UsedIdsBound ==
    ASSUME NEW d, IsCatalogue(d), NEW q, q.rec \in PipelineEntries(EntryIds \cup {NoId})
    PROVE  /\ UsedIds(d, q) \in Nat
           /\ \A i \in DOMAIN q.rec.entries :
                 q.rec.entries[i].id # NoId => UsedIds(d, q) >= q.rec.entries[i].id[2]
<1> DEFINE E == [id : EntryIds \cup {NoId}, model : ModelIds]
           stored == IF q.id \in DOMAIN d.pipelines THEN d.pipelines[q.id].entries ELSE <<>>
           own == q.rec.entries
           used == {e \in Range(stored) \cup Range(own) : e.id # NoId}
           num == [e \in used |-> e.id[2]]
           S == {e.id[2] : e \in used}
           N == {0} \cup S
<1>1. own \in Seq(E)
  BY DEF PipelineEntries
<1>2. stored \in Seq(E)
  <2>1. CASE q.id \in DOMAIN d.pipelines
    <3>1. d.pipelines[q.id] \in CataloguePipelines
      BY <2>1, CatOf DEF Table
    <3>2. d.pipelines[q.id].entries \in Seq([id : EntryIds, model : ModelIds])
      BY <3>1 DEF CataloguePipelines, PipelineEntries
    <3>3. [id : EntryIds, model : ModelIds] \subseteq E
      OBVIOUS
    <3> HIDE DEF E
    <3>4. d.pipelines[q.id].entries \in Seq(E)
      BY <3>2, <3>3, SeqMonotonic
    <3> QED  BY <2>1, <3>4
  <2>2. CASE q.id \notin DOMAIN d.pipelines
    BY <2>2
  <2> QED  BY <2>1, <2>2
<1>3. UsedIds(d, q) = Max(N)
  BY DEF UsedIds
<1> HIDE DEF E, stored
<1>4. /\ IsFiniteSet(Range(stored) \cup Range(own))
      /\ Range(stored) \cup Range(own) \subseteq E
  BY <1>1, <1>2, RangeFinite, FS_Union
<1>5. IsFiniteSet(used) /\ used \subseteq E
  BY <1>4, FS_Subset
<1>6. \A e \in used : e.id[2] \in Nat
  BY <1>5 DEF E, EntryIds
<1>7. S = {num[e] : e \in used} /\ S \subseteq Nat
  BY <1>6
<1>8. num \in Surjection(used, S)
  BY <1>7 DEF Surjection
<1>9. \A i \in DOMAIN own : own[i].id # NoId => own[i].id[2] \in S
  <2>1. \A i \in DOMAIN own : own[i] \in Range(own)
    BY DEF Range
  <2> QED  BY <2>1
<1> HIDE DEF used, num, S, own
<1>10. IsFiniteSet(S)
  BY <1>5, <1>8, FS_Surjection
<1>11. IsFiniteSet(N)
  BY <1>10, FS_Singleton, FS_Union
<1>12. N \subseteq Nat /\ N # {} /\ S \subseteq N
  BY <1>7
<1> HIDE DEF N
<1>13. Max(N) \in Nat /\ \A y \in N : Max(N) >= y
  BY <1>11, <1>12, MaxExists
<1> QED  BY <1>3, <1>9, <1>12, <1>13 DEF own

\* Entries with the models of others.
SameModels(x, y) ==
    /\ DOMAIN x.entries = DOMAIN y.entries
    /\ \A i \in DOMAIN y.entries : x.entries[i].model = y.entries[i].model

LEMMA Allocated ==
    ASSUME NEW d, IsCatalogue(d), NEW q, q.id \in PipelineIds,
           q.rec \in PipelineEntries(EntryIds \cup {NoId}), DistinctIds(q.rec.entries)
    PROVE  /\ WithEntryIds(d, q) \in CataloguePipelines
           /\ SameModels(WithEntryIds(d, q), q.rec)
<1> DEFINE es == Identified(q.id, q.rec.entries, UsedIds(d, q))
<1>1. q.rec.entries \in Seq([id : EntryIds \cup {NoId}, model : ModelIds])
  BY DEF PipelineEntries
<1>2. /\ es \in Seq([id : EntryIds, model : ModelIds])
      /\ DistinctIds(es)
      /\ DOMAIN es = DOMAIN q.rec.entries
      /\ \A i \in DOMAIN q.rec.entries : es[i].model = q.rec.entries[i].model
  BY <1>1, UsedIdsBound, IdentifiedTyped
<1>3. WithEntryIds(d, q) = [q.rec EXCEPT !.entries = es]
  BY DEF WithEntryIds
<1> HIDE DEF es
<1> QED  BY <1>2, <1>3 DEF PipelineEntries, CataloguePipelines, SameModels

\* A pipeline with known models only is stored.
LEMMA StoredPipeline ==
    ASSUME NEW d, IsCatalogue(d), NEW q, NEW P, Table(P, PipelineIds, CataloguePipelines),
           P[q.id] = WithEntryIds(d, q), q.id \in PipelineIds,
           q.rec \in PipelineEntries(EntryIds \cup {NoId}), DistinctIds(q.rec.entries),
           \A x \in DOMAIN P \ {q.id} : x \in DOMAIN d.pipelines /\ P[x] = d.pipelines[x]
    PROVE  LET e == Cat(d.runtimes, d.models, P)
           IN  /\ IsCatalogue(e)
               /\ NameClashes(e) \subseteq NameClashes(d)
               /\ ValidatePipelineEntry(d, q.rec) => Dangling(e) \subseteq Dangling(d)
<1> DEFINE e == Cat(d.runtimes, d.models, P)
<1>1. IsCatalogue(e) /\ NameClashes(e) \subseteq NameClashes(d)
  BY CatOf, SameRuntimes
<1>2. e.runtimes = d.runtimes /\ e.models = d.models /\ e.pipelines = P
  BY DEF Cat
<1> HIDE DEF e
<1>3. ASSUME ValidatePipelineEntry(d, q.rec) PROVE Dangling(e) \subseteq Dangling(d)
  <2>1. \A i \in DOMAIN q.rec.entries : q.rec.entries[i].model \in DOMAIN d.models
    BY <1>3 DEF ValidatePipelineEntry, Range
  <2>2. \A i \in DOMAIN P[q.id].entries : P[q.id].entries[i].model \in DOMAIN d.models
    <3>1. SameModels(P[q.id], q.rec)
      BY Allocated
    <3> QED  BY <2>1, <3>1 DEF SameModels
  <2> QED  BY <1>2, <2>2, DanglingWithin
<1> QED  BY <1>1, <1>3 DEF e

LEMMA CreatePipelineGood ==
    ASSUME NEW d, IsCatalogue(d), NEW q, IsRequest(q), q.kind = "createPipeline",
           CreatePipeline(d, q) # Missing
    PROVE  Good(d, q, CreatePipeline(d, q))
<1> DEFINE P == Put(d.pipelines, q.id, WithEntryIds(d, q))
<1>1. /\ q.id \in PipelineIds /\ q.rec \in PipelineEntries(EntryIds \cup {NoId})
      /\ q.id \notin DOMAIN d.pipelines /\ DistinctIds(q.rec.entries)
  <2>1. /\ q.id \in PipelineIds /\ q.rec \in PipelineEntries(EntryIds \cup {NoId})
        /\ q.id \notin DOMAIN d.pipelines /\ q.rec \in PipelineEntries({NoId})
    BY RequestFields DEF CreatePipeline
  <2>2. q.rec.entries \in Seq([id : {NoId}, model : ModelIds])
    BY <2>1 DEF PipelineEntries
  <2>3. \A i \in DOMAIN q.rec.entries : q.rec.entries[i].id = NoId
    BY <2>2, UnidentifiedEntries
  <2> QED  BY <2>1, <2>3 DEF DistinctIds
<1>2. CreatePipeline(d, q) = Cat(d.runtimes, d.models, P)
  BY <1>1, CatExcept DEF CreatePipeline
<1>3. Table(P, PipelineIds, CataloguePipelines)
  <2>1. WithEntryIds(d, q) \in CataloguePipelines
    BY <1>1, Allocated
  <2>2. Table(d.pipelines, PipelineIds, CataloguePipelines)
    BY CatOf
  <2> QED  BY <1>1, <2>1, <2>2, TablePut
<1>4. /\ P[q.id] = WithEntryIds(d, q)
      /\ \A x \in DOMAIN P \ {q.id} : x \in DOMAIN d.pipelines /\ P[x] = d.pipelines[x]
  BY DEF Put
<1> HIDE DEF P
<1>5. Accepted(d, q) => ValidatePipelineEntry(d, q.rec)
  BY DEF Accepted
<1> QED  BY <1>1, <1>2, <1>3, <1>4, <1>5, StoredPipeline DEF Good, Sound

LEMMA UpdatePipelineGood ==
    ASSUME NEW d, IsCatalogue(d), NEW q, IsRequest(q), q.kind = "updatePipeline",
           DistinctIds(q.rec.entries), UpdatePipeline(d, q) # Missing
    PROVE  Good(d, q, UpdatePipeline(d, q))
<1> DEFINE P == [d.pipelines EXCEPT ![q.id] = WithEntryIds(d, q)]
<1>1. /\ q.id \in PipelineIds /\ q.rec \in PipelineEntries(EntryIds \cup {NoId})
      /\ q.id \in DOMAIN d.pipelines
  BY RequestFields DEF UpdatePipeline
<1>2. UpdatePipeline(d, q) = Cat(d.runtimes, d.models, P)
  <2>1. UpdatePipeline(d, q) = [d EXCEPT !.pipelines = P]
    BY <1>1 DEF UpdatePipeline
  <2> QED  BY <2>1, CatExcept
<1>3. /\ Table(P, PipelineIds, CataloguePipelines)
      /\ P[q.id] = WithEntryIds(d, q)
      /\ \A x \in DOMAIN P \ {q.id} : x \in DOMAIN d.pipelines /\ P[x] = d.pipelines[x]
  <2>1. WithEntryIds(d, q) \in CataloguePipelines
    BY <1>1, Allocated
  <2>2. Table(d.pipelines, PipelineIds, CataloguePipelines)
    BY CatOf
  <2> QED  BY <1>1, <2>1, <2>2, TableExcept
<1> HIDE DEF P
<1>5. Accepted(d, q) => ValidatePipelineEntry(d, q.rec)
  BY DEF Accepted, MayUpdatePipeline
<1> QED  BY <1>1, <1>2, <1>3, <1>5, StoredPipeline DEF Good, Sound

LEMMA DeletePipelineGood ==
    ASSUME NEW d, IsCatalogue(d), NEW q, IsRequest(q), q.kind = "deletePipeline",
           DeletePipeline(d, q) # Missing
    PROVE  Good(d, q, DeletePipeline(d, q))
<1> DEFINE P == Drop(d.pipelines, {q.id})
<1>1. DeletePipeline(d, q) = Cat(d.runtimes, d.models, P)
  BY CatExcept DEF DeletePipeline
<1>2. Table(d.models, ModelIds, ModelEntries) /\ Table(P, PipelineIds, CataloguePipelines)
  <2>1. Table(d.models, ModelIds, ModelEntries) /\ Table(d.pipelines, PipelineIds, CataloguePipelines)
    BY CatOf
  <2> QED  BY <2>1, TableDrop, Zenon
<1> HIDE DEF P
<1> QED  BY <1>1, <1>2, SameRuntimes DEF Good, Sound

-----------------------------------------------------------------------------
LEMMA OverlayTable ==
    ASSUME NEW f, NEW ids, NEW R, Table(f, ids, R), NEW Q, NEW V,
           \A x \in DOMAIN V : x \in ids /\ Q[x] \in R
    PROVE  Table(Overlay(f, Q, V), ids, R)
<1> DEFINE O == Overlay(f, Q, V)
<1>1. /\ DOMAIN O = DOMAIN f \cup {x \in DOMAIN V : V[x] = "new"}
      /\ O = [x \in DOMAIN O |-> O[x]]
      /\ \A x \in DOMAIN O : O[x] = IF x \in DOMAIN V /\ V[x] \in {"new", "update"}
                                    THEN Q[x] ELSE f[x]
  BY DEF Overlay
<1> HIDE DEF O
<1>2. DOMAIN O \subseteq ids
  BY <1>1 DEF Table
<1>3. \A x \in DOMAIN O : O[x] \in R
  BY <1>1 DEF Table
<1> QED  BY <1>1, <1>2, <1>3 DEF Table, O

\* The environments of what an import writes.
LEMMA KeptEnvTyped ==
    ASSUME NEW f, NEW id, \A x \in DOMAIN f : f[x].env \in Envs
    PROVE  KeptEnv(f, id) \in Envs
  BY CatalogueAssumption DEF KeptEnv, CatalogueAssumption

LEMMA BundleTables ==
    ASSUME NEW b, IsBundle(b)
    PROVE  /\ Table(b.runtimes, RuntimeIds, [name : Names, body : Bodies])
           /\ Table(b.models, ModelIds, [runtime : RuntimeIds, body : ModelBodies])
           /\ Table(b.pipelines, PipelineIds, PipelineEntries(EntryIds))
  BY DEF IsBundle, Tables

\* What a plan composes is a catalogue.
LEMMA AppliedTyped ==
    ASSUME NEW d, IsCatalogue(d), NEW b, IsBundle(b), ValidBundle(b)
    PROVE  IsCatalogue(Applied(d, b))
<1> DEFINE VR == Plan(d, b).runtimes
           VM == Plan(d, b).models
           VP == Plan(d, b).pipelines
           QR == RestoredRuntimes(d, b)
           QM == RestoredModels(d, b)
<1>1. Applied(d, b) = Cat(Overlay(d.runtimes, QR, VR), Overlay(d.models, QM, VM),
                          Overlay(d.pipelines, b.pipelines, VP))
  BY DEF Applied, Cat
<1>2. /\ DOMAIN VR = DOMAIN b.runtimes /\ DOMAIN VM = DOMAIN b.models
      /\ DOMAIN VP = DOMAIN b.pipelines
  BY DEF Plan
<1> HIDE DEF VR, VM, VP
<1>3. \A x \in DOMAIN VR : x \in RuntimeIds /\ QR[x] \in RuntimeEntries
  <2> SUFFICES ASSUME NEW x \in DOMAIN b.runtimes
               PROVE  x \in RuntimeIds /\ QR[x] \in RuntimeEntries
    BY <1>2
  <2>1. x \in RuntimeIds /\ b.runtimes[x] \in [name : Names, body : Bodies]
    BY BundleTables DEF Table
  <2>2. KeptEnv(d.runtimes, x) \in Envs
    <3>1. \A r \in DOMAIN d.runtimes : d.runtimes[r] \in RuntimeEntries
      BY CatOf DEF Table
    <3> QED  BY <3>1, KeptEnvTyped DEF RuntimeEntries
  <2>3. QR[x] = [name |-> b.runtimes[x].name, body |-> b.runtimes[x].body,
                 env |-> KeptEnv(d.runtimes, x)]
    BY DEF RestoredRuntimes
  <2> QED  BY <2>1, <2>2, <2>3 DEF RuntimeEntries
<1>4. \A x \in DOMAIN VM : x \in ModelIds /\ QM[x] \in ModelEntries
  <2> SUFFICES ASSUME NEW x \in DOMAIN b.models
               PROVE  x \in ModelIds /\ QM[x] \in ModelEntries
    BY <1>2
  <2>1. x \in ModelIds /\ b.models[x] \in [runtime : RuntimeIds, body : ModelBodies]
    BY BundleTables DEF Table
  <2>2. KeptEnv(d.models, x) \in Envs
    <3>1. \A r \in DOMAIN d.models : d.models[r] \in ModelEntries
      BY CatOf DEF Table
    <3> QED  BY <3>1, KeptEnvTyped DEF ModelEntries
  <2>3. QM[x] = [runtime |-> b.models[x].runtime, body |-> b.models[x].body,
                 env |-> KeptEnv(d.models, x)]
    BY DEF RestoredModels
  <2> QED  BY <2>1, <2>2, <2>3 DEF ModelEntries
<1>5. \A x \in DOMAIN VP : x \in PipelineIds /\ b.pipelines[x] \in CataloguePipelines
  <2> SUFFICES ASSUME NEW x \in DOMAIN b.pipelines
               PROVE  x \in PipelineIds /\ b.pipelines[x] \in CataloguePipelines
    BY <1>2
  <2>1. x \in PipelineIds /\ b.pipelines[x] \in PipelineEntries(EntryIds)
    BY BundleTables DEF Table
  <2>2. DistinctIds(b.pipelines[x].entries)
    BY DEF ValidBundle, DistinctIds
  <2> QED  BY <2>1, <2>2 DEF CataloguePipelines
<1> HIDE DEF QR, QM
<1>6. Table(Overlay(d.runtimes, QR, VR), RuntimeIds, RuntimeEntries)
  BY <1>3, CatOf, OverlayTable
<1>7. Table(Overlay(d.models, QM, VM), ModelIds, ModelEntries)
  BY <1>4, CatOf, OverlayTable
<1>8. Table(Overlay(d.pipelines, b.pipelines, VP), PipelineIds, CataloguePipelines)
  BY <1>5, CatOf, OverlayTable
<1> QED  BY <1>1, <1>6, <1>7, <1>8, CatTyped

\* The import decides under the lock it writes under: no check has to have passed.
LEMMA ImportGood ==
    ASSUME NEW d, IsCatalogue(d), NEW q, IsRequest(q), q.kind = "import",
           ValidBundle(q.bundle), ImportGraph(d, q.bundle) # Missing
    PROVE  Good(d, q, ImportGraph(d, q.bundle))
<1> DEFINE e == ImportGraph(d, q.bundle)
<1>1. IsBundle(q.bundle)
  BY RequestFields
<1>2. ~HasBlocked(Plan(d, q.bundle))
  BY DEF ImportGraph
<1>3. \/ e = d
      \/ e = Applied(d, q.bundle) /\ NameClashes(Applied(d, q.bundle)) = {}
  BY DEF ImportGraph
<1> HIDE DEF e
<1>4. CASE e = d
  <2>1. Sound(q, d, d)
    BY DEF Sound
  <2> QED  BY <1>4, <2>1 DEF Good, e
<1>5. CASE e = Applied(d, q.bundle) /\ NameClashes(Applied(d, q.bundle)) = {}
  <2>1. IsCatalogue(e)
    BY <1>1, <1>5, AppliedTyped
  <2>2. Dangling(e) \subseteq Dangling(d)
    BY <1>2, <1>5, ImportLeavesNoneDangling
  <2>3. NameClashes(e) \subseteq NameClashes(d)
    BY <1>5
  <2>4. Sound(q, d, e)
    BY <2>2, <2>3 DEF Sound
  <2> QED  BY <2>1, <2>4 DEF Good, e
<1> QED  BY <1>3, <1>4, <1>5 DEF e

\* Every mutation: what it read before is only the record of an activation.
LEMMA MutatedGood ==
    ASSUME NEW d, IsCatalogue(d), NEW q, IsRequest(q),
           NEW seen, IsCatalogue(seen), Accepted(seen, q),
           Mutated(d, q, seen) # Missing
    PROVE  Good(d, q, Mutated(d, q, seen))
<1>1. CASE q.kind = "createRuntime"
  BY <1>1, CreateRuntimeGood DEF Mutated
<1>2. CASE q.kind = "patchRuntime"
  BY <1>2, PatchRuntimeGood DEF Mutated
<1>3. CASE q.kind = "deleteRuntime"
  BY <1>3, DeleteRuntimeGood DEF Mutated
<1>4. CASE q.kind = "replaceRuntime"
  BY <1>4, ReplaceRuntimeGood DEF Mutated
<1>5. CASE q.kind = "cascadeRuntime"
  BY <1>5, CascadeGood DEF Mutated
<1>6. CASE q.kind = "createModel"
  BY <1>6, CreateModelGood DEF Mutated
<1>7. CASE q.kind = "patchModel"
  BY <1>7, PatchModelGood DEF Mutated
<1>8. CASE q.kind = "patchModelEnv"
  BY <1>8, PatchModelEnvGood DEF Mutated
<1>9. CASE q.kind = "activateModel"
  <2>1. Mutated(d, q, seen) = UpdateModel(d, q, seen)
    BY <1>9 DEF Mutated
  <2>2. q.id \in DOMAIN seen.models
    BY <1>9 DEF Accepted, MayActivate
  <2> QED  BY <1>9, <2>1, <2>2, UpdateModelGood
<1>10. CASE q.kind = "deleteModel"
  BY <1>10, DeleteModelGood DEF Mutated
<1>11. CASE q.kind = "createPipeline"
  BY <1>11, CreatePipelineGood DEF Mutated
<1>12. CASE q.kind = "updatePipeline"
  <2>1. DistinctIds(q.rec.entries)
    BY <1>12 DEF Accepted, MayUpdatePipeline, ValidatePipelineEntry
  <2> QED  BY <1>12, <2>1, UpdatePipelineGood DEF Mutated
<1>13. CASE q.kind = "deletePipeline"
  BY <1>13, DeletePipelineGood DEF Mutated
<1>14. CASE q.kind = "import"
  <2>1. ValidBundle(q.bundle)
    BY <1>14 DEF Accepted
  <2> QED  BY <1>14, <2>1, ImportGood DEF Mutated
<1>15. q.kind \in {"createRuntime", "patchRuntime", "deleteRuntime", "replaceRuntime",
                   "cascadeRuntime", "createModel", "patchModel", "patchModelEnv",
                   "activateModel", "deleteModel", "createPipeline", "updatePipeline",
                   "deletePipeline", "import"}
  BY DEF IsRequest
<1> QED
  BY <1>1, <1>2, <1>3, <1>4, <1>5, <1>6, <1>7, <1>8, <1>9, <1>10, <1>11, <1>12, <1>13,
     <1>14, <1>15

-----------------------------------------------------------------------------
(* Older data: what it is read as is a catalogue, and what it seeds are      *)
(* requests like any other.                                                  *)

Profiles == [runtime : RuntimeIds, model : PhysicalIds, args : Seq(Args),
             host : Args \cup {NoHost}, env : Envs, active : BOOLEAN]

LEMMA EmptyTable == ASSUME NEW ids, NEW R PROVE Table(<<>>, ids, R)
  BY DEF Table

LEMMA FoldedTyped ==
    ASSUME NEW args \in Seq(Args), NEW host \in Args \cup {NoHost}
    PROVE  Folded(args, host) \in Seq(Args)
<1>1. CASE host = NoHost \/ HasFlag(args)
  BY <1>1 DEF Folded
<1>2. CASE ~(host = NoHost \/ HasFlag(args))
  <2>1. <<HostFlag, host>> \in Seq(Args)
    BY <1>2, CatalogueAssumption DEF CatalogueAssumption
  <2>2. args \o <<HostFlag, host>> \in Seq(Args)
    BY <2>1, ConcatProperties
  <2> QED  BY <1>2, <2>2 DEF Folded
<1> QED  BY <1>1, <1>2

LEMMA PhysicalTyped ==
    ASSUME NEW old, IsLegacy(old), NEW m, NEW withArgs \in BOOLEAN
    PROVE  Physical(old, m, withArgs) \in Seq(Args)
<1>1. CASE m \notin DOMAIN old.physical
  BY <1>1 DEF Physical
<1>2. CASE m \in DOMAIN old.physical
  <2>1. old.physical[m] \in [file : Seq(Args), args : Seq(Args)]
    BY <1>2 DEF IsLegacy, Table
  <2> DEFINE x == old.physical[m].file
             y == IF withArgs THEN old.physical[m].args ELSE <<>>
  <2>2. x \in Seq(Args) /\ y \in Seq(Args)
    BY <2>1
  <2>3. Physical(old, m, withArgs) = x \o y
    BY <1>2 DEF Physical
  <2> HIDE DEF x, y
  <2> QED  BY <2>2, <2>3, ConcatProperties
<1> QED  BY <1>1, <1>2

LEMMA LegacyModelTyped ==
    ASSUME NEW old, IsLegacy(old), NEW p \in Profiles, NEW physical \in Seq(Args),
           NEW active \in BOOLEAN
    PROVE  LegacyModel(old, p, physical, active) \in ModelEntries
<1> DEFINE args == Folded(Defaults(old, p.runtime) \o p.args \o physical, p.host)
<1>1. Defaults(old, p.runtime) \in Seq(Args)
  <2>1. CASE p.runtime \in DOMAIN old.runtimes
    <3>1. old.runtimes[p.runtime] \in [name : Names, args : Seq(Args), env : Envs]
      BY <2>1 DEF IsLegacy, Table
    <3> QED  BY <2>1, <3>1 DEF Defaults
  <2>2. CASE p.runtime \notin DOMAIN old.runtimes
    BY <2>2 DEF Defaults
  <2> QED  BY <2>1, <2>2
<1>2. /\ p.runtime \in RuntimeIds /\ p.args \in Seq(Args) /\ p.host \in Args \cup {NoHost}
      /\ p.env \in Envs
  BY DEF Profiles
<1>3. args \in Seq(Args)
  <2>1. Defaults(old, p.runtime) \o p.args \in Seq(Args)
    BY <1>1, <1>2, ConcatProperties
  <2>2. Defaults(old, p.runtime) \o p.args \o physical \in Seq(Args)
    BY <2>1, ConcatProperties
  <2> QED  BY <1>2, <2>2, FoldedTyped
<1>4. LegacyModel(old, p, physical, active) =
          [runtime |-> p.runtime, body |-> [active |-> active, args |-> args], env |-> p.env]
  BY DEF LegacyModel
<1> HIDE DEF args
<1>5. [active |-> active, args |-> args] \in ModelBodies
  BY <1>3 DEF ModelBodies
<1> DEFINE body == [active |-> active, args |-> args]
<1> HIDE DEF body
<1> QED  BY <1>2, <1>4, <1>5 DEF ModelEntries, body

\* The tables that older data is read as.
LEMMA LegacyTables ==
    ASSUME NEW old, IsLegacy(old)
    PROVE  /\ Table(LegacyRuntimes(old), RuntimeIds, RuntimeEntries)
           /\ Table(OldStoreModels(old), ModelIds, ModelEntries)
           /\ Table(SeededModels(old), ModelIds, ModelEntries)
           /\ Table(MigrateV5(old).models, ModelIds, ModelEntries)
           /\ Table(MigrateV6ToV7(old).models, ModelIds, ModelEntries)
<1>1. /\ Table(old.runtimes, RuntimeIds, [name : Names, args : Seq(Args), env : Envs])
      /\ Table(old.profiles, ModelIds, Profiles)
  BY DEF IsLegacy, Profiles
<1>2. Table(LegacyRuntimes(old), RuntimeIds, RuntimeEntries)
  <2>1. \A r \in DOMAIN old.runtimes : LegacyRuntimes(old)[r] \in RuntimeEntries
    <3> SUFFICES ASSUME NEW r \in DOMAIN old.runtimes
                 PROVE  LegacyRuntimes(old)[r] \in RuntimeEntries
      OBVIOUS
    <3>1. old.runtimes[r] \in [name : Names, args : Seq(Args), env : Envs]
      BY <1>1 DEF Table
    <3>2. <<>> \in Bodies
      BY CatalogueAssumption DEF CatalogueAssumption
    <3> QED  BY <3>1, <3>2 DEF LegacyRuntimes, RuntimeEntries
  <2>2. DOMAIN old.runtimes \subseteq RuntimeIds
    BY <1>1 DEF Table
  <2> QED  BY <2>1, <2>2 DEF LegacyRuntimes, Table
<1>3. ASSUME NEW f, DOMAIN f = DOMAIN old.profiles, f = [p \in DOMAIN f |-> f[p]],
             \A p \in DOMAIN f : f[p] \in ModelEntries
      PROVE  Table(f, ModelIds, ModelEntries)
  BY <1>1, <1>3 DEF Table
<1>4. ASSUME NEW p \in DOMAIN old.profiles, NEW withArgs \in BOOLEAN, NEW active \in BOOLEAN
      PROVE  /\ LegacyModel(old, old.profiles[p], Physical(old, old.profiles[p].model, withArgs), active)
                   \in ModelEntries
             /\ LegacyModel(old, old.profiles[p], <<>>, active) \in ModelEntries
             /\ old.profiles[p].active \in BOOLEAN
  <2>1. old.profiles[p] \in Profiles
    BY <1>1 DEF Table
  <2>2. Physical(old, old.profiles[p].model, withArgs) \in Seq(Args) /\ <<>> \in Seq(Args)
    BY PhysicalTyped
  <2>3. old.profiles[p].active \in BOOLEAN
    BY <2>1 DEF Profiles
  <2> QED  BY <2>1, <2>2, <2>3, LegacyModelTyped
<1>5. Table(OldStoreModels(old), ModelIds, ModelEntries)
  <2>1. /\ DOMAIN OldStoreModels(old) = DOMAIN old.profiles
        /\ OldStoreModels(old) = [p \in DOMAIN OldStoreModels(old) |-> OldStoreModels(old)[p]]
        /\ \A p \in DOMAIN old.profiles : OldStoreModels(old)[p] =
              LegacyModel(old, old.profiles[p], Physical(old, old.profiles[p].model, FALSE),
                          old.profiles[p].active)
    BY DEF OldStoreModels
  <2>2. \A p \in DOMAIN OldStoreModels(old) : OldStoreModels(old)[p] \in ModelEntries
    BY <2>1, <1>4
  <2> QED  BY <2>1, <2>2, <1>3
<1>6. Table(SeededModels(old), ModelIds, ModelEntries)
  <2>1. /\ DOMAIN SeededModels(old) = DOMAIN old.profiles
        /\ SeededModels(old) = [p \in DOMAIN SeededModels(old) |-> SeededModels(old)[p]]
        /\ \A p \in DOMAIN old.profiles : SeededModels(old)[p] =
              LegacyModel(old, old.profiles[p], Physical(old, old.profiles[p].model, TRUE), TRUE)
    BY DEF SeededModels
  <2>2. \A p \in DOMAIN SeededModels(old) : SeededModels(old)[p] \in ModelEntries
    BY <2>1, <1>4
  <2> QED  BY <2>1, <2>2, <1>3
<1>7. Table(MigrateV5(old).models, ModelIds, ModelEntries)
  <2> DEFINE f == MigrateV5(old).models
  <2>1. /\ DOMAIN f = DOMAIN old.profiles
        /\ f = [p \in DOMAIN f |-> f[p]]
        /\ \A p \in DOMAIN old.profiles : f[p] =
              LegacyModel(old, old.profiles[p], Physical(old, old.profiles[p].model, TRUE),
                          old.profiles[p].active)
    BY DEF MigrateV5
  <2> HIDE DEF f
  <2>2. \A p \in DOMAIN f : f[p] \in ModelEntries
    BY ZenonT(40), <2>1, <1>4
  <2> QED  BY <2>1, <2>2, <1>3 DEF f
<1>8. Table(MigrateV6ToV7(old).models, ModelIds, ModelEntries)
  <2> DEFINE f == MigrateV6ToV7(old).models
  <2>1. /\ DOMAIN f = DOMAIN old.profiles
        /\ f = [p \in DOMAIN f |-> f[p]]
        /\ \A p \in DOMAIN old.profiles : f[p] =
              LegacyModel(old, old.profiles[p], <<>>, old.profiles[p].active)
    BY DEF MigrateV6ToV7
  <2> HIDE DEF f
  <2>2. \A p \in DOMAIN f : f[p] \in ModelEntries
    BY <2>1, <1>4
  <2> QED  BY <2>1, <2>2, <1>3 DEF f
<1> QED  BY <1>2, <1>5, <1>6, <1>7, <1>8

\* Either no entry of a stored pipeline has an identity, or each has one.
LEMMA BackfilledPipeline ==
    ASSUME NEW p \in PipelineIds,
           NEW x \in PipelineEntries({NoId}) \cup CataloguePipelines
    PROVE  [x EXCEPT !.entries = Identified(p, @, 0)] \in CataloguePipelines
<1> DEFINE es == Identified(p, x.entries, 0)
<1>1. es \in Seq([id : EntryIds, model : ModelIds]) /\ DistinctIds(es)
  <2>1. CASE x \in PipelineEntries({NoId})
    <3>1. x.entries \in Seq([id : {NoId}, model : ModelIds])
      BY <2>1 DEF PipelineEntries
    <3>2. /\ \A i \in DOMAIN x.entries : x.entries[i].id = NoId
          /\ x.entries \in Seq([id : EntryIds \cup {NoId}, model : ModelIds])
      BY <3>1, UnidentifiedEntries
    <3> QED  BY <3>2, IdentifiedTyped DEF DistinctIds
  <2>2. CASE x \in CataloguePipelines
    <3>1. x.entries \in Seq([id : EntryIds, model : ModelIds]) /\ DistinctIds(x.entries)
      BY <2>2 DEF CataloguePipelines, PipelineEntries
    <3> QED  BY <3>1, IdentifiedSame
  <2> QED  BY <2>1, <2>2
<1>2. x \in [body : Bodies, entries : {x.entries}]
  BY DEF PipelineEntries, CataloguePipelines
<1> HIDE DEF es
<1>3. [x EXCEPT !.entries = es] \in PipelineEntries(EntryIds)
  BY <1>1, <1>2 DEF PipelineEntries
<1>4. [x EXCEPT !.entries = es].entries = es
  BY <1>2
<1> QED  BY <1>1, <1>3, <1>4 DEF CataloguePipelines, es

(* Whatever schema a file has that load() migrates, the repository it opens is
   a catalogue: every entry of a pipeline has an identity, every model one
   argument list (repository.go:297-353, migrateV5, migrateV6ToV7,
   backfillPipelineEntryIDs). *)
THEOREM MigrationTyped ==
    ASSUME NEW f, IsOlder(f)
    PROVE  IsCatalogue(Loaded(f))
<1> DEFINE RawPipelines == PipelineEntries({NoId}) \cup CataloguePipelines
           raw == CASE f.version = 5 -> MigrateV5(f)
                    [] f.version = 6 -> MigrateV6ToV7(f)
                    [] f.version > 6 -> [runtimes |-> f.runtimes, models |-> f.models,
                                         pipelines |-> f.pipelines]
<1>1. /\ raw = Cat(raw.runtimes, raw.models, raw.pipelines)
      /\ Table(raw.runtimes, RuntimeIds, RuntimeEntries)
      /\ Table(raw.models, ModelIds, ModelEntries)
      /\ Table(raw.pipelines, PipelineIds, RawPipelines)
  <2>1. CASE f.version = 5 /\ IsLegacy(f)
    <3>1. raw = Cat(LegacyRuntimes(f), MigrateV5(f).models, <<>>)
      BY <2>1 DEF MigrateV5, Cat
    <3> QED  BY <2>1, <3>1, CatFields, LegacyTables, EmptyTable
  <2>2. CASE f.version = 6 /\ IsLegacy(f)
    <3>1. raw = Cat(LegacyRuntimes(f), MigrateV6ToV7(f).models, <<>>)
      BY <2>2 DEF MigrateV6ToV7, Cat
    <3> QED  BY <2>2, <3>1, CatFields, LegacyTables, EmptyTable
  <2>3. CASE /\ f.version \in Nat /\ f.version > 6
             /\ Table(f.runtimes, RuntimeIds, RuntimeEntries)
             /\ Table(f.models, ModelIds, ModelEntries)
             /\ Table(f.pipelines, PipelineIds, RawPipelines)
    <3>1. raw = Cat(f.runtimes, f.models, f.pipelines)
      BY <2>3 DEF Cat
    <3> QED  BY <2>3, <3>1, CatFields
  <2> QED  BY <2>1, <2>2, <2>3 DEF IsOlder
<1>2. Loaded(f) = BackfillPipelineEntryIDs(raw)
  BY DEF Loaded
<1> HIDE DEF raw
<1> DEFINE P == [p \in DOMAIN raw.pipelines |->
                    [raw.pipelines[p] EXCEPT !.entries = Identified(p, @, 0)]]
<1>3. Loaded(f) = Cat(raw.runtimes, raw.models, P)
  <2>1. BackfillPipelineEntryIDs(raw) = [raw EXCEPT !.pipelines = P]
    BY DEF BackfillPipelineEntryIDs
  <2> HIDE DEF P
  <2> QED  BY <1>1, <1>2, <2>1 DEF Cat
<1>4. Table(P, PipelineIds, CataloguePipelines)
  <2>1. ASSUME NEW p \in DOMAIN raw.pipelines
        PROVE  p \in PipelineIds /\ P[p] \in CataloguePipelines
    <3> DEFINE x == raw.pipelines[p]
    <3>1. p \in PipelineIds /\ x \in RawPipelines
      BY <1>1 DEF Table
    <3>2. P[p] = [x EXCEPT !.entries = Identified(p, @, 0)]
      OBVIOUS
    <3> HIDE DEF x, P
    <3> QED  BY <3>1, <3>2, BackfilledPipeline
  <2> QED  BY <2>1 DEF Table
<1> QED  BY <1>1, <1>3, <1>4, CatTyped

(* A reload of a file that was saved assigns no identity anew and changes nothing
   (repository.go:297-301): only schemas 5 and 6, and pipelines from before ADR
   013, are rewritten when they are read. *)
THEOREM LoadIsStable ==
    ASSUME NEW f, f.version \in Nat, f.version > 6,
           IsCatalogue(Cat(f.runtimes, f.models, f.pipelines))
    PROVE  Loaded(f) = Cat(f.runtimes, f.models, f.pipelines)
<1> DEFINE d == Cat(f.runtimes, f.models, f.pipelines)
           P == [p \in DOMAIN d.pipelines |->
                    [d.pipelines[p] EXCEPT !.entries = Identified(p, @, 0)]]
<1>1. Loaded(f) = [d EXCEPT !.pipelines = P]
  BY DEF Loaded, BackfillPipelineEntryIDs, Cat
<1>2. IsCatalogue(d)
  OBVIOUS
<1> HIDE DEF d
<1>3. ASSUME NEW p \in DOMAIN d.pipelines PROVE P[p] = d.pipelines[p]
  <2> DEFINE x == d.pipelines[p]
  <2>1. x \in CataloguePipelines
    BY <1>2, CatOf DEF Table
  <2>2. x.entries \in Seq([id : EntryIds, model : ModelIds])
    BY <2>1 DEF CataloguePipelines, PipelineEntries
  <2>3. x \in [body : Bodies, entries : {x.entries}]
    BY <2>1 DEF CataloguePipelines, PipelineEntries
  <2>4. P[p] = [x EXCEPT !.entries = Identified(p, x.entries, 0)]
    OBVIOUS
  <2>5. Identified(p, x.entries, 0) = x.entries
    BY <2>2, IdentifiedSame
  <2> HIDE DEF x, P
  <2>6. [x EXCEPT !.entries = x.entries] = x
    BY <2>3
  <2> QED  BY <2>4, <2>5, <2>6 DEF x
<1>4. P = d.pipelines
  <2>1. d.pipelines = [p \in DOMAIN d.pipelines |-> d.pipelines[p]]
    BY <1>2, CatOf DEF Table
  <2> QED  BY <1>3, <2>1
<1> HIDE DEF P
<1>5. [d EXCEPT !.pipelines = P] = Cat(d.runtimes, d.models, P) /\ d = Cat(d.runtimes, d.models, d.pipelines)
  BY <1>2, CatExcept, CatOf
<1> QED  BY <1>1, <1>4, <1>5 DEF d

-----------------------------------------------------------------------------
(* What a boot has to do.                                                    *)

Seeds == [kind : {"createRuntime"}, id : RuntimeIds, rec : RuntimeEntries] \cup
         [kind : {"createModel"}, id : ModelIds, rec : ModelEntries] \cup
         [kind : {"saveUnified"}]

BootSteps == [stage : {"old", "config"}, ask : Seeds]

LEMMA SetToSeqTyped ==
    ASSUME NEW S, IsFiniteSet(S)
    PROVE  /\ Cardinality(S) \in Nat
           /\ SetToSeq(S) \in [1 .. Cardinality(S) -> S]
<1>1. Cardinality(S) \in Nat /\ ExistsBijection(1 .. Cardinality(S), S)
  BY FS_CardinalityType
<1>2. PICK f : f \in Bijection(1 .. Cardinality(S), S)
  BY <1>1 DEF ExistsBijection
<1>3. f \in [1 .. Cardinality(S) -> S] /\ IsInjective(f)
  BY <1>2 DEF Bijection, Injection
<1> QED  BY <1>1, <1>3 DEF SetToSeq

LEMMA TasksTyped ==
    ASSUME NEW stage \in {"old", "config"}, NEW kind, NEW f, IsFiniteSet(DOMAIN f),
           \A id \in DOMAIN f : [kind |-> kind, id |-> id, rec |-> f[id]] \in Seeds
    PROVE  Tasks(stage, kind, f) \in Seq(BootSteps)
<1> DEFINE n == Cardinality(DOMAIN f)
           ids == SetToSeq(DOMAIN f)
           t == Tasks(stage, kind, f)
<1>1. n \in Nat /\ \A i \in 1 .. n : ids[i] \in DOMAIN f
  BY SetToSeqTyped
<1>2. t = [i \in 1 .. n |->
              [stage |-> stage, ask |-> [kind |-> kind, id |-> ids[i], rec |-> f[ids[i]]]]]
  BY DEF Tasks
<1> HIDE DEF n, ids, t
<1>3. \A i \in 1 .. n : [kind |-> kind, id |-> ids[i], rec |-> f[ids[i]]] \in Seeds
  BY <1>1
<1>4. \A i \in 1 .. n : t[i] \in BootSteps
  BY <1>2, <1>3 DEF BootSteps
<1>5. t \in [1 .. n -> BootSteps]
  BY <1>2, <1>4
<1> QED  BY <1>1, <1>5 DEF t

LEMMA BootTyped == BootTasks \in Seq(BootSteps)
<1>1. ASSUME NEW old \in {OldStores, ConfigSeed}, NEW stage \in {"old", "config"}
      PROVE  /\ Tasks(stage, "createRuntime", LegacyRuntimes(old)) \in Seq(BootSteps)
             /\ Tasks(stage, "createModel", OldStoreModels(old)) \in Seq(BootSteps)
             /\ Tasks(stage, "createModel", SeededModels(old)) \in Seq(BootSteps)
  <2>1. IsLegacy(old) /\ IsFiniteSet(DOMAIN old.runtimes) /\ IsFiniteSet(DOMAIN old.profiles)
    BY CatalogueAssumption DEF CatalogueAssumption
  <2>2. /\ DOMAIN LegacyRuntimes(old) = DOMAIN old.runtimes
        /\ DOMAIN OldStoreModels(old) = DOMAIN old.profiles
        /\ DOMAIN SeededModels(old) = DOMAIN old.profiles
    BY DEF LegacyRuntimes, OldStoreModels, SeededModels
  <2>3. ASSUME NEW f, Table(f, RuntimeIds, RuntimeEntries), NEW id \in DOMAIN f
        PROVE  [kind |-> "createRuntime", id |-> id, rec |-> f[id]] \in Seeds
    BY <2>3 DEF Table, Seeds
  <2>4. ASSUME NEW f, Table(f, ModelIds, ModelEntries), NEW id \in DOMAIN f
        PROVE  [kind |-> "createModel", id |-> id, rec |-> f[id]] \in Seeds
    BY <2>4 DEF Table, Seeds
  <2>5. Tasks(stage, "createRuntime", LegacyRuntimes(old)) \in Seq(BootSteps)
    BY <2>1, <2>2, <2>3, LegacyTables, TasksTyped
  <2>6. Tasks(stage, "createModel", OldStoreModels(old)) \in Seq(BootSteps)
    BY <2>1, <2>2, <2>4, LegacyTables, TasksTyped
  <2>7. Tasks(stage, "createModel", SeededModels(old)) \in Seq(BootSteps)
    BY <2>1, <2>2, <2>4, LegacyTables, TasksTyped
  <2> QED  BY <2>5, <2>6, <2>7
<1> DEFINE a1 == Tasks("old", "createRuntime", LegacyRuntimes(OldStores))
           a2 == Tasks("old", "createModel", OldStoreModels(OldStores))
           a3 == <<[stage |-> "old", ask |-> [kind |-> "saveUnified"]]>>
           b1 == Tasks("config", "createRuntime", LegacyRuntimes(ConfigSeed))
           b2 == Tasks("config", "createModel", SeededModels(ConfigSeed))
           a == IF DOMAIN OldStores.runtimes \cup DOMAIN OldStores.profiles = {} THEN <<>>
                ELSE a1 \o a2 \o a3
<1>2. a1 \in Seq(BootSteps) /\ a2 \in Seq(BootSteps) /\ b1 \in Seq(BootSteps) /\ b2 \in Seq(BootSteps)
  BY <1>1
<1>3. a3 \in Seq(BootSteps)
  <2>1. [stage |-> "old", ask |-> [kind |-> "saveUnified"]] \in BootSteps
    BY DEF BootSteps, Seeds
  <2> QED  BY <2>1
<1>4. BootTasks = a \o b1 \o b2
  BY DEF BootTasks
<1> HIDE DEF a1, a2, a3, b1, b2
<1>5. a1 \o a2 \in Seq(BootSteps)
  BY <1>2, ConcatProperties
<1>6. a1 \o a2 \o a3 \in Seq(BootSteps)
  BY <1>3, <1>5, ConcatProperties
<1>7. a \in Seq(BootSteps)
  BY <1>6
<1> HIDE DEF a
<1>8. a \o b1 \in Seq(BootSteps)
  BY <1>2, <1>7, ConcatProperties
<1>9. a \o b1 \o b2 \in Seq(BootSteps)
  BY <1>2, <1>8, ConcatProperties
<1> QED  BY <1>4, <1>9

\* What is left of a boot is always its end.
Suffix(s) == \E i \in 0 .. Len(BootTasks) : s = SubSeq(BootTasks, i + 1, Len(BootTasks))

LEMMA SuffixParts ==
    ASSUME NEW s, Suffix(s)
    PROVE  /\ s \in Seq(BootSteps)
           /\ \A k \in 0 .. Len(s) : Suffix(SubSeq(s, k + 1, Len(s)))
<1> DEFINE bt == BootTasks
           n == Len(BootTasks)
<1>1. bt \in Seq(BootSteps) /\ n \in Nat /\ n = Len(bt) /\ DOMAIN bt = 1 .. n
  BY BootTyped, LenProperties
<1>2. PICK i \in 0 .. n : s = SubSeq(bt, i + 1, n)
  BY DEF Suffix
<1> HIDE DEF bt, n
<1>3. \A j \in i + 1 .. n : bt[j] \in BootSteps
  BY <1>1, <1>2, ElementOfSeq
<1>4. /\ s \in Seq(BootSteps)
      /\ Len(s) = n - i
      /\ \A j \in 1 .. n - i : s[j] = bt[i + j]
  <2>1. i + 1 \in Int /\ n \in Int
    BY <1>1
  <2>2. /\ s \in Seq(BootSteps)
        /\ Len(s) = IF i + 1 <= n THEN n - (i + 1) + 1 ELSE 0
        /\ \A j \in 1 .. n - (i + 1) + 1 : s[j] = bt[(i + 1) + j - 1]
    BY <1>2, <1>3, <2>1, SubSeqProperties
  <2>3. Len(s) = n - i
    BY <1>1, <1>2, <2>2
  <2>4. ASSUME NEW j \in 1 .. n - i PROVE s[j] = bt[i + j]
    <3>1. n - (i + 1) + 1 = n - i /\ (i + 1) + j - 1 = i + j
      BY <1>1, <1>2, <2>4
    <3> QED  BY <2>2, <3>1
  <2> QED  BY <2>2, <2>3, <2>4
<1>5. ASSUME NEW k \in 0 .. Len(s) PROVE Suffix(SubSeq(s, k + 1, Len(s)))
  <2> DEFINE u == SubSeq(s, k + 1, n - i)
             v == SubSeq(bt, i + k + 1, n)
  <2>1. i + k \in 0 .. n
    BY <1>1, <1>2, <1>4
  <2>2. u = v
    BY <1>1, <1>2, <1>4, <2>1
  <2> QED  BY <1>4, <2>1, <2>2 DEF Suffix, bt, n
<1> QED  BY <1>4, <1>5

LEMMA SuffixTail ==
    ASSUME NEW s, Suffix(s), s # <<>>
    PROVE  Head(s) \in BootSteps /\ Suffix(Tail(s))
<1>1. s \in Seq(BootSteps) /\ Len(s) \in Nat
  BY SuffixParts, LenProperties
<1>2. Head(s) \in BootSteps
  BY <1>1, HeadTailProperties
<1>3. Tail(s) = SubSeq(s, 2, Len(s))
  BY <1>1, TailIsSubSeq
<1>4. 1 \in 0 .. Len(s)
  <2>1. Len(s) # 0
    BY <1>1, EmptySeq
  <2> QED  BY <1>1, <2>1
<1>5. Suffix(SubSeq(s, 2, Len(s)))
  <2>1. Suffix(SubSeq(s, 1 + 1, Len(s)))
    BY <1>4, SuffixParts
  <2>2. 1 + 1 = 2
    OBVIOUS
  <2> QED  BY <2>1, <2>2
<1>6. Suffix(Tail(s))
  BY <1>3, <1>5, Zenon
<1> QED  BY <1>2, <1>6

LEMMA FirstNumbers ==
    ASSUME NEW n \in Nat
    PROVE  IsFiniteSet(1 .. n) /\ Cardinality(1 .. n) = n
BY FS_Interval

LEMMA SuffixRemaining ==
    ASSUME NEW s, Suffix(s)
    PROVE  Suffix(Remaining(s))
<1> DEFINE K == {k \in DOMAIN s : s[k].stage = "old"}
<1>1. s \in Seq(BootSteps) /\ Len(s) \in Nat /\ DOMAIN s = 1 .. Len(s)
  BY SuffixParts, LenProperties
<1>2. Remaining(s) = SubSeq(s, Cardinality(K) + 1, Len(s))
  BY DEF Remaining
<1>3. K \subseteq 1 .. Len(s)
  BY <1>1
<1> HIDE DEF K
<1>4. IsFiniteSet(1 .. Len(s)) /\ Cardinality(1 .. Len(s)) = Len(s)
  BY <1>1, FirstNumbers
<1>5. Cardinality(K) \in Nat /\ Cardinality(K) <= Len(s)
  BY <1>3, <1>4, FS_Subset, FS_CardinalityType
<1>6. Cardinality(K) \in 0 .. Len(s)
  BY <1>1, <1>5
<1> QED  BY <1>2, <1>6, SuffixParts

LEMMA SuffixEnds == Suffix(BootTasks) /\ Suffix(<<>>)
<1>1. BootTasks \in Seq(BootSteps) /\ Len(BootTasks) \in Nat
  BY BootTyped, LenProperties
<1>2. BootTasks = SubSeq(BootTasks, 0 + 1, Len(BootTasks))
  BY <1>1
<1>3. <<>> = SubSeq(BootTasks, Len(BootTasks) + 1, Len(BootTasks))
  BY <1>1, SubSeqEmpty
<1>4. 0 \in 0 .. Len(BootTasks) /\ Len(BootTasks) \in 0 .. Len(BootTasks)
  BY <1>1
<1> QED  BY <1>2, <1>3, <1>4 DEF Suffix

-----------------------------------------------------------------------------
(* The inductive invariant.                                                  *)

\* Everything the process or the disk holds and load() takes is a catalogue.
Documents ==
    /\ running => IsCatalogue(mem)
    /\ ~Unlocked => IsCatalogue(save.prev)
    /\ \A f \in {file.main, file.bak, stable.main, stable.bak} : Document(f) => IsCatalogue(f)

\* A request that has passed its check passed it on the catalogue it has seen.
Client(r) ==
    /\ r \in [phase : Phases, ask : Requests \cup {NoRequest}, seen : {r.seen}]
    /\ r.seen = Missing \/ IsCatalogue(r.seen)
    /\ r.phase = "checked" =>
         r.ask \in Requests /\ IsCatalogue(r.seen) /\ Accepted(r.seen, r.ask)

ClientsSound ==
    /\ DOMAIN req = Clients
    /\ req = [c \in Clients |-> req[c]]
    /\ \A c \in Clients : Client(req[c])

\* One request at most saves, and none while a boot has work left.
Exclusive ==
    /\ \A c \in Clients : req[c].phase = "saving" => ~Unlocked
    /\ \A c, e \in Clients : req[c].phase = "saving" /\ req[e].phase = "saving" => c = e
    /\ ~running \/ todo # <<>> \/ save.opening =>
         \A c \in Clients : req[c].phase \notin {"checked", "saving"}

\* e holds what d holds.
Adds(d, e) ==
    /\ \A r \in DOMAIN d.runtimes : r \in DOMAIN e.runtimes /\ e.runtimes[r] = d.runtimes[r]
    /\ \A m \in DOMAIN d.models : m \in DOMAIN e.models /\ e.models[m] = d.models[m]
    /\ e.pipelines = d.pipelines

\* The save of a boot is of what its task added.
BootOrder ==
    /\ Suffix(todo)
    /\ ~running => todo = <<>>
    /\ ~Unlocked /\ todo # <<>> => Adds(save.prev, mem)

CatInv == FileInv /\ Documents /\ ClientsSound /\ Exclusive /\ BootOrder

LEMMA ClientInPhase == Client(InPhase("ready")) /\ Client(InPhase("ended"))
  BY DEF Client, InPhase, Phases

\* A file that loads at all loads as a catalogue.
LEMMA LoadedCatalogue ==
    ASSUME NEW dir, Load(dir) # Torn,
           \A f \in {dir.main, dir.bak} : Document(f) => IsCatalogue(f)
    PROVE  IsCatalogue(Load(dir))
<1>1. IsCatalogue(EmptyDoc)
  BY CatalogueAssumption DEF CatalogueAssumption
<1>2. ASSUME NEW f \in DOMAIN Upgrade PROVE IsCatalogue(Upgrade[f])
  BY MigrationTyped, CatalogueAssumption DEF CatalogueAssumption
<1>3. ASSUME NEW f \in {dir.main, dir.bak}, f # Missing, Parse(f) # Torn
      PROVE  IsCatalogue(Parse(f))
  <2>1. CASE f \in DOMAIN Upgrade
    BY <1>2, <2>1 DEF Parse
  <2>2. CASE f \notin DOMAIN Upgrade
    BY <1>3, <2>2 DEF Parse, Document
  <2> QED  BY <2>1, <2>2
<1>4. \/ Load(dir) = EmptyDoc
      \/ \E f \in {dir.main, dir.bak} : f # Missing /\ Load(dir) = Parse(f)
  BY DEF Load
<1> QED  BY <1>1, <1>3, <1>4

\* What a boot seeds is a catalogue that only adds.
LEMMA SeedGood ==
    ASSUME NEW d, IsCatalogue(d), NEW q \in Seeds, Mutated(d, q, d) # Missing
    PROVE  IsCatalogue(Mutated(d, q, d)) /\ Adds(d, Mutated(d, q, d))
<1>1. CASE q \in [kind : {"createRuntime"}, id : RuntimeIds, rec : RuntimeEntries]
  <2> DEFINE R == Put(d.runtimes, q.id, q.rec)
  <2>1. IsRequest(q) /\ q.kind = "createRuntime" /\ Mutated(d, q, d) = CreateRuntime(d, q)
    BY <1>1 DEF IsRequest, Mutated
  <2>2. IsCatalogue(CreateRuntime(d, q))
    BY <2>1, CreateRuntimeGood DEF Good
  <2>3. q.id \notin DOMAIN d.runtimes /\ CreateRuntime(d, q) = Cat(R, d.models, d.pipelines)
    BY <2>1, CatExcept DEF CreateRuntime
  <2>4. \A r \in DOMAIN d.runtimes : r \in DOMAIN R /\ R[r] = d.runtimes[r]
    BY <2>3 DEF Put
  <2> HIDE DEF R
  <2> QED  BY <2>1, <2>2, <2>3, <2>4, CatFields DEF Adds
<1>2. CASE q \in [kind : {"createModel"}, id : ModelIds, rec : ModelEntries]
  <2> DEFINE M == Put(d.models, q.id, q.rec)
  <2>1. IsRequest(q) /\ q.kind = "createModel" /\ Mutated(d, q, d) = CreateModel(d, q)
    BY <1>2 DEF IsRequest, Mutated
  <2>2. IsCatalogue(CreateModel(d, q))
    BY <2>1, CreateModelGood DEF Good
  <2>3. q.id \notin DOMAIN d.models /\ CreateModel(d, q) = Cat(d.runtimes, M, d.pipelines)
    BY <2>1, CatExcept DEF CreateModel
  <2>4. \A r \in DOMAIN d.models : r \in DOMAIN M /\ M[r] = d.models[r]
    BY <2>3 DEF Put
  <2> HIDE DEF M
  <2> QED  BY <2>1, <2>2, <2>3, <2>4, CatFields DEF Adds
<1>3. CASE q \in [kind : {"saveUnified"}]
  <2>1. Mutated(d, q, d) = d
    BY <1>3 DEF Mutated
  <2> QED  BY <2>1 DEF Adds
<1> QED  BY <1>1, <1>2, <1>3 DEF Seeds

\* The mutation of a request that has passed its check.
LEMMA ActGood ==
    ASSUME NEW d, IsCatalogue(d), NEW r, Client(r), r.phase = "checked",
           Mutated(d, r.ask, r.seen) # Missing
    PROVE  Good(d, r.ask, Mutated(d, r.ask, r.seen))
<1>1. r.ask \in Requests /\ IsCatalogue(r.seen) /\ Accepted(r.seen, r.ask)
  BY DEF Client
<1>2. IsRequest(r.ask)
  BY <1>1, CatalogueAssumption DEF CatalogueAssumption
<1> QED  BY <1>1, <1>2, MutatedGood

LEMMA ActDocument ==
    ASSUME CatInv, NEW c \in Clients, running, req[c].phase = "checked",
           Mutated(mem, req[c].ask, req[c].seen) # Missing
    PROVE  IsCatalogue(Mutated(mem, req[c].ask, req[c].seen))
  BY ActGood DEF CatInv, Documents, ClientsSound, Good

LEMMA BootDocument ==
    ASSUME CatInv, running, todo # <<>>, Mutated(mem, Head(todo).ask, mem) # Missing
    PROVE  /\ IsCatalogue(Mutated(mem, Head(todo).ask, mem))
           /\ Adds(mem, Mutated(mem, Head(todo).ask, mem))
<1>1. Head(todo) \in BootSteps
  BY SuffixTail DEF CatInv, BootOrder
<1>2. Head(todo).ask \in Seeds
  BY <1>1 DEF BootSteps
<1> QED  BY <1>2, SeedGood DEF CatInv, Documents

\* Every step is one of the durable file.
LEMMA StepsOfTheFile == CatInv /\ [Next]_catVars => [FileNext]_fileVars
<1> SUFFICES ASSUME CatInv, [Next]_catVars PROVE [FileNext]_fileVars
  OBVIOUS
<1>1. ASSUME NEW doc, IsCatalogue(doc), Begin(doc) PROVE FileNext
  BY <1>1, CatalogueIsDocument DEF FileNext
<1>2. ASSUME NEW c \in Clients, Check(c) PROVE [FileNext]_fileVars
  BY <1>2 DEF Check
<1>3. ASSUME NEW c \in Clients, Act(c) PROVE [FileNext]_fileVars
  <2>1. CASE UNCHANGED fileVars
    BY <2>1
  <2>2. CASE LET doc == Mutated(mem, req[c].ask, req[c].seen) IN doc # Missing /\ Begin(doc)
    <3>1. running /\ req[c].phase = "checked"
      BY <1>3, <2>2 DEF Act, Begin
    <3> QED  BY <1>1, <2>2, <3>1, ActDocument
  <2> QED  BY <1>3, <2>1, <2>2 DEF Act
<1>4. CASE BootStep
  <2>1. CASE UNCHANGED fileVars
    BY <2>1
  <2>2. CASE LET doc == Mutated(mem, Head(todo).ask, mem) IN doc # Missing /\ Begin(doc)
    BY <1>1, <1>4, <2>2, BootDocument DEF BootStep
  <2> QED  BY <1>4, <2>1, <2>2 DEF BootStep
<1>5. CASE Saving
  BY <1>5 DEF Saving, FileNext, SaveStep
<1>6. CASE Saved
  BY <1>6 DEF Saved, FileNext, SaveStep
<1>7. CASE Failed
  BY <1>7 DEF Failed, FileNext, SaveStep
<1>8. CASE Down
  BY <1>8 DEF Down, FileNext
<1>9. CASE Boot
  BY <1>9 DEF Boot, FileNext
<1>10. CASE Damage
  BY <1>10 DEF FileNext
<1>11. CASE UNCHANGED catVars
  BY <1>11 DEF catVars
<1> QED
  BY <1>2, <1>3, <1>4, <1>5, <1>6, <1>7, <1>8, <1>9, <1>10, <1>11 DEF Next

LEMMA CatInit == Init => CatInv
<1> SUFFICES ASSUME Init PROVE CatInv
  OBVIOUS
<1>1. FileInv
  BY FileInitInv DEF Init
<1>2. Documents
  <2>1. ~running /\ Unlocked
    BY DEF Init, FileInit, Unlocked, Idle
  <2>2. PICK c \in Initial : file = [main |-> c, bak |-> Missing] /\ stable = file
    BY DEF Init, FileInit
  <2>3. Document(c) => IsCatalogue(c)
    BY CatalogueAssumption DEF CatalogueAssumption, Document
  <2> QED  BY <2>1, <2>2, <2>3 DEF Documents, Document
<1>3. ClientsSound /\ \A c \in Clients : req[c].phase = "ready"
  BY ClientInPhase DEF Init, ClientsSound, InPhase
<1>4. Exclusive
  BY <1>3 DEF Exclusive
<1>5. BootOrder
  BY SuffixEnds DEF Init, FileInit, BootOrder, Unlocked, Idle
<1> QED  BY <1>1, <1>2, <1>3, <1>4, <1>5 DEF CatInv

\* A save begins or ends, the files change, the process comes or goes.
LEMMA DocumentsStep == CatInv /\ [Next]_catVars => Documents'
<1> SUFFICES ASSUME CatInv, [Next]_catVars PROVE Documents'
  OBVIOUS
<1> USE DEF Documents
<1>0. Documents /\ FileTypeOK /\ (~Unlocked => running)
  BY DEF CatInv, FileInv
<1>1. ASSUME NEW doc, IsCatalogue(doc), Begin(doc) PROVE Documents'
  BY <1>0, <1>1 DEF Begin, Unlocked
<1>2. ASSUME UNCHANGED fileVars PROVE Documents'
  BY <1>0, <1>2 DEF fileVars, Unlocked
<1>3. ASSUME NEW c \in Clients, Check(c) PROVE Documents'
  BY <1>2, <1>3 DEF Check
<1>4. ASSUME NEW c \in Clients, Act(c) PROVE Documents'
  <2>1. CASE LET doc == Mutated(mem, req[c].ask, req[c].seen) IN doc # Missing /\ Begin(doc)
    <3>1. running /\ req[c].phase = "checked"
      BY <1>4, <2>1 DEF Act, Begin
    <3> QED  BY <1>1, <2>1, <3>1, ActDocument
  <2> QED  BY <1>2, <1>4, <2>1 DEF Act
<1>5. CASE BootStep
  <2>1. CASE LET doc == Mutated(mem, Head(todo).ask, mem) IN doc # Missing /\ Begin(doc)
    BY <1>1, <1>5, <2>1, BootDocument DEF BootStep
  <2> QED  BY <1>2, <1>5, <2>1 DEF BootStep
<1>6. CASE Saving
  <2>1. CASE WriteTemp
    BY <1>0, <2>1 DEF WriteTemp, NextStep, Unlocked, FileTypeOK, Idle
  <2>2. CASE Backup
    <3>1. ~Unlocked /\ save'.prev = save.prev /\ running' = running /\ mem' = mem
      BY <1>0, <2>2 DEF Backup, NextStep, Unlocked, FileTypeOK, Idle
    <3>2. /\ file'.main = file.main /\ file'.bak = file.main
          /\ stable' = stable \/ stable' = file'
      BY <1>0, <2>2 DEF Backup, FileTypeOK
    <3> QED  BY <1>0, <3>1, <3>2
  <2>3. CASE SyncBackup
    BY <1>0, <2>3 DEF SyncBackup, NextStep, Unlocked, FileTypeOK, Idle
  <2>4. CASE Rename
    <3>1. ~Unlocked /\ save'.prev = save.prev /\ running' = running /\ mem' = mem
      BY <1>0, <2>4 DEF Rename, NextStep, Unlocked, FileTypeOK, Idle
    <3>2. /\ file'.main = mem /\ file'.bak = file.bak
          /\ stable' = stable \/ stable' = file'
      BY <1>0, <2>4 DEF Rename, FileTypeOK
    <3> QED  BY <1>0, <3>1, <3>2
  <2> QED  BY <1>6, <2>1, <2>2, <2>3, <2>4 DEF Saving
<1>7. CASE Saved
  BY <1>0, <1>7 DEF Saved, SyncDir, Unlocked, Idle
<1>8. CASE Failed
  BY <1>0, <1>8 DEF Failed, SaveFails, Unlocked, Idle
<1>9. CASE Down
  <2>1. CASE Exit
    BY <1>0, <2>1 DEF Exit, Gone, Unlocked, Idle
  <2>2. CASE Crash
    <3>1. PICK dir \in Survivors : file' = dir /\ stable' = dir
      BY <2>2 DEF Crash
    <3>2. dir.main \in {file.main, stable.main} /\ dir.bak \in {file.bak, stable.bak}
      BY DEF Survivors
    <3>3. running' = FALSE /\ Unlocked'
      BY <2>2 DEF Crash, Gone, Unlocked, Idle
    <3> QED  BY <1>0, <3>1, <3>2, <3>3
  <2> QED  BY <1>9, <2>1, <2>2 DEF Down
<1>10. CASE Boot
  <2>1. /\ Load(file) # Torn /\ mem' = Load(file)
        /\ file' = file /\ stable' = stable
        /\ Unlocked' \/ save'.prev = EmptyDoc
    BY <1>10 DEF Boot, Open, Unlocked, Idle
  <2>2. IsCatalogue(Load(file))
    BY <1>0, <2>1, LoadedCatalogue
  <2>3. IsCatalogue(EmptyDoc)
    BY CatalogueAssumption DEF CatalogueAssumption
  <2> QED  BY <1>0, <2>1, <2>2, <2>3
<1>11. CASE Damage
  <2>1. file'.main = Torn /\ file'.bak = file.bak /\ stable' = file'
    BY <1>0, <1>11 DEF Damage, FileTypeOK
  <2>2. ~Document(Torn)
    BY DEF Document
  <2>3. running' = running /\ mem' = mem /\ save' = save
    BY <1>11 DEF Damage
  <2> QED  BY <1>0, <2>1, <2>2, <2>3 DEF Unlocked
<1>12. CASE UNCHANGED catVars
  BY <1>2, <1>12 DEF catVars
<1> QED
  BY <1>3, <1>4, <1>5, <1>6, <1>7, <1>8, <1>9, <1>10, <1>11, <1>12 DEF Next

\* What a client's state may turn into without a step of its own.
LEMMA ClientsEnd ==
    ASSUME ClientsSound, NEW P, req' = [c \in Clients |-> IF req[c].phase \in P
                                                          THEN InPhase("ended") ELSE req[c]]
    PROVE  ClientsSound'
  BY ClientInPhase DEF ClientsSound

LEMMA ClientsStep == CatInv /\ [Next]_catVars => ClientsSound'
<1> SUFFICES ASSUME CatInv, [Next]_catVars PROVE ClientsSound'
  OBVIOUS
<1>0. ClientsSound
  BY DEF CatInv
<1>1. ASSUME NEW c \in Clients, NEW r, Client(r), req' = [req EXCEPT ![c] = r]
      PROVE  ClientsSound'
  BY <1>0, <1>1 DEF ClientsSound
<1>2. ASSUME UNCHANGED req PROVE ClientsSound'
  BY <1>0, <1>2 DEF ClientsSound
<1>3. ASSUME NEW c \in Clients, Check(c) PROVE ClientsSound'
  <2>1. PICK q \in Requests :
           req' = [req EXCEPT ![c] = IF Accepted(mem, q)
                                     THEN [phase |-> "checked", ask |-> q, seen |-> mem]
                                     ELSE InPhase("ended")]
    BY <1>3 DEF Check
  <2>2. IsCatalogue(mem)
    BY <1>3 DEF Check, Serving, CatInv, Documents
  <2> DEFINE r == [phase |-> "checked", ask |-> q, seen |-> mem]
  <2>3. CASE Accepted(mem, q)
    <3>1. Client(r)
      BY <2>2, <2>3 DEF Client, Phases
    <3> HIDE DEF r
    <3> QED  BY <1>1, <2>1, <2>3, <3>1 DEF r
  <2>4. CASE ~Accepted(mem, q)
    BY <1>1, <2>1, <2>4, ClientInPhase
  <2> QED  BY <2>3, <2>4
<1>4. ASSUME NEW c \in Clients, Act(c) PROVE ClientsSound'
  <2>1. CASE req' = [req EXCEPT ![c] = InPhase("ended")]
    BY <1>1, <2>1, ClientInPhase
  <2>2. CASE req' = [req EXCEPT ![c].phase = "saving"]
    <3> DEFINE r == [req[c] EXCEPT !.phase = "saving"]
    <3>1. req' = [req EXCEPT ![c] = r]
      BY <2>2
    <3>2. Client(req[c])
      BY <1>0 DEF ClientsSound
    <3>3. r = [phase |-> "saving", ask |-> req[c].ask, seen |-> req[c].seen]
      BY <3>2 DEF Client
    <3> HIDE DEF r
    <3>4. Client(r)
      BY <3>2, <3>3 DEF Client, Phases
    <3> QED  BY <1>1, <3>1, <3>4
  <2> QED  BY <1>4, <2>1, <2>2 DEF Act
<1>5. CASE Saved \/ Failed
  <2> DEFINE P == {"saving"}
  <2>1. req' = [c \in Clients |-> IF req[c].phase \in P THEN InPhase("ended") ELSE req[c]]
    BY <1>5 DEF Saved, Failed, Answered
  <2> HIDE DEF P
  <2> QED  BY <1>0, <2>1, ClientsEnd
<1>6. CASE Down
  <2> DEFINE P == {"checked", "saving"}
  <2>1. req' = [c \in Clients |-> IF req[c].phase \in P THEN InPhase("ended") ELSE req[c]]
    BY <1>6 DEF Down
  <2> HIDE DEF P
  <2> QED  BY <1>0, <2>1, ClientsEnd
<1> QED
  BY <1>2, <1>3, <1>4, <1>5, <1>6 DEF Next, BootStep, Saving, Boot, catVars

LEMMA ExclusiveStep == CatInv /\ [Next]_catVars => Exclusive'
<1> SUFFICES ASSUME CatInv, [Next]_catVars PROVE Exclusive'
  OBVIOUS
<1> DEFINE Quiet == \A c \in Clients : req[c].phase \notin {"checked", "saving"}
<1>0. /\ Exclusive /\ DOMAIN req = Clients
      /\ Unlocked => ~save.opening
      /\ \/ save = Idle
         \/ save \in [step : Steps, prev : {save.prev}, opening : BOOLEAN]
  BY DEF CatInv, FileInv, FileTypeOK, ClientsSound, Unlocked, Idle, Steps
<1>1. ASSUME Quiet, \A c \in Clients : req'[c] = req[c] \/ req'[c] = InPhase("ended")
      PROVE  Exclusive'
  BY <1>1 DEF Exclusive, InPhase
<1>2. ASSUME NEW c \in Clients, Check(c) PROVE Exclusive'
  <2>1. running /\ todo = <<>> /\ Unlocked /\ ~save.opening
    BY <1>0, <1>2 DEF Check, Serving
  <2>2. \A x \in Clients : req'[x].phase # "saving"
    <3>1. \A x \in Clients : req[x].phase # "saving"
      BY <1>0, <2>1 DEF Exclusive
    <3>2. PICK q \in Requests :
             req' = [req EXCEPT ![c] = IF Accepted(mem, q)
                                       THEN [phase |-> "checked", ask |-> q, seen |-> mem]
                                       ELSE InPhase("ended")]
      BY <1>2 DEF Check
    <3>3. req'[c].phase # "saving"
      BY <1>0, <3>2 DEF InPhase
    <3>4. \A x \in Clients \ {c} : req'[x] = req[x]
      BY <1>0, <3>2
    <3> QED  BY <3>1, <3>3, <3>4
  <2>3. running' = running /\ todo' = todo /\ save' = save
    BY <1>2 DEF Check, fileVars
  <2> QED  BY <2>1, <2>2, <2>3 DEF Exclusive
<1>3. ASSUME NEW c \in Clients, Act(c) PROVE Exclusive'
  <2>1. Unlocked /\ req[c].phase = "checked" /\ running /\ todo = <<>> /\ ~save.opening /\ todo' = todo
    BY <1>0, <1>3 DEF Act, Exclusive
  <2>2. \A x \in Clients : req[x].phase # "saving"
    BY <1>0, <2>1 DEF Exclusive
  <2>3. CASE req' = [req EXCEPT ![c] = InPhase("ended")] /\ UNCHANGED fileVars
    <3>1. \A x \in Clients : req'[x].phase # "saving"
      BY <1>0, <2>2, <2>3 DEF InPhase
    <3>2. running' = running /\ todo' = todo /\ save' = save
      BY <2>1, <2>3 DEF fileVars
    <3> QED  BY <2>1, <3>1, <3>2 DEF Exclusive
  <2>4. CASE req' = [req EXCEPT ![c].phase = "saving"] /\ (\E doc : Begin(doc))
    <3>1. \A x \in Clients \ {c} : req'[x].phase # "saving"
      BY <1>0, <2>2, <2>4
    <3>2. running' = running /\ ~Unlocked' /\ ~save'.opening
      BY <2>4 DEF Begin, Unlocked
    <3> QED  BY <2>1, <3>1, <3>2 DEF Exclusive
  <2> QED  BY <1>3, <2>3, <2>4 DEF Act
<1>4. CASE BootStep
  BY <1>0, <1>1, <1>4 DEF BootStep, Exclusive
<1>5. CASE Saving
  <2>1. running' = running /\ ~Unlocked' /\ save'.opening = save.opening
    BY <1>0, <1>5
    DEF Saving, WriteTemp, Backup, SyncBackup, Rename, NextStep, Unlocked, Idle
  <2>2. req' = req /\ todo' = todo
    BY <1>5 DEF Saving
  <2> QED  BY <1>0, <2>1, <2>2 DEF Exclusive
<1>6. CASE Saved \/ Failed
  <2>1. req' = [c \in Clients |-> IF req[c].phase = "saving" THEN InPhase("ended") ELSE req[c]]
    BY <1>6 DEF Saved, Failed, Answered
  <2>2. \A c \in Clients : req'[c].phase # "saving"
    BY <2>1 DEF InPhase
  <2>3. ~save'.opening
    BY <1>6 DEF Saved, Failed, SyncDir, SaveFails, Idle
  <2>4. ~running' => ~running \/ save.opening
    BY <1>6 DEF Saved, Failed, SyncDir, SaveFails
  <2>5. todo' # <<>> => todo # <<>>
    BY <1>6 DEF Saved, Failed
  <2>6. ~running' \/ todo' # <<>> \/ save'.opening => Quiet
    BY <1>0, <2>3, <2>4, <2>5 DEF Exclusive
  <2>7. CASE Quiet
    BY <1>1, <2>1, <2>7
  <2>8. CASE ~Quiet
    BY <2>2, <2>6, <2>8 DEF Exclusive
  <2> QED  BY <2>7, <2>8
<1>7. CASE Down
  BY <1>7 DEF Down, Exclusive, InPhase
<1>8. CASE Boot
  BY <1>0, <1>1, <1>8 DEF Boot, Open, Exclusive
<1>9. CASE Damage /\ UNCHANGED <<req, todo>>
  BY <1>0, <1>1, <1>9 DEF Damage, Exclusive
<1>10. CASE UNCHANGED catVars
  BY <1>0, <1>10 DEF catVars, fileVars, Exclusive, Unlocked
<1> QED
  BY <1>2, <1>3, <1>4, <1>5, <1>6, <1>7, <1>8, <1>9, <1>10 DEF Next

LEMMA BootOrderStep == CatInv /\ [Next]_catVars => BootOrder'
<1> SUFFICES ASSUME CatInv, [Next]_catVars PROVE BootOrder'
  OBVIOUS
<1>0. /\ BootOrder /\ Exclusive /\ (~Unlocked => running)
      /\ \/ save = Idle
         \/ save \in [step : Steps, prev : {save.prev}, opening : BOOLEAN]
  BY DEF CatInv, FileInv, FileTypeOK
<1>1. ASSUME UNCHANGED <<fileVars, todo>> PROVE BootOrder'
  BY <1>0, <1>1 DEF BootOrder, Suffix, fileVars, Unlocked
<1>2. ASSUME Suffix(todo'), Unlocked', ~running' => todo' = <<>> PROVE BootOrder'
  BY <1>2 DEF BootOrder
<1>3. ASSUME NEW c \in Clients, Act(c) PROVE BootOrder'
  <2>1. todo = <<>> /\ todo' = todo
    BY <1>0, <1>3 DEF Act, Exclusive
  <2> QED  BY <1>0, <2>1 DEF BootOrder
<1>4. CASE BootStep
  <2>1. CASE todo' = Tail(todo) /\ UNCHANGED fileVars
    <3>1. Suffix(todo') /\ Unlocked' /\ running'
      BY <1>0, <1>4, <2>1, SuffixTail DEF BootStep, BootOrder, fileVars, Unlocked
    <3> QED  BY <1>2, <3>1
  <2>2. CASE /\ UNCHANGED todo
             /\ LET doc == Mutated(mem, Head(todo).ask, mem) IN doc # Missing /\ Begin(doc)
    <3>1. running /\ todo # <<>>
      BY <1>4 DEF BootStep
    <3>2. Adds(mem, Mutated(mem, Head(todo).ask, mem))
      BY <2>2, <3>1, BootDocument
    <3>3. save'.prev = mem /\ mem' = Mutated(mem, Head(todo).ask, mem) /\ running' = running
      BY <2>2 DEF Begin
    <3> QED  BY <1>0, <2>2, <3>1, <3>2, <3>3 DEF BootOrder
  <2> QED  BY <1>4, <2>1, <2>2 DEF BootStep
<1>5. CASE Saving
  <2>1. running' = running /\ ~Unlocked /\ save'.prev = save.prev /\ mem' = mem /\ todo' = todo
    BY <1>0, <1>5
    DEF Saving, WriteTemp, Backup, SyncBackup, Rename, NextStep, Unlocked, Idle
  <2> QED  BY <1>0, <2>1 DEF BootOrder
<1>6. CASE Saved
  <2>1. Suffix(todo')
    BY <1>0, <1>6, SuffixTail DEF Saved, BootOrder
  <2>2. Unlocked' /\ running'
    BY <1>0, <1>6 DEF Saved, SyncDir, Unlocked, Idle
  <2> QED  BY <1>2, <2>1, <2>2
<1>7. CASE Failed
  <2>1. Suffix(todo')
    BY <1>0, <1>7, SuffixTail, SuffixRemaining, SuffixEnds DEF Failed, BootOrder
  <2>2. Unlocked' /\ (~running' => todo' = <<>>)
    BY <1>7 DEF Failed, SaveFails, Unlocked, Idle
  <2> QED  BY <1>2, <2>1, <2>2
<1>8. CASE Down
  <2>1. Suffix(todo') /\ todo' = <<>>
    BY <1>8, SuffixEnds DEF Down
  <2> QED  BY <2>1 DEF BootOrder
<1>9. CASE Boot
  <2>1. Suffix(todo') /\ running'
    BY <1>9, SuffixEnds DEF Boot, Open
  <2>2. Unlocked' \/ save'.prev = mem'
    BY <1>9 DEF Boot, Open, Load, Unlocked, Idle
  <2>3. save'.prev = mem' => Adds(save'.prev, mem')
    BY DEF Adds
  <2> QED  BY <2>1, <2>2, <2>3 DEF BootOrder
<1>10. CASE Damage /\ UNCHANGED <<req, todo>>
  BY <1>0, <1>10 DEF Damage, BootOrder
<1> QED
  BY <1>1, <1>3, <1>4, <1>5, <1>6, <1>7, <1>8, <1>9, <1>10 DEF Next, Check, catVars

LEMMA CatStep == CatInv /\ [Next]_catVars => CatInv'
<1>1. CatInv /\ [Next]_catVars => FileInv'
  BY StepsOfTheFile, FileStep DEF CatInv
<1> QED  BY <1>1, DocumentsStep, ClientsStep, ExclusiveStep, BootOrderStep DEF CatInv

-----------------------------------------------------------------------------
(* Whatever requests, crashes, failed saves, migrations and seeds there have
   been, memory and every file that load() takes hold a well-formed catalogue,
   one request saves at a time, and a boot works its tasks off in their order
   (repository.go, migrate.go, config_seed.go). *)
THEOREM CatalogueTypes == Spec => []TypeOK
<1>1. CatInv => TypeOK
  <2> SUFFICES ASSUME CatInv PROVE TypeOK
    OBVIOUS
  <2>1. FileTypeOK /\ Documents
    BY DEF CatInv, FileInv
  <2>2. \A c \in Clients : /\ req[c].phase \in Phases
                           /\ req[c].ask \in Requests \cup {NoRequest}
                           /\ req[c].seen = Missing \/ IsCatalogue(req[c].seen)
    BY DEF CatInv, ClientsSound, Client
  <2>3. Cardinality({c \in Clients : req[c].phase = "saving"}) <= (IF Unlocked THEN 0 ELSE 1)
    <3> DEFINE S == {c \in Clients : req[c].phase = "saving"}
    <3>1. CASE S = {}
      BY <3>1, FS_EmptySet
    <3>2. CASE S # {}
      <4>1. PICK c \in S : TRUE
        BY <3>2
      <4>2. S = {c} /\ ~Unlocked
        BY <4>1 DEF CatInv, Exclusive
      <4>3. Cardinality(S) = 1
        BY <4>2, FS_Singleton
      <4>4. Cardinality(S) <= 1
        BY <4>3
      <4>5. (IF Unlocked THEN 0 ELSE 1) = 1
        BY <4>2
      <4> HIDE DEF S
      <4> QED  BY <4>4, <4>5 DEF S
    <3> QED  BY <3>1, <3>2
  <2>4. \E i \in 0..Len(BootTasks) : todo = SubSeq(BootTasks, i + 1, Len(BootTasks))
    BY DEF CatInv, BootOrder, Suffix
  <2> QED  BY <2>1, <2>2, <2>3, <2>4 DEF TypeOK, Documents
<1> QED  BY <1>1, CatInit, CatStep, PTL DEF Spec

(* No request, import, migration or race of two edits ever leaves a pipeline with
   two entries of one identity, or with an entry that has none: the runner and
   the UI address entries by it (ADR 013 D1, pipeline_service.go:134-144,
   repository.go:1013-1017). *)
THEOREM EntriesStayUnique ==
    Spec => [](running =>
                 \A p \in DOMAIN mem.pipelines :
                   LET es == mem.pipelines[p].entries
                   IN  \A i, j \in DOMAIN es :
                         es[i].id # NoId /\ (es[i].id = es[j].id => i = j))
<1> DEFINE Unique == running =>
                       \A p \in DOMAIN mem.pipelines :
                         \A i, j \in DOMAIN mem.pipelines[p].entries :
                           LET es == mem.pipelines[p].entries
                           IN  es[i].id # NoId /\ (es[i].id = es[j].id => i = j)
<1>1. CatInv => Unique
  <2> SUFFICES ASSUME CatInv, running, NEW p \in DOMAIN mem.pipelines,
                      NEW i \in DOMAIN mem.pipelines[p].entries,
                      NEW j \in DOMAIN mem.pipelines[p].entries
               PROVE  LET es == mem.pipelines[p].entries
                      IN  es[i].id # NoId /\ (es[i].id = es[j].id => i = j)
    OBVIOUS
  <2> DEFINE es == mem.pipelines[p].entries
  <2>1. mem.pipelines[p] \in CataloguePipelines
    BY CatOf DEF CatInv, Documents, Table
  <2>2. es \in Seq([id : EntryIds, model : ModelIds]) /\ DistinctIds(es)
    BY <2>1 DEF CataloguePipelines, PipelineEntries
  <2>3. es[i] \in [id : EntryIds, model : ModelIds]
    <3>1. es \in [1 .. Len(es) -> [id : EntryIds, model : ModelIds]]
      BY <2>2, LenProperties
    <3> QED  BY <3>1
  <2>4. es[i].id # NoId
    BY <2>3, CatalogueAssumption DEF CatalogueAssumption
  <2> QED  BY <2>2, <2>4 DEF DistinctIds
<1> QED  BY <1>1, CatInit, CatStep, PTL DEF Spec

(* The repository is one durable document: with its requests, imports and boots
   it takes no step that WriteFileDurable and load() alone would not take. *)
THEOREM CatalogueIsDurable == Spec => FileSpec
<1>1. Init => FileInit
  BY DEF Init
<1> QED  BY <1>1, CatInit, CatStep, StepsOfTheFile, PTL DEF Spec, FileSpec

(* So whatever crashes, at any system call, load() finds the catalogue
   acknowledged last or one submitted since, whole: only the save of a later
   catalogue can replace an acknowledged one, and while none runs nothing
   does (fsutil.go:86-114). *)
THEOREM CatalogueDurability == Spec => ImplementsRegister
<1> QED  BY CatalogueIsDurable, Durability, PTL

THEOREM CatalogueRecoverable == Spec => []Recoverable
<1> QED  BY CatalogueIsDurable, AlwaysRecoverable, PTL

(* A check that has passed on the catalogue that the write changes means what
   it says: no second runtime under a name, no reference to nothing; an import
   needs no check at all (runtime_service.go, model_service.go,
   pipeline_service.go over repository.go). *)
THEOREM ChecksAreSound == Spec => ChecksHold
<1> DEFINE A == \A c \in Clients :
                   /\ req[c].phase = "checked" /\ req'[c].phase = "saving"
                   /\ req[c].seen = mem \/ req[c].ask.kind = "import"
                   => Sound(req[c].ask, mem, mem')
<1>1. CatInv /\ [Next]_catVars => A
  <2> SUFFICES ASSUME CatInv, [Next]_catVars, NEW c \in Clients,
                      req[c].phase = "checked", req'[c].phase = "saving",
                      req[c].seen = mem \/ req[c].ask.kind = "import"
               PROVE  Sound(req[c].ask, mem, mem')
    OBVIOUS
  <2>0. ClientsSound /\ Client(req[c]) /\ Documents
    BY DEF CatInv, ClientsSound
  <2> DEFINE doc == Mutated(mem, req[c].ask, req[c].seen)
  <2>1. doc # Missing /\ Begin(doc)
    <3>1. ASSUME NEW x \in Clients, Check(x) PROVE FALSE
      <4>1. PICK q \in Requests :
               req' = [req EXCEPT ![x] = IF Accepted(mem, q)
                                         THEN [phase |-> "checked", ask |-> q, seen |-> mem]
                                         ELSE InPhase("ended")]
        BY <3>1 DEF Check
      <4> QED  BY <2>0, <4>1 DEF ClientsSound, InPhase
    <3>2. ASSUME NEW x \in Clients \ {c}, Act(x) PROVE FALSE
      BY <2>0, <3>2 DEF Act, ClientsSound
    <3>3. CASE Act(c)
      <4>1. req' # [req EXCEPT ![c] = InPhase("ended")]
        BY <2>0 DEF ClientsSound, InPhase
      <4> QED  BY <3>3, <4>1 DEF Act
    <3>4. req' # req
      OBVIOUS
    <3>5. CASE Saved \/ Failed \/ Down
      BY <3>5 DEF Saved, Failed, Down, Answered, InPhase
    <3> QED
      BY <3>1, <3>2, <3>3, <3>4, <3>5 DEF Next, BootStep, Saving, Boot, catVars
  <2>2. IsCatalogue(mem) /\ mem' = doc
    BY <2>0, <2>1 DEF Begin, Documents
  <2>3. Good(mem, req[c].ask, doc)
    BY <2>0, <2>1, <2>2, ActGood
  <2>4. Accepted(mem, req[c].ask)
    BY <2>0 DEF Client, Accepted
  <2> QED  BY <2>2, <2>3, <2>4 DEF Good
<1> QED  BY <1>1, CatInit, CatStep, PTL DEF Spec, ChecksHold

(* Migration and seeding only add to what the repository holds, through every
   failed save and every boot cut short (migrate.go, config_seed.go). *)
THEOREM BootsOnlyAdd == Spec => BootOnlyAdds
<1> DEFINE A == todo # <<>> /\ running /\ running' =>
                  /\ \A r \in DOMAIN Value.runtimes :
                       r \in DOMAIN Value'.runtimes /\ Value'.runtimes[r] = Value.runtimes[r]
                  /\ \A m \in DOMAIN Value.models :
                       m \in DOMAIN Value'.models /\ Value'.models[m] = Value.models[m]
                  /\ Value'.pipelines = Value.pipelines
<1>1. CatInv /\ [Next]_catVars => A
  <2> SUFFICES ASSUME CatInv, [Next]_catVars, todo # <<>>, running, running'
               PROVE  Adds(Value, Value')
    BY DEF Adds
  <2>0. /\ BootOrder /\ Exclusive
        /\ \/ save = Idle
           \/ save \in [step : Steps, prev : {save.prev}, opening : BOOLEAN]
    BY DEF CatInv, FileInv, FileTypeOK
  <2>1. ASSUME Value' = Value PROVE Adds(Value, Value')
    BY <2>1 DEF Adds
  <2>2. ASSUME UNCHANGED fileVars PROVE Adds(Value, Value')
    BY <2>1, <2>2 DEF fileVars, Value, Unlocked
  <2>3. ASSUME NEW c \in Clients PROVE ~Check(c) /\ ~Act(c)
    BY <2>0 DEF Check, Serving, Act, Exclusive
  <2>4. CASE BootStep
    <3>1. ASSUME NEW doc, Begin(doc) PROVE Value' = Value
      BY <3>1 DEF Begin, Value, Unlocked
    <3> QED  BY <2>1, <2>2, <2>4, <3>1 DEF BootStep
  <2>5. CASE Saving
    <3>1. ~Unlocked /\ ~Unlocked' /\ save'.prev = save.prev
      BY <2>0, <2>5
      DEF Saving, WriteTemp, Backup, SyncBackup, Rename, NextStep, Unlocked, Idle
    <3> QED  BY <2>1, <3>1 DEF Value
  <2>6. CASE Saved
    <3>1. ~Unlocked /\ Unlocked' /\ mem' = mem
      BY <2>6 DEF Saved, SyncDir, Unlocked, Idle
    <3>2. Value = save.prev /\ Value' = mem
      BY <3>1 DEF Value
    <3> QED  BY <2>0, <3>1, <3>2 DEF BootOrder
  <2>7. CASE Failed
    <3>1. ~Unlocked /\ Unlocked' /\ mem' = save.prev
      BY <2>7 DEF Failed, SaveFails, Unlocked, Idle
    <3> QED  BY <2>1, <3>1 DEF Value
  <2>8. ~Down /\ ~Boot /\ ~Damage
    BY DEF Down, Exit, Crash, Gone, Boot, Open, Damage
  <2> QED
    BY <2>2, <2>3, <2>4, <2>5, <2>6, <2>7, <2>8 DEF Next, catVars
<1> QED  BY <1>1, CatInit, CatStep, PTL DEF Spec, BootOnlyAdds

=============================================================================
