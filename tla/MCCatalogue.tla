----------------------------- MODULE MCCatalogue -----------------------------
(* Small instances of Catalogue: two names that differ in case only, two     *)
(* runtimes, two models, one pipeline.                                       *)
EXTENDS Catalogue, TLC

CONSTANTS c1, c2

MCSymmetry == Permutations({c1, c2})

MCNames == {"n", "N", "o"}
Lowered == [x \in MCNames |-> IF x = "N" THEN "n" ELSE x]
MCLower == Lowered

RT(name, env) == [name |-> name, body |-> <<>>, env |-> env]
Body(active, args) == [active |-> active, args |-> args]
MD(runtime, body, env) == [runtime |-> runtime, body |-> body, env |-> env]
PL(entries) == [body |-> <<"p">>, entries |-> entries]
En(id, model) == [id |-> id, model |-> model]

MCBodies == {<<>>, <<"p">>}

MCEmpty == [runtimes |-> <<>>, models |-> <<>>, pipelines |-> <<>>]

\* A profile of schema 5 on r1, with a physical model.
MCLegacy(version) ==
    [version  |-> version,
     runtimes |-> "r1" :> [name |-> "n", args |-> <<>>, env |-> "e"],
     physical |-> "f1" :> [file |-> <<"m.gguf">>, args |-> <<>>],
     profiles |-> "m1" :> [runtime |-> "r1", model |-> "f1", args |-> <<>>, host |-> "h",
                           env |-> "e", active |-> FALSE]]

\* The document most requests need: a pipeline over a model over a runtime,
\* saved before its entry had an identity.
MCSeven ==
    [version   |-> 7,
     runtimes  |-> ("r1" :> RT("n", "e") @@ "r2" :> RT("o", "-")),
     models    |-> "m1" :> MD("r1", Body(FALSE, <<>>), "e"),
     pipelines |-> "p1" :> PL(<<En(NoId, "m1")>>)]

MCFive   == MCLegacy(5)
MCLoaded == MCFive :> Loaded(MCFive) @@ MCSeven :> Loaded(MCSeven)

\* What stands for a constant is evaluated wherever it is used, a definition once.
MCUpgrade == MCLoaded
MCInitial == {Missing, MCFive, MCSeven}

NoLegacy == [version |-> 5, runtimes |-> <<>>, physical |-> <<>>, profiles |-> <<>>]
MCStores == [NoLegacy EXCEPT
    !.runtimes = "r1" :> [name |-> "n", args |-> <<>>, env |-> "e"],
    !.profiles = "m1" :> [runtime |-> "r1", model |-> "f1", args |-> <<>>, host |-> NoHost,
                          env |-> "e", active |-> TRUE]]
MCSeed == [NoLegacy EXCEPT
    !.runtimes = "r1" :> [name |-> "o", args |-> <<>>, env |-> "-"]]

\* A bundle with a runtime, a model and a pipeline of its own; one that
\* restores r1 under another name; one that clashes with it.
MCBundle(name, models, entries) ==
    [runtimes  |-> "r1" :> [name |-> name, body |-> <<>>],
     models    |-> [m \in models |-> [runtime |-> "r1", body |-> Body(TRUE, <<>>)]],
     pipelines |-> IF entries = <<>> THEN <<>> ELSE "p1" :> PL(entries)]
MCBundles ==
    {MCBundle("N", {"m1", "m2"}, <<En(<<"p1", 1>>, "m2"), En(<<"p1", 3>>, "m1")>>),
     MCBundle("o", {"m1"}, <<>>)}

AllRequests ==
    {[kind |-> "createRuntime", id |-> "r2", rec |-> RT("N", "-")],
     [kind |-> "patchRuntime", id |-> "r2", name |-> "n"],
     [kind |-> "deleteRuntime", id |-> "r1"],
     [kind |-> "replaceRuntime", id |-> "r1", new |-> "r2"],
     [kind |-> "replaceRuntime", id |-> "r1", new |-> "r1"],
     [kind |-> "cascadeRuntime", id |-> "r2"],
     [kind |-> "createModel", id |-> "m2", rec |-> MD("r2", Body(FALSE, <<>>), "-")],
     [kind |-> "patchModel", id |-> "m1", runtime |-> "r2"],
     [kind |-> "patchModelEnv", id |-> "m1", env |-> "-"],
     [kind |-> "activateModel", id |-> "m1", active |-> TRUE],
     [kind |-> "deleteModel", id |-> "m1"],
     [kind |-> "createPipeline", id |-> "p1", rec |-> PL(<<En(NoId, "m1"), En(NoId, "m1")>>)],
     [kind |-> "updatePipeline", id |-> "p1", rec |-> PL(<<En(NoId, "m2"), En(<<"p1", 1>>, "m1")>>)],
     [kind |-> "updatePipeline", id |-> "p1", rec |-> PL(<<En(NoId, "m1"), En(<<"p1", 2>>, "m2")>>)],
     [kind |-> "deletePipeline", id |-> "p1"]}
    \cup {[kind |-> "import", bundle |-> b] : b \in MCBundles}
MCRequests == AllRequests
=============================================================================
