---------------------------- MODULE MCPipelines ----------------------------
(* An instance of Pipelines for TLC: one Active pipeline whose two entries  *)
(* launch the same model, which is Active too; an edit drops one entry and  *)
(* moves the other to a model that an orphan fences.                        *)
EXTENDS Pipelines, TLC

CONSTANTS p1, m1, m2, e1, e2, i1, i2, i3, i4, i5, i6, i7

E(e, m) == [id |-> e, model |-> m]

Twice == <<E(e1, m1), E(e2, m1)>>
Moved == <<E(e1, m2)>>

BothLayouts == {Twice, Moved}
OnDisk      == [p \in {p1} |-> Twice]
Autostarted == <<p1, m1>>

\* "model-stop" and "model-restart" stop and restart instances one by one as
\* "instance-stop" and "instance-restart" do, and Boot launches manually.
SomeKinds == {"start", "stop", "restart", "model-stop", "model-restart",
           "instance-restart", "update", "delete", "cleanup"}
=============================================================================
