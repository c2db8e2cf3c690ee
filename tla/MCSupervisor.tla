---------------------------- MODULE MCSupervisor ----------------------------
(* Instances of Supervisor for TLC.                                        *)
EXTENDS SupervisorProperties, TLC

CONSTANTS i1, i2, i3, m1

Manual       == [pipeline |-> "", entry |-> ""]
Entry(p, e)  == [pipeline |-> p, entry |-> e]

\* Every instance belongs to one model, where arbitration has work to do.
OneModel == [i \in Instances |-> m1]

\* A manual launch against a pipeline entry: never together.
ManualAndEntry ==
    [i \in Instances |-> IF i = i1 THEN Manual ELSE Entry("p", "a")]

\* Two launches of one entry of a pipeline, and one of another entry, which
\* may join either.
EntriesOfPipeline ==
    [i \in Instances |-> IF i = i2 THEN Entry("p", "b") ELSE Entry("p", "a")]

\* Two launches by one entry of a pipeline: never together.
OneEntry == [i \in Instances |-> Entry("p", "a")]

\* Nothing tells one restart request from another.
RestartSymmetry == Permutations(Restarts)
====
