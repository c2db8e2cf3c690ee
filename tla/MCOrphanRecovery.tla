-------------------------- MODULE MCOrphanRecovery --------------------------
(* An instance of OrphanRecovery for TLC.                                    *)
EXTENDS OrphanRecovery, TLC

CONSTANTS r1, r2, m1

OneModel == [r \in Records |-> m1]
=============================================================================
