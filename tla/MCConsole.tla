------------------------------- MODULE MCConsole -------------------------------
EXTENDS Console

CONSTANTS a, c1, c2, admin, ops, pwd1, pwd2

\* One client follows the run, the other everything.
OneAndAll == [c \in {c1, c2} |-> IF c = c1 THEN a ELSE All]

Load(out, err, clients) ==
    [lines |-> [s \in {"stdout", "stderr"} |-> IF s = "stdout" THEN out ELSE err], watching |-> clients]

SomeLoads == {Load(2, 0, {c1}), Load(1, 1, {c1}), Load(1, 0, {c1, c2})}

Body(user, password, auth) == [user |-> user, password |-> password, auth |-> auth]
SomeBodies == {Body(None, pwd1, TRUE), Body(ops, pwd2, TRUE), Body(None, None, TRUE), Body(ops, None, FALSE)}

\* A fresh install, a plaintext password and a hash in the wrong field.
Document(plain, auth) == [user |-> admin, hash |-> None, plain |-> plain, auth |-> auth, level |-> "info"]
SomeDocuments == {Document(None, FALSE), Document(pwd1, TRUE), Document(HashOf(pwd2), TRUE)}

(* The pages of a log query partition what it returns, for every page size
   and every number of entries around its boundaries. *)
ASSUME PagesPartition ==
    \A n \in 0 .. 5, perPage \in 0 .. 3 :
        LET items == [k \in 1 .. n |-> k]
        IN  FlattenSeq([page \in 1 .. n + 1 |-> Paged(items, page, perPage)]) = items
=============================================================================
