--------------------------- MODULE ModelExclusion ---------------------------
(***************************************************************************)
(* What launch arbitration promises, without registry, locks or processes: *)
(* a lock with modes.  A holder claims it only while no holder it          *)
(* conflicts with has it, and releases it at any time.                     *)
(***************************************************************************)
CONSTANTS Holders, Conflicts

VARIABLE held

Init == held = {}

Claim(h) ==
    /\ \A g \in held : <<h, g>> \notin Conflicts
    /\ held' = held \cup {h}

Release(h) == held' = held \ {h}

Next == \E h \in Holders : Claim(h) \/ Release(h)

Spec == Init /\ [][Next]_held
====
