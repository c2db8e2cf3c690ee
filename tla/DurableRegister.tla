--------------------------- MODULE DurableRegister ---------------------------
(***************************************************************************)
(* What WriteFileDurable and its caller promise together, without files,   *)
(* renames or rollback: a register that survives crashes.                  *)
(*                                                                         *)
(* What a reopening may find is the value acknowledged last and values     *)
(* submitted since then, whose writes were refused or cut off.  A value    *)
(* enters `durable` only while its own write is pending, and one leaves it *)
(* only then or when a crash settles what is found: never while the        *)
(* register is idle, and nothing unreadable, older or never submitted is   *)
(* ever in it.  Once the medium is damaged the register promises nothing.  *)
(***************************************************************************)
CONSTANTS Closed, Unreadable

VARIABLES value,      \* what readers see; Closed while nobody has it open
          pending,    \* the value of the write under way; Closed without one
          durable,    \* the values a reopening after a crash may find
          lost        \* the medium was damaged

vars == <<value, pending, durable, lost>>

Init ==
    /\ value = Closed
    /\ pending = Closed
    /\ \E v \in durable : durable = {v} /\ v # Unreadable
    /\ lost = FALSE

Submit ==
    /\ value # Closed
    /\ pending = Closed
    /\ pending' \notin {Closed, Unreadable}
    /\ UNCHANGED <<value, durable, lost>>

\* The pending value reaches the medium, or what was left open there settles.
Store ==
    /\ pending # Closed
    /\ durable' # {}
    /\ durable' \subseteq durable \cup {pending}
    /\ UNCHANGED <<value, pending, lost>>

\* An acknowledged write is read, and is all that can be found.
Commit ==
    /\ pending # Closed
    /\ value' = pending
    /\ durable' = {pending}
    /\ pending' = Closed
    /\ UNCHANGED lost

\* A refused write is not read; what it stored stays where it is.
Refuse ==
    /\ pending # Closed
    /\ pending' = Closed
    /\ UNCHANGED <<value, durable, lost>>

\* The process or the power goes; what was not settled may settle either way.
Crash ==
    /\ value' = Closed
    /\ pending' = Closed
    /\ durable' # {}
    /\ durable' \subseteq durable
    /\ UNCHANGED lost

\* The first value of all is written by whoever opens the register.
Open ==
    /\ value = Closed
    /\ value' \in durable
    /\ pending' \in {Closed, value'}
    /\ UNCHANGED <<durable, lost>>

Damage == lost'

Next == Submit \/ Store \/ Commit \/ Refuse \/ Crash \/ Open \/ Damage

Spec == Init /\ [][Next]_vars
=============================================================================
