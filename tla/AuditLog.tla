------------------------------- MODULE AuditLog -------------------------------
(***************************************************************************)
(* internal/webui/audit: one line per event, fsynced before Log returns    *)
(* nil, bounded rotation, every failure reported and survived.  Log holds  *)
(* the mutex from its first step to its last, so a call is one step with   *)
(* the outcomes of its calls to the file system.                           *)
(*                                                                         *)
(* A file is the sequence of what was written to it, each entry whole or a *)
(* fragment without its newline.  External: fsync also makes the renames   *)
(* and creations before it durable.                                        *)
(***************************************************************************)
EXTENDS Integers, FiniteSets, Sequences, SequencesExt, FiniteSetsExt

CONSTANTS
    Generations,  \* maxGenerations: the active file and its rotations
    FileCap,      \* maxFileSize, when LineSize is the size of a line
    LineSize,
    TornSize,     \* of a fragment
    MaxEvents,    \* bound: events logged
    MaxFailures,    \* bound: file system calls that fail, and crashes
    Absent

\* What a file is made of.
Lines == [ev : Nat, whole : BOOLEAN]

ASSUME AuditAssumption ==
    /\ Generations \in Nat \ {0, 1}
    /\ {LineSize, TornSize, FileCap} \subseteq Nat
    /\ TornSize < LineSize
    /\ LineSize <= FileCap
    /\ Absent \notin Seq(Lines)

VARIABLES
    gen,     \* goal_audit.jsonl and .1, .2, ...
    open,    \* AuditLogger.file # nil
    size,    \* AuditLogger.size
    logged,  \* events so far, each with its number
    acked,   \* history: the events Log returned nil for, and when
    drops,   \* history: rotations that got as far as dropping the oldest file
    failed   \* faults so far

auditVars == <<gen, open, size, logged, acked, drops, failed>>

Files == 0 .. Generations - 1

SizeOf(f) == FoldSeq(LAMBDA x, n : n + IF x.whole THEN LineSize ELSE TornSize, 0, f)

\* parseLine sees whole lines; a line behind a fragment has become its tail.
Readable(f) == {f[k].ev : k \in {j \in DOMAIN f : f[j].whole /\ (j > 1 => f[j - 1].whole)}}

Recent == IF gen[0] = Absent THEN {} ELSE Readable(gen[0])

-----------------------------------------------------------------------------
\* openLocked creates the active file and asks for its size.
Opened   == IF gen[0] = Absent THEN [gen EXCEPT ![0] = <<>>] ELSE gen
OpenSize == IF open THEN size ELSE SizeOf(Opened[0])

Full == OpenSize + LineSize > FileCap

\* MUTANT of After: from the active file up, each rename over the next file.
AfterAscending(k) ==
    [f \in Files |-> IF k = 0 \/ f > k THEN Opened[f]
                     ELSE IF f = k \/ f = Generations - 1 THEN Opened[0]
                     ELSE Absent]

\* rotateLocked, k steps of it: the oldest goes, every other moves up by one,
\* from the oldest down; a generation that is missing is skipped.
After(k) ==
    [f \in Files |-> IF k = 0 \/ f < Generations - k THEN Opened[f]
                     ELSE IF f = Generations - k THEN Absent
                     ELSE Opened[f - 1]]

Target     == IF Full THEN [After(Generations) EXCEPT ![0] = <<>>] ELSE Opened
TargetSize == IF Full THEN 0 ELSE OpenSize

\* The call fails before it writes.
LogFailsEarly ==
    /\ \/ /\ ~open
          /\ gen' \in {gen, Opened}
          /\ UNCHANGED <<size, open, drops>>
       \/ /\ Full
          /\ \E k \in 0 .. Generations :
                /\ gen' = After(k)
                /\ drops' = IF k > 0 THEN drops + 1 ELSE drops
                /\ size' = IF k = Generations THEN 0 ELSE OpenSize
          /\ open' = FALSE
    /\ failed' = failed + 1
    /\ UNCHANGED acked

\* Nothing, a fragment or the line is written, and fsync may fail then; a
\* crash in the middle of the call leaves the same, with no file open.
LogFailsLate ==
    /\ \E left \in {<<>>, <<[ev |-> logged + 1, whole |-> FALSE]>>, <<[ev |-> logged + 1, whole |-> TRUE]>>} :
          gen' = [Target EXCEPT ![0] = @ \o left]
    /\ size' = TargetSize
    /\ open' \in BOOLEAN
    /\ drops' = IF Full THEN drops + 1 ELSE drops
    /\ failed' = failed + 1
    /\ UNCHANGED acked

LogSucceeds ==
    /\ gen' = [Target EXCEPT ![0] = Append(@, [ev |-> logged + 1, whole |-> TRUE])]
    /\ size' = TargetSize + LineSize
    /\ open' = TRUE
    /\ drops' = IF Full THEN drops + 1 ELSE drops
    /\ acked' = acked \cup {[ev |-> logged + 1, drops |-> drops',
                             behind |-> Target[0] # <<>> /\ ~Last(Target[0]).whole]}
    /\ UNCHANGED failed

Log ==
    /\ logged < MaxEvents
    /\ logged' = logged + 1
    /\ \/ LogSucceeds
       \/ failed < MaxFailures /\ (LogFailsEarly \/ LogFailsLate)

Close ==
    /\ open
    /\ open' = FALSE
    /\ UNCHANGED <<gen, size, logged, acked, drops, failed>>

\* Lines behind the last one acknowledged were never synced.
Crash ==
    /\ failed < MaxFailures
    /\ \E n \in 0 .. (IF gen[0] = Absent THEN 0 ELSE Len(gen[0])) :
          /\ gen[0] # Absent => \A k \in n + 1 .. Len(gen[0]) :
                                   ~\E a \in acked : a.ev >= gen[0][k].ev
          /\ gen' = IF gen[0] = Absent THEN gen ELSE [gen EXCEPT ![0] = SubSeq(@, 1, n)]
    /\ open' = FALSE
    /\ failed' = failed + 1
    /\ UNCHANGED <<size, logged, acked, drops>>

AuditInit ==
    /\ gen = [f \in Files |-> Absent]
    /\ open = FALSE
    /\ size = 0
    /\ logged = 0
    /\ acked = {}
    /\ drops = 0
    /\ failed = 0

AuditNext == Log \/ Close \/ Crash

-----------------------------------------------------------------------------
(* An event Log returned nil for stays readable, whatever fails later and
   however often the program restarts, until as many rotations began as
   generations are kept; the one exception is an event written right behind a
   fragment.  And the files, oldest first, hold the events in the order they
   occurred (audit.go:94-100, 170-173, 252-285). *)
AckedKept ==
    /\ \A a \in acked : ~a.behind /\ drops - a.drops < Generations =>
          \E f \in Files : gen[f] # Absent /\ a.ev \in Readable(gen[f])
    /\ \A f, g \in {h \in Files : gen[h] # Absent} : \A j \in DOMAIN gen[f], k \in DOMAIN gen[g] :
          f > g \/ (f = g /\ j < k) => gen[f][j].ev < gen[g][k].ev
=============================================================================
