----------------------------- MODULE DurableFile -----------------------------
(***************************************************************************)
(* The durable document: internal/fsutil WriteFileDurable under the mutex  *)
(* of JSONRepository, with load() and its fallback to the backup.          *)
(*                                                                         *)
(* A document is opaque here.  `file` is the directory as processes see    *)
(* it, `stable` the one a crash leaves when nothing else was synced; on    *)
(* POSIX a rename stays out of `stable` until the directory is synced, on  *)
(* Windows it is in it at once.  The temporary files are never read, so a  *)
(* temporary file is written, synced and read back in one step.            *)
(***************************************************************************)
EXTENDS Naturals, FiniteSets

CONSTANTS
    Upgrade,   \* file contents of older schemas -> the document they load as
    EmptyDoc,  \* the document of a new repository
    Missing,   \* no such file
    Torn,      \* a file that does not parse
    Initial,   \* what the main file may hold at the very beginning
    MaxDamage  \* bound: how often the document on disk is damaged

\* A document of the current schema: load() takes it as it is.
Document(c) == c \notin DOMAIN Upgrade \cup {Missing, Torn}

ASSUME FileAssumption ==
    /\ Document(EmptyDoc)
    /\ Missing # Torn
    /\ {Missing, Torn} \cap DOMAIN Upgrade = {}
    /\ \A f \in DOMAIN Upgrade : Document(Upgrade[f])
    /\ Torn \notin Initial
    /\ MaxDamage \in Nat

VARIABLES
    posix,     \* directories need a sync of their own
    running,   \* a GoAl process has the repository open
    mem,       \* r.runtimes, r.models and r.pipelines; Missing when not running
    save,      \* the save under r.mu: its next step, what a failure restores,
               \* and whether NewJSONRepository waits for it
    file,      \* contents of the document and of its backup
    stable,    \* the same, as the last directory sync left them
    damaged    \* how often the main file was damaged

fileVars == <<posix, running, mem, save, file, stable, damaged>>

Steps == {"write", "backup", "syncBackup", "rename", "sync"}
Idle  == [step |-> "none", prev |-> Missing, opening |-> FALSE]

\* r.mu is free: readers and writers get in.
Unlocked == save.step = "none"

\* json.Unmarshal and the migrations of older schemas, in memory only.
Parse(c) == IF c \in DOMAIN Upgrade THEN Upgrade[c] ELSE c

\* load(): the main file, else the backup; a missing main is a new repository
\* even if there is a backup.  Torn: both failed, NewJSONRepository fails.
Load(dir) ==
    LET chosen == IF dir.main = Torn THEN dir.bak ELSE dir.main
    IN  IF dir.main = Missing THEN EmptyDoc
        ELSE IF chosen = Missing THEN Torn ELSE Parse(chosen)

\* What a crash may leave: each rename since the last sync is there or not.
Survivors == [main : {file.main, stable.main}, bak : {file.bak, stable.bak}]

-----------------------------------------------------------------------------
FileTypeOK ==
    /\ posix \in BOOLEAN
    /\ running \in BOOLEAN
    /\ IF running THEN Document(mem) ELSE mem = Missing
    /\ \/ save = Idle
       \/ Document(save.prev) /\ save \in [step : Steps, prev : {save.prev}, opening : BOOLEAN]
    /\ file \in [main : {file.main}, bak : {file.bak}]
    /\ stable \in [main : {stable.main}, bak : {stable.bak}]
    /\ damaged \in 0..MaxDamage

\* GoAl starts on nothing, or on a document of the current or an older schema.
FileInit ==
    /\ posix \in BOOLEAN
    /\ running = FALSE
    /\ mem = Missing
    /\ save = Idle
    /\ \E c \in Initial : file = [main |-> c, bak |-> Missing]
    /\ stable = file
    /\ damaged = 0

\* A mutation under r.mu: memory first, then the save; prev is the rollback.
Begin(doc) ==
    /\ running
    /\ Unlocked
    /\ mem' = doc
    /\ save' = [step |-> "write", prev |-> mem, opening |-> FALSE]
    /\ UNCHANGED <<posix, running, file, stable, damaged>>

NextStep(step) == save' = [save EXCEPT !.step = step]

\* MUTANT of WriteTemp: the document is written where it is read.
WriteInPlace ==
    /\ save.step = "write"
    /\ NextStep(IF file.main = Missing THEN "rename" ELSE "backup")
    /\ file' = [file EXCEPT !.main = Torn]
    /\ UNCHANGED <<posix, running, mem, stable, damaged>>

\* writeSynced and the read-back; without a main file there is nothing to back up.
WriteTemp ==
    /\ save.step = "write"
    /\ NextStep(IF file.main = Missing THEN "rename" ELSE "backup")
    /\ UNCHANGED <<posix, running, mem, file, stable, damaged>>

\* CopyFileAtomic: whatever main holds becomes the backup.
Backup ==
    /\ save.step = "backup"
    /\ file' = [file EXCEPT !.bak = file.main]
    /\ stable' = IF posix THEN stable ELSE file'
    /\ NextStep("syncBackup")
    /\ UNCHANGED <<posix, running, mem, damaged>>

SyncBackup ==
    /\ save.step = "syncBackup"
    /\ stable' = file
    /\ NextStep("rename")
    /\ UNCHANGED <<posix, running, mem, file, damaged>>

Rename ==
    /\ save.step = "rename"
    /\ file' = [file EXCEPT !.main = mem]
    /\ stable' = IF posix THEN stable ELSE file'
    /\ NextStep("sync")
    /\ UNCHANGED <<posix, running, mem, damaged>>

\* The save returns nil and the mutation is acknowledged.
SyncDir ==
    /\ save.step = "sync"
    /\ stable' = file
    /\ save' = Idle
    /\ UNCHANGED <<posix, running, mem, file, damaged>>

\* MUTANT of SaveFails: a refused save puts the backup back in place.
SaveFailsRestoring ==
    /\ ~Unlocked
    /\ save.step \in {"syncBackup", "sync"} => posix
    /\ running' = ~save.opening
    /\ mem' = IF save.opening THEN Missing ELSE save.prev
    /\ save' = Idle
    /\ file' = IF file.bak = Missing THEN file ELSE [file EXCEPT !.main = file.bak]
    /\ stable' = IF posix THEN stable ELSE file'
    /\ UNCHANGED <<posix, damaged>>

\* Any step may fail, the directory syncs on POSIX only: memory is rolled back,
\* what is renamed stays renamed.  A new repository that cannot be saved ends GoAl.
SaveFails ==
    /\ ~Unlocked
    /\ save.step \in {"syncBackup", "sync"} => posix
    /\ running' = ~save.opening
    /\ mem' = IF save.opening THEN Missing ELSE save.prev
    /\ save' = Idle
    /\ UNCHANGED <<posix, file, stable, damaged>>

Gone == running' = FALSE /\ mem' = Missing /\ save' = Idle

\* The process goes away at any point; the directory stays as it is seen.
Exit ==
    /\ running
    /\ Gone
    /\ UNCHANGED <<posix, file, stable, damaged>>

\* The power goes away at any point.
Crash ==
    /\ \E dir \in Survivors : file' = dir /\ stable' = dir
    /\ Gone
    /\ UNCHANGED <<posix, damaged>>

\* NewJSONRepository: a repository that is new is saved at once.
Open ==
    /\ ~running
    /\ Load(file) # Torn
    /\ running' = TRUE
    /\ mem' = Load(file)
    /\ save' = IF file.main = Missing
               THEN [step |-> "write", prev |-> EmptyDoc, opening |-> TRUE] ELSE Idle
    /\ UNCHANGED <<posix, file, stable, damaged>>

\* The medium loses the document while GoAl is not running.
Damage ==
    /\ ~running
    /\ damaged < MaxDamage
    /\ file.main # Missing
    /\ damaged' = damaged + 1
    /\ file' = [file EXCEPT !.main = Torn]
    /\ stable' = file'
    /\ UNCHANGED <<posix, running, mem, save>>

SaveStep == WriteTemp \/ Backup \/ SyncBackup \/ Rename \/ SyncDir \/ SaveFails

\* Which documents the mutations leave is not said here.
FileNext ==
    \/ \E doc : Document(doc) /\ Begin(doc)
    \/ SaveStep \/ Exit \/ Crash \/ Open \/ Damage

FileSpec == FileInit /\ [][FileNext]_fileVars

-----------------------------------------------------------------------------
\* The register behind the files: readers wait for r.mu, so while a save runs
\* the value is still the previous one.
Value   == IF ~running THEN Missing ELSE IF Unlocked THEN mem ELSE save.prev
Pending == IF Unlocked THEN Missing ELSE mem

Findable == {Load(dir) : dir \in Survivors}

Register == INSTANCE DurableRegister WITH
                Closed <- Missing, Unreadable <- Torn,
                value <- Value, pending <- Pending, durable <- Findable, lost <- damaged > 0

(* Durability of every acknowledged mutation, atomicity of every other: after
   any crash, at any system call of WriteFileDurable (fsutil.go:86-114), load()
   finds the document acknowledged last, or one submitted since whose own save
   was refused or cut off: never a torn file, an older document or one nobody
   saved.  An acknowledged document gives way to a later save only, and while
   no save runs a failure of GoAl changes nothing of what can be found. *)
ImplementsRegister == Register!Spec

(* GoAl can reopen its repository whatever a crash left, until the medium
   itself is damaged: load() never has to refuse (repository.go:222-295). *)
Recoverable == damaged = 0 => Torn \notin Findable
=============================================================================
