--------------------------- MODULE DurableFileProofs ---------------------------
(***************************************************************************)
(* Durability of the repository's document, whatever the documents are, for *)
(* every number of crashes, failed saves and damages.                      *)
(***************************************************************************)
EXTENDS DurableFile, TLAPS

\* What the files hold besides types: a directory that needs no sync is never
\* behind, a renamed document is the one in memory, nothing tears by itself.
FileInv ==
    /\ FileTypeOK
    /\ ~Unlocked => running
    /\ ~posix => stable = file
    /\ save.step = "sync" => file.main = mem
    /\ damaged = 0 => Torn \notin {file.main, file.bak, stable.main, stable.bak}

USE FileAssumption DEF FileAssumption

\* What load() returns of any directory.
LEMMA LoadType ==
    ASSUME NEW dir
    PROVE  /\ Document(Load(dir)) \/ Load(dir) = Torn
           /\ Load(dir) = Torn => dir.main = Torn
           /\ Document(dir.main) => Load(dir) = dir.main
  BY DEF Load, Parse, Document

LEMMA FileInitInv == FileInit => FileInv
<1> SUFFICES ASSUME FileInit PROVE FileInv
  OBVIOUS
<1> USE DEF FileInit
<1>1. ~running /\ running \in BOOLEAN /\ posix \in BOOLEAN /\ Unlocked
  BY DEF Idle, Unlocked
<1>2. PICK c \in Initial : file = [main |-> c, bak |-> Missing]
  OBVIOUS
<1>3. /\ file \in [main : {file.main}, bak : {file.bak}]
      /\ stable = file
      /\ Torn \notin {file.main, file.bak}
  BY <1>2
<1> QED
  BY <1>1, <1>3 DEF FileInv, FileTypeOK, Idle

LEMMA FileStep == FileInv /\ [FileNext]_fileVars => FileInv'
<1> SUFFICES ASSUME FileInv, [FileNext]_fileVars PROVE FileInv'
  OBVIOUS
<1> USE DEF FileInv, FileTypeOK, Unlocked, Idle, Steps
<1>1. ASSUME NEW doc, Document(doc), Begin(doc) PROVE FileInv'
  BY <1>1 DEF Begin
<1>2. CASE WriteTemp
  BY <1>2 DEF WriteTemp, NextStep
<1>3. CASE Backup
  BY <1>3 DEF Backup, NextStep
<1>4. CASE SyncBackup
  BY <1>4 DEF SyncBackup, NextStep
<1>5. CASE Rename
  <2>1. mem # Torn /\ running
    BY <1>5 DEF Rename, Document
  <2> QED  BY <1>5, <2>1 DEF Rename, NextStep
<1>6. CASE SyncDir
  BY <1>6 DEF SyncDir
<1>7. CASE SaveFails
  <2>1. save.opening \in BOOLEAN /\ Document(save.prev)
    BY <1>7 DEF SaveFails
  <2>2. /\ running' \in BOOLEAN
        /\ IF running' THEN Document(mem') ELSE mem' = Missing
    BY <1>7, <2>1 DEF SaveFails
  <2>3. save' = Idle /\ UNCHANGED <<posix, file, stable, damaged>>
    BY <1>7 DEF SaveFails
  <2> QED  BY <2>2, <2>3
<1>8. CASE Exit
  <2>1. ~running' /\ running' \in BOOLEAN
    BY <1>8 DEF Exit, Gone
  <2> QED  BY <1>8, <2>1 DEF Exit, Gone
<1>9. CASE Crash
  <2>1. ~running' /\ running' \in BOOLEAN /\ mem' = Missing /\ save' = Idle
    BY <1>9 DEF Crash, Gone
  <2>2. PICK dir \in Survivors : file' = dir /\ stable' = dir
    BY <1>9 DEF Crash
  <2>3. /\ dir \in [main : {dir.main}, bak : {dir.bak}]
        /\ damaged = 0 => Torn \notin {dir.main, dir.bak}
    BY DEF Survivors
  <2>4. UNCHANGED <<posix, damaged>>
    BY <1>9 DEF Crash
  <2> QED  BY <2>1, <2>2, <2>3, <2>4
<1>10. CASE Open
  <2>1. Document(Load(file))
    BY <1>10, LoadType DEF Open
  <2>2. running' /\ running' \in BOOLEAN
    BY <1>10 DEF Open
  <2> QED  BY <1>10, <2>1, <2>2 DEF Open
<1>11. CASE Damage
  BY <1>11 DEF Damage
<1>12. CASE UNCHANGED fileVars
  BY <1>12 DEF fileVars
<1> QED
  BY <1>1, <1>2, <1>3, <1>4, <1>5, <1>6, <1>7, <1>8, <1>9, <1>10, <1>11, <1>12
  DEF FileNext, SaveStep

(* The repository's files and memory are always of the kinds the module names. *)
THEOREM FileTypes == FileSpec => []FileTypeOK
<1>1. FileInit => FileInv  BY FileInitInv
<1>2. FileInv /\ [FileNext]_fileVars => FileInv'  BY FileStep
<1>3. FileInv => FileTypeOK  BY DEF FileInv
<1> QED  BY <1>1, <1>2, <1>3, PTL DEF FileSpec

(* After any crash GoAl opens its repository again, unless the medium itself
   was damaged. *)
THEOREM AlwaysRecoverable == FileSpec => []Recoverable
<1>1. FileInit => FileInv  BY FileInitInv
<1>2. FileInv /\ [FileNext]_fileVars => FileInv'  BY FileStep
<1>3. FileInv => Recoverable
  <2> SUFFICES ASSUME FileInv, damaged = 0, NEW dir \in Survivors PROVE Load(dir) # Torn
    BY DEF Recoverable, Findable
  <2>1. dir.main # Torn
    BY DEF FileInv, FileTypeOK, Survivors
  <2> QED  BY <2>1, LoadType
<1> QED  BY <1>1, <1>2, <1>3, PTL DEF FileSpec

-----------------------------------------------------------------------------
\* While nothing is damaged only the two candidates for the main file count.
LEMMA FindableIs ==
    ASSUME FileInv, damaged = 0
    PROVE  Findable = {Load(file), Load(stable)}
<1>1. \A dir \in Survivors : Load(dir) \in {Load(file), Load(stable)}
  <2> SUFFICES ASSUME NEW dir \in Survivors PROVE Load(dir) \in {Load(file), Load(stable)}
    OBVIOUS
  <2>1. dir.main \in {file.main, stable.main} /\ dir.main # Torn
    BY DEF FileInv, Survivors
  <2>2. file.main # Torn /\ stable.main # Torn
    BY DEF FileInv
  <2> QED  BY <2>1, <2>2 DEF Load
<1>2. file \in Survivors /\ stable \in Survivors
  BY DEF FileInv, FileTypeOK, Survivors
<1> QED  BY <1>1, <1>2 DEF Findable

\* Both candidates parse.
LEMMA SoundLoad ==
    ASSUME FileInv, damaged = 0
    PROVE  Document(Load(file)) /\ Document(Load(stable))
<1>1. file.main # Torn /\ stable.main # Torn
  BY DEF FileInv
<1> QED  BY <1>1, LoadType

LEMMA FindableSound ==
    FileInv /\ damaged = 0 =>
        /\ Findable = {Load(file), Load(stable)}
        /\ Document(Load(file)) /\ Document(Load(stable))
  BY FindableIs, SoundLoad

\* The same of the next state.
LEMMA FindableNext ==
    (FileInv /\ damaged = 0 =>
        /\ Findable = {Load(file), Load(stable)}
        /\ Document(Load(file)) /\ Document(Load(stable)))'
  BY FindableSound, PTL

\* What load() finds depends on the main files as long as they parse.
LEMMA SameFindable ==
    ASSUME NEW f, NEW s, f.main # Torn, s.main # Torn,
           file.main # Torn, stable.main # Torn,
           f.main = file.main, s.main = stable.main
    PROVE  Load(f) = Load(file) /\ Load(s) = Load(stable)
  BY DEF Load

\* Every step of the files is a step of the register or leaves it alone.
LEMMA RegisterStep ==
    FileInv /\ FileInv' /\ [FileNext]_fileVars =>
        [Register!Next]_<<Value, Pending, Findable, damaged > 0>>
<1> SUFFICES ASSUME FileInv, FileInv', [FileNext]_fileVars
             PROVE  \/ Register!Next
                    \/ /\ Value' = Value /\ Pending' = Pending
                       /\ Findable' = Findable /\ (damaged > 0)' = (damaged > 0)
  BY DEF Register!vars
<1> USE DEF Unlocked
<1>lost. CASE damaged' # 0
  <2>1. (damaged > 0)'
    BY <1>lost DEF FileInv, FileTypeOK
  <2> QED  BY <2>1 DEF Register!Next, Register!Damage
<1>kept. CASE damaged' = 0
  <2>0. damaged = 0 /\ damaged' = damaged
    BY <1>kept DEF FileInv, FileTypeOK, FileNext, Begin, SaveStep, WriteTemp, Backup,
         SyncBackup, Rename, SyncDir, SaveFails, Exit, Crash, Open, Damage, fileVars
  <2>1. (damaged > 0)' = (damaged > 0)
    BY <2>0
  <2>2. /\ Findable = {Load(file), Load(stable)}
        /\ Document(Load(file)) /\ Document(Load(stable))
    BY <2>0, FindableSound
  <2>3. /\ Findable' = {Load(file)', Load(stable)'}
        /\ Document(Load(file))' /\ Document(Load(stable))'
    BY <1>kept, FindableNext
  <2>4. Load(file') = Load(file)' /\ Load(stable') = Load(stable)'
    BY DEF Load
  \* While GoAl runs there is a document in memory and one to go back to.
  <2>5. running => Value # Missing /\ Document(mem)
    BY DEF Value, FileInv, FileTypeOK, Steps, Idle, Document
  <2>6. Document(mem) => mem \notin {Missing, Torn}
    BY DEF Document
  <2>7. save.step # "none" => running /\ Pending = mem /\ Pending # Missing
    BY <2>5, <2>6 DEF Pending, FileInv
  \* The two candidates, as far as their main files decide.
  <2>8. /\ file.main # Torn /\ stable.main # Torn
        /\ file'.main # Torn /\ stable'.main # Torn
    BY <2>0, <1>kept DEF FileInv
  <2>9. Document(file.main) => Load(file) = file.main
    BY LoadType
  <2>10. \/ /\ Value' = Value /\ Pending' = Pending /\ Findable' = Findable
         \/ Register!Submit \/ Register!Store \/ Register!Commit \/ Register!Refuse
         \/ Register!Crash \/ Register!Open
    <3>1. ASSUME NEW doc, Document(doc), Begin(doc)
          PROVE  Register!Submit
      <4>1. /\ running /\ save.step = "none" /\ save'.step = "write"
            /\ save'.prev = mem /\ running' /\ mem' = doc
        BY <3>1 DEF Begin
      <4>2. Value' = mem /\ Value = mem /\ Pending = Missing /\ Pending' = doc
        BY <4>1 DEF Value, Pending
      <4>3. file' = file /\ stable' = stable
        BY <3>1 DEF Begin
      <4>4. Findable' = Findable
        BY <4>3, <2>2, <2>3, <2>4
      <4>5. doc \notin {Missing, Torn}
        BY <3>1 DEF Document
      <4> QED  BY <4>1, <4>2, <4>4, <4>5, <2>1, <2>5 DEF Register!Submit
    <3>2. CASE WriteTemp
      <4>1. Value' = Value /\ Pending' = Pending
        BY <3>2 DEF WriteTemp, NextStep, Value, Pending, FileInv, FileTypeOK, Idle, Steps
      <4>2. file' = file /\ stable' = stable
        BY <3>2 DEF WriteTemp
      <4> QED  BY <4>1, <4>2, <2>2, <2>3, <2>4
    <3>3. CASE Backup
      <4>1. Value' = Value /\ Pending' = Pending
        BY <3>3 DEF Backup, NextStep, Value, Pending, FileInv, FileTypeOK, Idle, Steps
      <4>2. file'.main = file.main /\ stable'.main = stable.main
        BY <3>3 DEF Backup, FileInv, FileTypeOK
      <4>3. Load(file') = Load(file) /\ Load(stable') = Load(stable)
        BY <4>2, <2>8, SameFindable
      <4> QED  BY <4>1, <4>3, <2>2, <2>3, <2>4
    <3>4. CASE SyncBackup
      <4>1. Value' = Value /\ Pending' = Pending /\ save.step # "none"
        BY <3>4 DEF SyncBackup, NextStep, Value, Pending, FileInv, FileTypeOK, Idle, Steps
      <4>2. file' = file /\ stable' = file
        BY <3>4 DEF SyncBackup
      <4>3. Findable' \subseteq Findable /\ Findable' # {}
        BY <4>2, <2>2, <2>3, <2>4
      <4> QED  BY <4>1, <4>3, <2>1, <2>7 DEF Register!Store
    <3>5. CASE Rename
      <4>1. Value' = Value /\ Pending' = Pending /\ save.step # "none"
        BY <3>5 DEF Rename, NextStep, Value, Pending, FileInv, FileTypeOK, Idle, Steps
      <4>2. stable' \in {stable, file'} /\ file'.main = mem
        BY <3>5 DEF Rename, FileInv, FileTypeOK
      <4>3. Load(file') = mem
        BY <4>1, <4>2, <2>5, <2>7, LoadType
      <4>4. Findable' # {} /\ Findable' \subseteq Findable \cup {mem}
        BY <4>2, <4>3, <2>2, <2>3, <2>4
      <4> QED  BY <4>1, <4>4, <2>1, <2>7 DEF Register!Store
    <3>6. CASE SyncDir
      <4>1. /\ running /\ running' /\ Value' = mem /\ Document(mem) /\ file.main = mem
            /\ Pending' = Missing /\ save.step # "none"
        BY <3>6 DEF SyncDir, Value, Pending, FileInv, FileTypeOK, Idle
      <4>2. file' = file /\ stable' = file
        BY <3>6 DEF SyncDir
      <4>3. Findable' = {mem}
        BY <4>1, <4>2, <2>3, <2>4, <2>9
      <4> QED  BY <4>1, <4>3, <2>1, <2>7 DEF Register!Commit
    <3>7. CASE SaveFails
      <4>1. file' = file /\ stable' = stable
        BY <3>7 DEF SaveFails
      <4>2. Findable' = Findable
        BY <4>1, <2>2, <2>3, <2>4
      <4>3. Pending' = Missing /\ save.step # "none"
        BY <3>7 DEF SaveFails, Pending, Idle
      <4>4. CASE save.opening
        <5>1. ~running'
          BY <3>7, <4>4 DEF SaveFails
        <5>2. Value' = Missing
          BY <5>1 DEF Value
        <5> QED  BY <5>2, <4>2, <4>3, <2>1, <2>2 DEF Register!Crash
      <4>5. CASE ~save.opening
        <5>1. running /\ running' /\ mem' = save.prev /\ save'.step = "none" /\ save.step # "none"
          BY <3>7, <4>5 DEF SaveFails, FileInv, Idle
        <5>2. Value' = Value
          BY <5>1 DEF Value
        <5> QED  BY <5>2, <4>2, <4>3, <2>1, <2>7 DEF Register!Refuse
      <4> QED  BY <4>4, <4>5
    <3>8. CASE Exit
      <4>1. file' = file /\ stable' = stable /\ ~running' /\ save' = Idle
        BY <3>8 DEF Exit, Gone
      <4>2. Value' = Missing /\ Pending' = Missing
        BY <4>1 DEF Value, Pending, Idle
      <4>3. Findable' = Findable
        BY <4>1, <2>2, <2>3, <2>4
      <4> QED  BY <4>2, <4>3, <2>1, <2>2 DEF Register!Crash
    <3>9. CASE Crash
      <4>1. PICK dir \in Survivors : file' = dir /\ stable' = dir
        BY <3>9 DEF Crash
      <4>2. Load(file') \in Findable /\ Load(stable') = Load(file')
        BY <4>1 DEF Findable
      <4>3. ~running' /\ save' = Idle
        BY <3>9 DEF Crash, Gone
      <4>4. Value' = Missing /\ Pending' = Missing
        BY <4>3 DEF Value, Pending, Idle
      <4> QED  BY <4>2, <4>4, <2>1, <2>3, <2>4 DEF Register!Crash
    <3>10. CASE Open
      <4>1. ~running /\ running' /\ file' = file /\ stable' = stable /\ mem' = Load(file)
        BY <3>10 DEF Open
      <4>2. Value = Missing /\ Findable' = Findable
        BY <4>1, <2>2, <2>3, <2>4 DEF Value
      <4>3. Value' = Load(file) /\ Pending' \in {Missing, Load(file)}
        <5>1. CASE file.main = Missing
          <6>1. Load(file) = EmptyDoc
            BY <5>1 DEF Load
          <6>2. save'.step = "write" /\ save'.prev = EmptyDoc
            BY <5>1, <3>10 DEF Open
          <6> QED  BY <6>1, <6>2, <4>1 DEF Value, Pending
        <5>2. CASE file.main # Missing
          <6>1. save'.step = "none"
            BY <5>2, <3>10 DEF Open, Idle
          <6> QED  BY <6>1, <4>1 DEF Value, Pending
        <5> QED  BY <5>1, <5>2
      <4> QED  BY <4>2, <4>3, <2>1, <2>2 DEF Register!Open
    <3>11. CASE Damage
      BY <3>11, <2>0 DEF Damage, FileInv, FileTypeOK
    <3>12. CASE UNCHANGED fileVars
      <4>1. Value' = Value /\ Pending' = Pending /\ file' = file /\ stable' = stable
        BY <3>12 DEF fileVars, Value, Pending
      <4> QED  BY <4>1, <2>2, <2>3, <2>4
    <3> QED
      BY <3>1, <3>2, <3>3, <3>4, <3>5, <3>6, <3>7, <3>8, <3>9, <3>10, <3>11, <3>12
      DEF FileNext, SaveStep
  <2> QED  BY <2>1, <2>10 DEF Register!Next
<1> QED  BY <1>lost, <1>kept

\* A first directory can be found in one way only, and it parses.
LEMMA RegisterInit == FileInit => Register!Init
<1> SUFFICES ASSUME FileInit PROVE Register!Init
  OBVIOUS
<1>1. FileInv
  BY FileInitInv
<1>2. damaged = 0 /\ ~running /\ stable = file /\ Unlocked
  BY DEF FileInit, Unlocked, Idle
<1>3. Findable = {Load(file)} /\ Document(Load(file))
  BY <1>1, <1>2, FindableSound
<1>4. Value = Missing /\ Pending = Missing /\ ~(damaged > 0)
  BY <1>2 DEF Value, Pending
<1>5. Load(file) # Torn
  BY <1>3 DEF Document
<1> QED  BY <1>3, <1>4, <1>5 DEF Register!Init

(* WriteFileDurable under the repository's lock implements a register that
   survives crashes: whatever fails and whenever, a reopening finds the
   document acknowledged last or one submitted since, a document becomes
   findable by its own save only, and nothing changes while no save runs. *)
THEOREM Durability == FileSpec => ImplementsRegister
<1>1. FileInit => FileInv  BY FileInitInv
<1>2. FileInv /\ [FileNext]_fileVars => FileInv'  BY FileStep
<1>3. FileInit => Register!Init  BY RegisterInit
<1>4. FileInv /\ FileInv' /\ [FileNext]_fileVars => [Register!Next]_<<Value, Pending, Findable, damaged > 0>>
  BY RegisterStep
<1> QED  BY <1>1, <1>2, <1>3, <1>4, PTL DEF FileSpec, ImplementsRegister, Register!Spec, Register!vars
=============================================================================
