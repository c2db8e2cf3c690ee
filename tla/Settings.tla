------------------------------- MODULE Settings -------------------------------
(***************************************************************************)
(* The configuration file and what of it is in force: PUT /settings and    *)
(* POST /admin/reload (handlers/system.go), config.Load, Save and          *)
(* MigrateCredentials, and the password store.                             *)
(*                                                                         *)
(* Nothing serialises two saves and both write the same goal.json.tmp, so  *)
(* files are inodes here: a save goes on writing the inode it opened,      *)
(* whatever its name is by then.  The backup goal.json.bak and power loss  *)
(* are DurableFile's; this module stops and starts the process.            *)
(***************************************************************************)
EXTENDS Naturals, FiniteSets, FiniteSetsExt

CONSTANTS
    Savers,    \* PUT /settings requests, each made once
    Bodies,    \* what one asks: a user and a password, or None to keep it, and auth
    Inodes,
    Shipped,   \* the documents the program may find at its first start
    Levels,    \* logLevel values an operator writes by hand
    None,
    Broken,    \* content that does not decode
    MaxFaults, \* bound: file system calls that fail
    MaxEdits,  \* bound: edits by hand
    MaxStops   \* bound: stops of the program

\* The part of config.Config the saves are about.
IsDocument(cfg) == cfg = [auth |-> cfg.auth, user |-> cfg.user, hash |-> cfg.hash,
                          plain |-> cfg.plain, level |-> cfg.level]

ASSUME SettingsAssumption ==
    /\ Inodes \subseteq Nat /\ IsFiniteSet(Inodes)
    /\ IsFiniteSet(Savers) /\ Savers # {}
    /\ Cardinality(Inodes) >= Cardinality(Savers) + 2
    /\ None \notin Inodes
    /\ Shipped # {} /\ \A cfg \in Shipped : IsDocument(cfg)

VARIABLES
    content,  \* per inode: a document or Broken
    main,     \* the inode goal.json names
    tmp,      \* the inode goal.json.tmp names, or None
    saver,    \* the requests: step, body, cfg, inode, and whether nobody else wrote meanwhile
    up,       \* the program runs
    live,     \* PasswordStore.users, as a set of [user, hash]
    level,    \* the log level in force
    liveCfg,  \* the document read at start
    spent,    \* faults, edits and stops so far
    kept,     \* history: the last save answered "saved", if it was alone
    shown,    \* history: every document goal.json has held
    mixed     \* history: two saves have overlapped

setVars == <<content, main, tmp, saver, up, live, level, liveCfg, spent, kept, shown, mixed>>

File == content[main]

InUse(i) == i \in {main, tmp} \/ \E s \in Savers : saver[s].inode = i
Fresh    == Min({i \in Inodes : ~InUse(i)})

InFlight == {s \in Savers : saver[s].step \notin {"new", "over"}}

Ended(s) == [saver EXCEPT ![s] = [step |-> "over", body |-> None, cfg |-> None,
                                  inode |-> None, alone |-> FALSE]]
Spend(what, bound) == spent[what] < bound /\ spent' = [spent EXCEPT ![what] = @ + 1]

-----------------------------------------------------------------------------
\* bcrypt: what is stored is never what was typed.
HashOf(password) == [bcrypt |-> password]
IsHash(x)        == x # None /\ \E b \in Bodies : x = HashOf(b.password)

Valid(cfg) == cfg.auth => cfg.user # None /\ (cfg.hash # None \/ cfg.plain # None)

\* MigrateCredentials: no plaintext stays, and a hash in the wrong field moves.
Migrated(cfg) ==
    [cfg EXCEPT !.plain = None,
                !.hash = IF IsHash(@) \/ cfg.plain = None THEN @
                         ELSE IF IsHash(cfg.plain) THEN cfg.plain ELSE HashOf(cfg.plain)]

\* The document a request turns the loaded one into.
Edited(cfg, body) ==
    [cfg EXCEPT !.auth = body.auth,
                !.user  = IF body.user = None THEN @ ELSE body.user,
                !.hash  = IF body.password = None THEN @ ELSE HashOf(body.password),
                !.plain = IF body.password = None THEN @ ELSE None]

Credentials(cfg) == IF cfg.hash = None THEN {} ELSE {[user |-> cfg.user, hash |-> cfg.hash]}

\* PasswordStore.SetHash.
SetHash(users, cfg) == {u \in users : u.user # cfg.user} \cup Credentials(cfg)

-----------------------------------------------------------------------------
SetStart(cfg) ==
    /\ content = [i \in Inodes |-> IF i = Min(Inodes) THEN cfg ELSE Broken]
    /\ main = Min(Inodes)
    /\ tmp = None
    /\ saver = [s \in Savers |-> [step |-> "new", body |-> None, cfg |-> None,
                                  inode |-> None, alone |-> FALSE]]
    /\ up = FALSE
    /\ live = {}
    /\ level = cfg.level
    /\ liveCfg = cfg
    /\ spent = [faults |-> 0, edits |-> 0, stops |-> 0]
    /\ kept = None
    /\ shown = {cfg}
    /\ mixed = FALSE

SetInit == \E cfg \in Shipped : SetStart(cfg)

\* goal.json.tmp is created, or truncated if a save has left it.
TempFile == IF tmp = None THEN Fresh ELSE tmp

Loadable == ~up /\ File # Broken /\ Valid(File)

\* main: the file is loaded.  MigrateCredentials saves it if a credential
\* moves; no request runs yet, so that save is alone.
Start ==
    /\ Loadable
    /\ LET cfg == Migrated(File)
       IN  /\ IF cfg = File THEN UNCHANGED <<content, main, tmp, shown>>
              ELSE /\ content' = [content EXCEPT ![TempFile] = cfg]
                   /\ main' = TempFile
                   /\ tmp' = None
                   /\ shown' = shown \cup {cfg}
           /\ live' = Credentials(cfg)
           /\ level' = cfg.level
           /\ liveCfg' = cfg
    /\ up' = TRUE
    /\ UNCHANGED <<saver, spent, kept, mixed>>

\* The save of the migration fails, or the program ends in it: nothing
\* starts, and the file is the old one or already the new one.
StartFails ==
    /\ Loadable
    /\ Migrated(File) # File
    /\ \/ /\ Spend("faults", MaxFaults)
          /\ tmp' \in {tmp, None}
          /\ UNCHANGED <<content, main, shown>>
       \/ /\ Spend("stops", MaxStops)
          /\ tmp' = TempFile
          /\ content' \in {[content EXCEPT ![TempFile] = text] : text \in {Broken, Migrated(File)}}
          /\ UNCHANGED <<main, shown>>
       \/ /\ Spend("faults", MaxFaults) \/ Spend("stops", MaxStops)
          /\ content' = [content EXCEPT ![TempFile] = Migrated(File)]
          /\ main' = TempFile
          /\ tmp' = None
          /\ shown' = shown \cup {Migrated(File)}
    /\ UNCHANGED <<saver, up, live, level, liveCfg, kept, mixed>>

\* The process ends, wherever its requests are.
Stop ==
    /\ up
    /\ Spend("stops", MaxStops)
    /\ up' = FALSE
    /\ live' = {}
    /\ saver' = [s \in Savers |-> IF s \in InFlight THEN Ended(s)[s] ELSE saver[s]]
    /\ UNCHANGED <<content, main, tmp, level, liveCfg, kept, shown, mixed>>

-----------------------------------------------------------------------------
\* SaveSettings reads the file, edits the document and refuses auth without
\* credentials.
Submit(s, body) ==
    /\ up
    /\ saver[s].step = "new"
    /\ IF File = Broken \/ ~Valid(File) \/ (body.auth /\ (Edited(File, body).user = None
                                                        \/ Edited(File, body).hash = None))
       THEN saver' = Ended(s) /\ UNCHANGED mixed
       ELSE /\ saver' = [o \in Savers |->
                            IF o = s THEN [step |-> "open", body |-> body, cfg |-> Edited(File, body),
                                           inode |-> None, alone |-> InFlight = {}]
                            ELSE [saver[o] EXCEPT !.alone = FALSE]]
            /\ mixed' = (mixed \/ InFlight # {})
    /\ UNCHANGED <<content, main, tmp, up, live, level, liveCfg, spent, kept, shown>>

\* A call of WriteFileDurable fails: the temporary file is removed by name.
SaveFails(s) ==
    /\ saver[s].step \in {"open", "write", "check", "rename", "sync"}
    /\ Spend("faults", MaxFaults)
    /\ saver' = Ended(s)
    /\ tmp' = IF saver[s].step \in {"write", "check", "rename"} THEN None ELSE tmp
    /\ UNCHANGED <<content, main, up, live, level, liveCfg, kept, shown, mixed>>

\* MUTANT of Open: the password store before the file.
OpenPublished(s) ==
    /\ saver[s].step = "open"
    /\ tmp' = TempFile
    /\ content' = [content EXCEPT ![TempFile] = Broken]
    /\ saver' = [saver EXCEPT ![s].step = "write", ![s].inode = TempFile]
    /\ live' = IF saver[s].body.password = None THEN live ELSE SetHash(live, saver[s].cfg)
    /\ UNCHANGED <<main, up, level, liveCfg, spent, kept, shown, mixed>>

\* O_CREATE|O_TRUNC: the other save's file, if it is there.
Open(s) ==
    /\ saver[s].step = "open"
    /\ tmp' = TempFile
    /\ content' = [content EXCEPT ![TempFile] = Broken]
    /\ saver' = [saver EXCEPT ![s].step = "write", ![s].inode = TempFile]
    /\ UNCHANGED <<main, up, live, level, liveCfg, spent, kept, shown, mixed>>

\* Written from the start of the inode; over a longer text it leaves a tail.
Write(s) ==
    /\ saver[s].step = "write"
    /\ content' \in {[content EXCEPT ![saver[s].inode] = text] :
                        text \in {saver[s].cfg} \cup
                                 (IF content[saver[s].inode] = Broken THEN {} ELSE {Broken})}
    /\ shown' = IF saver[s].inode = main THEN shown \cup {content'[main]} ELSE shown
    /\ saver' = [saver EXCEPT ![s].step = "check", ![s].inode = None]
    /\ UNCHANGED <<main, tmp, up, live, level, liveCfg, spent, kept, mixed>>

\* What goal.json.tmp holds now is read back.
Check(s) ==
    /\ saver[s].step = "check"
    /\ IF tmp # None /\ content[tmp] = saver[s].cfg
       THEN saver' = [saver EXCEPT ![s].step = "rename"] /\ UNCHANGED tmp
       ELSE saver' = Ended(s) /\ tmp' = None
    /\ UNCHANGED <<content, main, up, live, level, liveCfg, spent, kept, shown, mixed>>

Rename(s) ==
    /\ saver[s].step = "rename"
    /\ IF tmp = None
       THEN saver' = Ended(s) /\ UNCHANGED <<main, kept, shown>>
       ELSE /\ saver' = [saver EXCEPT ![s].step = "sync"]
            /\ main' = tmp
            /\ shown' = shown \cup {content[tmp]}
            /\ kept' = None
    /\ tmp' = None
    /\ UNCHANGED <<content, up, live, level, liveCfg, spent, mixed>>

\* The directory is synced; Save has returned nil.
Sync(s) ==
    /\ saver[s].step = "sync"
    /\ saver' = [saver EXCEPT ![s].step = "publish"]
    /\ UNCHANGED <<content, main, tmp, up, live, level, liveCfg, spent, kept, shown, mixed>>

\* A new password goes to the password store, and the answer out.
Publish(s) ==
    /\ saver[s].step = "publish"
    /\ live' = IF saver[s].body.password = None THEN live ELSE SetHash(live, saver[s].cfg)
    /\ kept' = IF saver[s].alone
               THEN [cfg |-> saver[s].cfg, password |-> saver[s].body.password # None]
               ELSE kept
    /\ saver' = Ended(s)
    /\ UNCHANGED <<content, main, tmp, up, level, liveCfg, spent, shown, mixed>>

-----------------------------------------------------------------------------
\* An operator edits logLevel; editors replace the file.
EditFile(l) ==
    /\ File # Broken
    /\ Spend("edits", MaxEdits)
    /\ main' = Fresh
    /\ content' = [content EXCEPT ![Fresh] = [File EXCEPT !.level = l]]
    /\ shown' = shown \cup {content'[main']}
    /\ saver' = [s \in Savers |-> [saver[s] EXCEPT !.alone = FALSE]]
    /\ kept' = None
    /\ UNCHANGED <<tmp, up, live, level, liveCfg, mixed>>

\* DiffHot compares with the document read at start; logLevel alone is hot.
Reload ==
    /\ up
    /\ File # Broken
    /\ Valid(File)
    /\ File.level # liveCfg.level
    /\ level' = File.level
    /\ UNCHANGED <<content, main, tmp, saver, up, live, liveCfg, spent, kept, shown, mixed>>

SetNext ==
    \/ Start \/ StartFails \/ Stop \/ Reload
    \/ \E l \in Levels : EditFile(l)
    \/ \E s \in Savers :
          \/ \E body \in Bodies : Submit(s, body)
          \/ SaveFails(s) \/ Open(s) \/ Write(s) \/ Check(s) \/ Rename(s) \/ Sync(s) \/ Publish(s)

-----------------------------------------------------------------------------
(* A save nobody else wrote alongside, once answered, holds until another
   save or edit replaces the file, through stops and starts and the refused,
   failing and unfinished saves of others: the file is that document, and its
   password lets that user in.  And while no two saves have overlapped,
   nothing is in force that the file has not held: no credential of a save
   that failed first, no level (system.go:187-282, config.go:296-308). *)
SavedSettingsHold ==
    /\ kept # None =>
          /\ File = kept.cfg
          /\ up /\ kept.password => Credentials(kept.cfg) \subseteq live
    /\ ~mixed =>
          /\ live \subseteq UNION {Credentials(cfg) : cfg \in shown}
          /\ \E cfg \in shown : level = cfg.level
=============================================================================
